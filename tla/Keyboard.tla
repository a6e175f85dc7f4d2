------------------------------ MODULE Keyboard ------------------------------
(***************************************************************************)
(* From the user's keyboard to the state the client publishes: the reader  *)
(* thread, the escape filter, the task that watches the window's size, the *)
(* bounded channel of TermEvents between them and the client's loop        *)
(* (morsh-client, input.rs), and the notifications the loop keeps          *)
(* (morsh-prediction, notification.rs).                                    *)
(*                                                                         *)
(* Unix and Windows have readers of their own.  On Windows the console     *)
(* delivers UTF-16 code units, which are turned into UTF-8 first.  The     *)
(* bytes of a character beyond ASCII are abbreviated to one number.        *)
(***************************************************************************)
EXTENDS Naturals, Sequences, SequencesExt, FiniteSetsExt

CONSTANTS
    Platforms,   \* the builds: "unix", "windows"
    Settings,    \* the values of MOSH_ESCAPE_KEY: [given, bytes]
    Texts(_, _), \* Texts(platform, config): what the user types (a bound)
    Windows,     \* the sizes of the window
    FirstWindow,
    CHANNEL,     \* the channel's capacity, 64 in the code
    BUFFER,      \* the most a read returns, 16384 bytes or 128 units in the code
    MAX_RESIZES, \* changes of the window's size (a bound)
    MAX_ERRORS   \* errors of the network (a bound)

VARIABLES
    platform, config,    \* fixed when the client starts
    typed,               \* what the user types, sooner or later
    consumed,            \* how much of it the reader has read
    window, winch,       \* the window's size; a change of it is unreported
    resizes, errors,     \* how often it changed; errors of the network so far
    high,                \* Utf16ToUtf8::pending_high is Some(_)
    filter,              \* EscapeFilter: armed, lf_entered
    reading,             \* the reader thread is alive
    resized,             \* it has yet to ask for the window's size (Windows)
    outbox, held,        \* what the reader and the window's task have yet to send
    chan,                \* the channel
    pushed, size,        \* the keys pushed into the UserStream, the last Resize
    shutdown, running,   \* shutdown_in_progress; the loop has not been left
    note                 \* NotificationEngine

vars == <<platform, config, typed, consumed, window, winch, resizes, errors, high, filter,
          reading, resized, outbox, held, chan, pushed, size, shutdown, running, note>>

Chosen == <<platform, config, typed>>
World == <<window, winch, resizes, errors>>
Reader == <<consumed, high, filter, reading, resized>>
Loop == <<pushed, size, shutdown, running, note>>

-----------------------------------------------------------------------------
(* EscapeConfig.  A key of 0 stands for None: the escape key is disabled. *)

DEFAULT_ESCAPE_KEY == 30
Lower(byte) == IF byte \in 65 .. 90 THEN byte + 32 ELSE byte

ForKey(key) ==
    LET pass == IF key < 32 THEN key + 64 ELSE key
    IN  [key |-> key, pass |-> {pass, Lower(pass)}, requires_lf |-> key >= 32]

Disabled == [key |-> 0, pass |-> {}, requires_lf |-> FALSE]

\* Ctrl-C, Ctrl-D, LF, Ctrl-L and CR are refused.
FromSetting(value) ==
    LET key == IF value.given /\ Len(value.bytes) = 1 /\ value.bytes[1] \in 1 .. 127
               THEN value.bytes[1] ELSE DEFAULT_ESCAPE_KEY
    IN  IF value.given /\ value.bytes = <<>> THEN Disabled
        ELSE ForKey(IF key \in {3, 4, 10, 12, 13} THEN DEFAULT_ESCAPE_KEY ELSE key)

Configs == {FromSetting(value) : value \in Settings}

ASSUME KeyboardAssumption ==
    /\ Platforms \subseteq {"unix", "windows"}
    /\ \A value \in Settings : value.given \in BOOLEAN /\ value.bytes \in Seq(Nat)
    /\ \A p \in Platforms, c \in Configs : Texts(p, c) \subseteq Seq(Nat)
    /\ FirstWindow \in Windows
    /\ CHANNEL \in Nat \ {0} /\ BUFFER \in Nat \ {0}
    /\ MAX_RESIZES \in Nat /\ MAX_ERRORS \in Nat

-----------------------------------------------------------------------------
(* EscapeFilter::feed *)

DOT == 46
CTRL_Z == 26
LineEnd == {10, 13}

\* What is sent for the second key of an escape sequence, "." aside.
Passed(byte) ==
    IF byte = CTRL_Z THEN <<>>
    ELSE IF byte \in config.pass THEN <<config.key>> ELSE <<config.key, byte>>

SecondKey(st, byte) ==
    IF byte = DOT THEN [st EXCEPT !.armed = FALSE, !.quit = TRUE]
    ELSE [st EXCEPT !.armed = FALSE, !.send = @ \o Passed(byte)]

\* The line's start is forgotten between reads.
IsEscapeSameRead(st, byte) ==
    /\ byte = config.key
    /\ config.requires_lf => st.lf /\ st.send # <<>>

\* A printable escape key counts at the start of a line only.
IsEscape(st, byte) ==
    /\ byte = config.key
    /\ config.requires_lf => st.lf

FeedByte(st, byte) ==
    CASE st.quit -> st
      [] ~st.quit /\ st.armed -> SecondKey(st, byte)
      [] ~st.quit /\ ~st.armed /\ IsEscape(st, byte) ->
            [st EXCEPT !.armed = TRUE, !.was = TRUE, !.lf = FALSE]
      [] OTHER -> [st EXCEPT !.lf = byte \in LineEnd, !.send = Append(@, byte)]

\* Help is only taken down if the escape key came in the same read.
WasArmedNever(f) == FALSE

WasArmed(f) == f.armed

Begun(f) == [armed |-> f.armed, lf |-> f.lf, was |-> WasArmed(f),
             send |-> <<>>, quit |-> FALSE]

\* The filter after each of the bytes.
Fed(f, bytes) ==
    LET fed[i \in 0 .. Len(bytes)] ==
            IF i = 0 THEN Begun(f) ELSE FeedByte(fed[i - 1], bytes[i])
    IN  fed

Feed(f, bytes) ==
    LET end == Fed(f, bytes)[Len(bytes)]
    IN  IF config = Disabled THEN [f |-> f, send |-> bytes, help |-> {}, quit |-> FALSE]
        ELSE [f |-> [armed |-> end.armed, lf |-> end.lf], send |-> end.send,
              help |-> IF end.quit \/ ~end.was THEN {} ELSE {end.armed},
              quit |-> end.quit]

Input(bytes) == [kind |-> "input", bytes |-> bytes]
Help(show) == [kind |-> "help", show |-> show]
Resize(to) == [kind |-> "resize", size |-> to]
Quit == [kind |-> "quit"]

\* publish: the events a read gives rise to, in the order they are sent.
Events(fed) ==
    (IF fed.send = <<>> THEN <<>> ELSE <<Input(fed.send)>>)
      \o (IF fed.help = {} THEN <<>> ELSE <<Help(TRUE \in fed.help)>>)
      \o (IF fed.quit THEN <<Quit>> ELSE <<>>)

-----------------------------------------------------------------------------
(* Utf16ToUtf8 *)

HIGH == 55296   \* stands for the high surrogates
LOW == 56320    \* stands for the low surrogates
PAIR == 240     \* the UTF-8 of a character beyond the BMP
REPLACEMENT == 239

PushUnit(st, unit) ==
    LET out == IF st.high /\ unit # LOW THEN Append(st.out, REPLACEMENT) ELSE st.out
    IN  CASE unit = HIGH -> [high |-> TRUE, out |-> out]
          [] unit = LOW -> [high |-> FALSE,
                            out |-> Append(out, IF st.high THEN PAIR ELSE REPLACEMENT)]
          [] OTHER -> [high |-> FALSE, out |-> Append(out, unit)]

\* The converter after each of the units; what it had put out was taken before.
Encoded(units) ==
    LET st[i \in 0 .. Len(units)] ==
            IF i = 0 THEN [high |-> high, out |-> <<>>] ELSE PushUnit(st[i - 1], units[i])
    IN  st

Utf8(units) == Encoded(units)[Len(units)]

-----------------------------------------------------------------------------
(* NotificationEngine.  message_expiration is written and never read, so    *)
(* clear_network_error, which brings it forward, leaves no trace.          *)

NoNote == [message |-> "", is_network_error |-> FALSE, show_quit_keystroke |-> TRUE]

SetNotification(message) ==
    [message |-> message, is_network_error |-> FALSE, show_quit_keystroke |-> TRUE]

ShowEscapeHelp == [SetNotification("help") EXCEPT !.show_quit_keystroke = FALSE]

HideEscapeHelp(n) ==
    IF ~n.is_network_error /\ n.message = "help"
    THEN [n EXCEPT !.message = "", !.show_quit_keystroke = TRUE] ELSE n

SetNetworkError ==
    [message |-> "error", is_network_error |-> TRUE, show_quit_keystroke |-> TRUE]

-----------------------------------------------------------------------------
(* The world *)

\* The client has read the window's size and listens for its changes: a change
\* between the two, before the loop starts, is not modelled.
Init ==
    /\ platform \in Platforms
    /\ config \in Configs
    /\ typed \in Texts(platform, config)
    /\ consumed = 0 /\ high = FALSE /\ reading = TRUE /\ resized = FALSE
    /\ filter = [armed |-> FALSE, lf |-> FALSE]
    /\ window = FirstWindow /\ winch = FALSE /\ resizes = 0 /\ errors = 0
    /\ outbox = <<>> /\ held = <<>> /\ chan = <<>>
    /\ pushed = <<>> /\ size = FirstWindow
    /\ shutdown = FALSE /\ running = TRUE /\ note = NoNote

\* SIGWINCH, or a buffer size record; one that is pending already stands for both.
WindowChanges(to) ==
    /\ running /\ resizes < MAX_RESIZES
    /\ to # window
    /\ window' = to /\ winch' = TRUE /\ resizes' = resizes + 1
    /\ UNCHANGED <<Chosen, errors, Reader, outbox, held, chan, Loop>>

-----------------------------------------------------------------------------
(* The reader thread *)

(***************************************************************************)
(* A read returns some of what is there: what it leaves may not have been  *)
(* typed yet.  On Windows the records of one read may include the change   *)
(* of the window's size, anywhere among the keys.                          *)
(***************************************************************************)
Read(n, change) ==
    /\ running /\ reading /\ outbox = <<>> /\ ~resized
    /\ n > 0 \/ change
    /\ change => platform = "windows" /\ winch
    /\ LET units == SubSeq(typed, consumed + 1, consumed + n)
           text == IF platform = "windows" THEN Utf8(units)
                                           ELSE [high |-> FALSE, out |-> units]
           fed == Feed(filter, text.out)
       IN  /\ high' = text.high
           /\ IF text.out = <<>> THEN UNCHANGED <<filter, outbox>>
              ELSE filter' = fed.f /\ outbox' = Events(fed)
    /\ consumed' = consumed + n
    /\ resized' = change
    /\ winch' = (winch /\ ~change)
    /\ UNCHANGED <<Chosen, window, resizes, errors, reading, held, chan, Loop>>

\* The record holds the buffer's size; the window's is asked for.
AskSize ==
    /\ running /\ reading /\ resized /\ outbox = <<>>
    /\ outbox' = <<Resize(window)>> /\ resized' = FALSE
    /\ UNCHANGED <<Chosen, World, consumed, high, filter, reading, held, chan, Loop>>

\* A send that does not wait.
ReaderSendsAtOnce ==
    /\ running /\ reading /\ outbox # <<>>
    /\ chan' = Append(chan, Head(outbox)) /\ outbox' = Tail(outbox)
    /\ UNCHANGED <<Chosen, World, Reader, held, Loop>>

\* blocking_send waits for a place in the channel.
ReaderSends ==
    /\ running /\ reading /\ outbox # <<>>
    /\ Len(chan) < CHANNEL
    /\ chan' = Append(chan, Head(outbox)) /\ outbox' = Tail(outbox)
    /\ UNCHANGED <<Chosen, World, Reader, held, Loop>>

\* The client has left its loop: the send fails.
ReaderStops ==
    /\ ~running /\ reading /\ outbox # <<>>
    /\ reading' = FALSE /\ outbox' = <<>>
    /\ UNCHANGED <<Chosen, World, consumed, high, filter, resized, held, chan, Loop>>

\* The end of standard input, or an error reading it.
InputEnds ==
    /\ running /\ reading /\ outbox = <<>> /\ ~resized
    /\ consumed = Len(typed)
    /\ reading' = FALSE
    /\ UNCHANGED <<Chosen, World, consumed, high, filter, resized, outbox, held, chan, Loop>>

(* The task that waits for SIGWINCH (Unix) *)

TaskWakes ==
    /\ running /\ platform = "unix" /\ winch /\ held = <<>>
    /\ winch' = FALSE /\ held' = <<Resize(window)>>
    /\ UNCHANGED <<Chosen, window, resizes, errors, Reader, outbox, chan, Loop>>

\* Signals that came while it was sending are taken for the one it reports.
TaskSendsAndForgets ==
    /\ running /\ held # <<>>
    /\ Len(chan) < CHANNEL
    /\ chan' = Append(chan, Head(held)) /\ held' = <<>> /\ winch' = FALSE
    /\ UNCHANGED <<Chosen, window, resizes, errors, Reader, outbox, Loop>>

TaskSends ==
    /\ running /\ held # <<>>
    /\ Len(chan) < CHANNEL
    /\ chan' = Append(chan, Head(held)) /\ held' = <<>>
    /\ UNCHANGED <<Chosen, World, Reader, outbox, Loop>>

-----------------------------------------------------------------------------
(* The client's loop *)

\* Events are left in the channel once the user has quit.
WantsEventsUntilQuit == ~shutdown

\* select! polls the channel in every round of the loop.
WantsEvents == TRUE

\* handle_term_event; the client always knows the server's address.
Handle(e) ==
    CASE e.kind = "input" ->
            pushed' = pushed \o e.bytes /\ UNCHANGED <<size, shutdown, note>>
      [] e.kind = "help" ->
            /\ note' = IF e.show THEN ShowEscapeHelp ELSE HideEscapeHelp(note)
            /\ UNCHANGED <<pushed, size, shutdown>>
      [] e.kind = "resize" ->
            size' = e.size /\ UNCHANGED <<pushed, shutdown, note>>
      [] e.kind = "quit" ->
            /\ shutdown' = TRUE /\ note' = SetNotification("exiting")
            /\ UNCHANGED <<pushed, size>>

ClientTakes ==
    /\ running /\ chan # <<>> /\ WantsEvents
    /\ chan' = Tail(chan)
    /\ IF shutdown THEN UNCHANGED <<pushed, size, shutdown, note>> ELSE Handle(Head(chan))
    /\ UNCHANGED <<Chosen, World, Reader, outbox, held, running>>

\* transport.recv or transport.tick fails.
NetworkFails ==
    /\ running /\ errors < MAX_ERRORS
    /\ note' = SetNetworkError /\ errors' = errors + 1
    /\ UNCHANGED <<Chosen, window, winch, resizes, Reader, outbox, held, chan, pushed, size,
                   shutdown, running>>

\* The loop is left: after CONNECT_TIMEOUT without a state of the server, or
\* because of a shutdown at either end.  What the server sends is left open.
ClientExits ==
    /\ running
    /\ running' = FALSE
    /\ \/ ~shutdown /\ note' = SetNotification("timeout")
       \/ UNCHANGED note
    /\ UNCHANGED <<Chosen, World, Reader, outbox, held, chan, pushed, size, shutdown>>

Next ==
    \/ \E to \in Windows : WindowChanges(to)
    \/ \E n \in 0 .. Min({BUFFER, Len(typed) - consumed}), change \in BOOLEAN : Read(n, change)
    \/ AskSize
    \/ ReaderSends
    \/ ReaderStops
    \/ InputEnds
    \/ TaskWakes
    \/ TaskSends
    \/ ClientTakes
    \/ NetworkFails
    \/ ClientExits

Spec == Init /\ [][Next]_vars

(***************************************************************************)
(* What is typed is read, the loop polls the channel and the signal, and   *)
(* the channel admits those who wait for a place in their order.           *)
(***************************************************************************)
FairSpec ==
    /\ Spec
    /\ WF_vars(\E n \in 1 .. Min({BUFFER, Len(typed) - consumed}), change \in BOOLEAN :
                  Read(n, change))
    /\ WF_vars(Read(0, TRUE))
    /\ WF_vars(AskSize) /\ WF_vars(TaskWakes) /\ WF_vars(ClientTakes)
    /\ SF_vars(ReaderSends) /\ SF_vars(TaskSends)

-----------------------------------------------------------------------------
(* What the user means by what is typed: all of it at once, by position,   *)
(* whatever the build p and the escape key's settings c.                   *)

\* The text of the units: a high and a low surrogate make one character, one
\* alone is replaced, and a high one at the end may still find its pair.
CharAt(u, i) ==
    CASE u[i] = HIGH -> IF i = Len(u) THEN <<>>
                        ELSE IF u[i + 1] = LOW THEN <<PAIR>> ELSE <<REPLACEMENT>>
      [] u[i] = LOW -> IF i > 1 /\ u[i - 1] = HIGH THEN <<>> ELSE <<REPLACEMENT>>
      [] OTHER -> <<u[i]>>
TextOf(p, u) == IF p = "unix" THEN u ELSE FlattenSeq([i \in DOMAIN u |-> CharAt(u, i)])

\* Which bytes begin an escape sequence.  A line's end counts before a printable
\* escape key only if it is not the second key of a sequence itself.
Escapes(c, b) ==
    CHOOSE E \in SUBSET (1 .. Len(b)) :
        \A i \in 1 .. Len(b) :
            i \in E <=>
                /\ c # Disabled /\ b[i] = c.key
                /\ i - 1 \notin E
                /\ c.requires_lf => i > 1 /\ b[i - 1] \in LineEnd /\ i - 2 \notin E

Quits(c, b) == {i \in 1 .. Len(b) : b[i] = DOT /\ i - 1 \in Escapes(c, b)}

MeantAt(c, b, i) ==
    LET second == i - 1 \in Escapes(c, b)
    IN  IF i \in Escapes(c, b) \/ (second /\ b[i] = CTRL_Z) THEN <<>>
        ELSE IF ~second THEN <<b[i]>>
        ELSE IF b[i] \in c.pass THEN <<c.key>> ELSE <<c.key, b[i]>>

\* What the server is to get: everything before the first quit, a sequence
\* replaced by what it stands for.
Meant(c, b) ==
    LET n == IF Quits(c, b) = {} THEN Len(b) ELSE Min(Quits(c, b)) - 1
    IN  FlattenSeq([i \in 1 .. n |-> MeantAt(c, b, i)])

-----------------------------------------------------------------------------
(* Properties *)

SoFar == TextOf(platform, SubSeq(typed, 1, consumed))

\* What the reader has read and the client has not taken.
OnTheWay == chan \o outbox

\* The part of it the client will act on.
UntilQuit(events) ==
    LET quits == {i \in DOMAIN events : events[i] = Quit}
    IN  IF quits = {} THEN events ELSE SubSeq(events, 1, Min(quits) - 1)
Due == IF shutdown THEN <<>> ELSE UntilQuit(OnTheWay)

KeysOf(e) == IF e.kind = "input" THEN e.bytes ELSE <<>>
KeysIn(events) == FlattenSeq([i \in DOMAIN events |-> KeysOf(events[i])])

\* The types of the variables; the channel is within its capacity.
TypeOK ==
    /\ consumed \in 0 .. Len(typed)
    /\ filter \in [armed : BOOLEAN, lf : BOOLEAN]
    /\ Len(chan) <= CHANNEL /\ Len(outbox) <= 2 /\ Len(held) <= 1
    /\ window \in Windows /\ size \in Windows
    /\ note \in [message : {"", "help", "error", "exiting", "timeout"},
                 is_network_error : BOOLEAN, show_quit_keystroke : BOOLEAN]
    /\ pushed \in Seq(Nat)

\* However the reads cut up what is typed, the keys pushed, with those on their
\* way, are what the text so far stands for: every escape sequence and surrogate
\* pair counts across reads, nothing typed before a quit is lost, nothing typed
\* after it is pushed, and nothing but a quit ends the session.
KeysTrue == running =>
    /\ pushed \o KeysIn(Due) = Meant(config, SoFar)
    /\ shutdown => Quits(config, SoFar) # {}

\* When nothing but resizes is on its way the help is up only while the escape
\* key waits for its second key, and it is up then unless an error has replaced
\* it; an error stays when the help is taken down, and the quit keystroke is
\* offered exactly when the help is not up.
HelpMatches ==
    /\ running /\ ~shutdown /\ (\A i \in DOMAIN OnTheWay : OnTheWay[i].kind = "resize") =>
          /\ note.message = "help" => filter.armed
          /\ filter.armed => note.message \in {"help", "error"}
    /\ note.is_network_error <=> note.message = "error"
    /\ note.show_quit_keystroke <=> note.message # "help"

\* A change of the window's size that nobody has yet to report has reached the
\* state the client publishes, however often it changed.
WindowKnown ==
    LET Reported(s) == \A i \in DOMAIN s : s[i].kind # "resize"
    IN  running /\ ~shutdown /\ ~winch /\ ~resized
            /\ held = <<>> /\ Reported(chan) /\ Reported(outbox) => size = window

\* The reader, the window's task and the loop never wait for one another for
\* good: everything typed and every change of the window is taken in the end.
AllTaken == []<>(\/ ~running \/ ~reading
                 \/ /\ consumed = Len(typed) /\ outbox = <<>> /\ held = <<>>
                    /\ chan = <<>> /\ ~winch /\ ~resized)
=============================================================================
