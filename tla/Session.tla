------------------------------ MODULE Session -------------------------------
(***************************************************************************)
(* A whole morsh session: the client's event loop (morsh-client, main.rs   *)
(* and input.rs), the server's (morsh-server, server.rs), and the shell    *)
(* behind its pty with the thread that reads it (pty.rs, the Unix build).  *)
(*                                                                         *)
(* The two loops talk through the transport.  Ssp shows that each of its   *)
(* directions is a sequence of numbered states through which the receiver  *)
(* skips forward (Sync), and that is how it appears here.  A state of the  *)
(* client is a prefix of its event stream, given by its length; a state of *)
(* the server is a terminal, given by how much of the shell's output it    *)
(* has taken in, its size and its echo ack.                                *)
(***************************************************************************)
EXTENDS Naturals, Sequences, FiniteSets, SequencesExt, FiniteSetsExt, Functions

CONSTANTS
    Sizes,        \* the window sizes
    Window,       \* the size of the client's window when it starts
    DefaultSize,  \* 80x24, the server's size for want of a better one
    SHUTDOWN_NUM, \* u64::MAX, scaled down
    CHANNEL,      \* capacity of the channel from the reader thread, 64 in the code
    MAX_EVENTS,   \* keys and resizes the user causes (a bound)
    MAX_OUTPUT,   \* chunks of output the shell writes (a bound)
    MAX_IN_FLIGHT, \* instructions of one endpoint in flight (a bound)
    MAX_UNACKED    \* states of one endpoint not acknowledged yet (a bound)

ASSUME SessionAssumption ==
    /\ Window \in Sizes /\ DefaultSize \in Sizes
    /\ CHANNEL \in Nat \ {0} /\ MAX_EVENTS \in Nat /\ MAX_OUTPUT \in Nat
    /\ SHUTDOWN_NUM \in Nat \ {0, 1} /\ MAX_IN_FLIGHT \in Nat \ {0}
    /\ MAX_UNACKED \in Nat \ {0}

Endpoint == {"client", "server"}
Peer(e) == IF e = "client" THEN "server" ELSE "client"
Num == 0 .. SHUTDOWN_NUM

VARIABLES
    \* the transport of each endpoint
    pub,      \* pub[e]: sent_states, by number, from the acknowledged one on
    shut,     \* shut[e]: shutdown_in_progress
    got,      \* got[e]: get_remote_state_num
    ackSent,  \* ackSent[e]: fragmenter_last_ack_sent is SHUTDOWN_NUM
    net,      \* net[e]: the instructions of e that may still matter, [num, ack]
    \* the client
    cpc,      \* where its loop is
    stream,   \* the events pushed to its UserStream, the first resize included
    painted,  \* the server's last state is on the user's screen
    left,     \* why it has left its loop
    \* the server
    spc,      \* where its loop is
    first,    \* how much of the stream wait_for_client has consumed
    seen,     \* last_remote_num
    ptySize,  \* the size of the pty
    ptyLog,   \* the keys written to the pty, the sizes it was given or not given
    term,     \* the terminal, the current state of the transport
    frames,   \* its input_history, the numbers of which grow with time
    \* the shell, its pty and the reader thread
    child,    \* "none", "running" or "exited"
    written,  \* chunks of output the shell has written
    unread,   \* those the reader thread has not read yet
    channel,  \* the PtyEvents queued for the server's loop
    eof       \* the reader thread has sent its last event

transport == <<pub, shut, got, ackSent, net>>
client == <<cpc, stream, painted, left>>
server == <<spc, first, seen, ptySize, ptyLog, term, frames>>
shell == <<child, written, unread, channel, eof>>
vars == <<transport, client, server, shell>>

Key(i) == <<"key", i>>
Resize(s) == <<"resize", s>>
IsResize(ev) == ev[1] = "resize"
IsKey(ev) == ev[1] = "key"
Event == {Key(i) : i \in 1 .. MAX_EVENTS} \cup {Resize(s) : s \in Sizes}
Terminal == [shown : 0 .. MAX_OUTPUT, size : Sizes, echo : Num]

\* bind_transport, and main of the client: the window size is the first event
\* and already part of the client's state 0.
Init ==
    /\ stream = <<Resize(Window)>>
    /\ term = [shown |-> 0, size |-> DefaultSize, echo |-> 0]
    /\ pub = [e \in Endpoint |->
                 [n \in {0} |-> IF e = "client" THEN Len(stream) ELSE term]]
    /\ shut = [e \in Endpoint |-> FALSE]
    /\ got = [e \in Endpoint |-> 0]
    /\ ackSent = [e \in Endpoint |-> FALSE]
    /\ net = [e \in Endpoint |-> {}]
    /\ cpc = "select" /\ painted = FALSE /\ left = "no"
    /\ spc = "waiting" /\ first = 0 /\ seen = 0
    /\ ptySize = DefaultSize /\ ptyLog = <<>> /\ frames = {}
    /\ child = "none" /\ written = 0 /\ unread = 0 /\ channel = <<>> /\ eof = FALSE

-----------------------------------------------------------------------------
(* The transport *)

Put(f, k, v) == [x \in DOMAIN f \cup {k} |-> IF x = k THEN v ELSE f[x]]

\* e's current state
Current(e) == IF e = "client" THEN Len(stream) ELSE term

Acked(e) == Min(DOMAIN pub[e])
LastNum(e) == Max(DOMAIN pub[e])

(***************************************************************************)
(* The number tick gives the current state.  Bounds: an empty ack takes a  *)
(* new number only if no state has been sent yet, and MAX_UNACKED states   *)
(* ahead of the acknowledged one, or short of SHUTDOWN_NUM, the last of    *)
(* them is repeated, as if the new one were never to arrive.               *)
(***************************************************************************)
NewNum(e) ==
    IF shut[e] THEN SHUTDOWN_NUM
    ELSE IF /\ Current(e) # pub[e][LastNum(e)] \/ LastNum(e) = 0
            /\ Cardinality(DOMAIN pub[e]) <= MAX_UNACKED
            /\ LastNum(e) + 1 < SHUTDOWN_NUM
         THEN LastNum(e) + 1
         ELSE LastNum(e)

\* Instructions never received from now on are lost.
SendInstruction(e) ==
    /\ IF shut[e] \/ NewNum(e) # LastNum(e)
       THEN pub' = [pub EXCEPT ![e] = Put(@, NewNum(e), Current(e))]
       ELSE UNCHANGED pub
    /\ \E lost \in SUBSET net[e] :
          /\ net' = [net EXCEPT ![e] =
                        (@ \ lost) \cup {[num |-> NewNum(e), ack |-> got[e]]}]
          /\ Cardinality(net'[e]) <= MAX_IN_FLIGHT
    /\ ackSent' = [ackSent EXCEPT ![e] = got[e] = SHUTDOWN_NUM]

\* Transport::tick, whether something is due or not
Tick(e) ==
    /\ \/ SendInstruction(e)
       \/ UNCHANGED <<pub, net, ackSent>>
    /\ UNCHANGED <<shut, got>>

(***************************************************************************)
(* Transport::recv.  A state counts if its reference is at hand, its ack   *)
(* always does.  An instruction that can no longer tell e anything new is  *)
(* dropped from net: receiving it would only end the select.               *)
(***************************************************************************)
Recv(e) ==
    /\ \E m \in net[Peer(e)] :
          /\ got' = [got EXCEPT ![e] = Max({@, m.num})] \/ UNCHANGED got
          /\ pub' = [pub EXCEPT ![e] =
                        Restrict(@, {n \in DOMAIN @ : n >= m.ack})]
    /\ net' = [net EXCEPT ![Peer(e)] =
                  {m \in @ : m.num > got'[e] \/ m.ack > Acked(e)'}]
    /\ UNCHANGED <<shut, ackSent>>

StartShutdown(e) == shut' = [shut EXCEPT ![e] = TRUE]

ShutdownAcknowledged(e) == Acked(e) = SHUTDOWN_NUM

\* Leave as soon as the peer's last state is here.
CounterpartyShutdownReceived(e) == got[e] = SHUTDOWN_NUM

CounterpartyShutdownAckSent(e) == ackSent[e]

-----------------------------------------------------------------------------
(* The client's loop *)

\* The last size among events, or size if there is none.
LastSize(events, size) ==
    LET resizes == {i \in DOMAIN events : IsResize(events[i])}
    IN  IF resizes = {} THEN size ELSE events[Max(resizes)][2]

\* handle_term_event, which discards its event once shutdown has begun; the
\* remote address is known from the start.
HandleTermEvent ==
    /\ ~shut["client"]
    /\ \/ /\ Len(stream) <= MAX_EVENTS
          /\ \/ stream' = Append(stream, Key(Len(stream)))
             \/ \E s \in Sizes \ {LastSize(stream, Window)} :
                   stream' = Append(stream, Resize(s))
          /\ UNCHANGED transport
       \/ /\ StartShutdown("client")
          /\ UNCHANGED <<pub, got, ackSent, net, stream>>

\* output_new_frame, then the select: an event, a datagram, or the timer (an
\* event that is discarded or a datagram that is refused).
ClientSelect ==
    /\ cpc = "select"
    /\ painted' = (got["client"] = SHUTDOWN_NUM)
    /\ \/ HandleTermEvent
       \/ Recv("client") /\ UNCHANGED stream
       \/ UNCHANGED <<transport, stream>>
    /\ cpc' = "check"
    /\ UNCHANGED <<left, server, shell>>

ClientLeave(why) ==
    /\ cpc' = "exited" /\ left' = why
    /\ UNCHANGED <<transport, stream, painted, server, shell>>

\* The client waits for its acknowledgment however long it takes.
ShutdownOverIfAcknowledged(e, timedOut) == shut[e] /\ ShutdownAcknowledged(e)

\* The end of e's own shutdown; timedOut is shutdown_ack_timed_out, the retries
\* or the ten seconds used up.
ShutdownOver(e, timedOut) ==
    /\ shut[e]
    /\ ShutdownAcknowledged(e) \/ timedOut

\* The ways to leave the loop, in their order.
ClientCheck ==
    /\ cpc = "check"
    /\ \E timedOut \in BOOLEAN :
        \/ ShutdownOver("client", timedOut) /\ ClientLeave("quit")
        \/ /\ ~ShutdownOver("client", timedOut)
           /\ CounterpartyShutdownAckSent("client")
           /\ ClientLeave("server")
        \/ /\ ~ShutdownOver("client", timedOut)
           /\ ~CounterpartyShutdownAckSent("client")
           /\ \/ \* CONNECT_TIMEOUT is over
                 /\ got["client"] = 0 /\ ~shut["client"]
                 /\ ClientLeave("timeout")
              \/ /\ cpc' = "tick"
                 /\ UNCHANGED <<left, transport, stream, painted, server, shell>>

ClientTick ==
    /\ cpc = "tick"
    /\ Tick("client")
    /\ cpc' = "select"
    /\ UNCHANGED <<stream, painted, left, server, shell>>

-----------------------------------------------------------------------------
(* The server before its loop *)

\* What get_remote_diff yields between client states m and n.  The server's
\* own state 0 is empty, so the client's counts for nothing.
EventsBetween(m, n) ==
    SubSeq(stream, pub["client"][m] + 1, pub["client"][n])

\* The loop of wait_for_client, which never sends.
WaitForClient ==
    /\ spc = "waiting" /\ got["server"] = 0
    /\ Recv("server")
    /\ UNCHANGED <<client, server, shell>>

\* No client within TIMEOUT_IF_NO_CLIENT, or spawn_pty fails.
ServerGivesUp ==
    /\ spc = "waiting"
    /\ spc' = "exited"
    /\ UNCHANGED <<transport, client, first, seen, ptySize, ptyLog, term, frames,
                   shell>>

\* The rest of wait_for_client, and run_server up to Handler::run.
SpawnShell ==
    /\ spc = "waiting" /\ got["server"] # 0
    /\ spc' = "select"
    /\ ptySize' = LastSize(EventsBetween(0, got["server"]), DefaultSize)
    /\ term' = [term EXCEPT !.size = ptySize']
    /\ first' = pub["client"][got["server"]] /\ seen' = got["server"]
    /\ child' = "running"
    /\ UNCHANGED <<transport, client, ptyLog, frames, written, unread, channel, eof>>

-----------------------------------------------------------------------------
(* The server's loop *)

\* Output goes to the terminal whether or not it is shutting down.
HandlePtyEventAlways ==
    /\ channel # <<>>
    /\ channel' = Tail(channel)
    /\ \/ /\ Head(channel) = "output"
          /\ term' = [term EXCEPT !.shown = @ + 1]
          /\ UNCHANGED transport
       \/ /\ Head(channel) = "exited"
          /\ StartShutdown("server")
          /\ UNCHANGED <<pub, got, ackSent, net, term>>

\* handle_pty_event
HandlePtyEvent ==
    /\ channel # <<>>
    /\ channel' = Tail(channel)
    /\ \/ /\ Head(channel) = "output"
          /\ term' = IF shut["server"] THEN term ELSE [term EXCEPT !.shown = @ + 1]
          /\ UNCHANGED transport
       \/ /\ Head(channel) = "exited"
          /\ StartShutdown("server")
          /\ UNCHANGED <<pub, got, ackSent, net, term>>

ServerSelect ==
    /\ spc = "select"
    /\ \/ HandlePtyEvent
       \/ Recv("server") /\ UNCHANGED <<channel, term>>
       \/ UNCHANGED <<transport, channel, term>>
    /\ spc' = "input"
    /\ UNCHANGED <<client, first, seen, ptySize, ptyLog, frames, child, written,
                   unread, eof>>

\* The keys of a batch go to the pty in one write after its resizes.
AppliedLate(events) ==
    SelectSeq(events, IsResize) \o SelectSeq(events, LAMBDA ev : ~IsResize(ev))

\* A resize that the next event supersedes.
Skipped == <<"skipped">>

\* The keys in between are written before a resize is applied, and of a run
\* of resizes only the last is.
Applied(events) ==
    [i \in DOMAIN events |->
        IF /\ IsResize(events[i])
           /\ i < Len(events) /\ IsResize(events[i + 1])
        THEN Skipped ELSE events[i]]

\* handle_client_input
HandleClientInput ==
    /\ spc = "input"
    /\ LET events == EventsBetween(seen, got["server"])
       IN  /\ ptyLog' = ptyLog \o Applied(events)
           /\ ptySize' = LastSize(events, ptySize)
           /\ IF events = <<>> \/ shut["server"]
              THEN UNCHANGED <<term, frames>>
              ELSE /\ term' = [term EXCEPT !.size = ptySize']
                   /\ frames' = frames \cup {got["server"]}
    /\ seen' = got["server"]
    /\ spc' = "housekeeping"
    /\ UNCHANGED <<transport, client, first, shell>>

\* The frame that sets the echo ack is forgotten with the older ones.
StillNeededNewer(num, echo) == num > echo

\* What set_echo_ack retains.
StillNeeded(num, echo) == num >= echo

(***************************************************************************)
(* set_echo_ack, when the old frames have been there for ECHO_TIMEOUT: the *)
(* earliest, and among them the one the echo ack stands for.               *)
(***************************************************************************)
SetEchoAck ==
    \E old \in SUBSET frames :
        LET echo == IF old = {} THEN 0 ELSE Max(old)
        IN  /\ \A n \in old : {m \in frames : m < n} \subseteq old
            /\ term.echo \in frames => term.echo \in old
            /\ term' = [term EXCEPT !.echo = echo]
            /\ frames' = {n \in frames : StillNeeded(n, echo)}

\* housekeeping, and Handler::shutdown once it breaks the loop
Housekeeping ==
    /\ spc = "housekeeping"
    /\ UNCHANGED <<pub, got, ackSent, net, client, first, seen,
                   ptySize, ptyLog, written, unread, channel, eof>>
    /\ IF child = "exited" THEN StartShutdown("server") ELSE UNCHANGED shut
    /\ IF shut'["server"] THEN UNCHANGED <<term, frames>> ELSE SetEchoAck
    /\ \E timedOut \in BOOLEAN :
          spc' = IF \/ ShutdownOver("server", timedOut)'
                    \/ CounterpartyShutdownAckSent("server")
                 THEN "exited" ELSE "tick"
    /\ child' = IF spc' = "exited" THEN "exited" ELSE child

ServerTick ==
    /\ spc = "tick"
    /\ Tick("server")
    /\ spc' = "select"
    /\ UNCHANGED <<client, first, seen, ptySize, ptyLog, term, frames, shell>>

-----------------------------------------------------------------------------
(* The shell and the thread that reads its pty *)

ShellWrites ==
    /\ child = "running" /\ written < MAX_OUTPUT
    /\ written' = written + 1 /\ unread' = unread + 1
    /\ UNCHANGED <<transport, client, server, child, channel, eof>>

ShellExits ==
    /\ child = "running"
    /\ child' = "exited"
    /\ UNCHANGED <<transport, client, server, written, unread, channel, eof>>

\* One more event fits in.
ChannelFullLate == Len(channel) > CHANNEL

ChannelFull == Len(channel) >= CHANNEL

\* The reader thread: blocking_send waits while the channel is full, and the
\* end of the file comes after everything the shell wrote.
ReaderSends ==
    /\ spc # "exited" /\ ~eof /\ ~ChannelFull
    /\ \/ /\ unread > 0
          /\ unread' = unread - 1
          /\ channel' = Append(channel, "output")
          /\ UNCHANGED eof
       \/ /\ unread = 0 /\ child = "exited"
          /\ channel' = Append(channel, "exited")
          /\ eof' = TRUE
          /\ UNCHANGED unread
    /\ UNCHANGED <<transport, client, server, child, written>>

ClientLoop == ClientSelect \/ ClientCheck \/ ClientTick
ServerLoop == ServerSelect \/ HandleClientInput \/ Housekeeping \/ ServerTick

Next ==
    \/ ClientLoop
    \/ WaitForClient \/ ServerGivesUp \/ SpawnShell
    \/ ServerLoop
    \/ ShellWrites \/ ShellExits \/ ReaderSends

Spec == Init /\ [][Next]_vars

(***************************************************************************)
(* The loops go round, the timers of a shutdown run out, and sooner or     *)
(* later something is due in tick, if only the next ack.  Nothing is       *)
(* assumed of the network, of the shell or of the user.                    *)
(***************************************************************************)
Fairness ==
    /\ WF_vars(ClientLoop) /\ WF_vars(ServerLoop)
    /\ SF_vars(ClientCheck /\ left' = "quit")
    /\ SF_vars(Housekeeping /\ spc' = "exited")
    /\ SF_vars(ClientTick /\ SendInstruction("client"))
    /\ SF_vars(ServerTick /\ SendInstruction("server"))

FairSpec == Spec /\ Fairness

-----------------------------------------------------------------------------
(* Properties *)

\* The types of the variables.
TypeOK ==
    /\ DOMAIN pub = Endpoint
    /\ \A e \in Endpoint : DOMAIN pub[e] \subseteq Num
    /\ \A n \in DOMAIN pub["client"] : pub["client"][n] \in 1 .. Len(stream)
    /\ \A n \in DOMAIN pub["server"] : pub["server"][n] \in Terminal
    /\ shut \in [Endpoint -> BOOLEAN]
    /\ \A e \in Endpoint :
        /\ got[e] \in DOMAIN pub[Peer(e)] /\ ackSent[e] \in BOOLEAN
        /\ \A m \in net[e] : m.num <= LastNum(e) /\ m.ack <= got[e]
    /\ cpc \in {"select", "check", "tick", "exited"}
    /\ stream \in Seq(Event)
    /\ painted \in BOOLEAN
    /\ left \in {"no", "quit", "server", "timeout"}
    /\ spc \in {"waiting", "select", "input", "housekeeping", "tick", "exited"}
    /\ first \in 0 .. Len(stream) /\ seen \in DOMAIN pub["client"]
    /\ ptySize \in Sizes /\ ptyLog \in Seq(Event \cup {Skipped})
    /\ term \in Terminal /\ frames \subseteq Num
    /\ child \in {"none", "running", "exited"}
    /\ written \in 0 .. MAX_OUTPUT /\ unread \in 0 .. written
    /\ channel \in Seq({"output", "exited"}) /\ Len(channel) <= CHANNEL
    /\ eof \in BOOLEAN

\* The size in force when the i-th of events comes.
SizeAt(events, i, size) == LastSize(SubSeq(events, 1, i), size)

(***************************************************************************)
(* What the client learns that the server has acknowledged was written to  *)
(* the pty: every key typed since the server took its first state, at the  *)
(* window size it was typed at.  No key is written twice, before one that  *)
(* was typed earlier, or without having been typed.  It rests on           *)
(* handle_client_input coming before tick in every turn of the loop, for   *)
(* a server that is shutting down too.                                     *)
(***************************************************************************)
AckedInputWritten ==
    child # "none" =>
        LET start == LastSize(SubSeq(stream, 2, first), DefaultSize)
            typed == SubSeq(stream, first + 1, Len(stream))
            Same(i, j) == /\ ptyLog[j] = typed[i]
                          /\ SizeAt(ptyLog, j, start) = SizeAt(typed, i, start)
        IN  /\ \A i \in 1 .. pub["client"][Acked("client")] - first :
                  IsKey(typed[i]) => \E j \in DOMAIN ptyLog : Same(i, j)
            /\ \A j, k \in DOMAIN ptyLog :
                  IsKey(ptyLog[j]) /\ IsKey(ptyLog[k]) /\ j < k
                      => ptyLog[j][2] < ptyLog[k][2]
            /\ \A j \in DOMAIN ptyLog :
                  IsKey(ptyLog[j]) => \E i \in DOMAIN typed : Same(i, j)

\* A client that leaves because the server has shut down has painted the
\* server's last screen: the loop draws before it looks whether to leave.
FinalFramePainted == left = "server" => painted

\* Once a state has gone out as the last one it does not change: the handlers
\* of both loops leave the current state alone during a shutdown.
FinalStateFixed ==
    [][\A e \in Endpoint : SHUTDOWN_NUM \in DOMAIN pub[e] =>
           /\ pub'[e][SHUTDOWN_NUM] = pub[e][SHUTDOWN_NUM]
           /\ Current(e)' = pub[e][SHUTDOWN_NUM]]_vars

\* The echo ack never goes back, which Complete::apply_string on the client's
\* side would not follow.
EchoAckGrows == [][term.echo <= term'.echo]_vars

\* A client whose user quits, or that has the server's last state, gets out
\* of its loop, whatever the network and the server do.
ClientLeaves ==
    (shut["client"] \/ got["client"] = SHUTDOWN_NUM) ~> (cpc = "exited")

\* A server whose shell has exited, or that has the client's last state, gets
\* out of its loop, whatever the network and the client do.
ServerLeaves ==
    (child = "exited" \/ seen = SHUTDOWN_NUM) ~> (spc = "exited")

(***************************************************************************)
(* What the comments of the repository say.                                *)
(***************************************************************************)

\* The server takes the window size the client asks for with its first state.
WindowTaken ==
    (/\ child = "running"
     /\ \A i \in DOMAIN stream : i > 1 => ~IsResize(stream[i]))
        => ptySize = Window

\* The final screen, with all that the shell wrote, goes out with the shutdown
\* packet of the server.
FinalScreenSent ==
    SHUTDOWN_NUM \in DOMAIN pub["server"] =>
        pub["server"][SHUTDOWN_NUM].shown = written
=============================================================================
