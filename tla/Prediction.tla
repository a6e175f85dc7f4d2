----------------------------- MODULE Prediction -----------------------------
(***************************************************************************)
(* Speculative local echo: the prediction engine (morsh-prediction,        *)
(* prediction.rs and overlay.rs), what the client feeds it (input.rs,      *)
(* main.rs) and how it is painted (frame.rs), opposite a server whose      *)
(* application is a line editor.                                           *)
(*                                                                         *)
(* A frame of the server takes effect when the client receives it; that    *)
(* the server is further on by then only means it was slower before.  Only *)
(* active cells and cursors are kept: an inactive one is never read.  The  *)
(* display preference is Always; the timing triggers of the adaptive one   *)
(* and the underlining change nothing of what is predicted.                *)
(***************************************************************************)
EXTENDS Naturals, Sequences, SequencesExt, FiniteSetsExt, Functions

CONSTANTS
    Chunks,          \* what one read from the user's terminal may return
    Sizes,           \* window sizes, <<rows, columns>>
    Window,          \* the first of them
    PROMPTS,         \* whether Enter leads to a prompt without echo and back
    PASTE_THRESHOLD, \* 100 in the code
    MAX_INPUTS,      \* chunks and resizes the user causes (a bound)
    MAX_EMPTY        \* states sent with nothing new in them (a bound)

ASSUME PredictionAssumption ==
    /\ Window \in Sizes
    /\ \A s \in Sizes : s \in (Nat \ {0}) \X (Nat \ {0})
    /\ \A c \in Chunks : c \in Seq(STRING) /\ c # <<>>
    /\ PROMPTS \in BOOLEAN
    /\ PASTE_THRESHOLD \in Nat /\ MAX_INPUTS \in Nat /\ MAX_EMPTY \in Nat

VARIABLES
    engine,   \* the PredictionEngine
    remote,   \* the screen of the latest frame received
    sent,     \* the number of the client's last sent state
    inputs,   \* how many chunks and resizes there have been
    empty,    \* how many states were sent with nothing new
    queue,    \* input the server has not taken, each with its state's number
    server,   \* the server's terminal and its application
    taken,    \* input_history: the client's states the server got, by number
    echoAck   \* the server's echo ack

vars == <<engine, remote, sent, inputs, empty, queue, server, taken, echoAck>>

-----------------------------------------------------------------------------
(* Bytes.  Other control characters behave like Enter. *)

Blank == " "
Printable == {Blank, "a", "b", "C", "D", "[", "O"}
CsiFinal == Printable \ {Blank}

\* The InputState after a byte, and the key it completes.
Decode(state, ch) ==
    CASE state = "Ground" ->
            CASE ch = "esc" -> <<"Escape", "none">>
              [] ch = "del" -> <<"Ground", "backspace">>
              [] ch \in Printable -> <<"Ground", "insert">>
              [] OTHER -> <<"Ground", "unknown">>
      [] state = "Escape" ->
            CASE ch = "[" -> <<"Csi", "none">>
              [] ch = "O" -> <<"Ss3", "none">>
              [] OTHER    -> <<"Ground", "unknown">>
      [] state = "Csi" /\ ch \notin CsiFinal -> <<"Csi", "none">>
      [] OTHER ->
            <<"Ground", CASE ch = "C" -> "right" [] ch = "D" -> "left"
                          [] OTHER -> "unknown">>

(* Screens *)

Positions(size) == (0 .. size[1] - 1) \X (0 .. size[2] - 1)

BlankScreen(size) ==
    [size |-> size, cells |-> [at \in Positions(size) |-> Blank], cursor |-> <<0, 0>>]

CellAt(screen, at) == IF at \in DOMAIN screen.cells THEN screen.cells[at] ELSE Blank

\* What a position holds once its row is shifted from column col on.
ShiftRight(screen, row, col) ==
    [at \in DOMAIN screen.cells |->
        IF at[1] = row /\ at[2] > col THEN screen.cells[<<row, at[2] - 1>>]
                                      ELSE screen.cells[at]]
ShiftLeft(screen, row, col) ==
    [at \in DOMAIN screen.cells |->
        IF at[1] = row /\ at[2] >= col THEN CellAt(screen, <<row, at[2] + 1>>)
                                       ELSE screen.cells[at]]

-----------------------------------------------------------------------------
(* The application: a line editor in insert mode, which wraps at the last  *)
(* column.  Enter may bring a prompt that echoes nothing until the next.   *)
(* plain is history: nothing has come that the engine does not predict; so *)
(* is pasted: text has come that the engine did not get.                   *)

NextLine(s) ==
    IF s.cursor[1] + 1 < s.size[1]
    THEN [s EXCEPT !.cursor = <<@[1] + 1, 0>>]
    ELSE [s EXCEPT !.cursor = <<@[1], 0>>, !.plain = @ /\ s.size[1] = 1,
                   !.cells = [at \in DOMAIN @ |-> CellAt(s, <<at[1] + 1, at[2]>>)]]

AppInsert(s, ch) ==
    LET put == [s EXCEPT !.cells = [ShiftRight(s, s.cursor[1], s.cursor[2])
                                       EXCEPT ![s.cursor] = ch]]
    IN  IF s.cursor[2] + 1 < s.size[2]
        THEN [put EXCEPT !.cursor = <<@[1], @[2] + 1>>]
        ELSE NextLine(put)

AppKey(s, key, ch) ==
    IF key = "unknown"
    THEN [NextLine(s) EXCEPT !.plain = FALSE, !.echo = IF PROMPTS THEN ~@ ELSE @]
    ELSE IF ~s.echo THEN s
    ELSE
    CASE key = "insert" -> AppInsert(s, ch)
      [] key = "right" /\ s.cursor[2] + 1 < s.size[2] ->
            [s EXCEPT !.cursor = <<@[1], @[2] + 1>>]
      [] key = "left" /\ s.cursor[2] > 0 -> [s EXCEPT !.cursor = <<@[1], @[2] - 1>>]
      [] key = "backspace" /\ s.cursor[2] > 0 ->
            [s EXCEPT !.cursor = <<@[1], @[2] - 1>>,
                      !.cells = ShiftLeft(s, s.cursor[1], s.cursor[2] - 1)]
      [] OTHER -> s

AppByte(s, ch) ==
    LET d == Decode(s.input, ch) IN AppKey([s EXCEPT !.input = d[1]], d[2], ch)

\* The application after the first n of the bytes.
Edited(s, bytes, n) ==
    LET after[i \in 0 .. n] == IF i = 0 THEN s ELSE AppByte(after[i - 1], bytes[i])
    IN  after[n]

\* The emulator cuts or extends its lines and keeps the cursor inside.
AppResize(s, size) ==
    [s EXCEPT !.size = size, !.plain = FALSE,
              !.cells = [at \in Positions(size) |-> CellAt(s, at)],
              !.cursor = <<Min({@[1], size[1] - 1}), Min({@[2], size[2] - 1})>>]

AppTakes(s, item) ==
    IF item.bytes = <<>> THEN AppResize(s, item.size)
    ELSE LET paste == Len(item.bytes) > PASTE_THRESHOLD
         IN  Edited([s EXCEPT !.plain = @ /\ ~paste, !.pasted = @ \/ paste],
                    item.bytes, Len(item.bytes))

\* The application after the first n of the items.
Taking(s, items, n) ==
    LET after[i \in 0 .. n] == IF i = 0 THEN s ELSE AppTakes(after[i - 1], items[i])
    IN  after[n]

\* The application once it has taken all that was typed.
Intended == Taking(server, queue, Len(queue))

-----------------------------------------------------------------------------
(* The prediction engine.  blind and fooled are history: the application    *)
(* is not echoing what is typed; something typed so came out nonetheless.   *)

NoCells == [at \in {} |-> Blank]

\* A cell says "something will be here".
Unknown == "unknown"

NewEngine ==
    [overlay |-> NoCells, cursors |-> <<>>, prediction_epoch |-> 1,
     confirmed_epoch |-> 0, late_acked |-> 0, last_size |-> <<0, 0>>,
     input_state |-> "Ground", panicked |-> FALSE,
     blind |-> FALSE, fooled |-> FALSE]

BecomeTentative(e) == [e EXCEPT !.prediction_epoch = @ + 1]

\* The epoch goes on.
UnknownInputSameEpoch(e) == [e EXCEPT !.cursors = <<>>]

UnknownInput(e) == BecomeTentative([e EXCEPT !.cursors = <<>>])

Reset(e) == BecomeTentative([e EXCEPT !.cursors = <<>>, !.overlay = NoCells])

\* The state the input will go out with: sent_state_last is one less.
InputFrame(last) == last + 1

InitCursor(e, at, last) ==
    IF e.cursors # <<>> /\ Last(e.cursors).epoch = e.prediction_epoch THEN e
    ELSE [e EXCEPT !.cursors = Append(@, [at |-> at, epoch |-> e.prediction_epoch,
                                          frame |-> InputFrame(last)])]

MoveCursor(e, at, last) ==
    IF e.cursors = <<>> THEN e
    ELSE [e EXCEPT !.cursors = ReplaceAt(@, Len(@),
              [Last(@) EXCEPT !.at = at, !.frame = InputFrame(last)])]

\* reset_with_orig: a known prediction that is replaced is remembered.
Original(e, at) ==
    IF at \in DOMAIN e.overlay /\ e.overlay[at].replacement # Unknown
    THEN e.overlay[at].original \cup {e.overlay[at].replacement} ELSE {}

Predict(e, what, original, last) ==
    [replacement |-> what, original |-> original, epoch |-> e.prediction_epoch,
     frame |-> InputFrame(last), blind |-> e.blind]

\* The column counts down past 0.
CanGoLeftAlways(at) == TRUE

CanGoLeft(at) == at[2] > 0

PredictCursorKey(e, key, last) ==
    IF key = "unknown" \/ e.cursors = <<>> THEN UnknownInput(e)
    ELSE LET at == Last(e.cursors).at
         IN  CASE key = "right" /\ at[2] + 1 < e.last_size[2] ->
                     MoveCursor(e, <<at[1], at[2] + 1>>, last)
               [] key = "left" /\ CanGoLeft(at) -> MoveCursor(e, <<at[1], at[2] - 1>>, last)
               [] OTHER -> e

\* A cell that is predicted again replaces its prediction.
Over(new, old) ==
    [at \in DOMAIN new \cup DOMAIN old |-> IF at \in DOMAIN new THEN new[at] ELSE old[at]]

With(e, new) == [e EXCEPT !.overlay = Over(new, @)]

\* The rest of the line is taken from the screen alone.
SeenOnScreen(e, painted, at) == CellAt(painted, at)

\* What is at a position as far as the client knows.
Seen(e, painted, at) ==
    IF at \in DOMAIN e.overlay THEN e.overlay[at].replacement ELSE CellAt(painted, at)

\* newline_carriage_return goes down a row, or blanks the last one.
BlankOriginal(e, at) == IF at \in DOMAIN e.overlay THEN e.overlay[at].original ELSE {}

BlankLine(e, row, last) ==
    [p \in {row} \X (0 .. e.last_size[2] - 1) |->
        Predict(e, Blank, BlankOriginal(e, p), last)]

CursorDown(e, last) ==
    IF e.cursors = <<>> THEN e
    ELSE LET r == Last(e.cursors).at[1]
         IN  MoveCursor(e, <<IF r + 1 < e.last_size[1] THEN r + 1 ELSE r, 0>>, last)

NewlineCarriageReturn(e, row, last) ==
    IF row + 1 < e.last_size[1] THEN CursorDown(e, last)
    ELSE With(CursorDown(e, last), BlankLine(e, row, last))

\* predict_backspace
DeletedAt(e, at, painted, p) ==
    IF p[2] + 2 < e.last_size[2] THEN Seen(e, painted, <<at[1], p[2] + 1>>) ELSE Unknown

Deleted(e, at, painted, last) ==
    [p \in {at[1]} \X (at[2] - 1 .. e.last_size[2] - 1) |->
        Predict(e, DeletedAt(e, at, painted, p), Original(e, p), last)]

PredictBackspace(e, at, painted, last) ==
    IF ~CanGoLeft(at) THEN e
    ELSE With(MoveCursor(e, <<Last(e.cursors).at[1], at[2] - 1>>, last),
              Deleted(e, at, painted, last))

(***************************************************************************)
(* predict_insert indexes the row with the column it is given.             *)
(***************************************************************************)
InsertedAt(e, ch, at, painted, p) ==
    IF p[2] = at[2] THEN ch
    ELSE IF p[2] = e.last_size[2] - 1 THEN Unknown
    ELSE Seen(e, painted, <<at[1], p[2] - 1>>)

Inserted(e, ch, at, painted, last) ==
    [p \in {at[1]} \X (at[2] .. e.last_size[2] - 1) |->
        Predict(e, InsertedAt(e, ch, at, painted, p), Original(e, p), last)]

InsertAndWrap(e, ch, at, painted, last) ==
    NewlineCarriageReturn(BecomeTentative(With(e, Inserted(e, ch, at, painted, last))),
                          at[1], last)

PredictInsert(e, ch, at, painted, last) ==
    IF at[2] >= e.last_size[2] THEN [BecomeTentative(e) EXCEPT !.panicked = TRUE]
    ELSE IF at[2] + 1 < e.last_size[2]
    THEN MoveCursor(With(e, Inserted(e, ch, at, painted, last)),
                    <<Last(e.cursors).at[1], at[2] + 1>>, last)
    ELSE InsertAndWrap(BecomeTentative(e), ch, at, painted, last)

\* cull drops the rows below the screen.
Cull(e, rows) == [e EXCEPT !.overlay = Restrict(@, {p \in DOMAIN @ : p[1] < rows})]

Sized(e, size) ==
    IF e.last_size = size THEN e ELSE Reset([e EXCEPT !.last_size = size])

\* What new_user_byte does before it looks at the key.
Prepared(e, ch, at, size, last) ==
    [InitCursor(Cull(Sized(e, size), size[1]), at, last)
        EXCEPT !.input_state = Decode(e.input_state, ch)[1]]

\* new_user_byte at a position
NewUserByte(e0, ch, at, painted, last) ==
    LET key == Decode(e0.input_state, ch)[2]
        e == Prepared(e0, ch, at, painted.size, last)
    IN  CASE key = "none" -> e
          [] key = "insert" -> PredictInsert(e, ch, at, painted, last)
          [] key = "backspace" -> PredictBackspace(e, at, painted, last)
          [] key \in {"left", "right"} -> PredictCursorKey(e, key, last)
          [] key = "unknown" -> UnknownInput(e)

-----------------------------------------------------------------------------
(* Painting *)

Shown(e) == {at \in DOMAIN e.overlay :
                /\ e.overlay[at].epoch <= e.confirmed_epoch
                /\ e.overlay[at].replacement # Unknown}

\* apply_overlay, which leaves the last column to the server.
Painted ==
    LET cursor == IF engine.cursors = <<>> THEN [epoch |-> 0, at |-> remote.cursor]
                                           ELSE Last(engine.cursors)
    IN  [size |-> remote.size,
         cells |-> [at \in DOMAIN remote.cells |->
                       IF at \in Shown(engine) /\ at[2] + 1 < remote.size[2]
                       THEN engine.overlay[at].replacement ELSE remote.cells[at]],
         cursor |-> IF /\ cursor.epoch <= engine.confirmed_epoch
                       /\ cursor.at \in Positions(remote.size)
                    THEN cursor.at ELSE remote.cursor]

-----------------------------------------------------------------------------
(* Validation *)

\* The server's answer is awaited one frame longer.
AnsweredLater(e, frame) == e.late_acked > frame

Answered(e, frame) == e.late_acked >= frame

\* ConditionalOverlayCell::get_validity
CellValidity(e, at, actual) ==
    LET cell == e.overlay[at]
    IN  IF e.last_size[1] = 0 \/ at[2] >= e.last_size[2] THEN "IncorrectOrExpired"
        ELSE IF ~Answered(e, cell.frame) THEN "Pending"
        ELSE IF cell.replacement = Unknown THEN "CorrectNoCredit"
        ELSE IF actual # cell.replacement THEN "IncorrectOrExpired"
        ELSE IF actual = Blank \/ actual \in cell.original THEN "CorrectNoCredit"
        ELSE "Correct"

\* ConditionalCursorMove::get_validity
CursorValidity(e, cursor, actual) ==
    IF cursor.at \notin Positions(e.last_size) THEN "IncorrectOrExpired"
    ELSE IF ~Answered(e, cursor.frame) THEN "Pending"
    ELSE IF actual = cursor.at THEN "Correct"
    ELSE "IncorrectOrExpired"

Verdict(e, screen, at) == CellValidity(e, at, CellAt(screen, at))

Judged(e, screen, verdict) ==
    {at \in DOMAIN e.overlay : Verdict(e, screen, at) = verdict}

Wrong(e, screen) ==
    \/ Judged(e, screen, "IncorrectOrExpired") # {}
    \/ /\ e.cursors # <<>>
       /\ CursorValidity(e, Last(e.cursors), screen.cursor) = "IncorrectOrExpired"

\* The cursors awaited among the first n.
AndIfAwaited(e, screen, kept, cursor) ==
    IF CursorValidity(e, cursor, screen.cursor) = "Pending" THEN Append(kept, cursor) ELSE kept

Awaited(e, screen, n) ==
    LET kept[i \in 0 .. n] ==
            IF i = 0 THEN <<>> ELSE AndIfAwaited(e, screen, kept[i - 1], e.cursors[i])
    IN  kept[n]

Validated(e, screen) ==
    LET credited == Judged(e, screen, "Correct")
    IN  [e EXCEPT
            !.confirmed_epoch = Max({@} \cup {e.overlay[at].epoch : at \in credited}),
            !.overlay = Restrict(@, Judged(e, screen, "Pending")),
            !.cursors = Awaited(e, screen, Len(@)),
            !.fooled = @ \/ \E at \in credited : e.overlay[at].blind]

ValidatePredictions(e, screen) ==
    IF Wrong(e, screen) THEN Reset(Validated(e, screen)) ELSE Validated(e, screen)

-----------------------------------------------------------------------------
(* The client *)

Init ==
    /\ engine = NewEngine
    /\ remote = BlankScreen(Window)
    /\ sent = 0 /\ inputs = 0 /\ empty = 0
    /\ queue = <<>>
    /\ server = [size |-> Window, cells |-> BlankScreen(Window).cells, cursor |-> <<0, 0>>,
                 echo |-> TRUE, input |-> "Ground", plain |-> TRUE, pasted |-> FALSE]
    /\ taken = {0} /\ echoAck = 0

Item(bytes, size) == [frame |-> sent + 1, bytes |-> bytes, size |-> size]

\* The position comes from the predicted cursor, or else from the screen.
UserByte(e, ch, blind) ==
    IF e.panicked THEN e
    ELSE NewUserByte([e EXCEPT !.blind = blind], ch,
                     IF e.cursors = <<>> THEN Painted.cursor ELSE Last(e.cursors).at,
                     Painted, sent)

\* The application will not echo the i-th of the bytes.
Blind(bytes, i) == ~Edited(Intended, bytes, i - 1).echo

\* The engine after the first n of the bytes.
Predicted(bytes, n) ==
    LET after[i \in 0 .. n] ==
            IF i = 0 THEN engine
            ELSE UserByte(after[i - 1], bytes[i], Blind(bytes, i))
    IN  after[n]

\* handle_term_event for Input: a paste is not predicted.
TypeChunk(bytes) ==
    /\ ~engine.panicked /\ inputs < MAX_INPUTS
    /\ engine' = IF Len(bytes) > PASTE_THRESHOLD THEN Reset(engine)
                 ELSE Predicted(bytes, Len(bytes))
    /\ queue' = Append(queue, Item(bytes, <<>>))
    /\ inputs' = inputs + 1
    /\ UNCHANGED <<remote, sent, empty, server, taken, echoAck>>

\* handle_term_event for Resize
ResizeWindow(size) ==
    /\ ~engine.panicked /\ inputs < MAX_INPUTS
    /\ size # Intended.size
    /\ engine' = Reset(engine)
    /\ queue' = Append(queue, Item(<<>>, size))
    /\ inputs' = inputs + 1
    /\ UNCHANGED <<remote, sent, empty, server, taken, echoAck>>

\* The transport sends the current state under the next number.
Tick ==
    /\ ~engine.panicked
    /\ IF \E i \in DOMAIN queue : queue[i].frame > sent THEN UNCHANGED empty
       ELSE empty < MAX_EMPTY /\ empty' = empty + 1
    /\ sent' = sent + 1
    /\ UNCHANGED <<engine, remote, inputs, queue, server, taken, echoAck>>

\* The client hears from the server.
Receive ==
    /\ ~engine.panicked
    /\ remote' = [size |-> server.size, cells |-> server.cells, cursor |-> server.cursor]
    /\ engine' = ValidatePredictions([engine EXCEPT !.late_acked = echoAck], remote')
    /\ UNCHANGED <<sent, inputs, empty, queue, server, taken, echoAck>>

(* The server *)

\* State num arrives, and the application takes the input in it.
ServerTakes(num) ==
    /\ \A t \in taken : num > t
    /\ \E n \in 0 .. Len(queue) :
          /\ \A i \in DOMAIN queue : i <= n <=> queue[i].frame <= num
          /\ server' = Taking(server, queue, n)
          /\ queue' = SubSeq(queue, n + 1, Len(queue))
    /\ taken' = taken \cup {num}
    /\ UNCHANGED <<engine, remote, sent, inputs, empty, echoAck>>

\* A state taken ECHO_TIMEOUT_MS ago is one whose echo is on the screen.
SetEchoAck(num) ==
    /\ num \in taken /\ num > echoAck
    /\ echoAck' = num
    /\ taken' = {t \in taken : t >= num}
    /\ UNCHANGED <<engine, remote, sent, inputs, empty, queue, server>>

Next ==
    \/ \E bytes \in Chunks : TypeChunk(bytes)
    \/ \E size \in Sizes : ResizeWindow(size)
    \/ Tick
    \/ Receive
    \/ \E num \in 1 .. sent : ServerTakes(num)
    \/ \E num \in taken : SetEchoAck(num)

Spec == Init /\ [][Next]_vars

-----------------------------------------------------------------------------
(* Properties *)

Character == Printable \cup {Unknown}

\* The types of the variables; a state's number is not reused.
TypeOK ==
    /\ DOMAIN engine.overlay \subseteq Nat \X Nat
    /\ \A at \in DOMAIN engine.overlay :
          engine.overlay[at] \in [replacement : Character, original : SUBSET Printable,
                                  epoch : Nat, frame : Nat, blind : BOOLEAN]
    /\ engine.cursors \in Seq([at : Nat \X Nat, epoch : Nat, frame : Nat])
    /\ engine.confirmed_epoch \in 0 .. engine.prediction_epoch
    /\ engine.input_state \in {"Ground", "Escape", "Csi", "Ss3"}
    /\ remote.size \in Sizes
    /\ remote.cells \in [Positions(remote.size) -> Printable]
    /\ remote.cursor \in Nat \X Nat
    /\ taken \subseteq 0 .. sent /\ echoAck \in taken

\* What is predicted is still unanswered: once the server has echoed an input,
\* no prediction made for it is left to be painted over the server's screen.
OnlyUnanswered ==
    /\ \A at \in DOMAIN engine.overlay : engine.overlay[at].frame > engine.late_acked
    /\ \A i \in DOMAIN engine.cursors : engine.cursors[i].frame > engine.late_acked

\* As long as only text, backspaces and arrows are typed, every predicted
\* character and the predicted cursor are what the server will show when it has
\* taken all input, whatever part of it the frames received so far contain.
ComesTrue == Intended.plain =>
    /\ \A at \in DOMAIN engine.overlay :
          engine.overlay[at].replacement \in {Unknown, Intended.cells[at]}
    /\ engine.cursors # <<>> => Last(engine.cursors).at = Intended.cursor

\* Nothing typed while the application does not echo is shown, however far ahead
\* of the prompt, unless a character of it comes out where it was predicted.
PromptHidden == ~Intended.pasted /\ ~engine.fooled =>
    \A at \in Shown(engine) : ~engine.overlay[at].blind

\* new_user_byte is given a position on the screen it is given.
CursorOnScreen == ~engine.panicked
=============================================================================
