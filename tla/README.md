# TLA+ models of morsh

morsh is a remote shell in the style of mosh: a client and a server keep two
states in step over UDP, the user's input in one direction and the server's
terminal in the other.  This directory models the parts of it where the order
of events matters, checks them with TLC on small instances, and proves the
central results with TLAPS for every value of the constants.

## The system and its parts

| part | state | operations | talks to |
|---|---|---|---|
| `TransportSender` (`morsh-network/transport.rs`) | `current_state`, `sent_states` (floor to newest), the assumed receiver state, send and ack deadlines, shutdown flag and tries | `current_state_mut`, `tick`, `process_acknowledgment_through`, `start_shutdown` | its `Transport` |
| `Transport` (`transport.rs`) | `received_states`, the quench timer, `last_receiver_state` | `recv`, `get_remote_diff`, `tick` | the peer's `Transport`, through `Connection` |
| `Fragmenter`, `FragmentAssembly` (`fragment.rs`) | the id and content of the last instruction; the one instruction under assembly | `make_fragments`, `add_fragment` | `Connection` |
| `Connection`, `RttEstimator` (`connection.rs`, `rtt.rs`) | sockets, peer address, sequence numbers, saved timestamp, smoothed round trip | `send`, `process_incoming`, `hop_port` | the network |
| `UserStream` (`morsh-statesync/user_stream.rs`) | a queue of keys and resizes | push, diff, apply, `subtract` | both loops |
| `Complete` (`complete.rs`) | a terminal, the echo ack and the frames it is computed from | `act`, diff, apply, `register_input_frame`, `set_echo_ack` | both loops |
| server loop (`morsh-server/server.rs`) | `last_remote_num`, the pty | `wait_for_client`, `handle_pty_event`, `handle_client_input`, `housekeeping` | transport, pty |
| pty reader (`pty.rs`) | a bounded channel, a thread blocked in `read` | forwards output, then the exit | server loop |
| client loop (`morsh-client/main.rs`, `frame.rs`) | what is on the screen, predictions, notifications | paint, select, the exits, tick | transport, terminal |
| keyboard reader, window task (`morsh-client/input.rs`) | a bounded channel; the escape filter, half a surrogate pair | read, `feed`, `publish`; SIGWINCH | client loop |
| notifications (`morsh-prediction/notification.rs`) | a message and its kind | set, show and hide help, network error | client loop |
| prediction (`morsh-prediction`) | overlay cells, cursor, epochs, display triggers | `new_user_byte`, `validate_predictions`, `reset` | client loop |
| display diff, snapshots, emulator (`morsh-terminal`) | a screen | `DisplayDiff::diff` | `Complete`, client loop |
| crypto, wrapper, ssh, command lines, protobuf, logging | none that lasts, or sequential set-up | | |

What is hard in it: datagrams are lost, repeated and reordered while both ends
cull and trim their histories on their own; state numbers, acknowledgments and
the shutdown number have to keep their meaning throughout; a shutdown may
begin at either end, or both, at any moment; the two loops, the reader threads
of both sides, the window task and two outside actors (user, shell)
interleave; what is on a screen is tracked, never read back; time-outs race
late answers.  `PROJECT.json` lists these hazards
with the line each of them is about and the properties that watch it.

## Modules

| module | models | uses |
|---|---|---|
| `Sync` | what one direction of the protocol promises (abstract) | |
| `Ssp` | `Transport` and `TransportSender`, two of them and a network | `Sync` (as a refinement) |
| `UserStream`, `Complete` | the two synchronized states: diff, apply, subtract | |
| `MCSsp` | `Ssp` with those states | `Ssp`, `UserStream`, `Complete` |
| `Fragment`, `MCFragment` | `Fragmenter` and `FragmentAssembly` | |
| `Session` | both event loops, the shell, its pty and the reader thread | what `Sync` promises, as its transport |
| `Connection`, `MCConnection` | the datagram layer: sequence numbers, roaming, port hopping, round-trip estimate | |
| `Prediction`, `MCPrediction` | the prediction engine, its feeding and painting, opposite a line editor | |
| `Display`, `MCDisplay` | `DisplayDiff` and `output_new_frame`, opposite a terminal that executes their output | |
| `Keyboard`, `MCKeyboard` | the reader thread, the escape filter, the window task, their channel and the loop's end of it, notifications | |
| `Ssp_proofs`, `Fragment_proofs`, `Connection_proofs`, `Session_proofs`, `Prediction_proofs`, `Keyboard_proofs`, `Display_proofs` | theorems | |
| `DataFacts` | lemmas on naturals, on induction and recursion over them, on joined sequences | |

Definitions carry the names of the Rust functions they model; `map` in
`PROJECT.json` gives the lines of each.

### Ssp

Each endpoint has `cur` (`current_state`), `sent` (`sent_states`, as a function
from number to state), `received`, `ackNum`, `lastReceiver` and so on; `net`
holds the datagrams in flight.  A datagram stays in `net` however often it is
delivered (duplication, reordering); any of those in flight may vanish when the
next one is sent (loss).  The actions are `Change` (`current_state_mut`),
`StartShutdown`, `CalculateTimers` (which trims, and is also run by
`wait_time_ms`), `Tick` with the functions it calls, `ProcessInstruction` with
one action for each outcome, and `GetRemoteDiff`.  `Tick` includes
`rationalize_states`, as the code's does.

Abstractions:

* Time.  Whether a send or an ack is due, whether a sent state is recent enough
  to be assumed received, and whether the quench timer still runs are choices.
  The timestamps in `sent_states` never decrease, so the walk of
  `update_assumed_receiver_state` ends at the floor or at the newest state;
  `DiffBase` allows both.  `assumed_receiver_state` is recomputed at the start
  of every tick and so is no variable.
* The state type.  `Ssp` is generic in it, as `trait State` is, and assumes the
  laws `TrimLaws` and `DiffLaws` (the round trip of `state.rs`, also for states
  whose common prefix was trimmed on one side only).  TLC evaluates the laws on
  the states of `MCSsp`, which come from `UserStream` and `Complete`.
* Entries of `sent_states` that share `SHUTDOWN_NUM` stand for one state;
  `copies` counts them, because they count towards the limit of the history.
* Errors that only a peer of another version or a corrupt diff could cause are
  left out: an authenticated peer does not send them.
* Both ends start from the same state 0.  The program's callers do not quite
  ensure that: see the first finding.

The history variables `whole`, `meant`, `trimSent`, `trimReceived` and `view`
record the untrimmed state, what each number was given to, what has been
trimmed, and what the application obtains from the diffs it was handed.

### UserStream and Complete

`UserStream` groups keystrokes as `encode_diff_from` does and takes them apart
again, with the common prefix found by comparison.  `Complete` carries echo ack,
size and screen; its diff is the list of host instructions in the order the
code emits them, and applying a byte string to a terminal of the wrong size
does not give the intended screen, so the order of resize and bytes matters.
That the display update leads from one screen to the other is assumed here;
`Display` is about exactly that.

### Fragment

The wire keeps every fragment sent, in any order and any number of times.  An
instruction is its numbering, ack, chaff and diff; compression is a
deterministic encoding, so that pieces of one encoding, all of them, decode to
it and no other set of pieces does.  That equal numbering implies an equal diff
is an assumption here (`SameNumbersSameDiff`), as it is in the comment on
`is_new_instruction`; `NetInv` of `Ssp` is the reason it holds.

### Session

One action per stretch of each loop between two points where another actor can
interfere: paint and select, the exits, tick; select, `handle_client_input`,
`housekeeping`, tick.  The transport appears as `Sync` describes it: a numbered
state reaches the peer or does not, later ones supersede earlier ones, acks may
be late.  A client state is the length of a prefix of the event stream, a
server state is a terminal (how much output it shows, its size, its echo ack).
`shutdown_ack_timed_out` is a choice once a shutdown is under way, and so are
the ages of the input frames in `set_echo_ack`: it forgets any set of earliest
ones.  `ptyLog` records, event by event, what went to the pty; of several resizes
handled together the code applies the last, and `Skipped` stands in the place of
the others, so that an entry's place in the log is its event's place in the
stream.  A write to the pty is taken not to block.  The Windows build's exit watcher is not modelled.

### Connection

Time passes in steps of a scaled-down millisecond (`TimePasses`), in which
every datagram in flight grows older; beyond `MAX_DELAY` it is lost.  `Send` is
one fragment of `Connection::send`, `ProcessIncoming` the whole of
`process_incoming` with the part of `Transport::recv` that reports a successful
round trip, `HopPort` the hop with its pruning, `ClientMoves` the outside event
of roaming.  Sockets are named by their port.  Timestamps are taken modulo
`TS_MOD`, with the value for "none" avoided as `timestamp16` does, and the two
clocks differ by `CLOCK_SKEW`.  When the acknowledged state was sent is
`Ssp`'s business, so `sinceSuccess` moves back by choice.  History: `newest` is
the datagram latest in the order of sending that the server has got, `trip` and
`since` in a datagram remember how long the echoed one travelled and when the
client last used the address, `sample` and `extremes` keep what was measured
beside what should have been.

### Prediction

`engine` is the `PredictionEngine`, of which only active cells and cursors are
kept: an inactive one is never read.  `NewUserByte`, `PredictInsert`,
`PredictBackspace`, `PredictCursorKey`, `NewlineCarriageReturn`, `Reset` and
`ValidatePredictions` are the functions of `prediction.rs`; `TypeChunk` and
`ResizeWindow` are the two cases of `handle_term_event`, `Painted` is
`apply_overlay`.  The other end is an application that the repository does not
contain, modelled as the line editor the engine is written for; it is marked
external.  `ServerTakes` and `SetEchoAck` are the server's side of
`register_input_frame` and `set_echo_ack`.  A frame takes effect when the client
receives it: that the server has moved on by then is the same as its having
been slower.  The display preference is Always: the triggers of the adaptive one
only decide whether predictions are displayed, never what is predicted or when
it is judged.  Not modelled: these triggers, underlining, and
`predict_overwrite`, which the client never sets.  The loops over the bytes of a
chunk (`Predicted`, `Edited`), the items of a state (`Taking`) and the cursors
(`Awaited`) are recursive functions; what a key predicts is a function from
positions to cells (`Inserted`, `Deleted`, `BlankLine`) that goes over the overlay
(`With`).  History, which nothing of the engine depends on: `blind` marks what was
typed while the application did not echo, `fooled` that a prediction of that kind
has been confirmed, `plain` that all input is text, backspaces and arrows in one
window and that no line scrolls off unless the window has one row, `pasted` that the application got text the
engine did not.

### Display

`Diff`, `FullRedraw`, `StateChanges`, `DetectScroll`, `EmitScroll`, `ShiftRows`
and `DiffRow` return the control sequences that the functions of `display.rs`
append to their buffer, as a sequence of tuples; a style is a set of
attributes, a glyph has one column or two.  `Output` is the envelope that
`output_new_frame` puts around a drawing frame, `ApplyOverlay` the folding-in of
predicted cells.  The predicted cursor, which `apply_overlay` puts in the place of
the frame's, is left out: frames have their cursors on any cell, so that painting
one covers it.  `Execute` is the terminal, which is external: cursor, pen, pending
wrap, scrolling region, modes that exclude one another, double-width glyphs that
vanish when half of them is overwritten; `Executed` is the terminal after a whole
output.  `FramesAssumption` says what a `ScreenSnapshot` is: rows of one length,
the cursor on one of the cells, no text in the second half of a glyph or in a
column left free before one.  `Snapshot` reads the terminal back with the
canonical blanks of `MoshTerminal::snapshot`.  So `FrameShown` compares two
independent things: the frame the client believes to be on the screen, and what
a terminal shows that has executed every sequence since the start.  They agree
in every cell but for the style of a column left free (see Findings).

What a terminal makes of its content when the window is resized differs from one
to the next; here every cell becomes `Debris`, which no frame contains, so that
a cell must be repainted to be right again.  History: `drawn` says that a frame
has changed the rows, `resized` and `misshapen` that since the last full redraw
the window changed or a prediction tore a double-width glyph; `FrameShown` is
stated outside these two cases, which are described under Findings.  `Late` only
bounds the frames painted around them.

### Keyboard

`Read` is one turn of the reader thread on either platform: it takes any part of
what is left of `typed`, decodes it (`Utf16ToUtf8`, Windows), feeds the escape
filter and puts the events into `outbox`, from which `ReaderSends` moves them
into the channel one at a time.  `TaskWakes` and `TaskSends` are the task that
waits for SIGWINCH (Unix), `AskSize` its counterpart in the Windows reader.
`ClientTakes` is `handle_term_event` with the discarding of events during a
shutdown, `NetworkFails` and `ClientExits` are the other places where the loop
touches its notifications.  All text is chosen in the initial state; that a read
leaves some of it stands for its not having been typed yet.  The model starts when
the client has read the window's size and listens for its changes; `WindowKnown`
says nothing of a change between the two (see Findings).

The reference is `Meant`: what the whole text stands for, found by position
without any state that is carried from byte to byte or from read to read.
`TextOf` pairs surrogates by looking at neighbours, `Escapes` says which bytes
begin an escape sequence: the set of places that hold the escape key, follow a
line's end where the key needs one, and are not second keys themselves.  `Fed` and `Encoded` are recursive
functions of the position in the input.

## Runs

| run | question | result |
|---|---|---|
| `ssp_input` | Does all input reach the server once, in order, whatever the network does, with the histories at their limits? | holds; the inductive invariant of the proofs, the history bound, `NeverBack` and the refinement of `Sync` too |
| `ssp_live` | Does the client only show screens the server published, forwards, across a resize and up to the shutdown state?  While neither end shuts down, do both converge over a lossy but fair network, also on a screen that returns to an acknowledged one? | holds |
| `fragment` | Are interleaved, repeated, reordered fragments put together to what was sent, as soon as they are complete? | holds |
| `connection` | Does the server follow the client through networks and ports, never back to an old one?  Do answers find an open socket?  Are round trips measured right wherever the clocks are in their cycle, and does the estimate stay among the measurements? | holds |
| `session_input` | Has acknowledged input been written to the pty, in order, at the size it was typed at?  Does the echo ack only grow? | holds |
| `session_end` | Is the last state fixed, and painted by a client that leaves at the server's word?  Do both loops end after a quit or the shell's exit, even on a dead network? | holds |
| `prediction` | Does every prediction come true, whatever part of the input the frames received contain?  Is what is typed into a prompt without echo kept off the screen, and is no prediction left once its input was echoed, with pastes and resizes? | holds |
| `display` | Does the user's terminal show the frame the client believes it shows, with styles, wide glyphs, scrolling, modes and cursor, from whichever frames it came?  Does an unchanged frame write nothing? | holds |
| `keyboard` | Do the keys published stand for the text typed, however reads cut it up and whatever the escape key is?  Do help and window size follow?  Is everything read taken, with the channel full and during a shutdown? | holds |
| `session_window`, `session_final`, `prediction_resize` | Does the program do what three of its comments say? | violated, see Findings |

### Bounds

`ssp_input`: two user events, each a key or a resize, three client numbers, a
history of three (`SENT_STATES_KEEP` 3, the least at which the victim is neither
the floor nor one of the two newest) and a receive queue that quenches at one state; two
datagrams to the server and one back in flight.  That is enough for a diff from
either base, a culled reference, an out-of-order state, a full history on both
sides and a shutdown by the client.  `ssp_live` looks at the other direction: two
numbers beside the shutdown number for the server, two screens of different sizes
between which it goes back and forth, two datagrams to the client and one back in
flight.  The second number is what brings the screen back to the acknowledged
one after another was sent (number 1, perhaps painted, perhaps lost): the diff from
the floor is then empty, and number 2 is an empty ack.  The client has one key to
send, in its state 1, the first that the server hears of.  The server may shut
down at any moment, unless the key was typed (`InputOrShutdown`); input and a shutdown
together are in `ssp_input`, and `Converges` says nothing of behaviours with a
shutdown.
`MAX_NUM` bounds the numbers; when they run out an empty ack repeats the last number.
`fragment`: three instructions, of which two differ only in their ack, two
payload sizes (one to four fragments) and four ids.
`connection`: a cycle of five for the timestamps with every phase of the clocks,
datagrams up to one millisecond late, timestamps held up to two, so that a trip and its
answer cross the wrap and the value for none; two networks, three ports of which
two stay open, two datagrams each way.  Networks and ports are interchangeable
(`MCSymmetry`).  `SampleTrue` states its premise: delivery within half the cycle.
`prediction`: three inputs and one frame without news, a window of two rows and
four columns that may become two wide and back, so that the last column, the wrap
and the last row are all reached; an arrow key may come in two parts; three bytes
are the limit beyond which input is a paste.  `PromptHidden` is stated for all
input but pastes, which the engine does not decode, so that it no longer knows
what the next byte means; and it makes one exception.
Keys typed ahead of a prompt are predicted at positions that are no longer the
cursor's.  If the application happens to put the same character where one of them
was predicted, the epoch earns credit and the rest of it is shown.  It takes more
input than this run has: on a screen of two rows and three columns, with `a` and
Enter only, at most eight inputs lead there.
`display`: every frame of three lines of one column (two letters, one of them with
a background, and blanks), every line of three columns over narrow and wide
glyphs in three styles, and one line under thirteen settings of modes, title and
cursor; each is painted over each other one of the same size, and a change of
size or a torn glyph happens around four of them.  Scrolls by one and two lines,
at the bottom and above it, glyphs at either margin and the column left free for
one are among them.
`keyboard`: three keys, after a line's end where the escape key is printable, for
five settings of the escape key; on Windows surrogates in every order around the
escape key.  Reads return up to three units, the channel holds one event, so that
reader and task block on it; two changes of the window's size, one network error.
`session_*`: two user events or a chunk of output, a channel of one, one
datagram in flight each way, one unacknowledged state.  All interleavings of the
loops remain; the bounds limit how often each of them has news.

### Fairness

`Ssp`: `next_ack_time` is always a point in time, so an endpoint in its loop ticks
again and again, and once the newest state is older than the retransmission
horizon the tick diffs from the floor: `WF(TickFromFloor)`.  The server's loop hands
out diffs: `WF(GetRemoteDiff)`.  The network is fair, no more: if datagrams with a
newer state keep being in flight one of them arrives (`SF(RecvNewState)`).  Nothing
is assumed of datagrams that bring only an ack.
The loops do not go on for ever in every case, and `Converges` is stated for those in
which they do; that the pty takes what is written to it is assumed throughout.  Both ends have heard of each other: otherwise the client gives up
after 15 seconds (`CONNECT_TIMEOUT`) and the server after 60 (`wait_for_client`, which
does not tick either).  And neither shuts down: that ends after sixteen tries or ten
seconds, and the other end leaves when it has sent one ack of the last state, which may be lost.
So the code does not promise that a shutdown is acknowledged, and no property says
so.  What it promises is in `session_end`, that both loops end, and in `FloorHeld`
with `FinalStateComplete`, that an acknowledged shutdown has left the peer with
everything.
`Session`: the loops go round (`WF`), the ten seconds or sixteen tries of a
shutdown run out (`SF` of the exits), ticks send again and again (`SF`).  Nothing
is assumed of the network, the user or the shell.
`Keyboard`: what has been typed is read, the signal wakes its task and `select!`
polls the channel in every round of the loop (`WF`); a channel of tokio admits
those who wait for a place in the order they came, so neither of the two senders
is passed over for ever (`SF` of both sends).

## Theorems

`Ssp_proofs` (for every state type that satisfies the
laws, every number of states, history bound and network):

* `Invariance`: `Inv` is inductive.  It is the conjunction of `TypeOK`,
  `HistoryTypeOK` and, for each direction, `MeantInv` (numbers are given to ever
  larger states, the shutdown number to the whole one, for good), `SentInv`
  (everything the sender holds has the same prefix trimmed), `NetInv` (a diff in
  flight leads from what its old number means to what its new number means,
  culls nothing it refers to, and acknowledges a state that is still held or an
  ack already stale) and `ReceivedInv` (likewise for the receiver, which still
  holds the sender's floor).  `Agreement` alone is not inductive: without
  `NetInv` an old datagram could carry anything, and without the floor in
  `ReceivedInv` a late `throwaway_num` could cull a reference still in use.
* `TypeCorrect`, `AgreementHolds`, `FloorIsHeld`, `HandedOut`, `FinalState` and
  `NeverGoesBack` follow from it.
* `BoundHolds`: the sender's history never exceeds `SENT_STATES_MAX`, copies of
  the shutdown state counted.  It is inductive beside `Inv`: when an entry too
  many is added, the entry at a fixed rank from the newest end is dropped, and `RankExists`
  shows that there always is one, a state in the middle or one of the copies.
* `SpecImplementsInput`, `SpecImplementsScreen`: each direction implements
  `Sync`, with the numbers' meaning as what is published and what the
  application has as what is observed.

`Fragment_proofs` (for any instructions, payloads and fragment counts):
`Invariance`, `GenuineAlways`, `NeverSits`; the invariant says that wire and
slots hold pieces of what their id stands for and that `fragments_arrived` and
`fragments_total` count them.

`Connection_proofs` (for every clock cycle, limit, number of networks and ports,
whatever the bounds on delay and on datagrams in flight):

* `TypeCorrect`: among the rest, the client always has between one and
  `MAX_PORTS_OPEN` sockets.
* `Attached`: the server's peer address is the one the latest datagram came
  from, latest in the order of sending.  The induction needs `AttachInv`, which ties
  `expected_receiver_seq` to the greatest number that arrived: an address is
  only taken with a number above all before it.
* `AnswerFinds`: an answer that arrives within `MAX_PORTS_OPEN - 1` hop intervals
  finds its socket open.  `SocketInv` carries, for the port of every datagram and
  the one the server answers to, how many hops ago it was the newest and that as
  many intervals have passed since.
* `MeasurementsTrue`: a measured round trip is the time the two datagrams were
  under way, to within a millisecond, wherever the clocks are in their cycle.
  `SampleInv` says of every timestamp in flight or saved what it is modulo the cycle,
  given the time since it was made; the one that stands for none is the
  exception, and the source of the millisecond.
* `EstimateSound`: the smoothed round trip and the deviation stay within the
  extremes of the measurements, for any number of them; `UpdateWithin` is the
  lemma on the integer divisions of `RttEstimator::update`, and the invariant
  adds that the extremes are in order once there is a sample.

`Session_proofs` (for any number of events, chunks of output and places in the
channel, under `SessionAssumption`):

* `Invariance`: `Inv` is `TypeOK`, `TransportInv` (a number in flight is
  published or past; the shutdown number means the current state, for good),
  `ClientInv` (numbered states are ever longer prefixes of the stream; the ack of
  the last state goes out with that state painted), `ServerInv` (nothing is acknowledged
  that was not handled), `LogInv` (entry for entry the pty's log is the stream, from
  the event the shell was spawned at to the state last handled) and `ShellInv`.
* `AckedWritten` needs `LogInv` and `ServerInv` together: an ack is never ahead of
  `seen`, and the log reaches `seen`.  `FinalFrame` needs `ClientInv`,
  `FinalFixed` `TransportInv`.  `TypeCorrect` and `EchoGrows` complete them.

`Prediction_proofs` (for every set of chunks, any window sizes, any number of inputs,
with or without prompts, whatever the delays):

* `Invariance`: `Inv` has four parts.  `TypeInv` holds the types and `Sound`: every
  prediction is for input past the echo ack, and of two epochs the later is for
  later input.  `QueueInv` has the input on its way in the order of its states.
  `HiddenInv` (unless something was pasted): engine and application have decoded
  alike, the predictions of an epoch were all made while the application echoed or
  all while it did not, and no epoch of the second kind is confirmed unless `fooled`.
  `TrueInv` (while all input is plain): the engine `Mirrors` the application as it will be
  when it has taken all input, and `Footprint`: wherever input on its way changes the
  screen there is a prediction for that input or for later.
* `Footprint` is what makes it inductive.  That predictions are true does not survive a
  frame: the frame may be older than the predictions, contain part of the input they were
  made for, and answer part of what it contains.  What is judged and dropped was for
  input up to the echo ack; `Footprint` says that no later input touches such a position, so the
  frame shows there what the prediction had said (`ForgetsMirrors`), and nothing is
  found wrong.  A key keeps it because whatever it changes of the screen it
  predicts anew for the newest state (`Advances`).
* The core is one lemma per key (`InsertWithin`, `BackspaceWithin`, `CursorWithin`,
  `InsertWrapping`): what `predict_insert` and its like predict from overlay and painted screen is
  what the editor makes of its line.  Bytes, chunks and items follow by induction.
* `PredictionsComeTrue` (`ComesTrue`), `Unanswered` (`OnlyUnanswered`), `PromptNotShown`
  (`PromptHidden`) and `TypeCorrect` follow.  `OnlyAfterResize` complements finding 3:
  while the window stays and only text, backspaces and arrows are typed, the
  engine is given positions on the screen only and does not panic.

`Keyboard_proofs` (for every text, every setting of the escape key and every way the
reads cut the text up):

* `Invariance`: `KeysInv` (what was pushed and what is on its way in channel and
  outbox is what the text read so far stands for; the filter is where that text
  leaves it, and so is the converter of surrogates), `HelpInv` (the last word about the help on
  its way, or the notification, agrees with the filter), `SizeInv` (likewise for the
  window's size, with the report the task still holds), `NoteRight` and
  `Reporters` (only one thread ever reports sizes).
* `KeysAreTrue`, `HelpTrue`, `WindowTrue` and `TypeCorrect` follow.  The core is
  a set of lemmas that one more byte, and one more unit, change `Fed`,
  `Escapes`, `Meant` and `TextOf` in step; that of a chunk follows by induction.

`Display_proofs` (for any frames, predictions and window sizes, under
`FramesAssumption`):

* The control sequences are classified by what they leave alone: those that draw
  change no mode, no title and no region; the resets of a group no other mode.  Runs of
  them are followed by induction (`QuietRun`), which gives what a terminal is left
  with by the parts of an output: `StateChangesEffect`, `FullRedrawEffect`,
  `ScrollEffect`, `SameSizeEffect`, `DiffEffect`, `OutputEffect`.
* `Invariance`: the terminal that executes the outputs has the modes, mouse
  settings, title and scrolling region of the frame shown, whatever became of its
  cells, no synchronized update is open, and once a frame has drawn something so has
  the cursor its visibility.  The last is why `output_new_frame` shows the cursor again: `diff` writes
  nothing about a visibility that has not changed.
* `ModesRight`, `CursorRight` and `SilentWhenIdle` follow; the latter from
  `ScrollFacts` (no scroll is detected between equal screens) and `DiffRowsDraw`
  (a diff of rows is empty exactly if no row changed).
* `ShowsTheFrame` (`FrameShown`): emulator and `diff` are followed together, column by
  column.  `DiffInv` says of the terminal after any pass of the loop over a row's columns
  that what is left of the column is `Rendered` as the new frame has it, what is right of it
  still as the old one had it, that the emulator's pen is the one `diff` believes in and
  that, where `diff` writes without moving first, the cursor is on the column and no wrap
  is pending; `RedrawInv` is its counterpart in `full_redraw`.  A row that is done makes
  `RowDone`, the rows a `Screen`.  When `detect_scroll` has found a shift, `Shifted` says
  what the scrolled terminal has in each row, and `ScrollFound` that the rows the diff
  then starts from are those.
* `ScreenInvariance` is the invariant behind it: the terminal is a grid and the frame
  another; they are of one size unless the window was resized, the frame's glyphs fit
  its rows unless a prediction tore one, and outside these two cases the terminal
  `Displays` the frame.  A column left free before a wide glyph is the one place where
  `Rendered` admits more than one content; that it must, was a counterexample (see Findings).

Where a proof follows data of any length (bytes, units, events, control
sequences) it takes `SetInduction` of `DataFacts`, which is induction stated over sets
of naturals, and `RecursionExists` for the functions that are defined by recursion; no
theorem with an operator parameter is needed.  The proofs use the named
assumptions of the modules and nothing else.

Only model-checked:

* what is temporal beyond safety (`Converges`, `ClientLeaves`,
  `ServerLeaves`, `AllTaken`);
* that `UserStream` and `Complete` satisfy the laws `Ssp` assumes (on the bounded
  instances of `MCSsp`).

## Findings

1. `session_window`: `main` of the client pushes the window size into the
   `UserStream` before the transport exists.  It is thus part of state 0, which
   no diff contains; the server spawns the shell at 80x24 and keeps that size
   until the user resizes the window.
2. `session_final`: `housekeeping` starts the shutdown as soon as `try_wait`
   reports the exit.  Output of the shell that is then still unread, or queued
   in the channel, is dropped by `handle_pty_event`, so the final screen lacks
   it.
3. `prediction_resize`: a key typed after a resize, before the frame of the new
   size, leaves a cursor predicted for the old width.  The key after that frame
   is predicted at that position on the narrower screen, and `predict_insert`
   indexes past the end of the row.

Met while modelling, without a run of their own:

* `wait_for_client` consumes the diff of the first state and looks at its
  resizes only.  Keys typed before that state was sent are lost, though later
  ones arrive; `AckedInputWritten` is stated for the latter.
* The tries of a shutdown (`transport.rs:145`).  During a shutdown something goes
  out every send interval (half the smoothed round trip, 20 to 250 ms) and each
  packet is one of sixteen tries, but the diff itself is repeated only once the
  horizon, the retransmission time-out (50 to 1000 ms) and 100 ms, has passed;
  until then the packets are empty.  With a round trip of 50 ms that deviates by 25 the
  interval is 25 ms and the horizon 250 ms, so a lost final diff is repeated
  after some ten packets.  With a short but erratic round trip (interval
  20 ms, time-out 1000 ms) the sixteen tries last 320 ms, and an endpoint can
  give up before it has repeated the diff, unless that is small enough to be sent
  from the acknowledged state anyway (`attempt_prospective_resend_optimization`).
* `original_contents` of a predicted cell is said to hold what it had before, so
  that predicting it again earns no credit.  `reset_with_orig` pushes replaced
  predictions only, never what the server had there: typing a character over the
  same one confirms its epoch.  While the application echoes there is no harm in it
  (`PredictionsComeTrue`); at a prompt it is one way to the coincidence that
  `PromptHidden` excepts.
* A double-width glyph that an insertion shifts along is predicted as a narrow
  cell (`frame.rs:52`).  The terminal still gives it two columns, so the rest of
  the row is displaced, and stays so when the server's frame agrees with the
  prediction, since no cell differs then; `frame.rs:13` says that the usual diff
  cleans up.
* Likewise a predicted cell of unknown content is underlined on its own: above a
  wide glyph its style differs from that of the column the glyph covers, from
  which `diff` takes the state of its pen (`display.rs:277`).
* A column left free before a glyph too wide for it equals, as a `CellData`, the
  second half of a glyph.  When the one takes the other's place `diff` finds it
  unchanged (`display.rs:236`), though the terminal has erased it when the first
  half was overwritten: it keeps the style it was erased with, a background say.
  `FrameShown` allows such a column any background.
* A window that is resized and resized back before the next frame leaves
  `local_framebuffer` at its size, so no full redraw follows and what the
  terminal did to the unchanged cells remains.
* A title that becomes empty together with a change of size is not cleared:
  `full_redraw` announces titles that are not empty.
* The client hides the cursor at the start (`main.rs:96`); it appears with the
  first frame that changes a row or the cursor's visibility, not before.
* On leaving, the client restores screen and cursor but not the mouse, paste and
  focus modes that its frames have set (`main.rs:204`).
* The window's size is read before anything listens for its change
  (`main.rs:60`); a change in between is not reported until the next.
* The repository's `README.md:76` says that the escape key typed twice sends it
  literally.  Under the default, Ctrl-^, the second key of that sequence is `^`;
  Ctrl-^ twice sends it twice.
* `wait_time_ms` of the prediction engine wakes the loop every 50 ms for its
  timing tests, but the triggers are only computed anew when a key or a frame
  arrives: on a silent network predictions that wait for a trigger stay hidden.
* `NotificationEngine` sets `message_expiration` but never consults it;
  `clear_network_error` only shortens it, so the message remains.  The client
  never renders it.

## Not modelled, and the plan

Done in this order: `Sync`, `Ssp` with its states, its proofs, `Fragment`,
`Session`, `Connection`, `Prediction`, `Display`, `Keyboard`, and their proofs.  Next:

1. a timed sender (`calculate_timers` with its deadlines, `shutdown_tries`, the
   retransmission horizon), for the hazard that empty packets use up the tries
   of a shutdown;
2. the triggers of the adaptive display preference, on top of `Prediction`;
3. the host-key decisions of the ssh client, as a decision table;
4. proofs of the laws for `UserStream` and `Complete`.

Not modelled within the parts that are: the Windows build's exit watcher of the
pty, and `write_all` to a pty whose buffers are full (the kernel's buffers and
the shell's appetite are outside the repository).

Left out for good: AES-OCB and key encodings (a datagram that does not
authenticate never reaches the modelled code), the wrapper's and the ssh
library's set-up (sequential process I/O), command lines and the daemon, the
third-party terminal emulator, generated protobuf code and logging.
