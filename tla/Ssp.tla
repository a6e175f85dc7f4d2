-------------------------------- MODULE Ssp --------------------------------
(***************************************************************************)
(* The State Synchronization Protocol of morsh-network: two Transport      *)
(* endpoints (crates/morsh-network/src/transport.rs) joined by a network   *)
(* that may lose, duplicate, delay and reorder datagrams.                  *)
(*                                                                         *)
(* Each endpoint e owns a TransportSender for the state it publishes and a *)
(* history of the states it has received from its peer.  The protocol is   *)
(* generic in the synchronized state: it only diffs, applies, trims and    *)
(* compares (trait State, state.rs), so those operations are constants     *)
(* here, constrained by the laws TrimLaws and DiffLaws.                    *)
(*                                                                         *)
(* Time is abstracted: whether a send or an ack is due, whether a sent     *)
(* state is still recent enough to be assumed received, and whether the    *)
(* quench timer has run out are nondeterministic choices.                  *)
(***************************************************************************)
EXTENDS Naturals, FiniteSets, FiniteSetsExt, Functions

CONSTANTS
    State,              \* the values of the synchronized states
    InitialState,       \* InitialState[e]: state 0 of the direction e sends
    DiffFrom(_, _),     \* self.diff_from(existing)
    ApplyString(_, _),  \* self.apply_string(diff)
    Subtract(_, _),     \* self.subtract(prefix)
    Extends(_, _),      \* Extends(a, b): a state may go from a to b
    EmptyDiff,          \* the diff of no bytes
    SHUTDOWN_NUM,       \* u64::MAX, scaled down
    SENT_STATES_MAX,    \* the sender's history bound, 32 in the code
    SENT_STATES_KEEP,   \* the victim is this far from the end, 16 in the code
    RECEIVED_STATES_MAX, \* the receiver's history bound, 1024 in the code
    MAX_NUM,            \* MAX_NUM[e]: ordinary state numbers e may use (a bound)
    MAX_IN_FLIGHT,      \* MAX_IN_FLIGHT[e]: datagrams of e in flight (a bound)
    CLOSERS             \* the endpoints whose owners may shut down (a bound)

Endpoint == {"client", "server"}
Peer(e) == IF e = "client" THEN "server" ELSE "client"

\* State numbers.  Ordinary states get 0 .. SHUTDOWN_NUM - 1.
Num == 0 .. SHUTDOWN_NUM

ASSUME NumAssumption == SHUTDOWN_NUM \in Nat /\ SHUTDOWN_NUM >= 2

\* The state dropped when the history is full is neither the acknowledged
\* floor nor one of the two newest.
ASSUME HistoryAssumption ==
    /\ SENT_STATES_MAX \in Nat
    /\ SENT_STATES_KEEP \in Nat
    /\ RECEIVED_STATES_MAX \in Nat
    /\ 3 <= SENT_STATES_KEEP
    /\ SENT_STATES_KEEP <= SENT_STATES_MAX
    /\ MAX_NUM \in [Endpoint -> 0 .. SHUTDOWN_NUM - 1]
    /\ MAX_IN_FLIGHT \in [Endpoint -> Nat \ {0}]

ASSUME InitialAssumption == InitialState \in [Endpoint -> State]

(***************************************************************************)
(* What the protocol requires of a State implementation: the round-trip    *)
(* identity of state.rs, generalized to states whose common prefix p has   *)
(* been trimmed away on one side or the other.                             *)
(***************************************************************************)
ASSUME StateClosed ==
    \A a, b \in State :
        /\ Subtract(a, b) \in State
        /\ Extends(a, b) \in BOOLEAN

ASSUME ExtendsPreorder ==
    /\ \A a \in State : Extends(a, a)
    /\ \A a, b, c \in State : Extends(a, b) /\ Extends(b, c) => Extends(a, c)

ASSUME TrimLaws ==
    /\ \A e \in Endpoint : \A a \in State :
           Extends(InitialState[e], a) => Subtract(a, InitialState[e]) = a
    /\ \A p, q, c \in State :
           Extends(p, q) /\ Extends(q, c) =>
               Subtract(Subtract(c, p), Subtract(q, p)) = Subtract(c, q)
    /\ \A p, a, c \in State :
           Extends(p, a) /\ Extends(p, c) /\ Subtract(a, p) = Subtract(c, p)
               => a = c

ASSUME DiffLaws ==
    /\ \A p, a, c \in State : Extends(p, a) /\ Extends(a, c) =>
           /\ DiffFrom(Subtract(c, p), Subtract(a, p)) = DiffFrom(c, a)
           /\ ApplyString(Subtract(a, p), DiffFrom(c, a)) = Subtract(c, p)
    /\ \A a, c \in State : Extends(a, c) =>
           /\ (DiffFrom(c, a) = EmptyDiff) <=> (a = c)
           /\ ApplyString(a, DiffFrom(c, a)) = c

-----------------------------------------------------------------------------
VARIABLES
    cur,          \* cur[e]: TransportSender::current_state
    sent,         \* sent[e]: sent_states, as a function from num to state
    copies,       \* copies[e]: further sent_states entries numbered SHUTDOWN_NUM
    shutdown,     \* shutdown[e]: shutdown_in_progress
    ackNum,       \* ackNum[e]: ack_num
    received,     \* received[e]: received_states, as a function from num to state
    quench,       \* quench[e]: receiver_quench_timer is Some(_)
    lastReceiver, \* lastReceiver[e]: last_receiver_state
    handed,       \* handed[e]: Handler::last_remote_num, what e's owner has seen
    hasRemote,    \* hasRemote[e]: the connection knows where to send
    net           \* net[e]: the instructions sent by e and still in flight

(***************************************************************************)
(* History variables, which the code does not have: the whole state e has  *)
(* built up (before any trimming), what each number was given to, how much *)
(* the sender and the receiver have trimmed, and the state an application  *)
(* obtains by applying every diff get_remote_diff has handed to it.        *)
(***************************************************************************)
VARIABLES whole, meant, trimSent, trimReceived, view

vars == <<cur, sent, copies, shutdown, ackNum, received, quench,
          lastReceiver, handed, hasRemote, net, whole, meant, trimSent, trimReceived,
          view>>

Put(f, k, v) == [x \in DOMAIN f \cup {k} |-> IF x = k THEN v ELSE f[x]]
From(f, n) == Restrict(f, {k \in DOMAIN f : k >= n})
Trimmed(f, p) == [k \in DOMAIN f |-> Subtract(f[k], p)]

Oldest(f) == Min(DOMAIN f)
Newest(f) == Max(DOMAIN f)

\* sent_states[0].num and sent_states.last().num
Acked(e) == Oldest(sent[e])
LastNum(e) == Newest(sent[e])

Init ==
    /\ cur = InitialState
    /\ sent = [e \in Endpoint |-> [n \in {0} |-> InitialState[e]]]
    /\ copies = [e \in Endpoint |-> 0]
    /\ shutdown = [e \in Endpoint |-> FALSE]
    /\ ackNum = [e \in Endpoint |-> 0]
    /\ received = [e \in Endpoint |-> [n \in {0} |-> InitialState[Peer(e)]]]
    /\ quench = [e \in Endpoint |-> FALSE]
    /\ lastReceiver = [e \in Endpoint |-> InitialState[Peer(e)]]
    /\ handed = [e \in Endpoint |-> 0]
    /\ hasRemote = [e \in Endpoint |-> e = "client"]
    /\ net = [e \in Endpoint |-> {}]
    /\ whole = InitialState
    /\ meant = [e \in Endpoint |-> [n \in {0} |-> InitialState[e]]]
    /\ trimSent = InitialState
    /\ trimReceived = [e \in Endpoint |-> InitialState[Peer(e)]]
    /\ view = [e \in Endpoint |-> InitialState[Peer(e)]]

-----------------------------------------------------------------------------
(* The caller's side of the sender *)

\* Bound: e has k more numbers left (the code has 2^64 of them).
NumsLeft(e, k) == LastNum(e) + k <= MAX_NUM[e]

\* The application edits the state through current_state_mut.
Change(e) ==
    /\ ~shutdown[e]
    /\ NumsLeft(e, 1)
    /\ \E s \in State :
        /\ Extends(whole[e], s)
        /\ s # whole[e]
        /\ whole' = [whole EXCEPT ![e] = s]
        /\ cur' = [cur EXCEPT ![e] =
                      ApplyString(cur[e], DiffFrom(s, whole[e]))]
    /\ UNCHANGED <<sent, copies, shutdown, ackNum, received, quench,
                   lastReceiver, handed, hasRemote, net, meant, trimSent,
                   trimReceived, view>>

StartShutdown(e) ==
    /\ e \in CLOSERS
    /\ ~shutdown[e]
    /\ shutdown' = [shutdown EXCEPT ![e] = TRUE]
    /\ UNCHANGED <<cur, sent, copies, ackNum, received, quench, lastReceiver, handed,
                   hasRemote, net, whole, meant, trimSent, trimReceived, view>>

-----------------------------------------------------------------------------
(* TransportSender::tick and the functions it calls *)

\* rationalize_states: drop what the acknowledged state already covers.
Known(e) == sent[e][Acked(e)]
RationalizedCur(e) == Subtract(cur[e], Known(e))
RationalizedSent(e) == Trimmed(sent[e], Known(e))
RationalizeStates(e) ==
    /\ cur' = [cur EXCEPT ![e] = RationalizedCur(e)]
    /\ trimSent' = [trimSent EXCEPT ![e] = meant[e][Acked(e)]]

\* calculate_timers when nothing is due afterwards (also wait_time_ms).
CalculateTimers(e) ==
    /\ RationalizeStates(e)
    /\ sent' = [sent EXCEPT ![e] = RationalizedSent(e)]
    /\ UNCHANGED <<copies, shutdown, ackNum, received, quench, lastReceiver, handed,
                   hasRemote, net, whole, meant, trimReceived, view>>

DiffOf(e, b) == DiffFrom(RationalizedCur(e), RationalizedSent(e)[b])

(***************************************************************************)
(* update_assumed_receiver_state followed by                               *)
(* attempt_prospective_resend_optimization.  The timestamps of sent_states *)
(* never decrease along the vector, so the walk stops either at once or    *)
(* not at all: the base of the diff is the floor or the newest state.  The *)
(* optimization then moves the base to the floor, at the latest when the   *)
(* diff from there is empty.                                               *)
(***************************************************************************)
DiffBase(e, b) ==
    /\ b \in {Acked(e), LastNum(e)}
    /\ DiffOf(e, Acked(e)) = EmptyDiff => b = Acked(e)

\* One entry too many is kept.
VictimsLate(nums, extra) ==
    IF Cardinality(nums) + extra > SENT_STATES_MAX + 1
    THEN {n \in nums \ {SHUTDOWN_NUM} :
             Cardinality({m \in nums : m > n}) + extra = SENT_STATES_KEEP - 1}
    ELSE {}

\* add_sent_state: past SENT_STATES_MAX entries, the one with
\* SENT_STATES_KEEP - 1 entries behind it goes.
Victims(nums, extra) ==
    IF Cardinality(nums) + extra > SENT_STATES_MAX
    THEN {n \in nums \ {SHUTDOWN_NUM} :
             Cardinality({m \in nums : m > n}) + extra = SENT_STATES_KEEP - 1}
    ELSE {}

AddSentState(e, num) ==
    LET nums  == DOMAIN sent[e] \cup {num}
        extra == copies[e] + (IF num \in DOMAIN sent[e] THEN 1 ELSE 0)
        gone  == Victims(nums, extra)
    IN  /\ sent' = [sent EXCEPT ![e] =
              Restrict(Put(RationalizedSent(e), num, RationalizedCur(e)),
                       nums \ gone)]
        /\ copies' = [copies EXCEPT ![e] =
              IF /\ Cardinality(nums) + extra > SENT_STATES_MAX
                 /\ extra >= SENT_STATES_KEEP - 1
              THEN extra - 1 ELSE extra]
        /\ meant' = [meant EXCEPT ![e] = Put(meant[e], num, whole[e])]

(***************************************************************************)
(* Connection::send.  A datagram stays in flight however often it is       *)
(* delivered.  One that is never delivered again is lost; any number of    *)
(* those are taken out of net when the next datagram is sent.              *)
(***************************************************************************)
Send(e, m) ==
    \E lost \in SUBSET net[e] :
        /\ Cardinality((net[e] \ lost) \cup {m}) <= MAX_IN_FLIGHT[e]
        /\ net' = [net EXCEPT ![e] = (@ \ lost) \cup {m}]

\* The receiver is told to cull what it has not acknowledged yet.
BuildInstructionEager(e, old, new, diff) ==
    Send(e, [old |-> old, new |-> new, ack |-> ackNum[e],
             throwaway |-> LastNum(e), diff |-> diff])

\* build_instruction: throwaway_num is the acknowledged floor.
BuildInstruction(e, old, new, diff) ==
    Send(e, [old |-> old, new |-> new, ack |-> ackNum[e],
             throwaway |-> Acked(e), diff |-> diff])

AlreadySent(e) == RationalizedCur(e) = RationalizedSent(e)[LastNum(e)]

\* The chosen number is the last one again: only its timestamp changes.
KeepSentStates(e) ==
    /\ sent' = [sent EXCEPT ![e] = RationalizedSent(e)]
    /\ UNCHANGED <<copies, meant>>

\* The number after the last one, even while shutting down.
NextNumPlain(e) == LastNum(e) + 1

\* The number of a state not sent before.
NextNum(e) == IF shutdown[e] THEN SHUTDOWN_NUM ELSE LastNum(e) + 1

\* A diff of no bytes is taken for nothing new: the last number goes out again.
SendEmptyAckAgain(e, b) ==
    /\ DiffOf(e, b) = EmptyDiff
    /\ \/ /\ shutdown[e]
          /\ AddSentState(e, NextNum(e))
          /\ BuildInstruction(e, b, NextNum(e), EmptyDiff)
       \/ /\ ~shutdown[e]
          /\ KeepSentStates(e)
          /\ BuildInstruction(e, b, LastNum(e), EmptyDiff)

(***************************************************************************)
(* send_empty_ack: always a new number, unless shutting down.  Bound: the  *)
(* last ordinary number is left to the next change, and acks that carry    *)
(* nothing new repeat the one before it.                                   *)
(***************************************************************************)
SendEmptyAck(e, b) ==
    /\ DiffOf(e, b) = EmptyDiff
    /\ \/ /\ shutdown[e] \/ NumsLeft(e, IF AlreadySent(e) THEN 2 ELSE 1)
          /\ AddSentState(e, NextNum(e))
          /\ BuildInstruction(e, b, NextNum(e), EmptyDiff)
       \/ /\ ~shutdown[e] /\ AlreadySent(e) /\ ~NumsLeft(e, 2)
          /\ KeepSentStates(e)
          /\ BuildInstruction(e, b, LastNum(e), EmptyDiff)

\* send_to_receiver: a state already sent keeps its number.
SendToReceiver(e, b) ==
    /\ DiffOf(e, b) # EmptyDiff
    /\ shutdown[e] \/ AlreadySent(e) \/ NumsLeft(e, 1)
    /\ LET new == IF ~shutdown[e] /\ AlreadySent(e) THEN LastNum(e)
                                                    ELSE NextNum(e)
       IN  /\ IF new = LastNum(e) THEN KeepSentStates(e) ELSE AddSentState(e, new)
           /\ BuildInstruction(e, b, new, DiffOf(e, b))

\* tick, with the base that the timers led to
Tick(e, b) ==
    /\ hasRemote[e]
    /\ DiffBase(e, b)
    /\ RationalizeStates(e)
    /\ SendEmptyAck(e, b) \/ SendToReceiver(e, b)
    /\ UNCHANGED <<shutdown, ackNum, received, quench, lastReceiver, handed,
                   hasRemote, whole, trimReceived, view>>

-----------------------------------------------------------------------------
(* Transport::process_instruction, one action per outcome *)

\* process_acknowledgment_through: an ack of a state no longer held is ignored.
ProcessAcknowledgmentThrough(e, ack) ==
    sent' = [sent EXCEPT ![e] =
                IF ack \in DOMAIN sent[e] THEN From(sent[e], ack) ELSE sent[e]]

\* The datagram reaches e; process_incoming has learnt the peer's address.
Arrive(e, m) ==
    /\ m \in net[Peer(e)]
    /\ ProcessAcknowledgmentThrough(e, m.ack)
    /\ hasRemote' = [hasRemote EXCEPT ![e] = TRUE]
    /\ UNCHANGED <<cur, copies, shutdown, lastReceiver, handed, net, whole, meant,
                   trimSent, trimReceived, view>>

Duplicate(e, m) == m.new \in DOMAIN received[e]
ReferenceMissing(e, m) == m.old \notin DOMAIN received[e]

\* The state throwaway_num names goes too.
KeptAbove(e, m) ==
    From(received[e], Min({m.throwaway + 1, Newest(received[e])}))

\* process_throwaway_until: never past the newest state held.
Kept(e, m) ==
    From(received[e], Min({m.throwaway, Newest(received[e])}))

\* The diff is applied to the newest state.
NewStateFromNewest(e, m) ==
    LET reference == received[e][Newest(received[e])]
    IN  IF m.diff = EmptyDiff THEN reference
                              ELSE ApplyString(reference, m.diff)

\* The diff is applied to a copy of the state it names, not to the newest.
NewState(e, m) ==
    LET reference == received[e][m.old]
    IN  IF m.diff = EmptyDiff THEN reference
                              ELSE ApplyString(reference, m.diff)

Full(e, m) == Cardinality(DOMAIN Kept(e, m)) > RECEIVED_STATES_MAX

\* The ack follows every state, in order or not.
AckWhatCame(e, m) == m.new

\* set_ack_num, unless the state came out of order
NextAck(e, m) == IF m.new > Newest(Kept(e, m)) THEN m.new ELSE ackNum[e]

\* RecvOutcome::Ignored, before any culling
RecvUnusable(e, m) ==
    /\ Duplicate(e, m) \/ ReferenceMissing(e, m)
    /\ Arrive(e, m)
    /\ UNCHANGED <<received, ackNum, quench>>

\* RecvOutcome::Ignored: the reference was culled, or the queue is quenched.
RecvRefused(e, m) ==
    /\ ~Duplicate(e, m) /\ ~ReferenceMissing(e, m)
    /\ m.old \notin DOMAIN Kept(e, m) \/ (Full(e, m) /\ quench[e])
    /\ Arrive(e, m)
    /\ received' = [received EXCEPT ![e] = Kept(e, m)]
    /\ UNCHANGED <<ackNum, quench>>

\* RecvOutcome::OutOfOrderState and RecvOutcome::NewState
RecvState(e, m) ==
    /\ ~Duplicate(e, m) /\ ~ReferenceMissing(e, m)
    /\ m.old \in DOMAIN Kept(e, m)
    /\ Arrive(e, m)
    /\ received' = [received EXCEPT ![e] = Put(Kept(e, m), m.new, NewState(e, m))]
    /\ quench' = [quench EXCEPT ![e] = @ \/ Full(e, m)]
    /\ ackNum' = [ackNum EXCEPT ![e] = NextAck(e, m)]

ProcessInstruction(e, m) ==
    RecvUnusable(e, m) \/ RecvRefused(e, m) \/ RecvState(e, m)

-----------------------------------------------------------------------------
\* The history is trimmed by the state just handed out.
TrimmedByNewest(e) ==
    Trimmed(received[e], received[e][Newest(received[e])])

(***************************************************************************)
(* Transport::get_remote_diff.  Only the server calls it (wait_for_client, *)
(* handle_client_input), and only when the newest number is not the one it *)
(* saw last; the client reads get_latest_remote_state.                     *)
(***************************************************************************)
TrimmedReceived(e) ==
    Trimmed(received[e], received[e][Oldest(received[e])])

GetRemoteDiff(e) ==
    LET newest == Newest(received[e])
        diff   == DiffFrom(received[e][newest], lastReceiver[e])
    IN  /\ e = "server"
        /\ handed[e] # newest
        /\ handed' = [handed EXCEPT ![e] = newest]
        /\ received' = [received EXCEPT ![e] = TrimmedReceived(e)]
        /\ lastReceiver' = [lastReceiver EXCEPT ![e] = TrimmedReceived(e)[newest]]
        /\ view' = [view EXCEPT ![e] =
                       IF diff = EmptyDiff THEN @ ELSE ApplyString(@, diff)]
        /\ trimReceived' = [trimReceived EXCEPT ![e] =
                               meant[Peer(e)][Oldest(received[e])]]
        /\ UNCHANGED <<cur, sent, copies, shutdown, ackNum, quench, hasRemote,
                       net, whole, meant, trimSent>>

Next ==
    \E e \in Endpoint :
        \/ Change(e)
        \/ StartShutdown(e)
        \/ CalculateTimers(e)
        \/ \E b \in Num : Tick(e, b)
        \/ \E m \in net[Peer(e)] : ProcessInstruction(e, m)
        \/ GetRemoteDiff(e)

Spec == Init /\ [][Next]_vars

(***************************************************************************)
(* Fairness, of endpoints that have met and that nobody shuts down: what   *)
(* Converges is about.  next_ack_time is always finite, so such an         *)
(* endpoint ticks for ever, and a state older than the retransmission      *)
(* horizon makes the tick diff from the floor.  The network is fair: if    *)
(* datagrams that carry a newer state keep being in flight, one arrives.   *)
(* Nothing is assumed of those that bring only an acknowledgment.          *)
(***************************************************************************)
TickFromFloor(e) == Tick(e, Acked(e))
RecvNewState(e) ==
    \E m \in net[Peer(e)] : m.new > ackNum[e] /\ RecvState(e, m)

Fairness ==
    /\ WF_vars(GetRemoteDiff("server"))
    /\ \A e \in Endpoint : /\ WF_vars(TickFromFloor(e))
                          /\ SF_vars(RecvNewState(e))

FairSpec == Spec /\ Fairness

-----------------------------------------------------------------------------
(* Properties *)

\* A history: some numbered states.
IsHistory(h) == /\ DOMAIN h \in SUBSET Num
                /\ DOMAIN h # {}
                /\ \A n \in DOMAIN h : h[n] \in State

\* Every variable has the shape its Rust type gives it.
TypeOK ==
    /\ cur \in [Endpoint -> State]
    /\ copies \in [Endpoint -> Nat]
    /\ shutdown \in [Endpoint -> BOOLEAN]
    /\ ackNum \in [Endpoint -> Num]
    /\ quench \in [Endpoint -> BOOLEAN]
    /\ lastReceiver \in [Endpoint -> State]
    /\ handed \in [Endpoint -> Num]
    /\ hasRemote \in [Endpoint -> BOOLEAN]
    /\ DOMAIN sent = Endpoint
    /\ DOMAIN received = Endpoint
    /\ DOMAIN net = Endpoint
    /\ \A e \in Endpoint : IsHistory(sent[e]) /\ IsHistory(received[e])
    /\ \A e \in Endpoint : \A m \in net[e] :
           {m.old, m.new, m.ack, m.throwaway} \subseteq Num

\* A state held under number n is the state the peer gave the number n to,
\* less the prefix the receiver has trimmed: lost, repeated and reordered
\* instructions never leave the receiver with a state that was not sent.
Agreement ==
    \A e \in Endpoint : \A n \in DOMAIN received[e] :
        /\ n \in DOMAIN meant[Peer(e)]
        /\ received[e][n] = Subtract(meant[Peer(e)][n], trimReceived[e])

\* The receiver still holds the state the sender believes acknowledged, so a
\* diff from the floor is always usable: nothing is acked and then discarded.
FloorHeld == \A e \in Endpoint : Acked(e) \in DOMAIN received[Peer(e)]

\* The diffs get_remote_diff hands out add up to a state the peer published:
\* no user input is lost, repeated or reordered on its way to the pty.
HandedOutOnce ==
    \A e \in Endpoint :
        /\ handed[e] \in DOMAIN meant[Peer(e)]
        /\ view[e] = meant[Peer(e)][handed[e]]

\* The shutdown state is the publisher's last word: whoever holds it holds
\* everything the publisher ever had to say.
FinalStateComplete ==
    \A e \in Endpoint :
        SHUTDOWN_NUM \in DOMAIN received[e] =>
            received[e][SHUTDOWN_NUM] = Subtract(whole[Peer(e)], trimReceived[e])

\* sent_states stays within its bound while the floor and the newest survive.
HistoryBounded ==
    \A e \in Endpoint :
        Cardinality(DOMAIN sent[e]) + copies[e] <= SENT_STATES_MAX

\* A step never takes an acknowledgment back, neither the one an endpoint
\* sends nor the one it has been given, and a number never changes its meaning.
NeverBack ==
    [][\A e \in Endpoint :
          /\ ackNum'[e] >= ackNum[e]
          /\ Oldest(sent'[e]) >= Acked(e)
          /\ \A n \in DOMAIN meant[e] :
                n \in DOMAIN meant'[e] /\ meant'[e][n] = meant[e][n]]_vars

(***************************************************************************)
(* The inductive invariant the safety properties rest on, direction by     *)
(* direction: e publishes, Peer(e) receives.                               *)
(***************************************************************************)
HistoryTypeOK ==
    /\ whole \in [Endpoint -> State]
    /\ trimSent \in [Endpoint -> State]
    /\ trimReceived \in [Endpoint -> State]
    /\ view \in [Endpoint -> State]
    /\ DOMAIN meant = Endpoint
    /\ \A e \in Endpoint : /\ IsHistory(meant[e])
                          /\ meant[e] \in [DOMAIN meant[e] -> State]

\* The numbered states only ever grow, up to the whole state, and the
\* shutdown number is given to the whole state for good.
MeantInv(e) ==
    /\ 0 \in DOMAIN meant[e] /\ meant[e][0] = InitialState[e]
    /\ \A m, n \in DOMAIN meant[e] : m <= n => Extends(meant[e][m], meant[e][n])
    /\ \A n \in DOMAIN meant[e] : Extends(meant[e][n], whole[e])
    /\ SHUTDOWN_NUM \in DOMAIN meant[e] =>
           shutdown[e] /\ meant[e][SHUTDOWN_NUM] = whole[e]

\* Everything the sender keeps has the same prefix trimmed away.
SentInv(e) ==
    /\ DOMAIN sent[e] \subseteq DOMAIN meant[e]
    /\ \A n \in DOMAIN meant[e] : n <= LastNum(e)
    /\ copies[e] # 0 => SHUTDOWN_NUM \in DOMAIN sent[e]
    /\ Extends(trimSent[e], whole[e])
    /\ cur[e] = Subtract(whole[e], trimSent[e])
    /\ \A n \in DOMAIN sent[e] :
           /\ Extends(trimSent[e], meant[e][n])
           /\ sent[e][n] = Subtract(meant[e][n], trimSent[e])

\* A datagram's diff leads from what its old number means to what its new one
\* means; it asks to cull nothing it refers to and nothing unacknowledged; and
\* the state it acknowledges is still held, unless its ack is already stale.
NetInv(e) ==
    \A m \in net[e] :
        /\ {m.old, m.new} \subseteq DOMAIN meant[e]
        /\ m.throwaway <= m.old /\ m.old <= m.new
        /\ m.throwaway <= Acked(e)
        /\ m.diff = DiffFrom(meant[e][m.new], meant[e][m.old])
        /\ m.ack \in DOMAIN received[e] \/ m.ack < Acked(Peer(e))

\* What Peer(e) holds, and what it has handed to its application.
ReceivedInv(e) ==
    LET p == Peer(e)
    IN  /\ DOMAIN received[p] \subseteq DOMAIN meant[e]
        /\ \A n \in DOMAIN received[p] :
               /\ Extends(trimReceived[p], meant[e][n])
               /\ received[p][n] = Subtract(meant[e][n], trimReceived[p])
        /\ ackNum[p] = Newest(received[p])
        /\ Acked(e) \in DOMAIN received[p]
        /\ handed[p] \in DOMAIN meant[e]
        /\ handed[p] <= ackNum[p]
        /\ view[p] = meant[e][handed[p]]
        /\ Extends(trimReceived[p], view[p])
        /\ lastReceiver[p] = Subtract(view[p], trimReceived[p])

Inv ==
    /\ TypeOK
    /\ HistoryTypeOK
    /\ \A e \in Endpoint :
           MeantInv(e) /\ SentInv(e) /\ NetInv(e) /\ ReceivedInv(e)

\* The two directions implement the abstract specification: the server's
\* application sees the user's input, the client the server's terminal.
Input == INSTANCE Sync WITH
    Start <- InitialState["client"], FINAL <- SHUTDOWN_NUM,
    published <- meant["client"], seen <- handed["server"],
    view <- view["server"]
Screen == INSTANCE Sync WITH
    Start <- InitialState["server"], FINAL <- SHUTDOWN_NUM,
    published <- meant["server"], seen <- ackNum["client"],
    view <- received["client"][Newest(received["client"])]
ImplementsInput == Input!SyncSpec
ImplementsScreen == Screen!SyncSpec

\* Once the states stop changing the two sides converge on them: the server has
\* applied all input, the client shows the final screen, even one that returned to
\* a screen already acknowledged, when no diff says so (TransportSender::tick).
\* Only while both run: each end has heard of the other (wait_for_client and the
\* client give up waiting for that) and neither shuts down, which ends after
\* sixteen tries or ten seconds whether the peer has heard or not.
Converges ==
    /\ [](\A e \in Endpoint : ~shutdown[e])
    /\ <>(\A e \in Endpoint : ackNum[e] # 0)
    /\ <>[][UNCHANGED whole]_vars
    => <>[](/\ view["server"] = whole["client"]
            /\ received["client"][ackNum["client"]] = whole["server"])
=============================================================================
