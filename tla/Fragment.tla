------------------------------ MODULE Fragment ------------------------------
(***************************************************************************)
(* Instructions on their way through datagrams                             *)
(* (crates/morsh-network/src/fragment.rs): the Fragmenter of one endpoint, *)
(* which compresses an instruction and cuts it into numbered fragments,    *)
(* and the FragmentAssembly of the other, which holds the fragments of one *)
(* instruction at a time.  The fragments are lost, repeated and reordered  *)
(* in between; the last fragment may well come first.                      *)
(***************************************************************************)
EXTENDS Naturals, FiniteSets

CONSTANTS
    Instruction,   \* records with fields numbers, ack_num, chaff and diff
    Payload,       \* the values of max_payload
    Count(_, _),   \* fragments an instruction needs at a max_payload
    MAX_ID         \* the largest instruction id (a bound)

ASSUME CountAssumption ==
    \A i \in Instruction, p \in Payload : Count(i, p) \in Nat \ {0}

\* Two instructions with the same numbering carry the same diff; NetInv of Ssp
\* says why.
ASSUME SameNumbersSameDiff ==
    \A i, j \in Instruction :
        /\ i.numbers = j.numbers => i.diff = j.diff
        /\ i.numbers = j.numbers /\ i.ack_num = j.ack_num /\ i.chaff = j.chaff
             /\ i.diff = j.diff => i = j

ASSUME IdAssumption == MAX_ID \in Nat

VARIABLES
    nextId,   \* next_instruction_id
    last,     \* last_instruction and last_max_payload, {} or a singleton
    wire,     \* the fragments sent
    curId,    \* current_id, 0 for None
    slots,    \* fragments: those at hand, by fragment_num
    arrived,  \* fragments_arrived
    total,    \* fragments_total, 0 for None
    result,   \* the instruction add_fragment has just returned, if any
    failed,   \* add_fragment has just returned an error
    sentAs    \* history: the instruction and max_payload of each id

vars == <<nextId, last, wire, curId, slots, arrived, total, result, failed, sentAs>>

NoFragments == [k \in {} |-> 0]

Init ==
    /\ nextId = 0 /\ last = {} /\ wire = {}
    /\ curId = 0 /\ slots = NoFragments /\ arrived = 0 /\ total = 0
    /\ result = {} /\ failed = FALSE
    /\ sentAs = [n \in {} |-> 0]

-----------------------------------------------------------------------------
(* The Fragmenter *)

\* A retransmission keeps its id whatever it acknowledges.
IsNewInstructionButAck(i, p) ==
    \A l \in last : \/ l.payload # p
                    \/ i.numbers # l.inst.numbers
                    \/ i.chaff # l.inst.chaff

\* is_new_instruction: every field but the diff counts.
IsNewInstruction(i, p) ==
    \A l \in last : \/ l.payload # p
                    \/ i.numbers # l.inst.numbers
                    \/ i.ack_num # l.inst.ack_num
                    \/ i.chaff # l.inst.chaff

\* The k-th of the fragments of what was sent under an id.
FragmentOf(id, inst, p, k) ==
    [id |-> id, fragment_num |-> k, final_flag |-> k = Count(inst, p) - 1,
     payload |-> <<inst, p, k>>]

MakeFragments(i, p) ==
    /\ nextId' = IF IsNewInstruction(i, p) THEN nextId + 1 ELSE nextId
    /\ nextId' <= MAX_ID
    /\ last' = {[inst |-> i, payload |-> p]}
    /\ wire' = wire \cup {FragmentOf(nextId', i, p, k) : k \in 0 .. Count(i, p) - 1}
    /\ sentAs' = [n \in DOMAIN sentAs \cup {nextId'} |->
                     IF n = nextId' THEN [inst |-> i, payload |-> p] ELSE sentAs[n]]
    /\ UNCHANGED <<curId, slots, arrived, total, result, failed>>

-----------------------------------------------------------------------------
(* The FragmentAssembly *)

NewPacket(f) == curId # f.id
Repeated(f) == ~NewPacket(f) /\ f.fragment_num \in DOMAIN slots

\* The fields of the assembly once f has been put in its place.
SlotsWith(f) ==
    LET old == IF NewPacket(f) THEN NoFragments ELSE slots
    IN  IF Repeated(f) THEN slots
        ELSE [k \in DOMAIN old \cup {f.fragment_num} |->
                 IF k = f.fragment_num THEN f ELSE old[k]]

\* A duplicate counts once more.
ArrivedWithDuplicates(f) == IF NewPacket(f) THEN 1 ELSE arrived + 1

ArrivedWith(f) ==
    IF NewPacket(f) THEN 1 ELSE IF Repeated(f) THEN arrived ELSE arrived + 1

\* The last fragment is only noticed on a packet already begun.
TotalWithBegun(f) ==
    IF NewPacket(f) THEN 0 ELSE IF f.final_flag THEN f.fragment_num + 1 ELSE total

TotalWith(f) ==
    IF f.final_flag THEN f.fragment_num + 1
    ELSE IF NewPacket(f) THEN 0 ELSE total

\* assemble: what decompresses and decodes from the first t slots, if anything.
Assemble(s, t) ==
    {i \in Instruction : \E p \in Payload :
        /\ t = Count(i, p)
        /\ \A k \in 0 .. t - 1 : k \in DOMAIN s /\ s[k].payload = <<i, p, k>>}

AddFragment(f) ==
    LET s == SlotsWith(f)
        t == TotalWith(f)
        tooLong  == t # 0 /\ \E k \in DOMAIN s : k >= t
        complete == t # 0 /\ ~tooLong /\ ArrivedWith(f) = t
    IN  /\ curId' = f.id
        /\ slots' = IF complete THEN NoFragments ELSE s
        /\ arrived' = IF complete THEN 0 ELSE ArrivedWith(f)
        /\ total' = IF complete THEN 0 ELSE t
        /\ result' = IF complete THEN Assemble(s, t) ELSE {}
        /\ failed' = (tooLong \/ (complete /\ result' = {}))
        /\ UNCHANGED <<nextId, last, wire, sentAs>>

Next ==
    \/ \E i \in Instruction, p \in Payload : MakeFragments(i, p)
    \/ \E f \in wire : AddFragment(f)

Spec == Init /\ [][Next]_vars

-----------------------------------------------------------------------------
(* Properties *)

\* What was sent under an id: how many fragments, and each of them.
CountOf(id) == Count(sentAs[id].inst, sentAs[id].payload)
Piece(id, k) == FragmentOf(id, sentAs[id].inst, sentAs[id].payload, k)

\* The types of the variables.
TypeOK ==
    /\ nextId \in 0 .. MAX_ID
    /\ DOMAIN sentAs = 1 .. nextId
    /\ \A n \in DOMAIN sentAs : sentAs[n] \in [inst : Instruction, payload : Payload]
    /\ curId \in 0 .. nextId
    /\ arrived \in Nat /\ total \in Nat
    /\ result \in SUBSET Instruction
    /\ failed \in BOOLEAN
    /\ IsFiniteSet(DOMAIN slots)

\* However the fragments arrive, add_fragment never fails and never puts an
\* instruction together from pieces of two: what it returns is the very one
\* that was sent under the id it is working on.
Genuine ==
    /\ ~failed
    /\ \A i \in result : i = sentAs[curId].inst

\* It returns the instruction as soon as its last missing fragment is here, in
\* whatever order they came: it never sits on a complete set.
NeverSitsOnAll ==
    curId # 0 => \E k \in 0 .. CountOf(curId) - 1 : k \notin DOMAIN slots

(***************************************************************************)
(* The inductive invariant: the wire and the slots hold fragments of what  *)
(* their id stands for, and the counters count them.                       *)
(***************************************************************************)
SenderInv ==
    /\ last = IF nextId = 0 THEN {} ELSE {sentAs[nextId]}
    /\ \A f \in wire : /\ f.id \in DOMAIN sentAs
                       /\ f.fragment_num \in 0 .. CountOf(f.id) - 1
                       /\ f = Piece(f.id, f.fragment_num)

AssemblyInv ==
    /\ curId = 0 => DOMAIN slots = {} /\ total = 0 /\ result = {}
    /\ arrived = Cardinality(DOMAIN slots)
    /\ \A k \in DOMAIN slots : /\ k \in 0 .. CountOf(curId) - 1
                              /\ slots[k] = Piece(curId, k)
    /\ curId # 0 => total = IF CountOf(curId) - 1 \in DOMAIN slots
                             THEN CountOf(curId) ELSE 0

Inv == TypeOK /\ SenderInv /\ AssemblyInv /\ Genuine /\ NeverSitsOnAll
=============================================================================
