--------------------------- MODULE Fragment_proofs ---------------------------
(***************************************************************************)
(* Fragment's invariants hold for any instructions, any sizes and any      *)
(* number of fragments.                                                    *)
(***************************************************************************)
EXTENDS Fragment, FiniteSetTheorems, TLAPS

\* Initially nothing has been sent and nothing is at hand.
LEMMA InitInv == Init => Inv
<1> SUFFICES ASSUME Init PROVE Inv
    OBVIOUS
<1>1. IsFiniteSet({}) /\ Cardinality({}) = 0
  BY FS_EmptySet
<1>2. DOMAIN slots = {} /\ DOMAIN sentAs = {} /\ 1 .. 0 = {}
  BY DEF Init, NoFragments
<1>3. TypeOK
  <2>1. failed \in BOOLEAN
    BY DEF Init
  <2>2. nextId \in 0 .. MAX_ID /\ curId \in 0 .. nextId /\ DOMAIN sentAs = 1 .. nextId
    BY <1>2, IdAssumption DEF Init
  <2> QED
    BY <1>1, <1>2, <2>1, <2>2 DEF Init, TypeOK
<1>4. SenderInv
  BY DEF Init, SenderInv
<1>5. AssemblyInv
  BY <1>1, <1>2 DEF Init, AssemblyInv
<1> QED
  BY <1>3, <1>4, <1>5 DEF Init, Inv, Genuine, NeverSitsOnAll

\* An instruction sent again unchanged keeps its id, a new one gets a new id,
\* and no id changes its meaning: is_new_instruction compares enough.
LEMMA SentAsGrows ==
  ASSUME TypeOK, SenderInv, NEW i \in Instruction, NEW p \in Payload,
         MakeFragments(i, p)
  PROVE  /\ nextId' \in 1 .. MAX_ID /\ nextId <= nextId'
         /\ DOMAIN sentAs' = 1 .. nextId'
         /\ sentAs'[nextId'] = [inst |-> i, payload |-> p]
         /\ \A n \in DOMAIN sentAs : sentAs'[n] = sentAs[n]
<1>0. nextId \in Nat /\ nextId' <= MAX_ID /\ DOMAIN sentAs = 1 .. nextId
  BY IdAssumption DEF TypeOK, MakeFragments
<1>s. /\ DOMAIN sentAs' = DOMAIN sentAs \cup {nextId'}
      /\ sentAs'[nextId'] = [inst |-> i, payload |-> p]
      /\ \A n \in DOMAIN sentAs : n # nextId' => sentAs'[n] = sentAs[n]
  BY DEF MakeFragments
<1>1. CASE IsNewInstruction(i, p)
  <2>1. nextId' = nextId + 1
    BY <1>1 DEF MakeFragments
  <2> QED
    BY <1>0, <1>s, <2>1, IdAssumption
<1>2. CASE ~IsNewInstruction(i, p)
  <2>1. PICK l \in last : /\ l.payload = p
                          /\ i.numbers = l.inst.numbers
                          /\ i.ack_num = l.inst.ack_num
                          /\ i.chaff = l.inst.chaff
    BY <1>2 DEF IsNewInstruction
  <2>2. nextId # 0 /\ l = sentAs[nextId] /\ nextId \in DOMAIN sentAs
    BY <1>0, <2>1 DEF SenderInv
  <2>3. l.inst \in Instruction
    BY <2>2 DEF TypeOK
  <2>4. i = l.inst
    BY <2>1, <2>3, SameNumbersSameDiff
  <2>5. nextId' = nextId
    BY <1>2 DEF MakeFragments
  <2>6. sentAs[nextId] = [inst |-> i, payload |-> p]
    <3>1. sentAs[nextId] \in [inst : Instruction, payload : Payload]
      BY <2>2 DEF TypeOK
    <3> QED
      BY <2>1, <2>2, <2>4, <3>1
  <2> QED
    BY <1>0, <1>s, <2>2, <2>5, <2>6, IdAssumption
<1> QED
  BY <1>1, <1>2

\* Sending leaves what is on the wire and what is being assembled as it was.
LEMMA MakeFragmentsInv ==
  ASSUME Inv, NEW i \in Instruction, NEW p \in Payload, MakeFragments(i, p)
  PROVE  Inv'
<1> USE DEF Inv
<1>1. /\ nextId' \in 1 .. MAX_ID /\ nextId <= nextId'
      /\ DOMAIN sentAs' = 1 .. nextId'
      /\ sentAs'[nextId'] = [inst |-> i, payload |-> p]
      /\ \A n \in DOMAIN sentAs : sentAs'[n] = sentAs[n]
  BY SentAsGrows
<1>2. nextId \in Nat /\ nextId' \in Nat /\ DOMAIN sentAs = 1 .. nextId
  BY <1>1, IdAssumption DEF TypeOK
<1>3. \A n \in DOMAIN sentAs :
         /\ n \in DOMAIN sentAs'
         /\ CountOf(n)' = CountOf(n)
         /\ \A k : Piece(n, k)' = Piece(n, k)
  BY <1>1, <1>2 DEF CountOf, Piece
<1>u. UNCHANGED <<curId, slots, arrived, total, result, failed>>
  BY DEF MakeFragments
<1>c. curId # 0 => curId \in DOMAIN sentAs
  BY <1>2 DEF TypeOK
<1>4. TypeOK'
  <2>1. curId' \in 0 .. nextId'
    BY <1>1, <1>2, <1>u DEF TypeOK
  <2>2. \A n \in DOMAIN sentAs' : sentAs'[n] \in [inst : Instruction, payload : Payload]
    BY DEF TypeOK, MakeFragments
  <2> QED
    BY <1>1, <1>2, <1>u, <2>1, <2>2, IdAssumption DEF TypeOK
<1>5. SenderInv'
  <2>1. last' = {sentAs'[nextId']} /\ nextId' # 0
    BY <1>1 DEF MakeFragments
  <2>2. ASSUME NEW f \in wire'
        PROVE  /\ f.id \in DOMAIN sentAs'
               /\ f.fragment_num \in 0 .. CountOf(f.id)' - 1
               /\ f = Piece(f.id, f.fragment_num)'
    <3>1. CASE f \in wire
      BY <1>3, <3>1 DEF SenderInv
    <3>2. CASE f \notin wire
      <4>1. PICK k \in 0 .. Count(i, p) - 1 : f = FragmentOf(nextId', i, p, k)
        BY <3>2 DEF MakeFragments
      <4>2. f.id = nextId' /\ f.fragment_num = k
        BY <4>1 DEF FragmentOf
      <4>3. CountOf(f.id)' = Count(i, p) /\ Piece(f.id, k)' = FragmentOf(f.id, i, p, k)
        BY <1>1, <4>2 DEF CountOf, Piece
      <4> QED
        BY <1>1, <4>1, <4>2, <4>3
    <3> QED
      BY <3>1, <3>2
  <2> QED
    BY <2>1, <2>2 DEF SenderInv
<1>6. AssemblyInv'
  <2>1. CASE curId = 0
    BY <1>u, <2>1 DEF AssemblyInv
  <2>2. CASE curId # 0
    BY <1>u, <1>c, <1>3, <2>2 DEF AssemblyInv
  <2> QED
    BY <2>1, <2>2
<1>7. Genuine'
  <2>1. CASE curId = 0
    BY <1>u, <2>1 DEF AssemblyInv, Genuine
  <2>2. CASE curId # 0
    BY <1>u, <1>c, <1>1, <2>2 DEF Genuine
  <2> QED
    BY <2>1, <2>2
<1>8. NeverSitsOnAll'
  BY <1>u, <1>c, <1>3 DEF NeverSitsOnAll
<1> QED
  BY <1>4, <1>5, <1>6, <1>7, <1>8

\* A set of numbers below n that has n elements has them all.
LEMMA AllBelow ==
  ASSUME NEW n \in Nat \ {0}, NEW S, S \subseteq 0 .. n - 1, Cardinality(S) = n
  PROVE  S = 0 .. n - 1
<1>1. IsFiniteSet(0 .. n - 1) /\ Cardinality(0 .. n - 1) = n
  BY FS_Interval
<1> QED
  BY <1>1, FS_Subset

\* The assembly with f put in its place, before it is looked whether it is
\* complete: the slots hold pieces of what f's id stands for and the counters
\* count them.
LEMMA WithFragment ==
  ASSUME Inv, NEW f \in wire
  PROVE  /\ f.id \in DOMAIN sentAs /\ CountOf(f.id) \in Nat \ {0}
         /\ IsFiniteSet(DOMAIN SlotsWith(f))
         /\ ArrivedWith(f) = Cardinality(DOMAIN SlotsWith(f))
         /\ \A k \in DOMAIN SlotsWith(f) : /\ k \in 0 .. CountOf(f.id) - 1
                                          /\ SlotsWith(f)[k] = Piece(f.id, k)
         /\ TotalWith(f) = IF CountOf(f.id) - 1 \in DOMAIN SlotsWith(f)
                           THEN CountOf(f.id) ELSE 0
<1> DEFINE n == CountOf(f.id)
           num == f.fragment_num
<1>1. f.id \in DOMAIN sentAs /\ num \in 0 .. n - 1 /\ f = Piece(f.id, num)
  BY DEF Inv, SenderInv
<1>2. n \in Nat \ {0}
  BY <1>1, CountAssumption DEF Inv, TypeOK, CountOf
<1>3. f.final_flag <=> num = n - 1
  <2>1. \A k : Piece(f.id, k).final_flag = (k = n - 1)
    BY Zenon DEF Piece, FragmentOf, CountOf
  <2> HIDE DEF n, num
  <2>2. f.final_flag = Piece(f.id, num).final_flag
    BY <1>1
  <2> QED
    BY <2>1, <2>2
<1>4. f.id # 0
  BY <1>1 DEF Inv, TypeOK
<1>5. IsFiniteSet(DOMAIN slots) /\ arrived = Cardinality(DOMAIN slots)
  BY DEF Inv, TypeOK, AssemblyInv
<1> HIDE DEF n, num
<1>6. CASE NewPacket(f)
  <2>1. SlotsWith(f) = [k \in {num} |-> f]
    BY <1>6 DEF SlotsWith, Repeated, NoFragments, num
  <2>2. DOMAIN SlotsWith(f) = {num} /\ SlotsWith(f)[num] = f
    BY <2>1
  <2>3. IsFiniteSet({num}) /\ Cardinality({num}) = 1
    BY FS_Singleton
  <2>4. ArrivedWith(f) = 1
    BY <1>6 DEF ArrivedWith
  <2>5. TotalWith(f) = IF num = n - 1 THEN num + 1 ELSE 0
    BY <1>3, <1>6 DEF TotalWith, num
  <2>6. TotalWith(f) = IF n - 1 \in {num} THEN n ELSE 0
    BY <1>1, <1>2, <2>5
  <2> QED
    BY <1>1, <1>2, <2>2, <2>3, <2>4, <2>6 DEF n
<1>7. CASE ~NewPacket(f)
  <2>0. curId = f.id /\ curId # 0
    BY <1>4, <1>7 DEF NewPacket
  <2>1. \A k \in DOMAIN slots : k \in 0 .. n - 1 /\ slots[k] = Piece(f.id, k)
    BY <2>0 DEF Inv, AssemblyInv, n
  <2>2. total = IF n - 1 \in DOMAIN slots THEN n ELSE 0
    BY <2>0 DEF Inv, AssemblyInv, n
  <2>3. TotalWith(f) = IF num = n - 1 THEN num + 1 ELSE total
    BY <1>3, <1>7 DEF TotalWith, num
  <2>4. CASE Repeated(f)
    <3>1. SlotsWith(f) = slots /\ ArrivedWith(f) = arrived /\ num \in DOMAIN slots
      BY <1>7, <2>4 DEF SlotsWith, ArrivedWith, Repeated, num
    <3>2. TotalWith(f) = IF n - 1 \in DOMAIN slots THEN n ELSE 0
      BY <1>1, <1>2, <2>2, <2>3, <3>1
    <3> QED
      BY <1>1, <1>2, <1>5, <2>1, <3>1, <3>2 DEF n
  <2>5. CASE ~Repeated(f)
    <3>1. SlotsWith(f) = [k \in DOMAIN slots \cup {num} |->
                             IF k = num THEN f ELSE slots[k]]
      BY <1>7, <2>5 DEF SlotsWith, num
    <3>2. DOMAIN SlotsWith(f) = DOMAIN slots \cup {num}
      BY <3>1
    <3>3. \A k \in DOMAIN SlotsWith(f) : k \in 0 .. n - 1 /\ SlotsWith(f)[k] = Piece(f.id, k)
      BY <1>1, <2>1, <3>1
    <3>4. ArrivedWith(f) = arrived + 1 /\ num \notin DOMAIN slots
      BY <1>7, <2>5 DEF ArrivedWith, Repeated, num
    <3>5. IsFiniteSet(DOMAIN slots \cup {num})
          /\ Cardinality(DOMAIN slots \cup {num}) = arrived + 1
      BY <1>5, <3>4, FS_AddElement
    <3>6. TotalWith(f) = IF n - 1 \in DOMAIN slots \cup {num} THEN n ELSE 0
      BY <1>1, <1>2, <2>2, <2>3
    <3> QED
      BY <1>1, <1>2, <3>2, <3>3, <3>4, <3>5, <3>6 DEF n
  <2> QED
    BY <2>4, <2>5
<1> QED
  BY <1>6, <1>7

\* A fragment that comes in completes its instruction or waits in its slot.
LEMMA AddFragmentInv ==
  ASSUME Inv, NEW f \in wire, AddFragment(f)
  PROVE  Inv'
<1> DEFINE id == f.id
           n == CountOf(id)
           s == SlotsWith(f)
           t == TotalWith(f)
           tooLong == t # 0 /\ \E k \in DOMAIN s : k >= t
           complete == t # 0 /\ ~tooLong /\ ArrivedWith(f) = t
<1>1. /\ id \in DOMAIN sentAs /\ n \in Nat \ {0}
      /\ IsFiniteSet(DOMAIN s)
      /\ ArrivedWith(f) = Cardinality(DOMAIN s)
      /\ \A k \in DOMAIN s : k \in 0 .. n - 1 /\ s[k] = Piece(id, k)
      /\ t = IF n - 1 \in DOMAIN s THEN n ELSE 0
  BY WithFragment
<1>u. UNCHANGED <<nextId, last, wire, sentAs>> /\ curId' = id
  BY DEF AddFragment
<1>a. /\ slots' = IF complete THEN NoFragments ELSE s
      /\ arrived' = IF complete THEN 0 ELSE ArrivedWith(f)
      /\ total' = IF complete THEN 0 ELSE t
      /\ result' = IF complete THEN Assemble(s, t) ELSE {}
      /\ failed' = (tooLong \/ (complete /\ result' = {}))
  BY DEF AddFragment
<1>m. CountOf(id)' = n /\ \A k : Piece(id, k)' = Piece(id, k)
  BY <1>u DEF CountOf, Piece
<1>2. id # 0 /\ id \in 0 .. nextId /\ nextId \in Nat
  BY <1>1, IdAssumption DEF Inv, TypeOK
<1>3. ~tooLong
  BY <1>1
<1>4. SenderInv'
  BY <1>u DEF Inv, SenderInv, CountOf, Piece
<1>5. CASE complete
  <2>1. t = n /\ DOMAIN s = 0 .. n - 1
    BY <1>1, <1>5, AllBelow
  <2>2. \A k \in 0 .. n - 1 : s[k].payload = <<sentAs[id].inst, sentAs[id].payload, k>>
    BY <1>1, <2>1 DEF Piece, FragmentOf
  <2>3. sentAs[id] \in [inst : Instruction, payload : Payload]
    BY <1>1 DEF Inv, TypeOK
  <2>4. Assemble(s, t) = {sentAs[id].inst}
    <3>1. sentAs[id].inst \in Assemble(s, t)
      BY <2>1, <2>2, <2>3 DEF Assemble, CountOf
    <3>2. ASSUME NEW i \in Assemble(s, t) PROVE i = sentAs[id].inst
      <4>1. PICK p \in Payload : \A k \in 0 .. t - 1 : s[k].payload = <<i, p, k>>
        BY DEF Assemble
      <4>2. 0 \in 0 .. n - 1
        BY <1>1
      <4>3. s[0].payload = <<i, p, 0>>
        BY <2>1, <4>1, <4>2
      <4> QED
        BY <2>2, <4>2, <4>3
    <3> QED
      BY <3>1, <3>2
  <2>5. slots' = NoFragments /\ arrived' = 0 /\ total' = 0 /\ result' = {sentAs[id].inst}
    BY <1>5, <1>a, <2>4
  <2>6. failed' = FALSE
    BY <1>3, <1>a, <2>5
  <2>7. DOMAIN slots' = {} /\ IsFiniteSet({}) /\ Cardinality({}) = 0
    BY <2>5, FS_EmptySet DEF NoFragments
  <2>8. TypeOK'
    <3>1. failed' \in BOOLEAN
      BY <2>6
    <3>2. result' \in SUBSET Instruction
      BY <2>3, <2>5
    <3> QED
      BY <1>u, <1>2, <2>5, <2>7, <3>1, <3>2 DEF Inv, TypeOK
  <2>9. AssemblyInv'
    BY <1>u, <1>m, <1>2, <2>5, <2>7 DEF AssemblyInv
  <2>10. Genuine'
    BY <1>u, <2>5, <2>6 DEF Genuine
  <2>11. NeverSitsOnAll'
    BY <1>u, <1>m, <1>1, <2>7 DEF NeverSitsOnAll
  <2> QED
    BY <1>4, <2>8, <2>9, <2>10, <2>11 DEF Inv
<1>6. CASE ~complete
  <2>1. slots' = s /\ arrived' = ArrivedWith(f) /\ total' = t /\ result' = {}
    BY <1>6, <1>a
  <2>2. failed' = FALSE
    BY <1>3, <1>6, <1>a
  <2>3. TypeOK'
    <3>1. failed' \in BOOLEAN
      BY <2>2
    <3>2. arrived' \in Nat /\ total' \in Nat
      BY <1>1, <2>1, FS_CardinalityType
    <3> QED
      BY <1>u, <1>1, <1>2, <2>1, <3>1, <3>2 DEF Inv, TypeOK
  <2>4. AssemblyInv'
    BY <1>u, <1>m, <1>1, <1>2, <2>1 DEF AssemblyInv
  <2>5. Genuine'
    BY <2>1, <2>2 DEF Genuine
  <2>6. NeverSitsOnAll'
    <3>1. \E k \in 0 .. n - 1 : k \notin DOMAIN s
      <4>1. CASE n - 1 \in DOMAIN s
        <5>1. t = n /\ Cardinality(DOMAIN s) # n
          BY <1>1, <1>3, <1>6, <4>1
        <5>2. IsFiniteSet(0 .. n - 1) /\ Cardinality(0 .. n - 1) = n
          BY <1>1, FS_Interval
        <5>3. DOMAIN s # 0 .. n - 1
          BY <5>1, <5>2
        <5> QED
          BY <1>1, <5>3
      <4>2. CASE n - 1 \notin DOMAIN s
        BY <1>1, <4>2
      <4> QED
        BY <4>1, <4>2
    <3> QED
      BY <1>u, <1>m, <2>1, <3>1 DEF NeverSitsOnAll
  <2> QED
    BY <1>4, <2>3, <2>4, <2>5, <2>6 DEF Inv
<1> QED
  BY <1>5, <1>6

\* Fragment's invariant: whatever happens to the fragments, the wire and the
\* slots hold what their ids stand for.
THEOREM Invariance == Spec => []Inv
<1>1. ASSUME Inv, [Next]_vars
      PROVE  Inv'
  <2>1. CASE UNCHANGED vars
    BY <2>1, <1>1, Zenon DEF vars, Inv, TypeOK, SenderInv, AssemblyInv, Genuine,
                      NeverSitsOnAll, CountOf, Piece
  <2>2. CASE Next
    BY <1>1, <2>2, MakeFragmentsInv, AddFragmentInv DEF Next
  <2> QED
    BY <1>1, <2>1, <2>2
<1> QED
  BY <1>1, InitInv, PTL DEF Spec

\* add_fragment never fails on what an honest peer sends, and returns what was
\* sent, never a mixture, for all instructions and fragment counts.
THEOREM GenuineAlways == Spec => []Genuine
<1>1. Inv => Genuine
  BY DEF Inv
<1> QED
  BY <1>1, Invariance, PTL

\* add_fragment returns an instruction as soon as all of it is at hand, for all
\* instructions and fragment counts.
THEOREM NeverSits == Spec => []NeverSitsOnAll
<1>1. Inv => NeverSitsOnAll
  BY DEF Inv
<1> QED
  BY <1>1, Invariance, PTL
=============================================================================
