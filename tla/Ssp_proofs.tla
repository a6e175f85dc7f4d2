----------------------------- MODULE Ssp_proofs -----------------------------
(***************************************************************************)
(* The safety of the State Synchronization Protocol, for every value of    *)
(* the constants of Ssp: Inv is inductive, and the safety properties       *)
(* follow from it.  One lemma per action; a tick is first reduced to what  *)
(* it does to the sender (Numbered), an instruction to what it does to the *)
(* receiver (Collected).                                                   *)
(***************************************************************************)
EXTENDS Ssp, DataFacts, FiniteSetTheorems, TLAPS

\* The two endpoints are each other's peer.
LEMMA PeerFacts ==
    \A e \in Endpoint : Peer(e) \in Endpoint /\ Peer(e) # e /\ Peer(Peer(e)) = e
BY DEF Endpoint, Peer

\* A history has an oldest and a newest number, and they bound the others.
LEMMA HistoryEnds ==
    ASSUME NEW h, IsHistory(h)
    PROVE  /\ Oldest(h) \in DOMAIN h /\ Oldest(h) \in Num
           /\ Newest(h) \in DOMAIN h /\ Newest(h) \in Num
           /\ \A n \in DOMAIN h : Oldest(h) <= n /\ n <= Newest(h)
<1>1. DOMAIN h \in SUBSET (0 .. SHUTDOWN_NUM) /\ DOMAIN h # {}
  BY DEF IsHistory, Num
<1>2. DOMAIN h \in SUBSET Nat
  BY <1>1, NumAssumption
<1>3. Min(DOMAIN h) \in DOMAIN h /\ \A n \in DOMAIN h : Min(DOMAIN h) <= n
  BY <1>1, <1>2, MinProperties
<1>4. Max(DOMAIN h) \in DOMAIN h /\ \A n \in DOMAIN h : Max(DOMAIN h) >= n
  BY <1>1, NumAssumption, MaxProperties
<1> QED
  BY <1>1, <1>2, <1>3, <1>4 DEF Oldest, Newest, Num

\* A history that keeps its least number keeps its oldest state.
LEMMA SameOldest ==
    ASSUME NEW h, IsHistory(h), NEW k, IsHistory(k),
           Oldest(h) \in DOMAIN k,
           \A n \in DOMAIN k : n >= Oldest(h)
    PROVE  Oldest(k) = Oldest(h)
<1>1. Oldest(h) \in Nat /\ Oldest(k) \in Nat
  BY HistoryEnds, NumAssumption DEF Num
<1>2. Oldest(k) <= Oldest(h) /\ Oldest(k) >= Oldest(h)
  BY HistoryEnds
<1> QED
  BY <1>1, <1>2

\* A number that bounds a history it belongs to is its newest.
LEMMA IsNewest ==
    ASSUME NEW k, IsHistory(k), NEW x \in DOMAIN k, \A n \in DOMAIN k : n <= x
    PROVE  Newest(k) = x
<1>1. x \in Nat /\ Newest(k) \in Nat
  BY HistoryEnds, NumAssumption DEF Num, IsHistory
<1>2. x <= Newest(k) /\ Newest(k) <= x
  BY HistoryEnds
<1> QED
  BY <1>1, <1>2

-----------------------------------------------------------------------------
\* Transport::new establishes the inductive invariant.
LEMMA InitInv == Init => Inv
<1> SUFFICES ASSUME Init PROVE Inv
  OBVIOUS
<1> USE DEF Init
<1>0. \A e \in Endpoint : InitialState[e] \in State
  BY InitialAssumption
<1>1. \A e \in Endpoint : IsHistory(sent[e]) /\ IsHistory(received[e]) /\ IsHistory(meant[e])
  BY <1>0, PeerFacts, NumAssumption DEF IsHistory, Num
<1>2. TypeOK
  <2>1. 0 \in Num
    BY NumAssumption DEF Num
  <2>2. hasRemote \in [Endpoint -> BOOLEAN]
    BY Zenon
  <2>3. \A e \in Endpoint : InitialState[Peer(e)] \in State
    BY <1>0, PeerFacts
  <2>4. lastReceiver \in [Endpoint -> State]
    BY <2>3
  <2>5. \A e \in Endpoint : \A m \in net[e] :
           {m.old, m.new, m.ack, m.throwaway} \subseteq Num
    OBVIOUS
  <2> QED
    BY <1>1, <2>1, <2>2, <2>4, <2>5, InitialAssumption DEF TypeOK
<1>3. HistoryTypeOK
  BY <1>0, <1>1, PeerFacts, InitialAssumption DEF HistoryTypeOK
<1>4. \A e \in Endpoint : Acked(e) = 0 /\ LastNum(e) = 0 /\ Newest(received[e]) = 0
  <2> TAKE e \in Endpoint
  <2>1. DOMAIN sent[e] = {0} /\ DOMAIN received[e] = {0}
    OBVIOUS
  <2> QED
    BY <1>1, <2>1, HistoryEnds DEF Acked, LastNum
<1>5. ASSUME NEW e \in Endpoint
      PROVE  MeantInv(e) /\ SentInv(e) /\ NetInv(e) /\ ReceivedInv(e)
  <2>1. /\ Subtract(InitialState[e], InitialState[e]) = InitialState[e]
        /\ Extends(InitialState[e], InitialState[e])
    BY <1>0, TrimLaws, ExtendsPreorder
  <2>2. MeantInv(e)
    BY <2>1, NumAssumption DEF MeantInv
  <2>3. SentInv(e)
    BY <2>1, <1>4 DEF SentInv
  <2>4. NetInv(e)
    BY DEF NetInv
  <2>5. ReceivedInv(e)
    <3>1. Peer(e) \in Endpoint /\ Peer(Peer(e)) = e
      BY PeerFacts
    <3>2. /\ received[Peer(e)] = [n \in {0} |-> InitialState[e]]
          /\ ackNum[Peer(e)] = 0 /\ handed[Peer(e)] = 0
          /\ lastReceiver[Peer(e)] = InitialState[e]
          /\ trimReceived[Peer(e)] = InitialState[e]
          /\ view[Peer(e)] = InitialState[e]
          /\ meant[e] = [n \in {0} |-> InitialState[e]]
      BY <3>1
    <3>3. Newest(received[Peer(e)]) = 0 /\ Acked(e) = 0
      BY <1>4, <3>1
    <3> HIDE DEF Init
    <3> QED
      BY <2>1, <3>2, <3>3 DEF ReceivedInv
  <2> QED
    BY <2>2, <2>3, <2>4, <2>5
<1> QED
  BY <1>2, <1>3, <1>5 DEF Inv

-----------------------------------------------------------------------------
\* Editing the current state preserves the inductive invariant.
LEMMA ChangeInv == ASSUME Inv, NEW e \in Endpoint, Change(e) PROVE Inv'
<1> PICK s \in State :
        /\ Extends(whole[e], s)
        /\ whole' = [whole EXCEPT ![e] = s]
        /\ cur' = [cur EXCEPT ![e] = ApplyString(cur[e], DiffFrom(s, whole[e]))]
  BY DEF Change
<1>0. /\ ~shutdown[e]
      /\ UNCHANGED <<sent, copies, shutdown, ackNum, received, quench,
                     lastReceiver, handed, hasRemote, net, meant, trimSent,
                     trimReceived, view>>
  BY DEF Change
<1>1. /\ whole \in [Endpoint -> State] /\ trimSent \in [Endpoint -> State]
      /\ cur \in [Endpoint -> State]
      /\ Extends(trimSent[e], whole[e])
      /\ cur[e] = Subtract(whole[e], trimSent[e])
  BY DEF Inv, TypeOK, HistoryTypeOK, SentInv
<1>2. /\ cur'[e] = Subtract(s, trimSent[e])
      /\ Extends(trimSent[e], s)
  BY <1>1, DiffLaws, ExtendsPreorder
<1>3. TypeOK' /\ HistoryTypeOK'
  <2>1. Subtract(s, trimSent[e]) \in State
    BY <1>1, StateClosed
  <2> QED
    BY <1>0, <1>1, <1>2, <2>1 DEF Inv, TypeOK, HistoryTypeOK, IsHistory
<1>4. ASSUME NEW f \in Endpoint PROVE MeantInv(f)'
  <2>1. MeantInv(f) /\ \A n \in DOMAIN meant[f] : meant[f][n] \in State
    BY DEF Inv, HistoryTypeOK, IsHistory
  <2>2. CASE f = e
    BY <1>0, <1>1, <2>1, <2>2, ExtendsPreorder DEF MeantInv
  <2>3. CASE f # e
    BY <1>0, <1>1, <2>1, <2>3 DEF MeantInv
  <2> QED
    BY <2>2, <2>3
<1>5. ASSUME NEW f \in Endpoint PROVE SentInv(f)'
  <2>1. SentInv(f)
    BY DEF Inv
  <2>2. CASE f = e
    BY <1>0, <1>1, <1>2, <2>1, <2>2 DEF SentInv, LastNum
  <2>3. CASE f # e
    BY <1>0, <1>1, <2>1, <2>3 DEF SentInv, LastNum
  <2> QED
    BY <2>2, <2>3
<1>6. ASSUME NEW f \in Endpoint PROVE NetInv(f)' /\ ReceivedInv(f)'
  BY <1>0 DEF Inv, NetInv, ReceivedInv, Acked
<1> QED
  BY <1>3, <1>4, <1>5, <1>6 DEF Inv

\* start_shutdown preserves the inductive invariant.
LEMMA StartShutdownInv == ASSUME Inv, NEW e \in Endpoint, StartShutdown(e) PROVE Inv'
<1>0. /\ shutdown' = [shutdown EXCEPT ![e] = TRUE]
      /\ UNCHANGED <<cur, sent, copies, ackNum, received, quench, lastReceiver,
                     handed, hasRemote, net, whole, meant, trimSent,
                     trimReceived, view>>
  BY DEF StartShutdown
<1>1. TypeOK' /\ HistoryTypeOK'
  BY <1>0 DEF Inv, TypeOK, HistoryTypeOK, IsHistory
<1>2. ASSUME NEW f \in Endpoint PROVE MeantInv(f)'
  <2>1. MeantInv(f) /\ shutdown \in [Endpoint -> BOOLEAN]
    BY DEF Inv, TypeOK
  <2>2. shutdown[f] => shutdown'[f]
    BY <1>0, <2>1
  <2> QED
    BY <1>0, <2>1, <2>2 DEF MeantInv
<1>3. ASSUME NEW f \in Endpoint PROVE SentInv(f)' /\ NetInv(f)' /\ ReceivedInv(f)'
  BY <1>0 DEF Inv, SentInv, NetInv, ReceivedInv, Acked, LastNum
<1> QED
  BY <1>1, <1>2, <1>3 DEF Inv

\* What rationalize_states computes: the same states, trimmed of what the
\* acknowledged state covers.
LEMMA Rationalized ==
    ASSUME Inv, NEW e \in Endpoint
    PROVE  LET a == meant[e][Acked(e)]
           IN  /\ Acked(e) \in DOMAIN sent[e] /\ Acked(e) \in Num
               /\ LastNum(e) \in DOMAIN sent[e] /\ LastNum(e) \in Num
               /\ \A n \in DOMAIN sent[e] : Acked(e) <= n /\ n <= LastNum(e)
               /\ a \in State
               /\ Extends(a, whole[e])
               /\ RationalizedCur(e) = Subtract(whole[e], a)
               /\ DOMAIN RationalizedSent(e) = DOMAIN sent[e]
               /\ \A n \in DOMAIN sent[e] :
                      /\ meant[e][n] \in State
                      /\ Extends(a, meant[e][n])
                      /\ RationalizedSent(e)[n] = Subtract(meant[e][n], a)
<1> DEFINE a == meant[e][Acked(e)]
           t == trimSent[e]
<1>1. /\ IsHistory(sent[e]) /\ IsHistory(meant[e])
      /\ DOMAIN sent[e] \subseteq DOMAIN meant[e]
      /\ whole[e] \in State /\ t \in State
      /\ MeantInv(e) /\ SentInv(e)
  BY DEF Inv, TypeOK, HistoryTypeOK, SentInv
<1>2. /\ Acked(e) \in DOMAIN sent[e] /\ Acked(e) \in Num
      /\ LastNum(e) \in DOMAIN sent[e] /\ LastNum(e) \in Num
      /\ \A n \in DOMAIN sent[e] : Acked(e) <= n /\ n <= LastNum(e)
  BY <1>1, HistoryEnds DEF Acked, LastNum
<1>3. \A n \in DOMAIN sent[e] :
         /\ meant[e][n] \in State
         /\ Extends(a, meant[e][n])
         /\ Extends(t, meant[e][n])
         /\ sent[e][n] = Subtract(meant[e][n], t)
  BY <1>1, <1>2 DEF IsHistory, MeantInv, SentInv
<1>4. /\ a \in State /\ Extends(t, a) /\ Extends(a, whole[e])
      /\ cur[e] = Subtract(whole[e], t)
      /\ Known(e) = Subtract(a, t)
  BY <1>1, <1>2, <1>3 DEF MeantInv, SentInv, Known
<1> HIDE DEF a, t
<1>5. RationalizedCur(e) = Subtract(whole[e], a)
  BY <1>1, <1>4, TrimLaws DEF RationalizedCur
<1>6. /\ DOMAIN RationalizedSent(e) = DOMAIN sent[e]
      /\ \A n \in DOMAIN sent[e] : RationalizedSent(e)[n] = Subtract(meant[e][n], a)
  BY <1>1, <1>3, <1>4, TrimLaws DEF RationalizedSent, Trimmed
<1> QED
  BY <1>2, <1>3, <1>4, <1>5, <1>6 DEF a

\* Trimming the sender's history preserves the inductive invariant.
LEMMA CalculateTimersInv ==
    ASSUME Inv, NEW e \in Endpoint, CalculateTimers(e) PROVE Inv'
<1> DEFINE a == meant[e][Acked(e)]
<1>0. /\ cur' = [cur EXCEPT ![e] = RationalizedCur(e)]
      /\ trimSent' = [trimSent EXCEPT ![e] = a]
      /\ sent' = [sent EXCEPT ![e] = RationalizedSent(e)]
      /\ UNCHANGED <<copies, shutdown, ackNum, received, quench, lastReceiver,
                     handed, hasRemote, net, whole, meant, trimReceived, view>>
  BY DEF CalculateTimers, RationalizeStates
<1>1. /\ a \in State /\ whole[e] \in State
      /\ Extends(a, whole[e])
      /\ RationalizedCur(e) = Subtract(whole[e], a)
      /\ DOMAIN RationalizedSent(e) = DOMAIN sent[e]
      /\ \A n \in DOMAIN sent[e] :
             /\ meant[e][n] \in State
             /\ Extends(a, meant[e][n])
             /\ RationalizedSent(e)[n] = Subtract(meant[e][n], a)
  BY Rationalized DEF Inv, HistoryTypeOK
<1>2. /\ DOMAIN sent = Endpoint /\ cur \in [Endpoint -> State]
      /\ trimSent \in [Endpoint -> State]
      /\ \A f \in Endpoint : IsHistory(sent[f])
  BY DEF Inv, TypeOK, HistoryTypeOK
<1> HIDE DEF a
<1>3. \A f \in Endpoint : DOMAIN sent'[f] = DOMAIN sent[f]
  BY <1>0, <1>1, <1>2
<1>4. \A f \in Endpoint : Acked(f)' = Acked(f) /\ LastNum(f)' = LastNum(f)
  BY <1>3 DEF Acked, LastNum, Oldest, Newest
<1>5. TypeOK' /\ HistoryTypeOK'
  <2>1. \A n \in DOMAIN sent[e] : RationalizedSent(e)[n] \in State
    BY <1>1, StateClosed
  <2>2. RationalizedCur(e) \in State
    BY <1>1, StateClosed
  <2>3. \A f \in Endpoint : IsHistory(sent'[f])
    BY <1>0, <1>1, <1>2, <2>1 DEF IsHistory
  <2> QED
    BY <1>0, <1>1, <1>2, <2>2, <2>3 DEF Inv, TypeOK, HistoryTypeOK, IsHistory
<1>6. ASSUME NEW f \in Endpoint PROVE MeantInv(f)' /\ NetInv(f)' /\ ReceivedInv(f)'
  BY <1>0, <1>4, PeerFacts DEF Inv, MeantInv, NetInv, ReceivedInv
<1>7. ASSUME NEW f \in Endpoint PROVE SentInv(f)'
  <2>1. SentInv(f)
    BY DEF Inv
  <2>2. CASE f = e
    BY <1>0, <1>1, <1>2, <1>3, <1>4, <2>1, <2>2 DEF SentInv
  <2>3. CASE f # e
    BY <1>0, <1>2, <1>4, <2>1, <2>3 DEF SentInv
  <2> QED
    BY <2>2, <2>3
<1> QED
  BY <1>5, <1>6, <1>7 DEF Inv

\* Dropping from the middle spares the floor and the state just added.
LEMMA VictimsSpareEnds ==
    ASSUME NEW nums \in SUBSET Num, NEW extra \in Nat,
           NEW lo \in nums, \A n \in nums : lo <= n,
           NEW hi \in nums, \A n \in nums : n <= hi,
           hi # SHUTDOWN_NUM => extra = 0
    PROVE  lo \notin Victims(nums, extra) /\ hi \notin Victims(nums, extra)
<1>0. nums \subseteq Nat /\ IsFiniteSet(nums) /\ Cardinality(nums) \in Nat
  <2>1. IsFiniteSet(0 .. SHUTDOWN_NUM)
    BY NumAssumption, FS_Interval
  <2>2. IsFiniteSet(nums)
    BY <2>1, FS_Subset DEF Num
  <2> QED
    BY <2>2, FS_CardinalityType, NumAssumption DEF Num
<1>1. lo \notin Victims(nums, extra)
  <2> SUFFICES ASSUME Cardinality(nums) + extra > SENT_STATES_MAX,
                      Cardinality({m \in nums : m > lo}) + extra
                          = SENT_STATES_KEEP - 1
               PROVE  FALSE
    BY DEF Victims
  <2>1. {m \in nums : m > lo} = nums \ {lo}
    <3>1. ASSUME NEW m \in nums PROVE m > lo <=> m # lo
      <4>1. m \in Nat /\ lo \in Nat /\ lo <= m
        BY <1>0
      <4> QED BY <4>1
    <3> QED BY <3>1
  <2>2. Cardinality(nums \ {lo}) = Cardinality(nums) - 1
    BY <1>0, FS_RemoveElement
  <2>3. Cardinality(nums) - 1 + extra = SENT_STATES_KEEP - 1
    BY <2>1, <2>2
  <2> QED
    BY <1>0, <2>3, HistoryAssumption
<1>2. hi \notin Victims(nums, extra)
  <2> SUFFICES ASSUME hi # SHUTDOWN_NUM,
                      Cardinality({m \in nums : m > hi}) + extra
                          = SENT_STATES_KEEP - 1
               PROVE  FALSE
    BY DEF Victims
  <2>1. {m \in nums : m > hi} = {}
    <3>1. ASSUME NEW m \in nums PROVE ~(m > hi)
      <4>1. m \in Nat /\ hi \in Nat /\ m <= hi
        BY <1>0
      <4> QED BY <4>1
    <3> QED BY <3>1
  <2>2. Cardinality({}) = 0
    BY FS_EmptySet
  <2> QED
    BY <2>1, <2>2, HistoryAssumption
<1> QED
  BY <1>1, <1>2

\* What a number given to the current state does to the sender, whether it is
\* a new one (add_sent_state) or the last one again.
Numbered(e, new) ==
    /\ new \in Num /\ LastNum(e) <= new
    /\ new = SHUTDOWN_NUM => shutdown[e]
    /\ DOMAIN meant' = Endpoint
    /\ \A f \in Endpoint \ {e} : meant'[f] = meant[f]
    /\ DOMAIN meant'[e] = DOMAIN meant[e] \cup {new}
    /\ meant'[e][new] = whole[e]
    /\ \A n \in DOMAIN meant[e] : meant'[e][n] = meant[e][n]
    /\ meant'[e] \in [DOMAIN meant'[e] -> State]
    /\ DOMAIN sent' = Endpoint
    /\ \A f \in Endpoint \ {e} : sent'[f] = sent[f]
    /\ DOMAIN sent'[e] \subseteq DOMAIN sent[e] \cup {new}
    /\ {Acked(e), new} \subseteq DOMAIN sent'[e]
    /\ \A n \in DOMAIN sent'[e] :
           sent'[e][n] = IF n = new THEN RationalizedCur(e)
                                    ELSE RationalizedSent(e)[n]
    /\ copies' \in [Endpoint -> Nat]
    /\ \A f \in Endpoint \ {e} : copies'[f] = copies[f]
    /\ copies'[e] # 0 => SHUTDOWN_NUM \in DOMAIN sent'[e]

\* add_sent_state gives a number to the current state as Numbered says.
LEMMA AddSentStateNumbered ==
    ASSUME Inv, NEW e \in Endpoint, NEW new \in Num, AddSentState(e, new),
           \/ shutdown[e] /\ new = SHUTDOWN_NUM
           \/ ~shutdown[e] /\ new = LastNum(e) + 1 /\ new < SHUTDOWN_NUM
    PROVE  Numbered(e, new)
<1> DEFINE nums == DOMAIN sent[e] \cup {new}
           extra == copies[e] + (IF new \in DOMAIN sent[e] THEN 1 ELSE 0)
           gone == Victims(nums, extra)
<1>1. /\ sent' = [sent EXCEPT ![e] =
              Restrict(Put(RationalizedSent(e), new, RationalizedCur(e)),
                       nums \ gone)]
      /\ copies' = [copies EXCEPT ![e] =
              IF /\ Cardinality(nums) + extra > SENT_STATES_MAX
                 /\ extra >= SENT_STATES_KEEP - 1
              THEN extra - 1 ELSE extra]
      /\ meant' = [meant EXCEPT ![e] = Put(meant[e], new, whole[e])]
  BY DEF AddSentState
<1>2. /\ Acked(e) \in DOMAIN sent[e] /\ Acked(e) \in Num
      /\ LastNum(e) \in DOMAIN sent[e] /\ LastNum(e) \in Num
      /\ \A n \in DOMAIN sent[e] : Acked(e) <= n /\ n <= LastNum(e)
      /\ DOMAIN RationalizedSent(e) = DOMAIN sent[e]
  BY Rationalized
<1>3. /\ DOMAIN sent = Endpoint /\ DOMAIN meant = Endpoint
      /\ copies \in [Endpoint -> Nat] /\ shutdown \in [Endpoint -> BOOLEAN]
      /\ IsHistory(sent[e]) /\ IsHistory(meant[e])
      /\ MeantInv(e) /\ SentInv(e)
  BY DEF Inv, TypeOK, HistoryTypeOK
<1>4. /\ DOMAIN sent[e] \subseteq Num /\ LastNum(e) <= new
      /\ new = SHUTDOWN_NUM => shutdown[e]
      /\ \A n \in nums : Acked(e) <= n /\ n <= new
  BY <1>2, <1>3, NumAssumption DEF IsHistory, Num
<1>5. new # SHUTDOWN_NUM => extra = 0
  <2> SUFFICES ASSUME new # SHUTDOWN_NUM PROVE extra = 0
    OBVIOUS
  <2>1. ~shutdown[e] /\ new = LastNum(e) + 1
    OBVIOUS
  <2>2. SHUTDOWN_NUM \notin DOMAIN sent[e]
    BY <1>3, <2>1 DEF MeantInv, SentInv
  <2>3. copies[e] = 0
    BY <1>3, <2>2 DEF SentInv
  <2>4. new \notin DOMAIN sent[e]
    BY <1>2, <2>1 DEF Num
  <2> QED
    BY <2>3, <2>4
<1>6. extra \in Nat
  BY <1>3
<1>7. Acked(e) \notin gone /\ new \notin gone
  <2>1. nums \in SUBSET Num /\ Acked(e) \in nums /\ new \in nums
    BY <1>2, <1>4
  <2> HIDE DEF nums, extra
  <2> QED
    BY <1>4, <1>5, <1>6, <2>1, VictimsSpareEnds
<1>8. SHUTDOWN_NUM \notin gone
  BY DEF Victims
<1>9. copies'[e] # 0 => SHUTDOWN_NUM \in nums
  <2>1. CASE new = SHUTDOWN_NUM
    BY <2>1
  <2>2. CASE new # SHUTDOWN_NUM
    <3>1. extra = 0 /\ ~(extra >= SENT_STATES_KEEP - 1)
      BY <1>5, <2>2, HistoryAssumption
    <3> QED
      BY <1>1, <1>3, <3>1
  <2> QED
    BY <2>1, <2>2
<1>10. copies' \in [Endpoint -> Nat]
  <2>1. (IF /\ Cardinality(nums) + extra > SENT_STATES_MAX
            /\ extra >= SENT_STATES_KEEP - 1
         THEN extra - 1 ELSE extra) \in Nat
    BY <1>6, HistoryAssumption
  <2> QED
    BY <1>1, <1>3, <2>1
<1> HIDE DEF extra, gone
<1>11. /\ DOMAIN sent'[e] = nums \ gone
       /\ \A n \in nums \ gone :
             sent'[e][n] = IF n = new THEN RationalizedCur(e)
                                      ELSE RationalizedSent(e)[n]
  BY <1>1, <1>2, <1>3 DEF Restrict, Put
<1>12. /\ DOMAIN meant'[e] = DOMAIN meant[e] \cup {new}
       /\ meant'[e][new] = whole[e]
  BY <1>1, <1>3 DEF Put
<1>13. ASSUME NEW n \in DOMAIN meant[e] PROVE meant'[e][n] = meant[e][n]
  <2>1. CASE n = new
    <3>1. n <= LastNum(e)
      BY <1>3 DEF SentInv
    <3>2. shutdown[e] /\ n = SHUTDOWN_NUM
      BY <2>1, <3>1, <1>2 DEF Num
    <3> QED
      BY <3>2, <2>1, <1>3, <1>12 DEF MeantInv
  <2>2. CASE n # new
    BY <1>1, <1>3, <2>2 DEF Put
  <2> QED
    BY <2>1, <2>2
<1>14. meant'[e] \in [DOMAIN meant'[e] -> State]
  <2>1. /\ whole[e] \in State
        /\ \A n \in DOMAIN meant[e] : meant[e][n] \in State
    BY DEF Inv, HistoryTypeOK, IsHistory
  <2> QED
    BY <1>1, <1>3, <2>1 DEF Put
<1>15. /\ DOMAIN meant' = Endpoint /\ DOMAIN sent' = Endpoint
       /\ \A f \in Endpoint \ {e} :
             meant'[f] = meant[f] /\ sent'[f] = sent[f] /\ copies'[f] = copies[f]
  BY <1>1, <1>3
<1> QED
  BY <1>2, <1>4, <1>7, <1>8, <1>9, <1>10, <1>11, <1>12, <1>13, <1>15,
     <1>14 DEF Numbered

\* So does sending the last state again under its own number.
LEMMA KeepSentStatesNumbered ==
    ASSUME Inv, NEW e \in Endpoint, KeepSentStates(e),
           AlreadySent(e) \/ (shutdown[e] /\ LastNum(e) = SHUTDOWN_NUM),
           LastNum(e) = SHUTDOWN_NUM => shutdown[e]
    PROVE  Numbered(e, LastNum(e))
<1> DEFINE a == meant[e][Acked(e)]
<1>1. /\ sent' = [sent EXCEPT ![e] = RationalizedSent(e)]
      /\ copies' = copies /\ meant' = meant
  BY DEF KeepSentStates
<1>2. /\ Acked(e) \in DOMAIN sent[e]
      /\ LastNum(e) \in DOMAIN sent[e] /\ LastNum(e) \in Num
      /\ a \in State /\ Extends(a, whole[e])
      /\ RationalizedCur(e) = Subtract(whole[e], a)
      /\ DOMAIN RationalizedSent(e) = DOMAIN sent[e]
      /\ \A n \in DOMAIN sent[e] :
             /\ meant[e][n] \in State
             /\ Extends(a, meant[e][n])
             /\ RationalizedSent(e)[n] = Subtract(meant[e][n], a)
  BY Rationalized
<1>3. /\ DOMAIN sent = Endpoint /\ DOMAIN meant = Endpoint
      /\ copies \in [Endpoint -> Nat] /\ whole[e] \in State
      /\ meant[e] \in [DOMAIN meant[e] -> State]
      /\ MeantInv(e) /\ SentInv(e)
  BY DEF Inv, TypeOK, HistoryTypeOK
<1> HIDE DEF a
<1>4. meant[e][LastNum(e)] = whole[e]
  <2>1. CASE AlreadySent(e)
    <3>1. Subtract(whole[e], a) = Subtract(meant[e][LastNum(e)], a)
      BY <1>2, <2>1 DEF AlreadySent
    <3>2. meant[e][LastNum(e)] \in State /\ Extends(a, meant[e][LastNum(e)])
      BY <1>2
    <3> QED
      BY <1>2, <1>3, <3>1, <3>2, TrimLaws
  <2>2. CASE shutdown[e] /\ LastNum(e) = SHUTDOWN_NUM
    BY <1>2, <1>3, <2>2 DEF MeantInv, SentInv
  <2> QED
    BY <2>1, <2>2
<1>5. LastNum(e) \in DOMAIN meant[e]
  BY <1>2, <1>3 DEF SentInv
<1>6. /\ DOMAIN sent'[e] = DOMAIN sent[e]
      /\ \A n \in DOMAIN sent[e] : sent'[e][n] = RationalizedSent(e)[n]
      /\ RationalizedSent(e)[LastNum(e)] = RationalizedCur(e)
  BY <1>1, <1>2, <1>3, <1>4
<1>7. LastNum(e) <= LastNum(e)
  BY <1>2, NumAssumption DEF Num
<1>8. /\ DOMAIN sent' = Endpoint
      /\ \A f \in Endpoint \ {e} : sent'[f] = sent[f]
  BY <1>1, <1>3
<1> QED
  BY <1>1, <1>2, <1>3, <1>4, <1>5, <1>6, <1>7, <1>8 DEF Numbered, SentInv
\* Every datagram a tick sends carries the diff from what its base means to
\* the whole state, under a number that now means the whole state.
LEMMA TickNumbered ==
    ASSUME Inv, NEW e \in Endpoint, NEW b, Tick(e, b)
    PROVE  \E new \in Num :
               /\ Numbered(e, new)
               /\ BuildInstruction(e, b, new, DiffFrom(whole[e], meant[e][b]))
<1> DEFINE a == meant[e][Acked(e)]
<1>1. /\ Acked(e) \in DOMAIN sent[e]
      /\ LastNum(e) \in DOMAIN sent[e] /\ LastNum(e) \in Num
      /\ a \in State
      /\ RationalizedCur(e) = Subtract(whole[e], a)
      /\ \A n \in DOMAIN sent[e] :
             /\ meant[e][n] \in State
             /\ Extends(a, meant[e][n])
             /\ RationalizedSent(e)[n] = Subtract(meant[e][n], a)
  BY Rationalized
<1>2. /\ shutdown \in [Endpoint -> BOOLEAN] /\ whole[e] \in State
      /\ MeantInv(e) /\ SentInv(e)
  BY DEF Inv, TypeOK, HistoryTypeOK
<1> HIDE DEF a
<1>3. b \in DOMAIN sent[e]
  BY <1>1 DEF Tick, DiffBase
<1>4. DiffOf(e, b) = DiffFrom(whole[e], meant[e][b])
  <2>1. Extends(meant[e][b], whole[e])
    BY <1>2, <1>3 DEF MeantInv, SentInv
  <2> QED
    BY <1>1, <1>2, <1>3, <2>1, DiffLaws DEF DiffOf
<1>5. LastNum(e) = SHUTDOWN_NUM => shutdown[e]
  BY <1>1, <1>2 DEF MeantInv, SentInv
<1>6. SHUTDOWN_NUM \in Num
  BY NumAssumption DEF Num
<1>7. ASSUME NEW k \in {1, 2}, NumsLeft(e, k)
      PROVE  LastNum(e) + 1 \in Num /\ LastNum(e) + 1 < SHUTDOWN_NUM
  BY <1>1, <1>7, HistoryAssumption, NumAssumption DEF NumsLeft, Num
<1>8. CASE SendEmptyAck(e, b)
  <2>1. EmptyDiff = DiffFrom(whole[e], meant[e][b])
    BY <1>4, <1>8 DEF SendEmptyAck
  <2>2. CASE /\ shutdown[e]
             /\ AddSentState(e, NextNum(e))
             /\ BuildInstruction(e, b, NextNum(e), EmptyDiff)
    <3>1. NextNum(e) = SHUTDOWN_NUM
      BY <2>2 DEF NextNum
    <3> QED
      BY <1>6, <2>1, <2>2, <3>1, AddSentStateNumbered
  <2>3. CASE /\ ~shutdown[e]
             /\ NumsLeft(e, IF AlreadySent(e) THEN 2 ELSE 1)
             /\ AddSentState(e, NextNum(e))
             /\ BuildInstruction(e, b, NextNum(e), EmptyDiff)
    <3>1. /\ NextNum(e) = LastNum(e) + 1
          /\ NextNum(e) \in Num /\ NextNum(e) < SHUTDOWN_NUM
      BY <1>7, <2>3 DEF NextNum
    <3>2. Numbered(e, NextNum(e))
      BY <2>3, <3>1, AddSentStateNumbered
    <3> QED
      BY <2>1, <2>3, <3>1, <3>2
  <2>4. CASE /\ ~shutdown[e] /\ AlreadySent(e)
             /\ KeepSentStates(e)
             /\ BuildInstruction(e, b, LastNum(e), EmptyDiff)
    <3>1. Numbered(e, LastNum(e))
      BY <1>5, <2>4, KeepSentStatesNumbered
    <3> QED
      BY <1>1, <2>1, <2>4, <3>1
  <2> QED
    BY <1>8, <2>2, <2>3, <2>4 DEF SendEmptyAck
<1>9. CASE SendToReceiver(e, b)
  <2> DEFINE new == IF ~shutdown[e] /\ AlreadySent(e) THEN LastNum(e) ELSE NextNum(e)
  <2>1. /\ shutdown[e] \/ AlreadySent(e) \/ NumsLeft(e, 1)
        /\ IF new = LastNum(e) THEN KeepSentStates(e) ELSE AddSentState(e, new)
        /\ BuildInstruction(e, b, new, DiffFrom(whole[e], meant[e][b]))
    BY <1>4, <1>9 DEF SendToReceiver
  <2>2. new \in Num
    BY <1>1, <1>6, <1>7, <2>1 DEF NextNum
  <2>3. Numbered(e, new)
    <3>1. CASE new = LastNum(e)
      <4>1. AlreadySent(e) \/ (shutdown[e] /\ LastNum(e) = SHUTDOWN_NUM)
        BY <1>1, <3>1, NumAssumption DEF Num, NextNum
      <4> QED
        BY <1>5, <2>1, <3>1, <4>1, KeepSentStatesNumbered
    <3>2. CASE new # LastNum(e)
      <4>1. \/ shutdown[e] /\ new = SHUTDOWN_NUM
            \/ ~shutdown[e] /\ new = LastNum(e) + 1 /\ new < SHUTDOWN_NUM
        BY <1>7, <2>1, <3>2 DEF NextNum
      <4>2. AddSentState(e, new)
        BY <2>1, <3>2
      <4> HIDE DEF new
      <4> QED
        BY <2>2, <4>1, <4>2, AddSentStateNumbered
    <3> QED
      BY <3>1, <3>2
  <2> HIDE DEF new
  <2> QED
    BY <2>1, <2>2, <2>3
<1> QED
  BY <1>8, <1>9 DEF Tick
\* A tick leaves the floor where it is, and its number is now the last one.
LEMMA NumberedEnds ==
    ASSUME Inv, NEW e \in Endpoint, NEW new \in Num, Numbered(e, new)
    PROVE  IsHistory(sent'[e]) /\ Acked(e)' = Acked(e) /\ LastNum(e)' = new
<1> DEFINE a == meant[e][Acked(e)]
<1>1. /\ Acked(e) \in DOMAIN sent[e] /\ Acked(e) \in Num
      /\ LastNum(e) \in DOMAIN sent[e] /\ LastNum(e) \in Num
      /\ \A n \in DOMAIN sent[e] : Acked(e) <= n /\ n <= LastNum(e)
      /\ a \in State
      /\ RationalizedCur(e) = Subtract(whole[e], a)
      /\ \A n \in DOMAIN sent[e] :
             /\ meant[e][n] \in State
             /\ RationalizedSent(e)[n] = Subtract(meant[e][n], a)
  BY Rationalized
<1>2. IsHistory(sent[e]) /\ whole[e] \in State
  BY DEF Inv, TypeOK, HistoryTypeOK
<1> HIDE DEF a
<1>3. /\ DOMAIN sent'[e] \subseteq Num
      /\ \A n \in DOMAIN sent'[e] : Acked(e) <= n /\ n <= new
  BY <1>1, <1>2 DEF Numbered, IsHistory, Num
<1>4. {Acked(e), new} \subseteq DOMAIN sent'[e]
  BY DEF Numbered
<1>5. IsHistory(sent'[e])
  <2>1. /\ RationalizedCur(e) \in State
        /\ \A n \in DOMAIN sent[e] : RationalizedSent(e)[n] \in State
    BY <1>1, <1>2, StateClosed
  <2> QED
    BY <1>3, <1>4, <2>1 DEF Numbered, IsHistory
<1>6. \A n \in DOMAIN sent'[e] : n >= Oldest(sent[e])
  BY <1>1, <1>3 DEF Acked, Num
<1>7. Oldest(sent'[e]) = Oldest(sent[e])
  BY <1>2, <1>4, <1>5, <1>6, SameOldest DEF Acked
<1>8. Newest(sent'[e]) = new
  BY <1>3, <1>4, <1>5, IsNewest
<1> QED
  BY <1>5, <1>7, <1>8 DEF Acked, LastNum

\* A tick preserves the inductive invariant.
LEMMA TickInv == ASSUME Inv, NEW e \in Endpoint, NEW b, Tick(e, b) PROVE Inv'
<1> DEFINE a == meant[e][Acked(e)]
<1>1. PICK new \in Num :
          /\ Numbered(e, new)
          /\ BuildInstruction(e, b, new, DiffFrom(whole[e], meant[e][b]))
  BY TickNumbered
<1> DEFINE msg == [old |-> b, new |-> new, ack |-> ackNum[e],
                   throwaway |-> Acked(e),
                   diff |-> DiffFrom(whole[e], meant[e][b])]
<1>2. /\ cur' = [cur EXCEPT ![e] = RationalizedCur(e)]
      /\ trimSent' = [trimSent EXCEPT ![e] = a]
      /\ b \in {Acked(e), LastNum(e)}
      /\ UNCHANGED <<shutdown, ackNum, received, quench, lastReceiver, handed,
                     hasRemote, whole, trimReceived, view>>
  BY DEF Tick, RationalizeStates, DiffBase
<1>3. /\ Acked(e) \in DOMAIN sent[e] /\ Acked(e) \in Num
      /\ LastNum(e) \in DOMAIN sent[e] /\ LastNum(e) \in Num
      /\ \A n \in DOMAIN sent[e] : Acked(e) <= n /\ n <= LastNum(e)
      /\ a \in State /\ Extends(a, whole[e])
      /\ RationalizedCur(e) = Subtract(whole[e], a)
      /\ \A n \in DOMAIN sent[e] :
             /\ meant[e][n] \in State
             /\ Extends(a, meant[e][n])
             /\ RationalizedSent(e)[n] = Subtract(meant[e][n], a)
  BY Rationalized
<1>4. /\ TypeOK /\ HistoryTypeOK
      /\ \A f \in Endpoint :
             MeantInv(f) /\ SentInv(f) /\ NetInv(f) /\ ReceivedInv(f)
  BY DEF Inv
<1>5. whole[e] \in State /\ Subtract(whole[e], a) \in State
  BY <1>3, <1>4, StateClosed DEF HistoryTypeOK
<1> HIDE DEF a
<1>6. /\ DOMAIN net' = Endpoint
      /\ \A f \in Endpoint \ {e} : net'[f] = net[f]
      /\ \A m \in net'[e] : m \in net[e] \/ m = msg
  BY <1>1, <1>4 DEF BuildInstruction, Send, TypeOK
<1>7. ASSUME NEW f \in Endpoint
      PROVE  /\ IsHistory(sent'[f]) /\ IsHistory(meant'[f])
             /\ meant'[f] \in [DOMAIN meant'[f] -> State]
  <2>1. CASE f = e
    <3>1. IsHistory(sent'[e])
      BY <1>1, NumberedEnds
    <3>2. IsHistory(meant'[e])
      BY <1>1, <1>4, <1>5 DEF Numbered, IsHistory, HistoryTypeOK
    <3> QED
      BY <1>1, <2>1, <3>1, <3>2 DEF Numbered
  <2>2. CASE f # e
    BY <1>1, <1>4, <2>2 DEF Numbered, TypeOK, HistoryTypeOK
  <2> QED
    BY <2>1, <2>2
<1>8. Acked(e)' = Acked(e) /\ LastNum(e)' = new
  BY <1>1, NumberedEnds
<1>9. \A f \in Endpoint \ {e} : Acked(f)' = Acked(f) /\ LastNum(f)' = LastNum(f)
  BY <1>1 DEF Numbered, Acked, LastNum
<1>10. \A f \in Endpoint : Acked(f)' = Acked(f)
  BY <1>8, <1>9
<1>11. TypeOK' /\ HistoryTypeOK'
  <2>1. \A f \in Endpoint : \A m \in net'[f] :
            {m.old, m.new, m.ack, m.throwaway} \subseteq Num
    <3>1. {msg.old, msg.new, msg.ack, msg.throwaway} \subseteq Num
      BY <1>2, <1>3, <1>4 DEF TypeOK
    <3> HIDE DEF msg
    <3> QED
      BY <1>4, <1>6, <3>1 DEF TypeOK
  <2>2. cur' \in [Endpoint -> State] /\ trimSent' \in [Endpoint -> State]
    BY <1>2, <1>3, <1>4, <1>5 DEF TypeOK, HistoryTypeOK
  <2>3. DOMAIN sent' = Endpoint /\ DOMAIN meant' = Endpoint /\ copies' \in [Endpoint -> Nat]
    BY <1>1 DEF Numbered
  <2>4. TypeOK'
    BY <1>2, <1>4, <1>6, <1>7, <2>1, <2>2, <2>3 DEF TypeOK
  <2>5. HistoryTypeOK'
    BY <1>2, <1>4, <1>7, <2>2, <2>3 DEF HistoryTypeOK
  <2> QED
    BY <2>4, <2>5
<1>12. ASSUME NEW f \in Endpoint PROVE MeantInv(f)'
  <2>1. CASE f = e
    <3>1. \A n \in DOMAIN meant[e] : n <= LastNum(e) /\ n \in Num
      BY <1>4 DEF SentInv, HistoryTypeOK, IsHistory
    <3>2. DOMAIN meant'[e] = DOMAIN meant[e] \cup {new} /\ meant'[e][new] = whole[e]
      BY <1>1 DEF Numbered
    <3>3. \A n \in DOMAIN meant[e] : meant'[e][n] = meant[e][n]
      BY <1>1 DEF Numbered
    <3>4. \A n \in DOMAIN meant'[e] : Extends(meant'[e][n], whole[e])
      BY <1>4, <1>5, <3>2, <3>3, ExtendsPreorder DEF MeantInv
    <3>5. ASSUME NEW m \in DOMAIN meant'[e], NEW n \in DOMAIN meant'[e], m <= n
          PROVE  Extends(meant'[e][m], meant'[e][n])
      <4>1. CASE meant'[e][n] = whole[e]
        BY <3>4, <4>1
      <4>2. CASE meant'[e][n] # whole[e]
        <5>1. n \in DOMAIN meant[e]
          BY <3>2, <4>2
        <5>2. m # new
          <6> SUFFICES ASSUME m = new PROVE FALSE
            OBVIOUS
          <6>1. LastNum(e) <= new /\ n <= LastNum(e) /\ n \in Num
            BY <1>1, <3>1, <5>1 DEF Numbered
          <6>2. n = new
            BY <1>3, <3>5, <6>1 DEF Num
          <6> QED
            BY <3>2, <4>2, <6>2
        <5>3. m \in DOMAIN meant[e]
          BY <3>2, <5>2
        <5> QED
          BY <1>4, <3>3, <3>5, <5>1, <5>3 DEF MeantInv
      <4> QED
        BY <4>1, <4>2
    <3>6. 0 \in DOMAIN meant'[e] /\ meant'[e][0] = InitialState[e]
      BY <1>4, <3>2, <3>3 DEF MeantInv
    <3>7. SHUTDOWN_NUM \in DOMAIN meant'[e] =>
              shutdown[e] /\ meant'[e][SHUTDOWN_NUM] = whole[e]
      BY <1>1, <1>4, <3>2, <3>3 DEF MeantInv, Numbered
    <3>8. whole'[e] = whole[e] /\ shutdown'[e] = shutdown[e]
      BY <1>2
    <3> QED
      BY <2>1, <3>4, <3>5, <3>6, <3>7, <3>8 DEF MeantInv
  <2>2. CASE f # e
    <3>1. meant'[f] = meant[f] /\ whole'[f] = whole[f] /\ shutdown'[f] = shutdown[f]
      BY <1>1, <1>2, <2>2 DEF Numbered
    <3> QED
      BY <1>4, <3>1 DEF MeantInv
  <2> QED
    BY <2>1, <2>2
<1>13. ASSUME NEW f \in Endpoint PROVE SentInv(f)'
  <2>1. CASE f = e
    <3>1. /\ cur'[e] = Subtract(whole[e], a) /\ trimSent'[e] = a /\ whole'[e] = whole[e]
      BY <1>2, <1>3, <1>4 DEF TypeOK, HistoryTypeOK
    <3>2. DOMAIN sent'[e] \subseteq DOMAIN meant'[e]
      BY <1>1, <1>4 DEF Numbered, SentInv
    <3>3. \A n \in DOMAIN meant'[e] : n <= new
      BY <1>1, <1>3, <1>4 DEF Numbered, SentInv, Num, HistoryTypeOK, IsHistory
    <3>4. ASSUME NEW n \in DOMAIN sent'[e]
          PROVE  /\ Extends(a, meant'[e][n])
                 /\ sent'[e][n] = Subtract(meant'[e][n], a)
      <4>1. CASE n = new
        BY <1>1, <1>3, <4>1 DEF Numbered
      <4>2. CASE n # new
        <5>1. n \in DOMAIN sent[e] /\ n \in DOMAIN meant[e]
          BY <1>1, <1>4, <3>4, <4>2 DEF Numbered, SentInv
        <5> QED
          BY <1>1, <1>3, <3>4, <4>2, <5>1 DEF Numbered
      <4> QED
        BY <4>1, <4>2
    <3>5. copies'[e] # 0 => SHUTDOWN_NUM \in DOMAIN sent'[e]
      BY <1>1 DEF Numbered
    <3> QED
      BY <1>3, <1>8, <2>1, <3>1, <3>2, <3>3, <3>4, <3>5 DEF SentInv
  <2>2. CASE f # e
    <3>1. /\ meant'[f] = meant[f] /\ sent'[f] = sent[f] /\ copies'[f] = copies[f]
          /\ cur'[f] = cur[f] /\ trimSent'[f] = trimSent[f] /\ whole'[f] = whole[f]
          /\ LastNum(f)' = LastNum(f)
      BY <1>1, <1>2, <1>4, <1>9, <2>2 DEF Numbered, TypeOK, HistoryTypeOK
    <3> QED
      BY <1>4, <3>1 DEF SentInv
  <2> QED
    BY <2>1, <2>2
<1>14. \A f \in Endpoint :
          /\ DOMAIN meant[f] \subseteq DOMAIN meant'[f]
          /\ \A n \in DOMAIN meant[f] : meant'[f][n] = meant[f][n]
  BY <1>1 DEF Numbered
<1>15. ASSUME NEW f \in Endpoint PROVE ReceivedInv(f)'
  <2>1. ReceivedInv(f) /\ Peer(f) \in Endpoint
    BY <1>4, PeerFacts
  <2> QED
    BY <1>2, <1>10, <1>14, <2>1 DEF ReceivedInv
<1>16. ASSUME NEW f \in Endpoint PROVE NetInv(f)'
  <2>1. Peer(f) \in Endpoint
    BY PeerFacts
  <2>2. ASSUME NEW m \in net[f]
        PROVE  /\ {m.old, m.new} \subseteq DOMAIN meant'[f]
               /\ m.throwaway <= m.old /\ m.old <= m.new
               /\ m.throwaway <= Acked(f)'
               /\ m.diff = DiffFrom(meant'[f][m.new], meant'[f][m.old])
               /\ m.ack \in DOMAIN received'[f] \/ m.ack < Acked(Peer(f))'
    BY <1>2, <1>4, <1>10, <1>14, <2>1, <2>2 DEF NetInv
  <2>3. CASE f # e
    BY <1>6, <2>2, <2>3 DEF NetInv
  <2>4. CASE f = e
    <3>1. b \in DOMAIN meant[e] /\ b \in Num /\ Acked(e) <= b /\ b <= LastNum(e)
      BY <1>2, <1>3, <1>4 DEF SentInv, Num
    <3>2. /\ new \in DOMAIN meant'[e] /\ meant'[e][new] = whole[e]
          /\ b \in DOMAIN meant'[e] /\ meant'[e][b] = meant[e][b]
          /\ b <= new
      BY <1>1, <1>3, <3>1 DEF Numbered, Num
    <3>3. ackNum[e] \in DOMAIN received'[e]
      <4>1. ReceivedInv(Peer(e)) /\ Peer(Peer(e)) = e /\ IsHistory(received[e])
        BY <1>4, PeerFacts DEF TypeOK
      <4>2. ackNum[e] = Newest(received[e])
        BY <4>1 DEF ReceivedInv
      <4> QED
        BY <1>2, <4>1, <4>2, HistoryEnds
    <3>4. /\ {msg.old, msg.new} \subseteq DOMAIN meant'[e]
          /\ msg.throwaway <= msg.old /\ msg.old <= msg.new
          /\ msg.throwaway <= Acked(e)'
          /\ msg.diff = DiffFrom(meant'[e][msg.new], meant'[e][msg.old])
          /\ msg.ack \in DOMAIN received'[e]
      BY <1>3, <1>8, <3>1, <3>2, <3>3 DEF Num
    <3> HIDE DEF msg
    <3> QED
      BY <1>6, <2>2, <2>4, <3>4 DEF NetInv
  <2> QED
    BY <2>3, <2>4
<1> QED
  BY <1>11, <1>12, <1>13, <1>15, <1>16 DEF Inv
-----------------------------------------------------------------------------
\* What an acknowledgment does to the sender's history: a new floor, which
\* the peer holds.
LEMMA AcknowledgmentFacts ==
    ASSUME Inv, NEW e \in Endpoint, NEW m \in net[Peer(e)],
           ProcessAcknowledgmentThrough(e, m.ack)
    PROVE  /\ DOMAIN sent' = Endpoint
           /\ \A f \in Endpoint \ {e} : sent'[f] = sent[f]
           /\ IsHistory(sent'[e])
           /\ DOMAIN sent'[e] \subseteq DOMAIN sent[e]
           /\ \A n \in DOMAIN sent'[e] : sent'[e][n] = sent[e][n]
           /\ SHUTDOWN_NUM \in DOMAIN sent[e] => SHUTDOWN_NUM \in DOMAIN sent'[e]
           /\ LastNum(e)' = LastNum(e)
           /\ Acked(e)' >= Acked(e)
           /\ Acked(e)' \in DOMAIN received[Peer(e)]
<1>1. /\ Peer(e) \in Endpoint /\ Peer(Peer(e)) = e
      /\ DOMAIN sent = Endpoint /\ IsHistory(sent[e])
      /\ m.ack \in Num
      /\ NetInv(Peer(e)) /\ ReceivedInv(e)
  BY PeerFacts DEF Inv, TypeOK
<1>2. /\ Acked(e) \in DOMAIN sent[e] /\ Acked(e) \in Num
      /\ LastNum(e) \in DOMAIN sent[e] /\ LastNum(e) \in Num
      /\ \A n \in DOMAIN sent[e] : Acked(e) <= n /\ n <= LastNum(e)
  BY <1>1, HistoryEnds DEF Acked, LastNum
<1>3. CASE m.ack \notin DOMAIN sent[e]
  <2>1. sent' = [sent EXCEPT ![e] = sent[e]]
    BY <1>3 DEF ProcessAcknowledgmentThrough
  <2>2. sent'[e] = sent[e] /\ DOMAIN sent' = Endpoint
        /\ \A f \in Endpoint \ {e} : sent'[f] = sent[f]
    BY <1>1, <2>1
  <2>3. LastNum(e)' = LastNum(e) /\ Acked(e)' = Acked(e)
    BY <2>2 DEF LastNum, Acked
  <2>4. Acked(e) >= Acked(e) /\ Acked(e) \in DOMAIN received[Peer(e)]
    BY <1>1, <1>2 DEF ReceivedInv, Num
  <2> QED
    BY <1>1, <2>2, <2>3, <2>4
<1>4. CASE m.ack \in DOMAIN sent[e]
  <2>1. sent' = [sent EXCEPT ![e] = From(sent[e], m.ack)]
    BY <1>4 DEF ProcessAcknowledgmentThrough
  <2>2. /\ DOMAIN sent' = Endpoint
        /\ \A f \in Endpoint \ {e} : sent'[f] = sent[f]
        /\ DOMAIN sent'[e] = {k \in DOMAIN sent[e] : k >= m.ack}
        /\ \A n \in DOMAIN sent'[e] : sent'[e][n] = sent[e][n]
    BY <1>1, <2>1 DEF From, Restrict
  <2>3. m.ack \in DOMAIN sent'[e] /\ LastNum(e) \in DOMAIN sent'[e]
    BY <1>1, <1>2, <1>4, <2>2 DEF Num
  <2>4. IsHistory(sent'[e])
    BY <1>1, <2>2, <2>3 DEF IsHistory
  <2>5. Newest(sent'[e]) = LastNum(e)
    BY <1>2, <2>2, <2>3, <2>4, IsNewest
  <2>6. Oldest(sent'[e]) = m.ack
    <3>1. Oldest(sent'[e]) >= m.ack /\ Oldest(sent'[e]) <= m.ack /\ Oldest(sent'[e]) \in Num
      BY <2>2, <2>3, <2>4, HistoryEnds
    <3> QED
      BY <1>1, <3>1 DEF Num
  <2>7. m.ack >= Acked(e) /\ ~(m.ack < Acked(e))
    BY <1>1, <1>2, <1>4 DEF Num
  <2>8. m.ack \in DOMAIN received[Peer(e)]
    BY <1>1, <2>7 DEF NetInv
  <2>9. SHUTDOWN_NUM \in DOMAIN sent[e] => SHUTDOWN_NUM \in DOMAIN sent'[e]
    BY <1>1, <2>2, NumAssumption DEF Num
  <2>10. LastNum(e)' = LastNum(e) /\ Acked(e)' = m.ack
    BY <2>5, <2>6 DEF LastNum, Acked
  <2>11. DOMAIN sent'[e] \subseteq DOMAIN sent[e]
    BY <2>2
  <2> QED
    BY <2>2, <2>4, <2>7, <2>8, <2>9, <2>10, <2>11
<1> QED
  BY <1>3, <1>4

\* What culling leaves: everything from the sender's floor on, and the newest.
LEMMA KeptFacts ==
    ASSUME Inv, NEW e \in Endpoint, NEW m \in net[Peer(e)]
    PROVE  /\ IsHistory(Kept(e, m))
           /\ DOMAIN Kept(e, m) \subseteq DOMAIN received[e]
           /\ \A n \in DOMAIN Kept(e, m) : Kept(e, m)[n] = received[e][n]
           /\ \A n \in DOMAIN received[e] :
                  n >= Acked(Peer(e)) => n \in DOMAIN Kept(e, m)
           /\ Newest(Kept(e, m)) = Newest(received[e])
<1> DEFINE p == Peer(e)
           t == Min({m.throwaway, Newest(received[e])})
<1>1. /\ p \in Endpoint /\ IsHistory(received[e]) /\ IsHistory(sent[p])
      /\ NetInv(p) /\ m.throwaway \in Num
  BY PeerFacts DEF Inv, TypeOK
<1>2. /\ Newest(received[e]) \in DOMAIN received[e] /\ Newest(received[e]) \in Num
      /\ \A n \in DOMAIN received[e] : n <= Newest(received[e])
      /\ Acked(p) \in Num
  BY <1>1, HistoryEnds DEF Acked
<1>3. t \in Num /\ t <= m.throwaway /\ t <= Newest(received[e])
  <2>1. {m.throwaway, Newest(received[e])} \in SUBSET Nat
    BY <1>1, <1>2, NumAssumption DEF Num
  <2>2. /\ t \in {m.throwaway, Newest(received[e])}
        /\ \A n \in {m.throwaway, Newest(received[e])} : t <= n
    BY <2>1, MinProperties
  <2> QED
    BY <1>1, <1>2, <2>2
<1>4. t <= Acked(p)
  <2>1. m.throwaway <= Acked(p)
    BY <1>1 DEF NetInv
  <2> QED
    BY <1>1, <1>2, <1>3, <2>1 DEF Num
<1> HIDE DEF t
<1>5. /\ DOMAIN Kept(e, m) = {k \in DOMAIN received[e] : k >= t}
      /\ \A n \in DOMAIN Kept(e, m) : Kept(e, m)[n] = received[e][n]
  BY DEF Kept, From, Restrict, t
<1>6. Newest(received[e]) \in DOMAIN Kept(e, m)
  BY <1>2, <1>3, <1>5 DEF Num
<1>7. IsHistory(Kept(e, m))
  BY <1>1, <1>5, <1>6 DEF IsHistory
<1>8. Newest(Kept(e, m)) = Newest(received[e])
  <2>1. \A n \in DOMAIN Kept(e, m) : n <= Newest(received[e])
    BY <1>2, <1>5
  <2> QED
    BY <1>6, <1>7, <2>1, IsNewest
<1>9. \A n \in DOMAIN received[e] : n >= Acked(p) => n \in DOMAIN Kept(e, m)
  BY <1>1, <1>2, <1>3, <1>4, <1>5 DEF Num, IsHistory
<1> QED
  BY <1>5, <1>7, <1>8, <1>9
\* What an instruction may do to the receiver's history.
Collected(e) ==
    /\ DOMAIN received' = Endpoint
    /\ \A f \in Endpoint \ {e} : received'[f] = received[f]
    /\ IsHistory(received'[e])
    /\ \A n \in DOMAIN received'[e] :
           /\ n \in DOMAIN meant[Peer(e)]
           /\ Extends(trimReceived[e], meant[Peer(e)][n])
           /\ received'[e][n] = Subtract(meant[Peer(e)][n], trimReceived[e])
    /\ \A n \in DOMAIN received[e] :
           n >= Acked(Peer(e)) => n \in DOMAIN received'[e]
    /\ ackNum' \in [Endpoint -> Num]
    /\ \A f \in Endpoint \ {e} : ackNum'[f] = ackNum[f]
    /\ ackNum'[e] = Newest(received'[e])
    /\ ackNum'[e] >= ackNum[e]
    /\ quench' \in [Endpoint -> BOOLEAN]

\* A diff applied to the state it names gives the state its number means.
LEMMA NewStateFacts ==
    ASSUME Inv, NEW e \in Endpoint, NEW m \in net[Peer(e)],
           m.old \in DOMAIN received[e]
    PROVE  /\ m.new \in DOMAIN meant[Peer(e)] /\ m.new \in Num
           /\ NewState(e, m) \in State
           /\ Extends(trimReceived[e], meant[Peer(e)][m.new])
           /\ NewState(e, m) = Subtract(meant[Peer(e)][m.new], trimReceived[e])
<1> DEFINE p == Peer(e)
           t == trimReceived[e]
           new == meant[p][m.new]
           old == meant[p][m.old]
<1>1. /\ p \in Endpoint /\ Peer(p) = e
      /\ NetInv(p) /\ ReceivedInv(p) /\ MeantInv(p)
      /\ IsHistory(meant[p]) /\ t \in State
  BY PeerFacts DEF Inv, HistoryTypeOK
<1>2. /\ {m.old, m.new} \subseteq DOMAIN meant[p] /\ m.old <= m.new
      /\ m.diff = DiffFrom(new, old)
  BY <1>1 DEF NetInv
<1>3. /\ old \in State /\ new \in State /\ m.new \in Num
      /\ Extends(old, new)
  BY <1>1, <1>2 DEF MeantInv, IsHistory
<1>4. Extends(t, old) /\ received[e][m.old] = Subtract(old, t)
  BY <1>1 DEF ReceivedInv
<1> HIDE DEF t, old, new
<1>5. Extends(t, new) /\ Subtract(new, t) \in State
  BY <1>1, <1>3, <1>4, ExtendsPreorder, StateClosed
<1>6. NewState(e, m) = Subtract(new, t)
  <2>1. CASE m.diff = EmptyDiff
    <3>1. old = new
      BY <1>2, <1>3, <2>1, DiffLaws
    <3> QED
      BY <1>4, <2>1, <3>1 DEF NewState
  <2>2. CASE m.diff # EmptyDiff
    <3>1. ApplyString(Subtract(old, t), DiffFrom(new, old)) = Subtract(new, t)
      BY <1>1, <1>3, <1>4, DiffLaws
    <3> QED
      BY <1>2, <1>4, <2>2, <3>1 DEF NewState
  <2> QED
    BY <2>1, <2>2
<1> QED
  BY <1>2, <1>3, <1>5, <1>6 DEF t, new

\* Whatever its outcome, an instruction leaves the receiver with meant states,
\* and with every state from the sender's floor on that it had.
LEMMA InstructionCollected ==
    ASSUME Inv, NEW e \in Endpoint, NEW m \in net[Peer(e)], ProcessInstruction(e, m)
    PROVE  Collected(e)
<1> DEFINE p == Peer(e)
<1>1. /\ p \in Endpoint /\ Peer(p) = e /\ ReceivedInv(p)
      /\ DOMAIN received = Endpoint /\ IsHistory(received[e])
      /\ ackNum \in [Endpoint -> Num] /\ quench \in [Endpoint -> BOOLEAN]
  BY PeerFacts DEF Inv, TypeOK
<1>2. /\ ackNum[e] = Newest(received[e])
      /\ \A n \in DOMAIN received[e] :
             /\ n \in DOMAIN meant[p]
             /\ Extends(trimReceived[e], meant[p][n])
             /\ received[e][n] = Subtract(meant[p][n], trimReceived[e])
  BY <1>1 DEF ReceivedInv
<1>3. ackNum[e] \in Num /\ ackNum[e] >= ackNum[e]
  BY <1>1 DEF Num
<1>4. /\ IsHistory(Kept(e, m))
      /\ DOMAIN Kept(e, m) \subseteq DOMAIN received[e]
      /\ \A n \in DOMAIN Kept(e, m) : Kept(e, m)[n] = received[e][n]
      /\ \A n \in DOMAIN received[e] : n >= Acked(p) => n \in DOMAIN Kept(e, m)
      /\ Newest(Kept(e, m)) = Newest(received[e])
  BY KeptFacts
<1> HIDE DEF p
<1>5. CASE RecvUnusable(e, m)
  BY <1>1, <1>2, <1>3, <1>5 DEF RecvUnusable, Collected, p
<1>6. CASE RecvRefused(e, m)
  <2>1. /\ received' = [received EXCEPT ![e] = Kept(e, m)]
        /\ ackNum' = ackNum /\ quench' = quench
    BY <1>6 DEF RecvRefused
  <2>2. received'[e] = Kept(e, m) /\ DOMAIN received' = Endpoint
        /\ \A f \in Endpoint \ {e} : received'[f] = received[f]
    BY <1>1, <2>1
  <2> QED
    BY <1>1, <1>2, <1>3, <1>4, <2>1, <2>2 DEF Collected, p
<1>7. CASE RecvState(e, m)
  <2>1. /\ m.old \in DOMAIN Kept(e, m)
        /\ received' = [received EXCEPT ![e] = Put(Kept(e, m), m.new, NewState(e, m))]
        /\ quench' = [quench EXCEPT ![e] = quench[e] \/ Full(e, m)]
        /\ ackNum' = [ackNum EXCEPT ![e] =
                         IF m.new > Newest(Kept(e, m)) THEN m.new ELSE ackNum[e]]
    BY <1>7 DEF RecvState, NextAck
  <2>2. /\ m.new \in DOMAIN meant[p] /\ m.new \in Num
        /\ NewState(e, m) \in State
        /\ Extends(trimReceived[e], meant[p][m.new])
        /\ NewState(e, m) = Subtract(meant[p][m.new], trimReceived[e])
    BY <1>4, <2>1, NewStateFacts DEF p
  <2>3. /\ DOMAIN received' = Endpoint
        /\ \A f \in Endpoint \ {e} : received'[f] = received[f]
        /\ DOMAIN received'[e] = DOMAIN Kept(e, m) \cup {m.new}
        /\ \A n \in DOMAIN received'[e] :
               received'[e][n] = IF n = m.new THEN NewState(e, m) ELSE Kept(e, m)[n]
    BY <1>1, <2>1 DEF Put
  <2>4. IsHistory(received'[e])
    BY <1>4, <2>2, <2>3 DEF IsHistory
  <2>5. /\ ackNum' \in [Endpoint -> Num]
        /\ \A f \in Endpoint \ {e} : ackNum'[f] = ackNum[f]
        /\ ackNum'[e] = IF m.new > ackNum[e] THEN m.new ELSE ackNum[e]
    BY <1>1, <1>2, <1>4, <2>1, <2>2
  <2>6. /\ ackNum'[e] \in DOMAIN received'[e]
        /\ \A n \in DOMAIN received'[e] : n <= ackNum'[e]
    <3>1. Newest(received[e]) \in DOMAIN Kept(e, m)
          /\ \A n \in DOMAIN Kept(e, m) : n <= Newest(received[e]) /\ n \in Num
      BY <1>4, HistoryEnds DEF IsHistory
    <3> QED
      BY <1>2, <1>3, <2>2, <2>3, <2>5, <3>1 DEF Num
  <2>7. ackNum'[e] = Newest(received'[e])
    BY <2>4, <2>6, IsNewest
  <2>8. ackNum'[e] >= ackNum[e]
    BY <1>3, <2>2, <2>5 DEF Num
  <2>9. quench' \in [Endpoint -> BOOLEAN]
    BY <1>1, <2>1, Zenon
  <2>10. \A n \in DOMAIN received[e] : n >= Acked(p) => n \in DOMAIN received'[e]
    BY <1>4, <2>3
  <2>11. \A n \in DOMAIN received'[e] :
           /\ n \in DOMAIN meant[p]
           /\ Extends(trimReceived[e], meant[p][n])
           /\ received'[e][n] = Subtract(meant[p][n], trimReceived[e])
    BY <1>2, <1>4, <2>2, <2>3
  <2> QED
    BY <2>3, <2>4, <2>5, <2>7, <2>8, <2>9, <2>10, <2>11 DEF Collected, p
<1> QED
  BY <1>5, <1>6, <1>7 DEF ProcessInstruction
\* An instruction from the peer preserves the inductive invariant.
LEMMA ProcessInstructionInv ==
    ASSUME Inv, NEW e \in Endpoint, NEW m \in net[Peer(e)], ProcessInstruction(e, m)
    PROVE  Inv'
<1> DEFINE p == Peer(e)
<1>1. Arrive(e, m)
  BY DEF ProcessInstruction, RecvUnusable, RecvRefused, RecvState
<1>2. /\ ProcessAcknowledgmentThrough(e, m.ack)
      /\ hasRemote' = [hasRemote EXCEPT ![e] = TRUE]
      /\ UNCHANGED <<cur, copies, shutdown, lastReceiver, handed, net, whole,
                     meant, trimSent, trimReceived, view>>
  BY <1>1 DEF Arrive
<1>3. Collected(e)
  BY InstructionCollected
<1>4. /\ DOMAIN sent' = Endpoint
      /\ \A f \in Endpoint \ {e} : sent'[f] = sent[f]
      /\ IsHistory(sent'[e])
      /\ DOMAIN sent'[e] \subseteq DOMAIN sent[e]
      /\ \A n \in DOMAIN sent'[e] : sent'[e][n] = sent[e][n]
      /\ SHUTDOWN_NUM \in DOMAIN sent[e] => SHUTDOWN_NUM \in DOMAIN sent'[e]
      /\ LastNum(e)' = LastNum(e)
      /\ Acked(e)' >= Acked(e)
      /\ Acked(e)' \in DOMAIN received[p]
  BY <1>2, AcknowledgmentFacts
<1>5. /\ TypeOK /\ HistoryTypeOK
      /\ \A f \in Endpoint :
             MeantInv(f) /\ SentInv(f) /\ NetInv(f) /\ ReceivedInv(f)
  BY DEF Inv
<1>6. p \in Endpoint /\ p # e /\ Peer(p) = e /\ \A f \in Endpoint : f = e \/ f = p
  BY DEF Endpoint, Peer
<1>7. Acked(p)' = Acked(p) /\ LastNum(p)' = LastNum(p)
  BY <1>4, <1>6 DEF Acked, LastNum
<1>8. Acked(e) \in Num /\ Acked(p) \in Num /\ Acked(e)' \in Num
  <2>1. IsHistory(sent[e]) /\ IsHistory(sent[p])
    BY <1>5, <1>6 DEF TypeOK
  <2> QED
    BY <1>4, <2>1, HistoryEnds DEF Acked
<1> HIDE DEF p
<1>9. TypeOK' /\ HistoryTypeOK'
  <2>1. hasRemote' \in [Endpoint -> BOOLEAN]
    BY <1>2, <1>5 DEF TypeOK
  <2>2. \A f \in Endpoint : IsHistory(sent'[f]) /\ IsHistory(received'[f])
    BY <1>3, <1>4, <1>5 DEF Collected, TypeOK
  <2>3. DOMAIN received' = Endpoint /\ ackNum' \in [Endpoint -> Num]
        /\ quench' \in [Endpoint -> BOOLEAN]
    BY <1>3 DEF Collected
  <2>4. TypeOK'
    BY <1>2, <1>4, <1>5, <2>1, <2>2, <2>3 DEF TypeOK
  <2>5. HistoryTypeOK'
    BY <1>2, <1>5 DEF HistoryTypeOK, IsHistory
  <2> QED
    BY <2>4, <2>5
<1>10. ASSUME NEW f \in Endpoint PROVE MeantInv(f)'
  BY <1>2, <1>5 DEF MeantInv
<1>11. ASSUME NEW f \in Endpoint PROVE SentInv(f)'
  <2>1. SentInv(f)
    BY <1>5
  <2>2. CASE f = e
    BY <1>2, <1>4, <2>1, <2>2 DEF SentInv
  <2>3. CASE f = p
    BY <1>2, <1>4, <1>6, <1>7, <2>1, <2>3 DEF SentInv
  <2> QED
    BY <1>6, <2>2, <2>3
<1>12. NetInv(e)'
  <2> SUFFICES ASSUME NEW k \in net[e]
               PROVE  /\ {k.old, k.new} \subseteq DOMAIN meant[e]
                      /\ k.throwaway <= k.old /\ k.old <= k.new
                      /\ k.throwaway <= Acked(e)'
                      /\ k.diff = DiffFrom(meant[e][k.new], meant[e][k.old])
                      /\ k.ack \in DOMAIN received'[e] \/ k.ack < Acked(p)'
    BY <1>2 DEF NetInv, p
  <2>1. /\ {k.old, k.new} \subseteq DOMAIN meant[e]
        /\ k.throwaway <= k.old /\ k.old <= k.new
        /\ k.throwaway <= Acked(e)
        /\ k.diff = DiffFrom(meant[e][k.new], meant[e][k.old])
        /\ k.ack \in DOMAIN received[e] \/ k.ack < Acked(p)
    BY <1>5 DEF NetInv, p
  <2>2. k.throwaway \in Num /\ k.ack \in Num
    BY <1>5 DEF TypeOK
  <2>3. k.throwaway <= Acked(e)'
    BY <1>4, <1>8, <2>1, <2>2 DEF Num
  <2>4. k.ack \in DOMAIN received'[e] \/ k.ack < Acked(p)
    <3>1. CASE k.ack < Acked(p)
      BY <3>1
    <3>2. CASE ~(k.ack < Acked(p))
      <4>1. k.ack >= Acked(p)
        BY <1>8, <2>2, <3>2 DEF Num
      <4> QED
        BY <1>3, <2>1, <3>2, <4>1 DEF Collected, p
    <3> QED
      BY <3>1, <3>2
  <2> QED
    BY <1>7, <2>1, <2>3, <2>4
<1>13. NetInv(p)'
  <2> SUFFICES ASSUME NEW k \in net[p]
               PROVE  /\ {k.old, k.new} \subseteq DOMAIN meant[p]
                      /\ k.throwaway <= k.old /\ k.old <= k.new
                      /\ k.throwaway <= Acked(p)'
                      /\ k.diff = DiffFrom(meant[p][k.new], meant[p][k.old])
                      /\ k.ack \in DOMAIN received'[p] \/ k.ack < Acked(e)'
    BY <1>2, <1>6 DEF NetInv
  <2>1. /\ {k.old, k.new} \subseteq DOMAIN meant[p]
        /\ k.throwaway <= k.old /\ k.old <= k.new
        /\ k.throwaway <= Acked(p)
        /\ k.diff = DiffFrom(meant[p][k.new], meant[p][k.old])
        /\ k.ack \in DOMAIN received[p] \/ k.ack < Acked(e)
    BY <1>5, <1>6 DEF NetInv
  <2>2. k.ack \in Num
    BY <1>5, <1>6 DEF TypeOK
  <2>3. received'[p] = received[p]
    BY <1>3, <1>6 DEF Collected
  <2>4. k.ack < Acked(e) => k.ack < Acked(e)'
    BY <1>4, <1>8, <2>2 DEF Num
  <2> QED
    BY <1>7, <2>1, <2>3, <2>4
<1>14. ReceivedInv(e)'
  <2>1. ReceivedInv(e)
    BY <1>5
  <2>2. received'[p] = received[p] /\ ackNum'[p] = ackNum[p]
    BY <1>3, <1>6 DEF Collected
  <2> QED
    BY <1>2, <1>4, <2>1, <2>2 DEF ReceivedInv, p
<1>15. ReceivedInv(p)'
  <2>1. ReceivedInv(p)
    BY <1>5, <1>6
  <2>2. handed[e] <= ackNum'[e]
    <3>1. handed[e] <= ackNum[e] /\ ackNum[e] <= ackNum'[e]
      BY <1>3, <1>6, <2>1 DEF ReceivedInv, Collected
    <3>2. handed[e] \in Num /\ ackNum[e] \in Num /\ ackNum'[e] \in Num
      BY <1>3, <1>5 DEF TypeOK, Collected
    <3> QED
      BY <3>1, <3>2 DEF Num
  <2>3. Acked(p) \in DOMAIN received'[e]
    <3>1. Acked(p) \in DOMAIN received[e] /\ Acked(p) >= Acked(p)
      BY <1>6, <1>8, <2>1 DEF ReceivedInv, Num
    <3> QED
      BY <1>3, <3>1 DEF Collected, p
  <2> QED
    BY <1>2, <1>3, <1>6, <1>7, <2>1, <2>2, <2>3 DEF ReceivedInv, Collected, p
<1>16. \A f \in Endpoint : NetInv(f)' /\ ReceivedInv(f)'
  BY <1>6, <1>12, <1>13, <1>14, <1>15
<1> QED
  BY <1>9, <1>10, <1>11, <1>16 DEF Inv

\* get_remote_diff preserves the inductive invariant.
LEMMA GetRemoteDiffInv == ASSUME Inv, NEW e \in Endpoint, GetRemoteDiff(e) PROVE Inv'
<1> DEFINE p == Peer(e)
           t == trimReceived[e]
           lo == Oldest(received[e])
           hi == Newest(received[e])
           oldest == meant[p][lo]
           newest == meant[p][hi]
<1>1. /\ p \in Endpoint /\ p # e /\ Peer(p) = e
      /\ \A f \in Endpoint : f = e \/ f = p
  BY DEF Endpoint, Peer
<1>2. /\ TypeOK /\ HistoryTypeOK
      /\ \A f \in Endpoint :
             MeantInv(f) /\ SentInv(f) /\ NetInv(f) /\ ReceivedInv(f)
  BY DEF Inv
<1>3. /\ lo \in DOMAIN received[e] /\ hi \in DOMAIN received[e]
      /\ lo \in Num /\ hi \in Num
      /\ \A n \in DOMAIN received[e] : lo <= n /\ n <= hi
  BY <1>2, HistoryEnds DEF TypeOK
<1>4. \A n \in DOMAIN received[e] :
          /\ n \in DOMAIN meant[p] /\ meant[p][n] \in State
          /\ Extends(t, meant[p][n])
          /\ Extends(oldest, meant[p][n])
          /\ received[e][n] = Subtract(meant[p][n], t)
  <2>1. \A n \in DOMAIN received[e] :
            /\ n \in DOMAIN meant[p]
            /\ Extends(t, meant[p][n])
            /\ received[e][n] = Subtract(meant[p][n], t)
    BY <1>1, <1>2 DEF ReceivedInv
  <2> QED
    BY <1>1, <1>2, <1>3, <2>1 DEF MeantInv, HistoryTypeOK, IsHistory
<1>5. /\ handed[e] \in DOMAIN meant[p] /\ handed[e] <= hi
      /\ view[e] = meant[p][handed[e]]
      /\ Extends(t, view[e])
      /\ lastReceiver[e] = Subtract(view[e], t)
      /\ view[e] \in State /\ t \in State
      /\ ackNum[e] = hi /\ Acked(p) \in DOMAIN received[e]
  BY <1>1, <1>2 DEF ReceivedInv, HistoryTypeOK
<1>6. Extends(view[e], newest)
  BY <1>1, <1>2, <1>3, <1>4, <1>5 DEF MeantInv
<1> DEFINE diff == DiffFrom(received[e][hi], lastReceiver[e])
<1>7. /\ handed' = [handed EXCEPT ![e] = hi]
      /\ received' = [received EXCEPT ![e] = TrimmedReceived(e)]
      /\ lastReceiver' = [lastReceiver EXCEPT ![e] = TrimmedReceived(e)[hi]]
      /\ view' = [view EXCEPT ![e] =
                     IF diff = EmptyDiff THEN view[e] ELSE ApplyString(view[e], diff)]
      /\ trimReceived' = [trimReceived EXCEPT ![e] = oldest]
      /\ UNCHANGED <<cur, sent, copies, shutdown, ackNum, quench, hasRemote,
                     net, whole, meant, trimSent>>
  BY DEF GetRemoteDiff
<1> DEFINE trimmed == TrimmedReceived(e)
<1>8. /\ DOMAIN trimmed = DOMAIN received[e]
       /\ \A n \in DOMAIN received[e] :
             trimmed[n] = Subtract(received[e][n], received[e][lo])
  BY DEF TrimmedReceived, Trimmed
<1> HIDE DEF trimmed
<1> HIDE DEF p, t, lo, hi, oldest, newest
<1>9. oldest \in State /\ newest \in State /\ Extends(t, oldest) /\ Extends(t, newest)
      /\ Extends(oldest, newest)
  BY <1>3, <1>4 DEF oldest, newest
<1>10. diff = DiffFrom(newest, view[e])
  <2>1. received[e][hi] = Subtract(newest, t)
    BY <1>3, <1>4 DEF newest
  <2> QED
    BY <1>5, <1>6, <1>9, <2>1, DiffLaws
<1> HIDE DEF diff
<1>11. view'[e] = newest
  <2>1. CASE diff = EmptyDiff
    <3>1. view[e] = newest
      BY <1>5, <1>6, <1>9, <1>10, <2>1, DiffLaws
    <3> QED
      BY <1>2, <1>7, <2>1, <3>1 DEF HistoryTypeOK
  <2>2. CASE diff # EmptyDiff
    <3>1. ApplyString(view[e], diff) = newest
      BY <1>5, <1>6, <1>9, <1>10, DiffLaws
    <3> QED
      BY <1>2, <1>7, <2>2, <3>1 DEF HistoryTypeOK
  <2> QED
    BY <2>1, <2>2
<1>12. ASSUME NEW n \in DOMAIN received[e]
       PROVE  trimmed[n] = Subtract(meant[p][n], oldest)
  <2>1. received[e][lo] = Subtract(oldest, t) /\ received[e][n] = Subtract(meant[p][n], t)
    BY <1>3, <1>4 DEF oldest
  <2> QED
    BY <1>4, <1>5, <1>8, <1>9, <2>1, TrimLaws
<1>13. /\ DOMAIN received' = Endpoint
       /\ \A f \in Endpoint : DOMAIN received'[f] = DOMAIN received[f]
       /\ \A n \in DOMAIN received[e] : received'[e][n] = Subtract(meant[p][n], oldest)
       /\ received'[p] = received[p]
  BY <1>1, <1>2, <1>7, <1>8, <1>12 DEF TypeOK, trimmed
<1>14. lastReceiver'[e] = Subtract(newest, oldest) /\ Subtract(newest, oldest) \in State
  BY <1>2, <1>3, <1>7, <1>9, <1>12, StateClosed DEF TypeOK, newest, trimmed
<1>15. /\ lastReceiver'[p] = lastReceiver[p] /\ handed'[p] = handed[p]
       /\ view'[p] = view[p] /\ trimReceived'[p] = trimReceived[p]
       /\ handed'[e] = hi /\ trimReceived'[e] = oldest
  BY <1>1, <1>2, <1>7 DEF TypeOK, HistoryTypeOK
<1>16. \A f \in Endpoint : /\ Newest(received'[f]) = Newest(received[f])
                           /\ Acked(f)' = Acked(f) /\ LastNum(f)' = LastNum(f)
  BY <1>7, <1>13 DEF Newest, Acked, LastNum
<1>17. TypeOK'
  <2>1. lastReceiver' \in [Endpoint -> State]
    <3>1. \A f \in Endpoint : lastReceiver'[f] \in State
      BY <1>1, <1>2, <1>14, <1>15 DEF TypeOK
    <3> QED
      BY <1>2, <1>7, <3>1 DEF TypeOK
  <2>2. \A f \in Endpoint : IsHistory(received'[f])
    <3>1. \A n \in DOMAIN received[e] : received'[e][n] \in State
      BY <1>4, <1>9, <1>13, StateClosed
    <3> QED
      BY <1>1, <1>2, <1>13, <3>1 DEF TypeOK, IsHistory
  <2>3. handed' \in [Endpoint -> Num]
    BY <1>2, <1>3, <1>7 DEF TypeOK
  <2> QED
    BY <1>2, <1>7, <1>13, <2>1, <2>2, <2>3 DEF TypeOK
<1>18. HistoryTypeOK'
  <2>1. \A f \in Endpoint : view'[f] \in State /\ trimReceived'[f] \in State
    BY <1>1, <1>2, <1>9, <1>11, <1>15 DEF HistoryTypeOK
  <2>2. view' \in [Endpoint -> State] /\ trimReceived' \in [Endpoint -> State]
    BY <1>2, <1>7, <2>1 DEF HistoryTypeOK
  <2> QED
    BY <1>2, <1>7, <2>2 DEF HistoryTypeOK
<1>19. ASSUME NEW f \in Endpoint PROVE MeantInv(f)' /\ SentInv(f)'
  BY <1>2, <1>7, <1>16 DEF MeantInv, SentInv
<1>20. ASSUME NEW f \in Endpoint PROVE NetInv(f)'
  <2>1. NetInv(f) /\ Peer(f) \in Endpoint
    BY <1>2, PeerFacts
  <2> QED
    BY <1>7, <1>13, <1>16, <2>1 DEF NetInv
<1>21. ReceivedInv(e)'
  <2>1. ReceivedInv(e)
    BY <1>2
  <2> QED
    BY <1>7, <1>13, <1>15, <1>16, <2>1 DEF ReceivedInv, p
<1>22. ReceivedInv(p)'
  <2>1. hi <= hi /\ hi \in DOMAIN meant[p]
    BY <1>3, <1>4 DEF Num
  <2>2. DOMAIN received'[e] = DOMAIN received[e] /\ Newest(received'[e]) = hi
    BY <1>13, <1>16 DEF hi
  <2>3. /\ Acked(p)' = Acked(p) /\ ackNum'[e] = ackNum[e] /\ meant'[p] = meant[p]
    BY <1>1, <1>7, <1>16
  <2> QED
    BY <1>1, <1>4, <1>5, <1>9, <1>11, <1>13, <1>14, <1>15, <2>1, <2>2, <2>3
    DEF ReceivedInv, newest
<1>23. \A f \in Endpoint : ReceivedInv(f)'
  BY <1>1, <1>21, <1>22
<1> QED
  BY <1>17, <1>18, <1>19, <1>20, <1>23 DEF Inv
-----------------------------------------------------------------------------
\* Every step of either endpoint preserves the inductive invariant.
LEMMA NextInv == ASSUME Inv, [Next]_vars PROVE Inv'
<1>1. CASE Next
  <2> PICK e \in Endpoint :
          \/ Change(e)
          \/ StartShutdown(e)
          \/ CalculateTimers(e)
          \/ \E b \in Num : Tick(e, b)
          \/ \E m \in net[Peer(e)] : ProcessInstruction(e, m)
          \/ GetRemoteDiff(e)
    BY <1>1 DEF Next
  <2>1. CASE Change(e)
    BY <2>1, ChangeInv
  <2>2. CASE StartShutdown(e)
    BY <2>2, StartShutdownInv
  <2>3. CASE CalculateTimers(e)
    BY <2>3, CalculateTimersInv
  <2>4. CASE \E b \in Num : Tick(e, b)
    BY <2>4, TickInv
  <2>5. CASE \E m \in net[Peer(e)] : ProcessInstruction(e, m)
    BY <2>5, ProcessInstructionInv
  <2>6. CASE GetRemoteDiff(e)
    BY <2>6, GetRemoteDiffInv
  <2> QED
    BY <2>1, <2>2, <2>3, <2>4, <2>5, <2>6
<1>2. CASE UNCHANGED vars
  <2>1. TypeOK' /\ HistoryTypeOK'
    BY <1>2 DEF vars, Inv, TypeOK, HistoryTypeOK, IsHistory
  <2>2. ASSUME NEW e \in Endpoint
        PROVE  MeantInv(e)' /\ SentInv(e)' /\ NetInv(e)' /\ ReceivedInv(e)'
    BY <1>2 DEF vars, Inv, MeantInv, SentInv, NetInv, ReceivedInv, Acked, LastNum
  <2> QED
    BY <2>1, <2>2 DEF Inv
<1> QED
  BY <1>1, <1>2

\* The inductive invariant holds in every behaviour of the two endpoints,
\* whatever the network does, for every State type that obeys the laws.
THEOREM Invariance == Spec => []Inv
<1>1. Init => Inv
  BY InitInv
<1>2. Inv /\ [Next]_vars => Inv'
  BY NextInv
<1> QED
  BY <1>1, <1>2, PTL DEF Spec

\* TypeOK: every variable keeps the shape its Rust type gives it.
THEOREM TypeCorrect == Spec => []TypeOK
<1>1. Inv => TypeOK
  BY DEF Inv
<1> QED
  BY <1>1, Invariance, PTL

\* Agreement: process_instruction only ever stores states the peer numbered,
\* under the number the peer gave them.
THEOREM AgreementHolds == Spec => []Agreement
<1>1. Inv => Agreement
  <2> SUFFICES ASSUME Inv, NEW e \in Endpoint, NEW n \in DOMAIN received[e]
               PROVE  /\ n \in DOMAIN meant[Peer(e)]
                      /\ received[e][n] = Subtract(meant[Peer(e)][n], trimReceived[e])
    BY DEF Agreement
  <2>1. ReceivedInv(Peer(e)) /\ Peer(Peer(e)) = e
    BY PeerFacts DEF Inv
  <2> QED
    BY <2>1 DEF ReceivedInv
<1> QED
  BY <1>1, Invariance, PTL

\* FloorHeld: process_throwaway_until never culls the state the sender's
\* sent_states[0] stands for.
THEOREM FloorIsHeld == Spec => []FloorHeld
<1>1. Inv => FloorHeld
  BY DEF Inv, FloorHeld, ReceivedInv
<1> QED
  BY <1>1, Invariance, PTL

\* HandedOutOnce: the diffs of get_remote_diff add up to a published state.
THEOREM HandedOut == Spec => []HandedOutOnce
<1>1. Inv => HandedOutOnce
  <2> SUFFICES ASSUME Inv, NEW e \in Endpoint
               PROVE  /\ handed[e] \in DOMAIN meant[Peer(e)]
                      /\ view[e] = meant[Peer(e)][handed[e]]
    BY DEF HandedOutOnce
  <2>1. ReceivedInv(Peer(e)) /\ Peer(Peer(e)) = e
    BY PeerFacts DEF Inv
  <2> QED
    BY <2>1 DEF ReceivedInv
<1> QED
  BY <1>1, Invariance, PTL

\* FinalStateComplete: a received shutdown state is all the peer had to say.
THEOREM FinalState == Spec => []FinalStateComplete
<1>1. Inv => FinalStateComplete
  <2> SUFFICES ASSUME Inv, NEW e \in Endpoint, SHUTDOWN_NUM \in DOMAIN received[e]
               PROVE  received[e][SHUTDOWN_NUM]
                          = Subtract(whole[Peer(e)], trimReceived[e])
    BY DEF FinalStateComplete
  <2>1. /\ Peer(e) \in Endpoint /\ Peer(Peer(e)) = e
        /\ ReceivedInv(Peer(e)) /\ MeantInv(Peer(e))
    BY PeerFacts DEF Inv
  <2> QED
    BY <2>1 DEF ReceivedInv, MeantInv
<1> QED
  BY <1>1, Invariance, PTL

\* A step never takes an acknowledgment back or gives a number a new meaning.
LEMMA StepNeverBack ==
    ASSUME Inv, [Next]_vars, NEW e \in Endpoint
    PROVE  /\ ackNum'[e] >= ackNum[e]
           /\ Oldest(sent'[e]) >= Acked(e)
           /\ \A n \in DOMAIN meant[e] :
                 n \in DOMAIN meant'[e] /\ meant'[e][n] = meant[e][n]
<1>1. ackNum[e] >= ackNum[e] /\ Acked(e) >= Acked(e)
  <2>1. ackNum[e] \in Num /\ IsHistory(sent[e])
    BY DEF Inv, TypeOK
  <2>2. Acked(e) \in Num
    BY <2>1, HistoryEnds DEF Acked
  <2> QED
    BY <2>1, <2>2 DEF Num
<1>2. ASSUME UNCHANGED <<ackNum, meant>>, DOMAIN sent'[e] = DOMAIN sent[e]
      PROVE  /\ ackNum'[e] >= ackNum[e]
             /\ Oldest(sent'[e]) >= Acked(e)
             /\ \A n \in DOMAIN meant[e] :
                   n \in DOMAIN meant'[e] /\ meant'[e][n] = meant[e][n]
  BY <1>1, <1>2 DEF Acked, Oldest
<1>3. CASE UNCHANGED vars
  BY <1>2, <1>3 DEF vars
<1>4. CASE Next
  <2> PICK f \in Endpoint :
          \/ Change(f)
          \/ StartShutdown(f)
          \/ CalculateTimers(f)
          \/ \E b \in Num : Tick(f, b)
          \/ \E m \in net[Peer(f)] : ProcessInstruction(f, m)
          \/ GetRemoteDiff(f)
    BY <1>4 DEF Next
  <2>1. CASE Change(f) \/ StartShutdown(f) \/ GetRemoteDiff(f)
    <3>1. UNCHANGED <<ackNum, meant, sent>>
      BY <2>1 DEF Change, StartShutdown, GetRemoteDiff
    <3> QED
      BY <1>2, <3>1
  <2>2. CASE CalculateTimers(f)
    <3>1. /\ UNCHANGED <<ackNum, meant>>
          /\ sent' = [sent EXCEPT ![f] = RationalizedSent(f)]
      BY <2>2 DEF CalculateTimers
    <3>2. DOMAIN RationalizedSent(f) = DOMAIN sent[f] /\ DOMAIN sent = Endpoint
      BY Rationalized DEF Inv, TypeOK
    <3>3. DOMAIN sent'[e] = DOMAIN sent[e]
      BY <3>1, <3>2
    <3> QED
      BY <1>2, <3>1, <3>3
  <2>3. CASE \E b \in Num : Tick(f, b)
    <3>1. PICK b \in Num : Tick(f, b)
      BY <2>3
    <3>2. PICK new \in Num : Numbered(f, new)
      BY <3>1, TickNumbered
    <3>3. ackNum' = ackNum
      BY <3>1 DEF Tick
    <3>4. Acked(f)' = Acked(f)
      BY <3>2, NumberedEnds
    <3>5. Oldest(sent'[e]) = Acked(e)
      BY <3>2, <3>4 DEF Numbered, Acked
    <3> QED
      BY <1>1, <3>2, <3>3, <3>5 DEF Numbered
  <2>4. CASE \E m \in net[Peer(f)] : ProcessInstruction(f, m)
    <3>1. PICK m \in net[Peer(f)] : ProcessInstruction(f, m)
      BY <2>4
    <3>2. Arrive(f, m)
      BY <3>1 DEF ProcessInstruction, RecvUnusable, RecvRefused, RecvState
    <3>3. meant' = meant /\ ProcessAcknowledgmentThrough(f, m.ack)
      BY <3>2 DEF Arrive
    <3>4. Acked(f)' >= Acked(f) /\ \A g \in Endpoint \ {f} : sent'[g] = sent[g]
      BY <3>3, AcknowledgmentFacts
    <3>5. Oldest(sent'[e]) >= Acked(e)
      BY <1>1, <3>4 DEF Acked
    <3>6. ackNum'[e] >= ackNum[e]
      <4>1. Collected(f)
        BY <3>1, InstructionCollected
      <4> QED
        BY <1>1, <4>1 DEF Collected
    <3> QED
      BY <3>3, <3>5, <3>6
  <2> QED
    BY <2>1, <2>2, <2>3, <2>4
<1> QED
  BY <1>3, <1>4

\* NeverBack: ack_num and sent_states[0].num only grow, and a number that was
\* given to a state is never given to another one.
THEOREM NeverGoesBack == Spec => NeverBack
<1>1. Inv /\ [Next]_vars =>
          [\A e \in Endpoint :
              /\ ackNum'[e] >= ackNum[e]
              /\ Oldest(sent'[e]) >= Acked(e)
              /\ \A n \in DOMAIN meant[e] :
                    n \in DOMAIN meant'[e] /\ meant'[e][n] = meant[e][n]]_vars
  BY StepNeverBack
<1> QED
  BY <1>1, Invariance, PTL DEF Spec, NeverBack
-----------------------------------------------------------------------------
(* The bound on the sender's history. *)

\* In a finite set of numbers every rank from the top is taken: some element has
\* exactly k others above it.
LEMMA RankExists ==
    ASSUME NEW S \in SUBSET Num, NEW k \in Nat, k < Cardinality(S)
    PROVE  \E n \in S : Cardinality({m \in S : m > n}) = k
<1>0. S \subseteq Nat /\ S \subseteq 0 .. SHUTDOWN_NUM
      /\ IsFiniteSet(S) /\ Cardinality(S) \in Nat
  <2>1. IsFiniteSet(0 .. SHUTDOWN_NUM)
    BY NumAssumption, FS_Interval
  <2>2. IsFiniteSet(S)
    BY <2>1, FS_Subset DEF Num
  <2> QED
    BY <2>2, FS_CardinalityType, NumAssumption DEF Num
<1> DEFINE Above(n) == {m \in S : m > n}
           P == {j \in Nat : j < Cardinality(S) =>
                                 \E n \in S : Cardinality(Above(n)) = j}
<1>1. 0 \in P
  <2> SUFFICES ASSUME 0 < Cardinality(S)
               PROVE  \E n \in S : Cardinality(Above(n)) = 0
    OBVIOUS
  <2>1. S # {}
    BY FS_EmptySet
  <2>2. Max(S) \in S /\ \A n \in S : Max(S) >= n
    BY <1>0, <2>1, NumAssumption, MaxProperties
  <2>3. Above(Max(S)) = {}
    <3>1. ASSUME NEW m \in S PROVE ~(m > Max(S))
      <4>1. m \in Nat /\ Max(S) \in Nat /\ Max(S) >= m
        BY <1>0, <2>2
      <4> QED BY <4>1
    <3> QED BY <3>1
  <2> QED
    BY <2>2, <2>3, FS_EmptySet
<1>2. ASSUME NEW j \in P PROVE j + 1 \in P
  <2> SUFFICES ASSUME j + 1 < Cardinality(S)
               PROVE  \E n \in S : Cardinality(Above(n)) = j + 1
    OBVIOUS
  <2>1. PICK n \in S : Cardinality(Above(n)) = j
    BY <1>0, <1>2
  <2> DEFINE Below == {m \in S : m < n}
             Upper == Above(n) \cup {n}
  <2>2. IsFiniteSet(Above(n)) /\ n \notin Above(n)
    BY <1>0, FS_Subset
  <2>3. Cardinality(Upper) = j + 1
    BY <2>1, <2>2, FS_AddElement
  <2>4. Below # {}
    <3> SUFFICES ASSUME Below = {} PROVE FALSE
      OBVIOUS
    <3>1. ASSUME NEW m \in S PROVE m \in Upper
      <4>1. m \in Nat /\ n \in Nat /\ ~(m < n)
        BY <1>0
      <4>2. m > n \/ m = n
        BY <4>1
      <4> QED BY <4>2
    <3>2. S = Upper
      BY <3>1
    <3> QED
      BY <2>3, <3>2
  <2>5. Max(Below) \in Below /\ \A m \in Below : Max(Below) >= m
    BY <1>0, <2>4, NumAssumption, MaxProperties
  <2>6. Above(Max(Below)) = Upper
    <3> DEFINE b == Max(Below)
    <3>1. b \in S /\ b < n
      BY <2>5
    <3>2. ASSUME NEW m \in S, m < n PROVE ~(m > b)
      <4>1. m \in Nat /\ b \in Nat /\ b >= m
        BY <1>0, <2>5, <3>2
      <4> QED BY <4>1
    <3> HIDE DEF b
    <3>3. ASSUME NEW m \in S PROVE m > b <=> m > n \/ m = n
      <4>1. m \in Nat /\ b \in Nat /\ n \in Nat
        BY <1>0, <3>1
      <4> QED BY <3>1, <3>2, <4>1
    <3>4. Above(b) = Upper
      BY <3>3
    <3> QED BY <3>4 DEF b
  <2> QED
    BY <2>3, <2>5, <2>6
<1> HIDE DEF P
<1>3. P = Nat
  BY <1>1, <1>2, SetInduction DEF P
<1> QED
  BY <1>3 DEF P

\* add_sent_state keeps within the bound: one entry more than it goes at once,
\* either a state from the middle or one of the entries with the last number.
LEMMA AddSentStateBounded ==
    ASSUME Inv, HistoryBounded, NEW e \in Endpoint, NEW num \in Num, AddSentState(e, num)
    PROVE  /\ Cardinality(DOMAIN sent'[e]) + copies'[e] <= SENT_STATES_MAX
           /\ \A f \in Endpoint \ {e} : sent'[f] = sent[f] /\ copies'[f] = copies[f]
<1> DEFINE nums  == DOMAIN sent[e] \cup {num}
           extra == copies[e] + (IF num \in DOMAIN sent[e] THEN 1 ELSE 0)
           gone  == Victims(nums, extra)
           over  == Cardinality(nums) + extra > SENT_STATES_MAX
<1>1. /\ DOMAIN sent = Endpoint /\ copies \in [Endpoint -> Nat]
      /\ DOMAIN sent[e] \in SUBSET Num
      /\ Cardinality(DOMAIN sent[e]) + copies[e] <= SENT_STATES_MAX
  BY DEF Inv, TypeOK, IsHistory, HistoryBounded
<1>2. /\ nums \in SUBSET Num /\ nums \subseteq Nat
      /\ IsFiniteSet(nums) /\ IsFiniteSet(DOMAIN sent[e])
  <2>1. IsFiniteSet(0 .. SHUTDOWN_NUM)
    BY NumAssumption, FS_Interval
  <2> QED
    BY <1>1, <2>1, FS_Subset, NumAssumption DEF Num
<1>3. /\ Cardinality(nums) \in Nat /\ extra \in Nat
      /\ Cardinality(nums) + extra <= SENT_STATES_MAX + 1
  <2>1. Cardinality(DOMAIN sent[e]) \in Nat /\ Cardinality(nums) \in Nat
    BY <1>2, FS_CardinalityType
  <2>2. Cardinality(nums) = IF num \in DOMAIN sent[e] THEN Cardinality(DOMAIN sent[e])
                            ELSE Cardinality(DOMAIN sent[e]) + 1
    BY <1>2, FS_AddElement
  <2>3. copies[e] \in Nat
    BY <1>1
  <2> QED
    BY <1>1, <2>1, <2>2, <2>3, HistoryAssumption
<1>4. /\ \A f \in Endpoint \ {e} : sent'[f] = sent[f] /\ copies'[f] = copies[f]
      /\ copies'[e] = IF over /\ extra >= SENT_STATES_KEEP - 1 THEN extra - 1 ELSE extra
      /\ sent'[e] = Restrict(Put(RationalizedSent(e), num, RationalizedCur(e)),
                             nums \ gone)
  BY <1>1 DEF AddSentState
<1>5. DOMAIN sent'[e] \subseteq nums \ gone
  BY <1>4 DEF Restrict
<1>6. IsFiniteSet(nums \ gone) /\ Cardinality(nums \ gone) \in Nat
      /\ Cardinality(nums \ gone) <= Cardinality(nums)
  BY <1>2, <1>3, FS_Subset, FS_CardinalityType
<1>7. Cardinality(DOMAIN sent'[e]) \in Nat
      /\ Cardinality(DOMAIN sent'[e]) <= Cardinality(nums \ gone)
  BY <1>5, <1>6, FS_Subset, FS_CardinalityType
<1> HIDE DEF nums, extra, gone
<1>8. ASSUME over, ~(extra >= SENT_STATES_KEEP - 1)
      PROVE  Cardinality(nums \ gone) <= Cardinality(nums) - 1
  <2>1. SENT_STATES_KEEP - 1 - extra \in Nat
        /\ SENT_STATES_KEEP - 1 - extra < Cardinality(nums)
        /\ SENT_STATES_KEEP - 1 - extra # 0
    BY <1>3, <1>8, HistoryAssumption
  <2>2. PICK n \in nums :
            Cardinality({m \in nums : m > n}) = SENT_STATES_KEEP - 1 - extra
    BY <1>2, <2>1, RankExists
  <2>3. n # SHUTDOWN_NUM
    <3> SUFFICES ASSUME n = SHUTDOWN_NUM PROVE FALSE
      OBVIOUS
    <3>1. {m \in nums : m > n} = {}
      BY <1>2, NumAssumption DEF Num
    <3> QED
      BY <2>1, <2>2, <3>1, FS_EmptySet
  <2>4. n \in gone
    <3>1. Cardinality({m \in nums : m > n}) + extra = SENT_STATES_KEEP - 1
      BY <1>3, <2>2, HistoryAssumption
    <3> QED
      BY <1>8, <2>2, <2>3, <3>1 DEF gone, Victims
  <2>5. IsFiniteSet(nums \ {n}) /\ Cardinality(nums \ {n}) = Cardinality(nums) - 1
    BY <1>2, FS_RemoveElement
  <2>6. nums \ gone \in SUBSET (nums \ {n})
    BY <2>4
  <2> QED
    BY <2>5, <2>6, FS_Subset
<1> QED
  BY <1>3, <1>4, <1>6, <1>7, <1>8, HistoryAssumption

\* No step lets sent_states outgrow its bound: only a tick adds to it.
LEMMA StepBounded ==
    ASSUME Inv, HistoryBounded, [Next]_vars
    PROVE  HistoryBounded'
<1> SUFFICES ASSUME NEW e \in Endpoint
             PROVE  Cardinality(DOMAIN sent'[e]) + copies'[e] <= SENT_STATES_MAX
  BY DEF HistoryBounded
<1>1. /\ DOMAIN sent = Endpoint /\ copies \in [Endpoint -> Nat]
      /\ IsHistory(sent[e]) /\ IsFiniteSet(DOMAIN sent[e])
      /\ Cardinality(DOMAIN sent[e]) \in Nat
      /\ Cardinality(DOMAIN sent[e]) + copies[e] <= SENT_STATES_MAX
  <2>1. IsFiniteSet(0 .. SHUTDOWN_NUM)
    BY NumAssumption, FS_Interval
  <2>2. DOMAIN sent[e] \in SUBSET (0 .. SHUTDOWN_NUM)
    BY DEF Inv, TypeOK, IsHistory, Num
  <2>3. IsFiniteSet(DOMAIN sent[e])
    BY <2>1, <2>2, FS_Subset
  <2> QED
    BY <2>3, FS_CardinalityType DEF Inv, TypeOK, HistoryBounded
<1>2. ASSUME copies' = copies, DOMAIN sent'[e] \subseteq DOMAIN sent[e]
      PROVE  Cardinality(DOMAIN sent'[e]) + copies'[e] <= SENT_STATES_MAX
  <2>1. IsFiniteSet(DOMAIN sent'[e])
        /\ Cardinality(DOMAIN sent'[e]) <= Cardinality(DOMAIN sent[e])
    BY <1>1, <1>2, FS_Subset
  <2>2. Cardinality(DOMAIN sent'[e]) \in Nat /\ copies[e] \in Nat
    BY <1>1, <2>1, FS_CardinalityType
  <2> QED
    BY <1>1, <1>2, <2>1, <2>2, HistoryAssumption
<1>3. ASSUME NEW f \in Endpoint,
             sent' = [sent EXCEPT ![f] = RationalizedSent(f)], copies' = copies
      PROVE  Cardinality(DOMAIN sent'[e]) + copies'[e] <= SENT_STATES_MAX
  <2>1. DOMAIN RationalizedSent(f) = DOMAIN sent[f]
    BY DEF RationalizedSent, Trimmed
  <2> QED
    BY <1>1, <1>2, <1>3, <2>1
<1>4. CASE UNCHANGED vars
  BY <1>2, <1>4 DEF vars
<1>5. CASE Next
  <2> PICK f \in Endpoint :
          \/ Change(f)
          \/ StartShutdown(f)
          \/ CalculateTimers(f)
          \/ \E b \in Num : Tick(f, b)
          \/ \E m \in net[Peer(f)] : ProcessInstruction(f, m)
          \/ GetRemoteDiff(f)
    BY <1>5 DEF Next
  <2>1. CASE Change(f) \/ StartShutdown(f) \/ GetRemoteDiff(f)
    <3>1. UNCHANGED <<sent, copies>>
      BY <2>1 DEF Change, StartShutdown, GetRemoteDiff
    <3> QED
      BY <1>2, <3>1
  <2>2. CASE CalculateTimers(f)
    BY <1>3, <2>2 DEF CalculateTimers
  <2>3. CASE \E b \in Num : Tick(f, b)
    <3>1. PICK b \in Num : Tick(f, b)
      BY <2>3
    <3>2. CASE KeepSentStates(f)
      BY <1>3, <3>2 DEF KeepSentStates
    <3>3. ASSUME NEW num \in Num, AddSentState(f, num)
          PROVE  Cardinality(DOMAIN sent'[e]) + copies'[e] <= SENT_STATES_MAX
      BY <1>1, <3>3, AddSentStateBounded
    <3>4. NextNum(f) \in Num \/ KeepSentStates(f)
      <4>1. IsHistory(sent[f]) /\ LastNum(f) \in Num
        BY HistoryEnds DEF Inv, TypeOK, LastNum
      <4>2. MAX_NUM[f] \in 0 .. SHUTDOWN_NUM - 1
        BY HistoryAssumption
      <4>3. CASE shutdown[f]
        BY <4>3, NumAssumption DEF NextNum, Num
      <4>4. CASE ~shutdown[f] /\ NumsLeft(f, 1)
        BY <4>1, <4>2, <4>4, NumAssumption DEF NextNum, Num, NumsLeft
      <4>5. CASE ~shutdown[f] /\ NumsLeft(f, 2)
        BY <4>1, <4>2, <4>5, NumAssumption DEF NextNum, Num, NumsLeft
      <4>6. CASE ~shutdown[f] /\ ~NumsLeft(f, 1) /\ ~NumsLeft(f, 2)
        BY <3>1, <4>6 DEF Tick, SendEmptyAck, SendToReceiver
      <4> QED
        BY <4>3, <4>4, <4>5, <4>6
    <3>5. KeepSentStates(f) \/ AddSentState(f, NextNum(f))
      BY <3>1 DEF Tick, SendEmptyAck, SendToReceiver
    <3> QED
      BY <3>2, <3>3, <3>4, <3>5
  <2>4. CASE \E m \in net[Peer(f)] : ProcessInstruction(f, m)
    <3>1. PICK m \in net[Peer(f)] : ProcessInstruction(f, m)
      BY <2>4
    <3>2. Arrive(f, m)
      BY <3>1 DEF ProcessInstruction, RecvUnusable, RecvRefused, RecvState
    <3>3. copies' = copies /\ ProcessAcknowledgmentThrough(f, m.ack)
      BY <3>2 DEF Arrive
    <3>4. DOMAIN sent'[e] \subseteq DOMAIN sent[e]
      BY <1>1, <3>3 DEF ProcessAcknowledgmentThrough, From, Restrict
    <3> QED
      BY <1>2, <3>3, <3>4
  <2> QED
    BY <2>1, <2>2, <2>3, <2>4
<1> QED
  BY <1>4, <1>5

\* add_sent_state: sent_states never holds more than SENT_STATES_MAX entries,
\* those that share the shutdown number counted, for every such limit.
THEOREM BoundHolds == Spec => []HistoryBounded
<1>1. Init => HistoryBounded
  <2> SUFFICES ASSUME Init, NEW e \in Endpoint
               PROVE  Cardinality(DOMAIN sent[e]) + copies[e] <= SENT_STATES_MAX
    BY DEF HistoryBounded
  <2>1. DOMAIN sent[e] = {0} /\ copies[e] = 0
    BY DEF Init
  <2>2. Cardinality({0}) = 1
    BY FS_Singleton
  <2> QED
    BY <2>1, <2>2, HistoryAssumption
<1>2. Inv /\ HistoryBounded /\ [Next]_vars => HistoryBounded'
  BY StepBounded
<1> QED
  BY <1>1, <1>2, Invariance, PTL DEF Spec

-----------------------------------------------------------------------------
(***************************************************************************)
(* Each direction of the protocol implements the abstract specification    *)
(* Sync: the publisher's numbers go up, and the observer skips forward     *)
(* through what was published.  The observer's state is always the one its *)
(* number means, so a step of the protocol is a Publish, an Observe or a   *)
(* stutter according to what it does to the numbers.                       *)
(***************************************************************************)

\* e publishes at most one state, under a number above all others, and none
\* after the shutdown state.
Publishes(e) ==
    \/ meant'[e] = meant[e]
    \/ /\ SHUTDOWN_NUM \notin DOMAIN meant[e]
       /\ \E n \in 1 .. SHUTDOWN_NUM, s \in State :
             /\ \A k \in DOMAIN meant[e] : k < n
             /\ meant'[e] = [k \in DOMAIN meant[e] \cup {n} |->
                                IF k = n THEN s ELSE meant[e][k]]

\* What Tick does to the numbered states is a Publish of Sync or nothing.
LEMMA TickPublishes ==
    ASSUME Inv, NEW e \in Endpoint, NEW b, Tick(e, b), NEW f \in Endpoint
    PROVE  Publishes(f)
<1>1. PICK new \in Num : Numbered(e, new)
  BY TickNumbered
<1>2. CASE f # e
  BY <1>1, <1>2 DEF Numbered, Publishes
<1>3. CASE f = e
  <2>1. /\ whole[e] \in State
        /\ MeantInv(e) /\ SentInv(e)
        /\ DOMAIN meant[e] \subseteq Num
        /\ meant[e] \in [DOMAIN meant[e] -> State]
    BY DEF Inv, HistoryTypeOK, IsHistory
  <2>2. /\ DOMAIN meant'[e] = DOMAIN meant[e] \cup {new}
        /\ meant'[e][new] = whole[e]
        /\ \A n \in DOMAIN meant[e] : meant'[e][n] = meant[e][n]
        /\ meant'[e] \in [DOMAIN meant'[e] -> State]
        /\ LastNum(e) <= new
    BY <1>1 DEF Numbered
  <2>3. CASE new \in DOMAIN meant[e]
    <3>1. DOMAIN meant'[e] = DOMAIN meant[e]
      BY <2>2, <2>3
    <3>2. meant'[e] = meant[e]
      BY <2>1, <2>2, <3>1
    <3> QED
      BY <1>3, <3>2 DEF Publishes
  <2>4. CASE new \notin DOMAIN meant[e]
    <3>1. LastNum(e) \in Num
      BY Rationalized
    <3>2. \A k \in DOMAIN meant[e] : k < new
      <4> TAKE k \in DOMAIN meant[e]
      <4>1. k <= LastNum(e) /\ k # new /\ k \in Num
        BY <2>1, <2>4 DEF SentInv
      <4> QED
        BY <2>2, <3>1, <4>1 DEF Num
    <3>3. new \in 1 .. SHUTDOWN_NUM
      BY <2>1, <3>2, NumAssumption DEF MeantInv, Num
    <3>4. SHUTDOWN_NUM \notin DOMAIN meant[e]
      BY <3>2, <3>3, NumAssumption
    <3>5. meant'[e] = [k \in DOMAIN meant[e] \cup {new} |->
                          IF k = new THEN whole[e] ELSE meant[e][k]]
      BY <2>1, <2>2, <2>4
    <3> QED
      BY <1>3, <2>1, <3>2, <3>3, <3>4, <3>5 DEF Publishes
  <2> QED
    BY <2>3, <2>4
<1> QED
  BY <1>2, <1>3

\* A step publishes or observes, never both, and the server's application
\* only ever moves forward.
LEMMA StepKinds ==
    ASSUME Inv, [Next]_vars
    PROVE  /\ \/ /\ UNCHANGED <<received, ackNum, handed, view>>
                 /\ \A f \in Endpoint : Publishes(f)
              \/ meant' = meant
           /\ \A f \in Endpoint : handed'[f] >= handed[f]
           /\ trimReceived'["client"] = trimReceived["client"]
<1>1. \A f \in Endpoint : handed[f] >= handed[f]
  <2>1. \A f \in Endpoint : handed[f] \in Num
    BY DEF Inv, TypeOK
  <2> QED
    BY <2>1 DEF Num
<1>2. CASE UNCHANGED vars
  BY <1>1, <1>2 DEF vars
<1>3. CASE Next
  <2> PICK e \in Endpoint :
          \/ Change(e)
          \/ StartShutdown(e)
          \/ CalculateTimers(e)
          \/ \E b \in Num : Tick(e, b)
          \/ \E m \in net[Peer(e)] : ProcessInstruction(e, m)
          \/ GetRemoteDiff(e)
    BY <1>3 DEF Next
  <2>1. CASE Change(e) \/ StartShutdown(e) \/ CalculateTimers(e)
    <3>1. UNCHANGED <<meant, handed, trimReceived>>
      BY <2>1 DEF Change, StartShutdown, CalculateTimers
    <3> QED
      BY <1>1, <3>1
  <2>2. CASE \E b \in Num : Tick(e, b)
    <3>1. PICK b \in Num : Tick(e, b)
      BY <2>2
    <3>2. \A f \in Endpoint : Publishes(f)
      BY <3>1, TickPublishes
    <3>3. UNCHANGED <<received, ackNum, handed, view, trimReceived>>
      BY <3>1 DEF Tick
    <3> QED
      BY <1>1, <3>2, <3>3
  <2>3. CASE \E m \in net[Peer(e)] : ProcessInstruction(e, m)
    <3>1. UNCHANGED <<meant, handed, trimReceived>>
      BY <2>3 DEF ProcessInstruction, RecvUnusable, RecvRefused, RecvState, Arrive
    <3> QED
      BY <1>1, <3>1
  <2>4. CASE GetRemoteDiff(e)
    <3>1. /\ meant' = meant /\ e = "server"
          /\ handed' = [handed EXCEPT ![e] = Newest(received[e])]
          /\ trimReceived' = [trimReceived EXCEPT ![e] =
                                 meant[Peer(e)][Oldest(received[e])]]
      BY <2>4 DEF GetRemoteDiff
    <3>2. Newest(received[e]) >= handed[e]
      <4>1. ReceivedInv(Peer(e)) /\ Peer(Peer(e)) = e
        BY PeerFacts DEF Inv
      <4>2. handed[e] <= ackNum[e] /\ ackNum[e] = Newest(received[e])
        BY <4>1 DEF ReceivedInv
      <4> QED
        BY <4>2
    <3>3. handed \in [Endpoint -> Num] /\ trimReceived \in [Endpoint -> State]
      BY DEF Inv, TypeOK, HistoryTypeOK
    <3>4. trimReceived'["client"] = trimReceived["client"]
      BY <3>1, <3>3 DEF Endpoint
    <3>5. \A f \in Endpoint : handed'[f] >= handed[f]
      BY <1>1, <3>1, <3>2, <3>3
    <3> QED
      BY <3>1, <3>4, <3>5
  <2> QED
    BY <2>1, <2>2, <2>3, <2>4
<1> QED
  BY <1>2, <1>3

-----------------------------------------------------------------------------
\* The server's application has seen what its number means.
LEMMA InputView ==
    ASSUME Inv
    PROVE  /\ handed["server"] \in DOMAIN meant["client"]
           /\ handed["server"] \in Num
           /\ view["server"] = meant["client"][handed["server"]]
<1>1. /\ "client" \in Endpoint /\ "server" \in Endpoint
      /\ Peer("client") = "server"
  BY DEF Endpoint, Peer
<1>2. ReceivedInv("client") /\ handed["server"] \in Num
  BY <1>1 DEF Inv, TypeOK
<1> QED
  BY <1>1, <1>2 DEF ReceivedInv

\* ImplementsInput: through losses, duplicates and reordering, the server's
\* application goes forward through the states of the user's input.
THEOREM SpecImplementsInput == Spec => ImplementsInput
<1>1. Init => Input!SyncInit
  <2>1. "client" \in Endpoint /\ "server" \in Endpoint /\ Peer("server") = "client"
    BY DEF Endpoint, Peer
  <2> QED
    BY <2>1 DEF Init, Input!SyncInit
<1>2. Inv /\ Inv' /\ [Next]_vars => [Input!SyncNext]_(Input!syncVars)
  <2> SUFFICES ASSUME Inv, Inv', [Next]_vars
               PROVE  Input!Publish \/ Input!Observe \/ UNCHANGED Input!syncVars
    BY DEF Input!SyncNext
  <2>0. "client" \in Endpoint /\ "server" \in Endpoint
    BY DEF Endpoint
  <2>1. /\ \/ /\ UNCHANGED <<received, ackNum, handed, view>>
              /\ Publishes("client")
           \/ meant' = meant
        /\ handed'["server"] >= handed["server"]
    BY <2>0, StepKinds
  <2>2. CASE UNCHANGED <<received, ackNum, handed, view>> /\ Publishes("client")
    BY <2>2 DEF Publishes, Input!Publish, Input!syncVars
  <2>3. CASE meant' = meant
    <3>1. /\ handed["server"] \in Num
          /\ view["server"] = meant["client"][handed["server"]]
      BY InputView
    <3>2. /\ handed'["server"] \in DOMAIN meant["client"]
          /\ handed'["server"] \in Num
          /\ view'["server"] = meant["client"][handed'["server"]]
      <4>1. (/\ handed["server"] \in DOMAIN meant["client"]
             /\ handed["server"] \in Num
             /\ view["server"] = meant["client"][handed["server"]])'
        <5>1. ReceivedInv("client")' /\ TypeOK'
          BY <2>0 DEF Inv
        <5>2. Peer("client") = "server"
          BY DEF Peer
        <5> QED
          BY <2>0, <5>1, <5>2 DEF ReceivedInv, TypeOK
      <4> QED
        BY <2>3, <4>1
    <3>3. CASE handed'["server"] = handed["server"]
      BY <2>3, <3>1, <3>2, <3>3 DEF Input!syncVars
    <3>4. CASE handed'["server"] # handed["server"]
      <4>1. handed'["server"] > handed["server"]
        BY <2>1, <3>1, <3>2, <3>4 DEF Num
      <4> QED
        BY <2>3, <3>2, <4>1 DEF Input!Observe
    <3> QED
      BY <3>3, <3>4
  <2> QED
    BY <2>1, <2>2, <2>3
<1> QED
  BY <1>1, <1>2, Invariance, PTL DEF Spec, ImplementsInput, Input!SyncSpec

-----------------------------------------------------------------------------
\* The client never trims what it received: it does not call get_remote_diff.
Untrimmed == trimReceived["client"] = InitialState["server"]

\* The newest screen the client holds is the one its ack number means.
ScreenView ==
    LET n == ackNum["client"]
    IN  /\ n \in DOMAIN meant["server"]
        /\ n \in Num
        /\ received["client"][Newest(received["client"])] = meant["server"][n]

\* An untrimmed history holds the states themselves.
LEMMA ScreenIsMeant == ASSUME Inv, Untrimmed PROVE ScreenView
<1>1. /\ "client" \in Endpoint /\ "server" \in Endpoint
      /\ Peer("server") = "client"
  BY DEF Endpoint, Peer
<1>2. /\ ReceivedInv("server") /\ MeantInv("server")
      /\ IsHistory(received["client"]) /\ IsHistory(meant["server"])
      /\ ackNum["client"] \in Num
  BY <1>1 DEF Inv, TypeOK, HistoryTypeOK
<1>3. Newest(received["client"]) \in DOMAIN received["client"]
  BY <1>2, HistoryEnds
<1> DEFINE n == ackNum["client"]
           i == InitialState["server"]
<1>4. /\ n = Newest(received["client"]) /\ n \in DOMAIN meant["server"]
      /\ received["client"][n] = Subtract(meant["server"][n], i)
      /\ Extends(i, meant["server"][n])
  BY <1>1, <1>2, <1>3 DEF ReceivedInv, Untrimmed
<1>5. meant["server"][n] \in State
  BY <1>2, <1>4 DEF IsHistory
<1>6. Subtract(meant["server"][n], i) = meant["server"][n]
  BY <1>1, <1>4, <1>5, TrimLaws
<1> QED
  BY <1>2, <1>4, <1>6 DEF ScreenView

\* ImplementsScreen: the client's screen goes forward through the states of
\* the server's terminal, whatever the network does.
THEOREM SpecImplementsScreen == Spec => ImplementsScreen
<1>1. Init => Screen!SyncInit /\ Untrimmed
  <2> SUFFICES ASSUME Init PROVE Screen!SyncInit /\ Untrimmed
    OBVIOUS
  <2>1. "client" \in Endpoint /\ "server" \in Endpoint /\ Peer("client") = "server"
    BY DEF Endpoint, Peer
  <2>2. /\ received["client"] = [n \in {0} |-> InitialState["server"]]
        /\ meant["server"] = [n \in {0} |-> InitialState["server"]]
        /\ ackNum["client"] = 0
        /\ trimReceived["client"] = InitialState["server"]
    BY <2>1 DEF Init
  <2>3. IsHistory(received["client"])
    BY <2>1, InitInv DEF Inv, TypeOK
  <2>4. Newest(received["client"]) = 0
    BY <2>2, <2>3, HistoryEnds
  <2> QED
    BY <2>2, <2>4 DEF Screen!SyncInit, Untrimmed
<1>2. Inv /\ Untrimmed /\ [Next]_vars => Untrimmed'
  BY StepKinds DEF Untrimmed
<1>3. Inv /\ Inv' /\ Untrimmed /\ Untrimmed' /\ [Next]_vars
          => [Screen!SyncNext]_(Screen!syncVars)
  <2> SUFFICES ASSUME Inv, Inv', Untrimmed, Untrimmed', [Next]_vars
               PROVE  Screen!Publish \/ Screen!Observe \/ UNCHANGED Screen!syncVars
    BY DEF Screen!SyncNext
  <2>0. "client" \in Endpoint /\ "server" \in Endpoint
    BY DEF Endpoint
  <2>1. \/ /\ UNCHANGED <<received, ackNum, handed, view>>
           /\ Publishes("server")
        \/ meant' = meant
    BY <2>0, StepKinds
  <2>2. CASE UNCHANGED <<received, ackNum, handed, view>> /\ Publishes("server")
    BY <2>2 DEF Publishes, Screen!Publish, Screen!syncVars
  <2>3. CASE meant' = meant
    <3>1. ScreenView /\ ScreenView'
      <4>1. Inv /\ Untrimmed => ScreenView
        BY ScreenIsMeant
      <4>2. (Inv /\ Untrimmed => ScreenView)'
        BY ScreenIsMeant, PTL
      <4> QED
        BY <4>1, <4>2
    <3>2. ackNum'["client"] >= ackNum["client"]
      BY <2>0, StepNeverBack
    <3>3. CASE ackNum'["client"] = ackNum["client"]
      BY <2>3, <3>1, <3>3 DEF ScreenView, Screen!syncVars
    <3>4. CASE ackNum'["client"] # ackNum["client"]
      <4>1. ackNum'["client"] > ackNum["client"]
        BY <3>1, <3>2, <3>4 DEF ScreenView, Num
      <4> QED
        BY <2>3, <3>1, <4>1 DEF ScreenView, Screen!Observe
    <3> QED
      BY <3>3, <3>4
  <2> QED
    BY <2>1, <2>2, <2>3
<1> QED
  BY <1>1, <1>2, <1>3, Invariance, PTL DEF Spec, ImplementsScreen, Screen!SyncSpec

=============================================================================
