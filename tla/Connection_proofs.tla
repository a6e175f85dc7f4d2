------------------------- MODULE Connection_proofs --------------------------
(***************************************************************************)
(* Proofs about the datagram layer, for every number of networks and       *)
(* ports, every clock cycle and any delay, loss, repetition and order of   *)
(* the datagrams.                                                          *)
(***************************************************************************)
EXTENDS Connection, TLAPS

(* Where the server sends *)

\* What sequence numbers are.
SeqType ==
    /\ sendSeq \in [Endpoint -> Nat] /\ expected \in [Endpoint -> Nat]
    /\ hasRemote \in [Endpoint -> BOOLEAN]
    /\ \A m \in net : m.seq \in Nat
    /\ newest = [seq |-> newest.seq, src |-> newest.src, since |-> newest.since]
    /\ newest.seq \in Int

\* The number the server waits for follows that of the latest datagram.
AttachInv ==
    /\ SeqType
    /\ expected["server"] = newest.seq + 1
    /\ newest.seq >= -1
    /\ AttachedToNewest

\* The datagram a send adds bears the next number; the others stay.
LEMMA SentSeq ==
    ASSUME NEW e \in Endpoint, SeqType, Send(e)
    PROVE  \A m \in net' : m.seq \in Nat
<1>1. PICK lost \in SUBSET net : net' = (net \ lost) \cup {EncryptFragment(e)}
  BY DEF Send
<1>2. EncryptFragment(e).seq = sendSeq[e]
  BY DEF EncryptFragment
<1> QED
  BY <1>1, <1>2 DEF SeqType

\* Ageing changes no number.
LEMMA AgedSeq ==
    ASSUME SeqType, TimePasses
    PROVE  \A m \in net' : m.seq \in Nat
<1> SUFFICES ASSUME NEW m \in net' PROVE m.seq \in Nat
  OBVIOUS
<1>1. PICK n \in net :
        m = [n EXCEPT !.age = @ + 1, !.since = UpTo(@ + 1, PortLifetime)]
  BY DEF TimePasses
<1>2. m.seq = n.seq
  BY <1>1
<1> QED
  BY <1>2 DEF SeqType

\* The inductive invariant behind Attached: process_incoming moves
\* expected_receiver_seq and the remote address together.
THEOREM AttachInvariance == Spec => []AttachInv
<1>1. Init => AttachInv
  <2> SUFFICES ASSUME Init PROVE AttachInv
    OBVIOUS
  <2>1. newest = [seq |-> -1, src |-> NoAddress, since |-> 0]
    BY DEF Init
  <2>2. hasRemote \in [Endpoint -> BOOLEAN] /\ hasRemote["server"] = FALSE
    BY DEF Init, Endpoint
  <2>3. /\ remote = NoAddress /\ net = {}
        /\ expected = [e \in Endpoint |-> 0] /\ sendSeq = [e \in Endpoint |-> 0]
    BY DEF Init
  <2> QED
    BY <2>1, <2>2, <2>3 DEF AttachInv, SeqType, AttachedToNewest, Endpoint
<1>2. AttachInv /\ [Next]_vars => AttachInv'
  <2> SUFFICES ASSUME AttachInv, [Next]_vars PROVE AttachInv'
    OBVIOUS
  <2>1. CASE TimePasses
    <3>1. newest' = [newest EXCEPT !.since = UpTo(@ + 1, PortLifetime)]
      BY <2>1 DEF TimePasses
    <3>2. /\ newest'.seq = newest.seq /\ newest'.src = newest.src
          /\ newest' = [seq |-> newest'.seq, src |-> newest'.src, since |-> newest'.since]
      BY <3>1 DEF AttachInv, SeqType
    <3> QED
      BY <2>1, <3>2, AgedSeq DEF TimePasses, AttachInv, SeqType, AttachedToNewest
  <2>2. CASE ClientMoves
    BY <2>2 DEF ClientMoves, AttachInv, SeqType, AttachedToNewest
  <2>3. ASSUME NEW e \in Endpoint, Send(e) PROVE AttachInv'
    <3>1. \A m \in net' : m.seq \in Nat
      BY <2>3, SentSeq DEF AttachInv
    <3>2. sendSeq' \in [Endpoint -> Nat]
      BY <2>3 DEF Send, AttachInv, SeqType
    <3> QED
      BY <2>3, <3>1, <3>2 DEF Send, AttachInv, SeqType, AttachedToNewest
  <2>4. ASSUME NEW e \in Endpoint, NEW m \in net, ProcessIncoming(e, m)
        PROVE  AttachInv'
    <3>1. m.seq \in Nat /\ net' = net /\ sendSeq' = sendSeq
      BY <2>4 DEF ProcessIncoming, AttachInv, SeqType
    <3>2. CASE e = "server" /\ Fresh(e, m)
      <4>1. /\ expected' = [expected EXCEPT !["server"] = m.seq + 1]
            /\ hasRemote' = [hasRemote EXCEPT !["server"] = TRUE]
            /\ remote' = m.src
        BY <2>4, <3>2 DEF ProcessIncoming, ProcessFresh, Retarget
      <4>2. m.seq > newest.seq
        BY <3>1, <3>2 DEF Fresh, AttachInv, SeqType
      <4>3. newest' = [seq |-> m.seq, src |-> m.src, since |-> m.since]
        BY <2>4, <3>2, <4>2 DEF ProcessIncoming
      <4> QED
        BY <3>1, <4>1, <4>3 DEF AttachInv, SeqType, AttachedToNewest, Endpoint
    <3>3. CASE e = "client" /\ Fresh(e, m)
      <4>1. /\ expected' = [expected EXCEPT !["client"] = m.seq + 1]
            /\ hasRemote' = [hasRemote EXCEPT !["client"] = TRUE]
            /\ remote' = remote /\ newest' = newest
        BY <2>4, <3>3 DEF ProcessIncoming, ProcessFresh, Retarget
      <4> QED
        BY <3>1, <4>1 DEF AttachInv, SeqType, AttachedToNewest, Endpoint
    <3>4. CASE ~Fresh(e, m)
      <4>1. expected' = expected /\ hasRemote' = hasRemote /\ remote' = remote
        BY <2>4, <3>4 DEF ProcessIncoming
      <4>2. newest' = newest
        BY <2>4, <3>1, <3>4 DEF ProcessIncoming, Fresh, AttachInv, SeqType
      <4> QED
        BY <3>1, <4>1, <4>2 DEF AttachInv, SeqType, AttachedToNewest
    <3> QED
      BY <3>2, <3>3, <3>4 DEF Endpoint
  <2>5. CASE HopPort
    BY <2>5 DEF HopPort, AttachInv, SeqType, AttachedToNewest
  <2>6. CASE UNCHANGED vars
    BY <2>6 DEF vars, AttachInv, SeqType, AttachedToNewest
  <2> QED
    BY <2>1, <2>2, <2>3, <2>4, <2>5, <2>6 DEF Next
<1> QED
  BY <1>1, <1>2, PTL DEF Spec

\* The server sends to where the client's latest datagram came from: a delayed
\* one from an old network never turns it back.
THEOREM Attached == Spec => []AttachedToNewest
<1>1. AttachInv => AttachedToNewest
  BY DEF AttachInv
<1> QED
  BY <1>1, AttachInvariance, PTL

-----------------------------------------------------------------------------
(* The round-trip estimate *)

Estimate == [srtt_ms : Nat, rttvar_ms : Nat, have_sample : BOOLEAN]

\* An estimator and the extremes of its measurements.
Within(est, ext) ==
    /\ est \in Estimate
    /\ ext \in [least : Nat, most : Nat]
    /\ est.have_sample => /\ ext.least <= est.srtt_ms
                          /\ est.srtt_ms <= ext.most
                          /\ est.rttvar_ms <= ext.most

EstimateInv ==
    /\ rtt \in [Endpoint -> Estimate]
    /\ extremes \in [Endpoint -> [least : Nat, most : Nat]]
    /\ \A e \in Endpoint : Within(rtt[e], extremes[e])

\* The extremes with one more measurement.
Extended(ext, x) == [least |-> UpTo(ext.least, x),
                     most |-> IF ext.most < x THEN x ELSE ext.most]

\* The weighted means of update, rounded down, stay between bounds on both terms.
LEMMA MeanOfEight ==
    ASSUME NEW lo \in Nat, NEW hi \in Nat, NEW s \in lo .. hi, NEW x \in lo .. hi
    PROVE  (7 * s + x) \div 8 \in lo .. hi
  BY SMT

LEMMA MeanOfFour ==
    ASSUME NEW hi \in Nat, NEW v \in 0 .. hi, NEW d \in 0 .. hi
    PROVE  (3 * v + d) \div 4 \in 0 .. hi
  BY SMT

LEMMA Half ==
    ASSUME NEW x \in Nat
    PROVE  x \div 2 \in 0 .. x
  BY SMT

\* RttEstimator::update keeps the estimate within the measurements.
LEMMA UpdateWithin ==
    ASSUME NEW est, NEW ext, Within(est, ext), NEW x \in Nat, x > 0, x < RTT_LIMIT
    PROVE  Within(Update(est, x), Extended(ext, x))
<1> DEFINE lo == Extended(ext, x).least
           hi == Extended(ext, x).most
           diff == IF est.srtt_ms > x THEN est.srtt_ms - x ELSE x - est.srtt_ms
<1>1. /\ lo \in Nat /\ hi \in Nat /\ lo <= x /\ x <= hi
      /\ lo <= ext.least /\ ext.most <= hi
      /\ Extended(ext, x) \in [least : Nat, most : Nat]
  BY DEF Extended, UpTo, Within
<1>2. ~(x = 0 \/ x > RTT_LIMIT)
  BY ConnectionAssumption
<1>3. CASE est.have_sample
  <2>1. /\ est.srtt_ms \in lo .. hi /\ est.rttvar_ms \in 0 .. hi /\ x \in lo .. hi
    BY <1>1, <1>3 DEF Within, Estimate
  <2>2. diff \in 0 .. hi
    BY <1>1, <2>1
  <2>3. /\ (7 * est.srtt_ms + x) \div 8 \in lo .. hi
        /\ (3 * est.rttvar_ms + diff) \div 4 \in 0 .. hi
    <3> HIDE DEF lo, hi, diff
    <3> QED
      BY <1>1, <2>1, <2>2, MeanOfEight, MeanOfFour
  <2>4. Update(est, x) = [srtt_ms |-> (7 * est.srtt_ms + x) \div 8,
                          rttvar_ms |-> (3 * est.rttvar_ms + diff) \div 4,
                          have_sample |-> TRUE]
    BY <1>2, <1>3 DEF Update
  <2> HIDE DEF lo, hi, diff
  <2>5. Within([srtt_ms |-> (7 * est.srtt_ms + x) \div 8,
                rttvar_ms |-> (3 * est.rttvar_ms + diff) \div 4,
                have_sample |-> TRUE], Extended(ext, x))
    <3> DEFINE s == (7 * est.srtt_ms + x) \div 8
               v == (3 * est.rttvar_ms + diff) \div 4
    <3>1. s \in Nat /\ v \in Nat /\ lo <= s /\ s <= hi /\ v <= hi
      BY <1>1, <2>3
    <3> HIDE DEF s, v
    <3> QED
      BY <1>1, <3>1 DEF Within, Estimate, lo, hi, s, v
  <2> QED
    BY <2>4, <2>5
<1>4. CASE ~est.have_sample
  <2>1. Update(est, x) = [srtt_ms |-> x, rttvar_ms |-> x \div 2, have_sample |-> TRUE]
    BY <1>2, <1>4 DEF Update
  <2>2. x \div 2 \in 0 .. x
    BY Half
  <2> QED
    BY <1>1, <2>1, <2>2 DEF Within, Estimate
<1> QED
  BY <1>3, <1>4

-----------------------------------------------------------------------------
(* Types *)

\* What the remainder and the capped ages range over.
LEMMA ModRange ==
    ASSUME NEW n \in Int, NEW k \in Nat, k > 0
    PROVE  n % k \in 0 .. k - 1
  BY SMT

LEMMA UpToType ==
    ASSUME NEW n \in Nat, NEW limit \in Nat
    PROVE  UpTo(n, limit) \in Nat
  BY DEF UpTo

\* Timestamps have 16 bits.
LEMMA TimestampType ==
    ASSUME TypeOK, NEW e \in Endpoint
    PROVE  Timestamp16(e) \in 0 .. TS_MOD - 1
<1> DEFINE t == clock + (IF e = "server" THEN CLOCK_SKEW ELSE 0)
<1>1. t \in Int /\ TS_MOD \in Nat /\ TS_MOD > 0
  BY ConnectionAssumption DEF TypeOK
<1>2. t % TS_MOD \in 0 .. TS_MOD - 1
  <2> HIDE DEF t
  <2> QED
    BY <1>1
<1> QED
  BY <1>1, <1>2 DEF Timestamp16

LEMMA ReplyType ==
    ASSUME TypeOK, NEW e \in Endpoint
    PROVE  TimestampReply(e) \in 0 .. TS_MOD - 1
<1>1. saved[e].ts \in Nat /\ saved[e].age \in Nat
  BY SMTT(30) DEF TypeOK
<1>2. TS_MOD \in Nat /\ TS_MOD > 0
  BY ConnectionAssumption
<1> DEFINE t == saved[e].ts + saved[e].age
<1>3. t \in Int
  BY <1>1
<1>4. t % TS_MOD \in 0 .. TS_MOD - 1
  <2> HIDE DEF t
  <2> QED
    BY <1>2, <1>3
<1> QED
  BY <1>2, <1>4 DEF TimestampReply, NoTimestamp

LEMMA DatagramType ==
    ASSUME TypeOK, NEW e \in Endpoint
    PROVE  EncryptFragment(e) \in Datagram
<1>1. /\ sendSeq[e] \in Nat /\ saved[e].trip \in Nat /\ newest.since \in Nat
      /\ remote \in Address
  BY DEF TypeOK
<1>2. <<network, Last(sockets)>> \in Address
  <2>1. Last(sockets) \in Ports
    BY DEF TypeOK, Last
  <2> QED
    BY <2>1 DEF TypeOK, Address
<1>3. ServerAddress \in Address
  BY DEF Address
<1> QED
  BY <1>1, <1>2, <1>3, TimestampType, ReplyType DEF EncryptFragment, Datagram

\* A measurement is an integer.
LEMMA MeasuredType ==
    ASSUME TypeOK, NEW e \in Endpoint, NEW m \in net
    PROVE  Measured(e, m) \in Int
<1>1. m.reply \in Int /\ Timestamp16(e) \in Int
  <2>1. Timestamp16(e) \in 0 .. TS_MOD - 1
    BY TimestampType
  <2>2. m \in Datagram
    BY DEF TypeOK
  <2> QED
    BY <2>1, <2>2 DEF Datagram
<1>2. TS_MOD \in Nat /\ TS_MOD > 0
  BY ConnectionAssumption
<1> DEFINE d == (Timestamp16(e) - m.reply) % TS_MOD
<1>3. d \in Int
  BY <1>1, <1>2
<1>4. Measured(e, m) = IF 2 * d < TS_MOD THEN d ELSE d - TS_MOD
  BY DEF Measured, TimestampDiff
<1> HIDE DEF d
<1> QED
  BY <1>2, <1>3, <1>4

\* Pruning leaves between one and MAX_PORTS_OPEN sockets.
LEMMA PruneType ==
    ASSUME TypeOK, NEW p \in Ports
    PROVE  /\ PruneSockets(Append(sockets, p)) \in Seq(Ports)
           /\ Len(PruneSockets(Append(sockets, p))) \in 1 .. MAX_PORTS_OPEN
<1> DEFINE s == Append(sockets, p)
<1>1. s \in Seq(Ports) /\ Len(s) \in 2 .. MAX_PORTS_OPEN + 1
  BY ConnectionAssumption DEF TypeOK
<1>2. MAX_PORTS_OPEN \in Nat /\ MAX_PORTS_OPEN >= 1
  BY ConnectionAssumption
<1> HIDE DEF s
<1>3. CASE Len(s) > MAX_PORTS_OPEN
  <2>1. PruneSockets(s) = SubSeq(s, 2, Len(s))
    BY <1>1, <1>2, <1>3 DEF PruneSockets
  <2> QED
    BY <1>1, <1>2, <1>3, <2>1 DEF s
<1>4. CASE ~(Len(s) > MAX_PORTS_OPEN)
  BY <1>1, <1>2, <1>4 DEF PruneSockets, s
<1> QED
  BY <1>3, <1>4

\* A usable measurement keeps the types of what it updates.
LEMMA MeasureType ==
    ASSUME TypeOK, NEW e \in Endpoint, NEW m \in net, Measure(e, m)
    PROVE  /\ rtt' \in [Endpoint -> Estimate]
           /\ sample' \in [measured : Int, actual : Nat]
           /\ extremes' \in [Endpoint -> [least : Nat, most : Nat]]
<1> DEFINE x == Measured(e, m)
<1>1. x \in Int
  BY MeasuredType
<1>2. /\ rtt \in [Endpoint -> Estimate]
      /\ sample \in [measured : Int, actual : Nat]
      /\ extremes \in [Endpoint -> [least : Nat, most : Nat]]
      /\ m.age \in Nat /\ m.trip \in Nat
  BY DEF TypeOK, Estimate, Datagram
<1>3. CASE Usable(e, m)
  <2>1. x \in Nat /\ x > 0 /\ x < RTT_LIMIT
    BY <1>1, <1>3, ConnectionAssumption DEF Usable
  <2>2. /\ rtt' = [rtt EXCEPT ![e] = Update(@, x)]
        /\ sample' = [measured |-> x, actual |-> m.trip + m.age]
        /\ extremes' = [extremes EXCEPT ![e] = Extended(@, x)]
    BY <1>3 DEF Measure, Extended
  <2> HIDE DEF x
  <2>3. Update(rtt[e], x) \in Estimate
    <3> DEFINE est == rtt[e]
    <3>1. est \in Estimate
      BY <1>2
    <3> HIDE DEF est
    <3> DEFINE hi == est.srtt_ms + est.rttvar_ms + x
    <3>2. hi \in Nat /\ est.srtt_ms <= hi /\ est.rttvar_ms <= hi
      BY <2>1, <3>1 DEF Estimate
    <3> HIDE DEF hi
    <3>3. Within(est, [least |-> 0, most |-> hi])
      BY <3>1, <3>2 DEF Within, Estimate
    <3>4. Within(Update(est, x), Extended([least |-> 0, most |-> hi], x))
      BY <2>1, <3>3, UpdateWithin
    <3> QED
      BY <3>4 DEF Within, est
  <2>4. Extended(extremes[e], x) \in [least : Nat, most : Nat]
    BY <1>2, <2>1 DEF Extended, UpTo
  <2> QED
    BY <1>1, <1>2, <2>1, <2>2, <2>3, <2>4
<1>4. CASE ~Usable(e, m)
  BY <1>2, <1>4 DEF Measure
<1> QED
  BY <1>3, <1>4

\* Every variable keeps its type: between one and MAX_PORTS_OPEN sockets are
\* open, and timestamps stay 16-bit numbers.
THEOREM TypeCorrect == Spec => []TypeOK
<1>1. Init => TypeOK
  <2> SUFFICES ASSUME Init PROVE TypeOK
    OBVIOUS
  <2>1. sockets \in Seq(Ports) /\ Len(sockets) \in 1 .. MAX_PORTS_OPEN
    BY ConnectionAssumption DEF Init
  <2>2. /\ saved \in [Endpoint -> [ts : 0 .. TS_MOD - 1, age : Nat, trip : Nat]]
        /\ extremes \in [Endpoint -> [least : Nat, most : Nat]]
    BY ConnectionAssumption DEF Init
  <2>3. /\ rtt \in [Endpoint -> [srtt_ms : Nat, rttvar_ms : Nat, have_sample : BOOLEAN]]
        /\ hasRemote \in [Endpoint -> BOOLEAN]
    BY DEF Init, NewEstimator
  <2>4. /\ remote \in Address
        /\ newest \in [seq : Int, src : Address, since : Nat]
        /\ sample \in [measured : Int, actual : Nat]
    BY DEF Init, Address, NoSample
  <2>5. /\ clock \in 0 .. TS_MOD - 1 /\ network \in Networks
        /\ sinceHop \in Nat /\ sinceSuccess \in Nat
        /\ sendSeq \in [Endpoint -> Nat] /\ expected \in [Endpoint -> Nat]
        /\ net \in SUBSET Datagram
    BY DEF Init
  <2> QED
    BY <2>1, <2>2, <2>3, <2>4, <2>5 DEF TypeOK
<1>2. TypeOK /\ [Next]_vars => TypeOK'
  <2> SUFFICES ASSUME TypeOK, [Next]_vars PROVE TypeOK'
    OBVIOUS
  <2>1. CASE TimePasses
    <3>0. PortLifetime \in Nat
      <4>1. MAX_PORTS_OPEN - 1 \in Nat /\ PORT_HOP_INTERVAL + 1 \in Nat
        BY ConnectionAssumption
      <4> QED
        BY <4>1 DEF PortLifetime
    <3>1. clock' \in 0 .. TS_MOD - 1
      <4>1. clock + 1 \in Int /\ TS_MOD \in Nat /\ TS_MOD > 0
        BY ConnectionAssumption DEF TypeOK
      <4>2. clock' = (clock + 1) % TS_MOD
        BY <2>1 DEF TimePasses
      <4> QED
        BY <4>1, <4>2, ModRange
    <3>2. sinceHop' \in Nat /\ sinceSuccess' \in Nat
      <4>1. /\ sinceHop + 1 \in Nat /\ sinceSuccess + 1 \in Nat
            /\ PORT_HOP_INTERVAL + 1 \in Nat
        BY ConnectionAssumption DEF TypeOK
      <4>2. /\ sinceHop' = UpTo(sinceHop + 1, PORT_HOP_INTERVAL + 1)
            /\ sinceSuccess' = UpTo(sinceSuccess + 1, PORT_HOP_INTERVAL + 1)
        BY <2>1 DEF TimePasses
      <4> QED
        BY <4>1, <4>2, UpToType
    <3>3. saved' \in [Endpoint -> [ts : 0 .. TS_MOD - 1, age : Nat, trip : Nat]]
      <4>1. saved \in [Endpoint -> [ts : 0 .. TS_MOD - 1, age : Nat, trip : Nat]]
        BY DEF TypeOK
      <4>2. ASSUME NEW e \in Endpoint
            PROVE  UpTo(saved[e].age + 1, REPLY_LIMIT) \in Nat
        <5>1. saved[e].age + 1 \in Nat
          BY <4>1
        <5>2. REPLY_LIMIT \in Nat
          BY ConnectionAssumption
        <5> QED
          BY <5>1, <5>2, UpToType
      <4>3. saved' = [e \in Endpoint |->
                         [saved[e] EXCEPT !.age = UpTo(@ + 1, REPLY_LIMIT)]]
        BY <2>1 DEF TimePasses
      <4> QED
        BY <4>1, <4>2, <4>3
    <3>4. net' \in SUBSET Datagram
      <4> SUFFICES ASSUME NEW m \in net' PROVE m \in Datagram
        OBVIOUS
      <4>1. PICK n \in net :
              m = [n EXCEPT !.age = @ + 1, !.since = UpTo(@ + 1, PortLifetime)]
        BY <2>1 DEF TimePasses
      <4>2. n \in Datagram
        BY DEF TypeOK
      <4>3. UpTo(n.since + 1, PortLifetime) \in Nat /\ n.age + 1 \in Nat
        BY <3>0, <4>2 DEF Datagram, UpTo
      <4> QED
        BY <4>1, <4>2, <4>3 DEF Datagram
    <3>5. newest' \in [seq : Int, src : Address, since : Nat]
      <4>1. newest \in [seq : Int, src : Address, since : Nat]
        BY DEF TypeOK
      <4>2. UpTo(newest.since + 1, PortLifetime) \in Nat
        BY <3>0, <4>1 DEF UpTo
      <4> QED
        BY <2>1, <4>1, <4>2 DEF TimePasses
    <3>6. sample' \in [measured : Int, actual : Nat]
      <4>1. sample' = [measured |-> 0, actual |-> 0]
        BY <2>1 DEF TimePasses, NoSample
      <4> QED
        BY <4>1
    <3> QED
      BY <2>1, <3>1, <3>2, <3>3, <3>4, <3>5, <3>6
      DEF TimePasses, TypeOK, Address, Datagram
  <2>2. CASE ClientMoves
    BY <2>2 DEF ClientMoves, TypeOK, Address, Datagram
  <2>3. ASSUME NEW e \in Endpoint, Send(e) PROVE TypeOK'
    <3>1. net' \in SUBSET Datagram
      <4>1. EncryptFragment(e) \in Datagram
        BY DatagramType
      <4> QED
        BY <2>3, <4>1 DEF Send, TypeOK
    <3>2. sendSeq' \in [Endpoint -> Nat]
      BY <2>3, SMTT(30) DEF Send, TypeOK
    <3> QED
      BY <2>3, <3>1, <3>2 DEF Send, TypeOK, Address, Datagram
  <2>4. ASSUME NEW e \in Endpoint, NEW m \in net, ProcessIncoming(e, m)
        PROVE  TypeOK'
    <3>1. m \in Datagram
      BY DEF TypeOK
    <3>2. sinceSuccess' \in Nat
      BY <2>4, SMTT(30) DEF ProcessIncoming, TypeOK
    <3>3. newest' \in [seq : Int, src : Address, since : Nat]
      BY <2>4, <3>1 DEF ProcessIncoming, TypeOK, Datagram
    <3>4. /\ expected' \in [Endpoint -> Nat]
          /\ saved' \in [Endpoint -> [ts : 0 .. TS_MOD - 1, age : Nat, trip : Nat]]
          /\ hasRemote' \in [Endpoint -> BOOLEAN]
          /\ remote' \in Address
      <4>1. CASE Fresh(e, m)
        <5>1. /\ expected' = [expected EXCEPT ![e] = m.seq + 1]
              /\ saved' = [saved EXCEPT ![e] = [ts |-> m.ts, age |-> 0, trip |-> m.age]]
              /\ hasRemote' = [hasRemote EXCEPT ![e] = TRUE]
              /\ remote' = IF e = "server" THEN m.src ELSE remote
          BY <2>4, <4>1 DEF ProcessIncoming, ProcessFresh, Retarget
        <5>2. /\ m.seq + 1 \in Nat /\ m.src \in Address
              /\ [ts |-> m.ts, age |-> 0, trip |-> m.age]
                    \in [ts : 0 .. TS_MOD - 1, age : Nat, trip : Nat]
          BY <3>1 DEF Datagram
        <5> QED
          BY <5>1, <5>2 DEF TypeOK
      <4>2. CASE ~Fresh(e, m)
        BY <2>4, <4>2 DEF ProcessIncoming, TypeOK
      <4> QED
        BY <4>1, <4>2
    <3>5. /\ rtt' \in [Endpoint -> [srtt_ms : Nat, rttvar_ms : Nat, have_sample : BOOLEAN]]
          /\ sample' \in [measured : Int, actual : Nat]
          /\ extremes' \in [Endpoint -> [least : Nat, most : Nat]]
      <4>1. CASE Fresh(e, m)
        <5>1. Measure(e, m)
          BY <2>4, <4>1 DEF ProcessIncoming, ProcessFresh
        <5> QED
          BY <5>1, MeasureType DEF Estimate
      <4>2. CASE ~Fresh(e, m)
        BY <2>4, <4>2 DEF ProcessIncoming, TypeOK
      <4> QED
        BY <4>1, <4>2
    <3>6. UNCHANGED <<clock, network, sockets, sinceHop, sendSeq, net>>
      BY <2>4 DEF ProcessIncoming
    <3> QED
      BY <3>2, <3>3, <3>4, <3>5, <3>6 DEF TypeOK, Address, Datagram
  <2>5. CASE HopPort
    <3>1. sockets' \in Seq(Ports) /\ Len(sockets') \in 1 .. MAX_PORTS_OPEN
      BY <2>5, PruneType DEF HopPort
    <3> QED
      BY <2>5, <3>1 DEF HopPort, TypeOK, Address, Datagram
  <2>6. CASE UNCHANGED vars
    BY <2>6 DEF vars, TypeOK, Address, Datagram
  <2> QED
    BY <2>1, <2>2, <2>3, <2>4, <2>5, <2>6 DEF Next
<1> QED
  BY <1>1, <1>2, PTL DEF Spec

-----------------------------------------------------------------------------
\* The estimate stays between the least and the greatest measurement made,
\* however many are averaged with integer division.
THEOREM EstimateSound == Spec => []EstimateWithinSamples
<1>1. Init => EstimateInv
  BY ConnectionAssumption DEF Init, EstimateInv, Within, Estimate, NewEstimator
<1>2. TypeOK /\ EstimateInv /\ [Next]_vars => EstimateInv'
  <2> SUFFICES ASSUME TypeOK, EstimateInv, [Next]_vars PROVE EstimateInv'
    OBVIOUS
  <2>1. ASSUME UNCHANGED <<rtt, extremes>> PROVE EstimateInv'
    BY <2>1 DEF EstimateInv, Within, Estimate
  <2>2. ASSUME NEW e \in Endpoint, NEW m \in net, ProcessIncoming(e, m)
        PROVE  EstimateInv'
    <3>1. CASE Fresh(e, m) /\ Usable(e, m)
      <4> DEFINE x == Measured(e, m)
      <4>1. x \in Nat /\ x > 0 /\ x < RTT_LIMIT
        <5>1. x \in Int
          BY MeasuredType
        <5> QED
          BY <3>1, <5>1 DEF Usable
      <4>2. /\ rtt' = [rtt EXCEPT ![e] = Update(@, x)]
            /\ extremes' = [extremes EXCEPT ![e] = Extended(@, x)]
        BY <2>2, <3>1 DEF ProcessIncoming, ProcessFresh, Measure, Extended
      <4> HIDE DEF x
      <4>3. Within(Update(rtt[e], x), Extended(extremes[e], x))
        BY <4>1, UpdateWithin DEF EstimateInv
      <4>4. /\ Update(rtt[e], x) \in Estimate
            /\ Extended(extremes[e], x) \in [least : Nat, most : Nat]
        BY <4>3 DEF Within
      <4> QED
        BY <4>2, <4>3, <4>4 DEF EstimateInv
    <3>2. CASE ~(Fresh(e, m) /\ Usable(e, m))
      BY <2>1, <2>2, <3>2 DEF ProcessIncoming, ProcessFresh, Measure
    <3> QED
      BY <3>1, <3>2
  <2>3. CASE TimePasses
    BY <2>1, <2>3 DEF TimePasses
  <2>4. CASE ClientMoves
    BY <2>1, <2>4 DEF ClientMoves
  <2>5. ASSUME NEW e \in Endpoint, Send(e) PROVE EstimateInv'
    BY <2>1, <2>5 DEF Send
  <2>6. CASE HopPort
    BY <2>1, <2>6 DEF HopPort
  <2>7. CASE UNCHANGED vars
    BY <2>1, <2>7 DEF vars
  <2> QED
    BY <2>2, <2>3, <2>4, <2>5, <2>6, <2>7 DEF Next
<1>3. EstimateInv => EstimateWithinSamples
  BY DEF EstimateInv, Within, EstimateWithinSamples
<1> QED
  BY <1>1, <1>2, <1>3, TypeCorrect, PTL DEF Spec
-----------------------------------------------------------------------------
(* Which sockets are open *)

\* The least time between two hops.
Hop == PORT_HOP_INTERVAL + 1

\* Of the sockets s, with the last hop elapsed ms ago, a port last used since ms
\* ago has k newer ones, and all k hops but the first took a whole interval.
Open(s, elapsed, port, since) ==
    since < PortLifetime =>
        \E k \in 0 .. Len(s) - 1 :
            /\ s[Len(s) - k] = port
            /\ k = 0 \/ since >= (k - 1) * Hop + elapsed

\* The inductive invariant behind AnswerFinds: it holds of the port of every
\* datagram, and of the one the server answers to.
SocketInv ==
    /\ sinceHop \in 0 .. Hop
    /\ newest.seq >= 0 => Open(sockets, sinceHop, newest.src[2], newest.since)
    /\ \A m \in net : /\ m.from = "client" => Open(sockets, sinceHop, m.src[2], m.since)
                      /\ m.from = "server" => Open(sockets, sinceHop, m.dst[2], m.since)

LEMMA HopFacts ==
    /\ Hop \in Nat \ {0} /\ PortLifetime \in Nat
    /\ PortLifetime = (MAX_PORTS_OPEN - 1) * Hop
    /\ MAX_PORTS_OPEN \in Nat \ {0}
<1>1. Hop \in Nat \ {0} /\ MAX_PORTS_OPEN \in Nat \ {0} /\ MAX_PORTS_OPEN - 1 \in Nat
  BY ConnectionAssumption DEF Hop
<1>2. PortLifetime = (MAX_PORTS_OPEN - 1) * Hop
  BY DEF PortLifetime, Hop
<1>3. \A a, b \in Nat : a * b \in Nat
  OBVIOUS
<1> QED
  BY <1>1, <1>2, <1>3

\* An interval more.
LEMMA HopAgain ==
    ASSUME NEW k \in Int, NEW w \in Int
    PROVE  k * w \in Int /\ (k - 1) * w \in Int /\ (k - 1) * w + w = k * w
OBVIOUS

\* A millisecond is no more than one millisecond for the hop.
LEMMA OpenAges ==
    ASSUME TypeOK, SocketInv, NEW port, NEW since \in Nat,
           Open(sockets, sinceHop, port, since),
           sinceHop' = UpTo(sinceHop + 1, PORT_HOP_INTERVAL + 1), sockets' = sockets
    PROVE  Open(sockets', sinceHop', port, UpTo(since + 1, PortLifetime))
<1> DEFINE new == UpTo(since + 1, PortLifetime)
<1> SUFFICES ASSUME new < PortLifetime
             PROVE  \E k \in 0 .. Len(sockets) - 1 :
                       /\ sockets[Len(sockets) - k] = port
                       /\ k = 0 \/ new >= (k - 1) * Hop + sinceHop'
  BY DEF Open
<1>1. new = since + 1 /\ since < PortLifetime
  BY HopFacts DEF UpTo
<1>2. PICK k \in 0 .. Len(sockets) - 1 :
          /\ sockets[Len(sockets) - k] = port
          /\ k = 0 \/ since >= (k - 1) * Hop + sinceHop
  BY <1>1 DEF Open
<1>3. sinceHop \in Nat /\ sinceHop' \in Nat /\ sinceHop' <= sinceHop + 1
  BY ConnectionAssumption DEF SocketInv, UpTo, Hop
<1> DEFINE passed == (k - 1) * Hop
<1>4. passed \in Int
  BY HopFacts, HopAgain DEF TypeOK
<1> HIDE DEF passed
<1>5. k = 0 \/ since >= passed + sinceHop
  BY <1>2 DEF passed
<1>6. k = 0 \/ new >= passed + sinceHop'
  BY <1>1, <1>3, <1>4, <1>5
<1> QED
  BY <1>2, <1>6 DEF passed

\* After a hop a port is one place further from the newest, or has been closed
\* because its time was over.
LEMMA OpenHops ==
    ASSUME TypeOK, SocketInv, HopPort, NEW port, NEW since \in Nat,
           Open(sockets, sinceHop, port, since)
    PROVE  Open(sockets', sinceHop', port, since)
<1> SUFFICES ASSUME since < PortLifetime
             PROVE  \E k \in 0 .. Len(sockets') - 1 :
                       /\ sockets'[Len(sockets') - k] = port
                       /\ k = 0 \/ since >= (k - 1) * Hop + sinceHop'
  BY DEF Open
<1> DEFINE n == Len(sockets)
<1>1. PICK k \in 0 .. n - 1 :
          /\ sockets[n - k] = port
          /\ k = 0 \/ since >= (k - 1) * Hop + sinceHop
  BY DEF Open
<1>2. sinceHop = Hop /\ sinceHop' = 0
  BY HopFacts, ConnectionAssumption DEF HopPort, ShouldHopPort, SocketInv, Hop
<1>3. sockets \in Seq(Ports) /\ n \in 1 .. MAX_PORTS_OPEN
  BY DEF TypeOK
<1>4. since >= k * Hop
  <2>1. k * Hop \in Int /\ (k - 1) * Hop + Hop = k * Hop
    BY <1>3, HopFacts, HopAgain
  <2>2. k = 0 => k * Hop = 0
    BY HopFacts
  <2> QED
    BY <1>1, <1>2, <2>1, <2>2
<1>5. k < MAX_PORTS_OPEN - 1
  <2> SUFFICES ASSUME k = MAX_PORTS_OPEN - 1 PROVE FALSE
    BY <1>3, HopFacts
  <2> QED
    BY <1>4, HopFacts
<1>6. PICK p \in Ports : sockets' = PruneSockets(Append(sockets, p))
  BY DEF HopPort
<1> DEFINE s == Append(sockets, p)
<1>7. /\ s \in Seq(Ports) /\ Len(s) = n + 1
      /\ \A i \in 1 .. n : s[i] = sockets[i]
  BY <1>3
<1> HIDE DEF s
<1>8. /\ Len(sockets') \in {n, n + 1} /\ Len(sockets') >= k + 2
      /\ \A j \in 0 .. Len(sockets') - 1 : sockets'[Len(sockets') - j] = s[n + 1 - j]
  <2> HIDE DEF n
  <2>1. CASE n + 1 > MAX_PORTS_OPEN
    <3>1. n = MAX_PORTS_OPEN /\ Len(s) - MAX_PORTS_OPEN + 1 = 2 /\ n \in Nat
      BY <1>3, <1>7, <2>1, HopFacts
    <3>2. sockets' = SubSeq(s, 2, n + 1)
      BY <1>6, <1>7, <2>1, <3>1 DEF PruneSockets, s
    <3>3. Len(sockets') = n /\ \A i \in 1 .. n : sockets'[i] = s[i + 1]
      BY <1>7, <3>1, <3>2
    <3>4. ASSUME NEW j \in 0 .. n - 1 PROVE sockets'[n - j] = s[n + 1 - j]
      <4>1. n - j \in 1 .. n /\ (n - j) + 1 = n + 1 - j
        BY <3>1
      <4> QED
        BY <3>3, <4>1
    <3> QED
      BY <1>1, <1>5, <3>1, <3>3, <3>4
  <2>2. CASE ~(n + 1 > MAX_PORTS_OPEN)
    <3>1. sockets' = s
      BY <1>6, <1>7, <2>2 DEF PruneSockets, s
    <3>2. Len(sockets') = n + 1
      BY <1>7, <3>1
    <3>3. k \in 0 .. n - 1 /\ n \in Nat
      BY <1>1, <1>3
    <3> QED
      BY <3>1, <3>2, <3>3
  <2> QED
    BY <2>1, <2>2
<1>9. k + 1 \in 0 .. Len(sockets') - 1 /\ sockets'[Len(sockets') - (k + 1)] = port
  <2>1. k + 1 \in 0 .. Len(sockets') - 1 /\ n + 1 - (k + 1) = n - k /\ n - k \in 1 .. n
    BY <1>3, <1>8
  <2> QED
    BY <1>1, <1>7, <1>8, <2>1
<1>10. since >= ((k + 1) - 1) * Hop + sinceHop'
  <2>1. (k + 1) - 1 = k
    BY <1>3
  <2> QED
    BY <1>2, <1>3, <1>4, <2>1, HopFacts, HopAgain
<1> QED
  BY <1>9, <1>10

\* The invariant of the sockets, and what the run checks of them: an answer to a
\* port that was used MAX_PORTS_OPEN - 1 hops ago, or later, still finds it open.
THEOREM AnswerFinds == Spec => []AnswerFindsSocket
<1>1. Init => SocketInv
  BY HopFacts DEF Init, SocketInv
<1>2. TypeOK /\ AttachInv /\ SocketInv /\ [Next]_vars => SocketInv'
  <2> SUFFICES ASSUME TypeOK, AttachInv, SocketInv, [Next]_vars PROVE SocketInv'
    OBVIOUS
  <2> DEFINE Later(since) == UpTo(since + 1, PortLifetime)
  <2>1. ASSUME UNCHANGED <<sockets, sinceHop, newest, net>> PROVE SocketInv'
    BY <2>1 DEF SocketInv
  <2>2. CASE TimePasses
    <3>1. /\ sinceHop' = UpTo(sinceHop + 1, PORT_HOP_INTERVAL + 1) /\ sockets' = sockets
          /\ newest' = [newest EXCEPT !.since = Later(@)]
          /\ net' = {[m EXCEPT !.age = @ + 1, !.since = Later(@)] :
                        m \in {m \in net : m.age < MAX_DELAY}}
      BY <2>2 DEF TimePasses
    <3>2. newest'.seq = newest.seq /\ newest'.src = newest.src
          /\ newest'.since = Later(newest.since) /\ newest.since \in Nat
      BY <3>1 DEF TypeOK
    <3>3. newest'.seq >= 0 => Open(sockets', sinceHop', newest'.src[2], newest'.since)
      BY <3>1, <3>2, OpenAges DEF SocketInv
    <3>4. ASSUME NEW n \in net'
          PROVE  /\ n.from = "client" => Open(sockets', sinceHop', n.src[2], n.since)
                 /\ n.from = "server" => Open(sockets', sinceHop', n.dst[2], n.since)
      <4>1. PICK m \in net : n = [m EXCEPT !.age = @ + 1, !.since = Later(@)]
        BY <3>1
      <4>2. m \in Datagram
        BY DEF TypeOK
      <4>3. /\ n.from = m.from /\ n.src = m.src /\ n.dst = m.dst /\ n.since = Later(m.since)
            /\ m.since \in Nat
        BY <4>1, <4>2 DEF Datagram
      <4>4. ASSUME NEW port, Open(sockets, sinceHop, port, m.since)
            PROVE  Open(sockets', sinceHop', port, Later(m.since))
        BY <3>1, <4>3, <4>4, OpenAges
      <4>5. /\ m.from = "client" => Open(sockets, sinceHop, m.src[2], m.since)
            /\ m.from = "server" => Open(sockets, sinceHop, m.dst[2], m.since)
        BY DEF SocketInv
      <4> QED
        BY <4>3, <4>4, <4>5
    <3>5. sinceHop' \in 0 .. Hop
      <4>1. sinceHop \in 0 .. Hop /\ sinceHop' = UpTo(sinceHop + 1, Hop)
        BY <3>1 DEF SocketInv, Hop
      <4> QED
        BY <4>1, HopFacts DEF UpTo
    <3> QED
      BY <3>3, <3>4, <3>5 DEF SocketInv
  <2>3. CASE ClientMoves
    BY <2>1, <2>3 DEF ClientMoves
  <2>4. ASSUME NEW e \in Endpoint, Send(e) PROVE SocketInv'
    <3> DEFINE new == EncryptFragment(e)
    <3>1. PICK lost \in SUBSET net : net' = (net \ lost) \cup {new}
      BY <2>4 DEF Send
    <3>2. UNCHANGED <<sockets, sinceHop, newest>> /\ hasRemote[e]
      BY <2>4 DEF Send
    <3>3. CASE e = "client"
      <4>1. /\ new.from = "client" /\ new.src = <<network, sockets[Len(sockets)]>>
            /\ new.src[2] = sockets[Len(sockets)]
        BY <3>3 DEF EncryptFragment, Last
      <4>2. Len(sockets) \in Nat \ {0}
        BY ConnectionAssumption DEF TypeOK
      <4>3. 0 \in 0 .. Len(sockets) - 1 /\ Len(sockets) - 0 = Len(sockets)
        BY <4>2
      <4>4. Open(sockets, sinceHop, new.src[2], new.since)
        BY <4>1, <4>3 DEF Open
      <4> HIDE DEF new
      <4> QED
        BY <3>1, <3>2, <4>1, <4>4 DEF SocketInv
    <3>4. CASE e = "server"
      <4>1. new.from = "server" /\ new.dst = remote /\ new.since = newest.since
        BY <3>4 DEF EncryptFragment
      <4>2. newest.seq >= 0 /\ remote = newest.src
        BY <3>2, <3>4 DEF AttachInv, AttachedToNewest
      <4>3. Open(sockets, sinceHop, new.dst[2], new.since)
        BY <4>1, <4>2 DEF SocketInv
      <4> HIDE DEF new
      <4> QED
        BY <3>1, <3>2, <4>1, <4>3 DEF SocketInv
    <3> QED
      BY <3>3, <3>4 DEF Endpoint
  <2>5. ASSUME NEW e \in Endpoint, NEW m \in net, ProcessIncoming(e, m) PROVE SocketInv'
    <3>1. UNCHANGED <<sockets, sinceHop, net>> /\ m.from = Peer(e)
      BY <2>5 DEF ProcessIncoming, Reaches
    <3>2. CASE newest' = newest
      BY <2>1, <3>1, <3>2
    <3>3. CASE e = "server" /\ newest' = [seq |-> m.seq, src |-> m.src, since |-> m.since]
      <4>1. m.from = "client"
        BY <3>1, <3>3 DEF Peer
      <4> QED
        BY <3>1, <3>3, <4>1 DEF SocketInv
    <3> QED
      BY <2>5, <3>2, <3>3 DEF ProcessIncoming
  <2>6. CASE HopPort
    <3>1. UNCHANGED <<newest, net>> /\ sinceHop' = 0 /\ 0 \in 0 .. Hop
      BY <2>6, HopFacts DEF HopPort
    <3>2. newest.since \in Nat /\ \A m \in net : m.since \in Nat
      BY DEF TypeOK, Datagram
    <3>3. newest.seq >= 0 => Open(sockets', sinceHop', newest.src[2], newest.since)
      BY <2>6, <3>2, OpenHops DEF SocketInv
    <3>4. ASSUME NEW m \in net
          PROVE  /\ m.from = "client" => Open(sockets', sinceHop', m.src[2], m.since)
                 /\ m.from = "server" => Open(sockets', sinceHop', m.dst[2], m.since)
      BY <2>6, <3>2, OpenHops DEF SocketInv
    <3> QED
      BY <3>1, <3>3, <3>4 DEF SocketInv
  <2>7. CASE UNCHANGED vars
    BY <2>1, <2>7 DEF vars
  <2> QED
    BY <2>2, <2>3, <2>4, <2>5, <2>6, <2>7 DEF Next
<1>3. TypeOK /\ SocketInv => AnswerFindsSocket
  <2> SUFFICES ASSUME TypeOK, SocketInv, NEW m \in net, m.from = "server",
                      m.since < PortLifetime
               PROVE  \E i \in DOMAIN sockets : sockets[i] = m.dst[2]
    BY DEF AnswerFindsSocket
  <2>1. PICK k \in 0 .. Len(sockets) - 1 : sockets[Len(sockets) - k] = m.dst[2]
    BY DEF SocketInv, Open
  <2>2. sockets \in Seq(Ports) /\ Len(sockets) \in Nat
    BY DEF TypeOK
  <2>3. Len(sockets) - k \in DOMAIN sockets
    BY <2>1, <2>2
  <2> QED
    BY <2>1, <2>3
<1> QED
  BY <1>1, <1>2, <1>3, AttachInvariance, TypeCorrect, PTL DEF Spec

-----------------------------------------------------------------------------
(* What is measured *)

\* The same in the cycle of the timestamps.
Congruent(a, b) == \E k \in Int : a = b + k * TS_MOD

\* Quotient and remainder.
LEMMA DivMod ==
    ASSUME NEW n \in Int, NEW k \in Nat, k > 0
    PROVE  n \div k \in Int /\ n % k \in Int /\ n = (n \div k) * k + (n % k)
<1>1. n \div k \in Int
  BY SMT
<1>2. n % k \in Int
  BY ModRange
<1>3. n = (n \div k) * k + (n % k)
  BY SMT
<1> QED
  BY <1>1, <1>2, <1>3

\* Arithmetic modulo TS_MOD.
LEMMA Modulo == ASSUME NEW n \in Int PROVE Congruent(n % TS_MOD, n)
<1> DEFINE q == n \div TS_MOD
           r == n % TS_MOD
<1>1. TS_MOD \in Nat /\ TS_MOD > 0
  BY ConnectionAssumption
<1>2. q \in Int /\ r \in Int /\ n = q * TS_MOD + r
  BY <1>1, DivMod
<1> HIDE DEF q, r
<1>3. r = n + (-q) * TS_MOD /\ -q \in Int
  BY <1>1, <1>2
<1> QED
  BY <1>3 DEF Congruent, r

LEMMA CongruentSum ==
    ASSUME NEW a \in Int, NEW b \in Int, NEW c \in Int, NEW d \in Int,
           Congruent(a, b), Congruent(c, d)
    PROVE  Congruent(a + c, b + d) /\ Congruent(a - c, b - d)
<1>1. TS_MOD \in Int
  BY ConnectionAssumption
<1>2. PICK k \in Int : a = b + k * TS_MOD
  BY DEF Congruent
<1>3. PICK l \in Int : c = d + l * TS_MOD
  BY DEF Congruent
<1>4. a + c = (b + d) + (k + l) * TS_MOD /\ k + l \in Int
  BY <1>1, <1>2, <1>3
<1>5. a - c = (b - d) + (k - l) * TS_MOD /\ k - l \in Int
  BY <1>1, <1>2, <1>3
<1> QED
  BY <1>4, <1>5 DEF Congruent

LEMMA CongruentSelf == ASSUME NEW a \in Int PROVE Congruent(a, a)
<1>1. a = a + 0 * TS_MOD /\ 0 \in Int
  BY ConnectionAssumption
<1> QED
  BY <1>1 DEF Congruent

LEMMA CongruentChain ==
    ASSUME NEW a \in Int, NEW b \in Int, NEW c \in Int, Congruent(a, b), Congruent(b, c)
    PROVE  Congruent(a, c)
<1>1. TS_MOD \in Int
  BY ConnectionAssumption
<1>2. PICK k \in Int : a = b + k * TS_MOD
  BY DEF Congruent
<1>3. PICK l \in Int : b = c + l * TS_MOD
  BY DEF Congruent
<1>4. a = c + (k + l) * TS_MOD /\ k + l \in Int
  BY <1>1, <1>2, <1>3
<1> QED
  BY <1>4 DEF Congruent

\* Within one cycle there is only one number.
LEMMA CongruentUnique ==
    ASSUME NEW a \in 0 .. TS_MOD - 1, NEW b \in 0 .. TS_MOD - 1, Congruent(a, b)
    PROVE  a = b
<1>1. TS_MOD \in Nat \ {0}
  BY ConnectionAssumption
<1>2. PICK k \in Int : a = b + k * TS_MOD
  BY DEF Congruent
<1>3. k * TS_MOD < TS_MOD /\ k * TS_MOD > -TS_MOD
  BY <1>1, <1>2
<1>4. k < 1 /\ k > -1
  BY <1>1, <1>3
<1>5. k = 0
  BY <1>4
<1> QED
  BY <1>1, <1>2, <1>5

\* What an endpoint's clock shows, the cycle left aside.
Raw(now, e) == now + (IF e = "server" THEN CLOCK_SKEW ELSE 0)

\* ts is the time at e, age ms ago.
Stamped(ts, time, age) == Congruent(ts, time - age)

\* The inductive invariant behind MeasurementsTrue: every timestamp in flight or
\* kept tells when it was made, if it is not the one that stands for none or
\* may have replaced it.
SampleInv ==
    /\ \A m \in net :
        /\ m.age <= MAX_DELAY /\ m.trip <= MAX_DELAY
        /\ m.ts # 0 => Stamped(m.ts, Raw(clock, m.from), m.age)
        /\ m.reply # NoTimestamp => Stamped(m.reply, Raw(clock, Peer(m.from)), m.age + m.trip)
    /\ \A e \in Endpoint :
        /\ saved[e].trip <= MAX_DELAY
        /\ saved[e].ts # 0 /\ saved[e].age < REPLY_LIMIT
              => Stamped(saved[e].ts, Raw(clock, Peer(e)), saved[e].age + saved[e].trip)
    /\ SampleTrue

LEMMA RawType ==
    ASSUME TypeOK, NEW e \in Endpoint
    PROVE  Raw(clock, e) \in Int /\ Peer(e) \in Endpoint
BY ConnectionAssumption DEF TypeOK, Raw, Peer, Endpoint

\* A millisecond later.
LEMMA StampAges ==
    ASSUME TypeOK, TimePasses, NEW ts \in Int, NEW age \in Int, NEW e \in Endpoint,
           Stamped(ts, Raw(clock, e), age)
    PROVE  Stamped(ts, Raw(clock', e), age + 1)
<1> DEFINE skew == IF e = "server" THEN CLOCK_SKEW ELSE 0
<1>1. clock \in Int /\ clock' = (clock + 1) % TS_MOD /\ skew \in Int
      /\ clock' \in Int
  <2>1. clock \in Int /\ clock' = (clock + 1) % TS_MOD /\ skew \in Int
    <3>1. clock \in Int /\ TS_MOD \in Int
      BY ConnectionAssumption DEF TypeOK
    <3>2. clock' = (clock + 1) % TS_MOD
      BY DEF TimePasses
    <3>3. skew \in Int
      BY ConnectionAssumption
    <3> QED
      BY <3>1, <3>2, <3>3
  <2>2. TS_MOD \in Nat /\ TS_MOD > 0 /\ clock + 1 \in Int
    BY <2>1, ConnectionAssumption
  <2>3. (clock + 1) % TS_MOD \in Int
    BY <2>2, ModRange
  <2> QED
    BY <2>1, <2>3
<1>2. Raw(clock, e) = clock + skew /\ Raw(clock', e) = clock' + skew
  BY DEF Raw
<1> HIDE DEF skew
<1>3. Congruent(clock', clock + 1)
  BY <1>1, Modulo
<1>4. Congruent(clock + 1, clock')
  <2>1. PICK k \in Int : clock' = clock + 1 + k * TS_MOD
    BY <1>3 DEF Congruent
  <2>2. clock + 1 = clock' + (-k) * TS_MOD /\ -k \in Int
    BY <1>1, <2>1, ConnectionAssumption
  <2> QED
    BY <2>2 DEF Congruent
<1>5. Congruent((clock + 1) + (skew - age - 1), clock' + (skew - age - 1))
  BY <1>1, <1>4, CongruentSelf, CongruentSum
<1>6. /\ (clock + 1) + (skew - age - 1) = Raw(clock, e) - age
      /\ clock' + (skew - age - 1) = Raw(clock', e) - (age + 1)
      /\ Raw(clock, e) - age \in Int /\ Raw(clock', e) - (age + 1) \in Int
  BY <1>1, <1>2
<1>7. Congruent(Raw(clock, e) - age, Raw(clock', e) - (age + 1))
  BY <1>5, <1>6
<1> QED
  BY <1>6, <1>7, CongruentChain DEF Stamped

\* The timestamp an endpoint sends.
LEMMA StampMade ==
    ASSUME TypeOK, NEW e \in Endpoint
    PROVE  \E late \in {0, 1} :
              /\ Stamped(Timestamp16(e), Raw(clock, e) + late, 0)
              /\ Timestamp16(e) # 0 => late = 0
<1> DEFINE t == Raw(clock, e)
           r == t % TS_MOD
<1>1. t \in Int /\ TS_MOD \in Nat /\ TS_MOD > 0
  BY RawType, ConnectionAssumption
<1>2. Timestamp16(e) = IF r = TS_MOD - 1 THEN 0 ELSE r
  BY DEF Timestamp16, Raw, NoTimestamp
<1> HIDE DEF t
<1>3. Congruent(r, t) /\ r \in Int
  BY <1>1, Modulo, ModRange
<1> HIDE DEF r
<1>4. CASE r # TS_MOD - 1
  <2>1. (t + 0) - 0 = t
    BY <1>1
  <2>2. Timestamp16(e) = r /\ Raw(clock, e) = t
    BY <1>2, <1>4, <2>1 DEF t
  <2>3. Stamped(Timestamp16(e), Raw(clock, e) + 0, 0)
    BY <1>1, <1>3, <2>1, <2>2 DEF Stamped, Congruent
  <2> QED
    BY <2>3
<1>5. CASE r = TS_MOD - 1
  <2>1. Congruent(r + 1, t + 1)
    BY <1>1, <1>3, CongruentSelf, CongruentSum
  <2>2. Congruent(0, r + 1)
    <3>1. 0 = (r + 1) + (-1) * TS_MOD /\ -1 \in Int
      BY <1>1, <1>5
    <3> QED
      BY <3>1 DEF Congruent
  <2>3. Congruent(0, t + 1) /\ (t + 1) - 0 = t + 1
    BY <1>1, <1>3, <2>1, <2>2, CongruentChain
  <2>4. Timestamp16(e) = 0 /\ Raw(clock, e) = t
    BY <1>2, <1>5, <2>3 DEF t
  <2>5. PICK k \in Int : 0 = t + 1 + k * TS_MOD
    BY <2>3 DEF Congruent
  <2>6. Timestamp16(e) = ((Raw(clock, e) + 1) - 0) + k * TS_MOD
    BY <1>1, <2>4, <2>5
  <2>7. Stamped(Timestamp16(e), Raw(clock, e) + 1, 0)
    BY <2>6, Zenon DEF Stamped, Congruent
  <2> QED
    BY <2>4, <2>7
<1> QED
  BY <1>4, <1>5

\* The timestamp an endpoint sends back.
LEMMA StampReturned ==
    ASSUME TypeOK, SampleInv, NEW e \in Endpoint, TimestampReply(e) # NoTimestamp
    PROVE  Stamped(TimestampReply(e), Raw(clock, Peer(e)), saved[e].trip)
<1> DEFINE ts == saved[e].ts
           age == saved[e].age
           trip == saved[e].trip
           t == Raw(clock, Peer(e))
<1>1. age < REPLY_LIMIT /\ ts # 0 /\ TimestampReply(e) = (ts + age) % TS_MOD
  <2>1. age < REPLY_LIMIT /\ ts # 0
    BY DEF TimestampReply
  <2> QED
    BY <2>1 DEF TimestampReply
<1>2. ts \in Int /\ age \in Int /\ trip \in Int /\ t \in Int
  <2>1. saved[e] \in [ts : 0 .. TS_MOD - 1, age : Nat, trip : Nat] /\ TS_MOD \in Nat
    BY ConnectionAssumption DEF TypeOK
  <2>2. Peer(e) \in Endpoint
    BY RawType
  <2>3. t \in Int
    BY <2>2, RawType
  <2> QED
    BY <2>1, <2>3
<1>3. Congruent(ts, t - (age + trip))
  BY <1>1 DEF SampleInv, Stamped
<1> HIDE DEF ts, age, trip, t
<1>4. ts + age \in Int /\ t - (age + trip) \in Int /\ t - (age + trip) + age = t - trip
      /\ t - trip \in Int /\ TS_MOD \in Nat /\ TS_MOD > 0
  BY <1>2, ConnectionAssumption
<1>5. Congruent(ts + age, t - trip)
  <2>1. Congruent(ts + age, t - (age + trip) + age)
    BY <1>2, <1>3, <1>4, CongruentSelf, CongruentSum
  <2> QED
    BY <1>4, <2>1
<1>6. (ts + age) % TS_MOD \in Int
  BY <1>4, ModRange
<1>7. Congruent((ts + age) % TS_MOD, ts + age)
  BY <1>4, Modulo
<1>8. Congruent((ts + age) % TS_MOD, t - trip)
  BY <1>4, <1>5, <1>6, <1>7, CongruentChain
<1> QED
  BY <1>1, <1>8, Zenon DEF Stamped, trip, t

\* A measurement that is used is the time in flight, or a millisecond more.
LEMMA MeasuredRight ==
    ASSUME TypeOK, SampleInv, NEW e \in Endpoint, NEW m \in net, m.from = Peer(e),
           Usable(e, m), 2 * MAX_DELAY < TS_MOD
    PROVE  Measured(e, m) - (m.trip + m.age) \in {0, 1}
<1> DEFINE now == Timestamp16(e)
           t == Raw(clock, e)
           actual == m.age + m.trip
           d == (now - m.reply) % TS_MOD
<1>1. m \in Datagram
  BY DEF TypeOK
<1>2. /\ now \in 0 .. TS_MOD - 1 /\ t \in Int /\ m.reply \in 0 .. TS_MOD - 1
      /\ m.age \in Nat /\ m.trip \in Nat /\ TS_MOD \in Nat \ {0} /\ MAX_DELAY \in Nat
  BY <1>1, TimestampType, RawType, ConnectionAssumption DEF Datagram
<1>3. m.age <= MAX_DELAY /\ m.trip <= MAX_DELAY
  BY DEF SampleInv
<1>4. Congruent(m.reply, t - actual)
  <2>1. Stamped(m.reply, Raw(clock, Peer(m.from)), m.age + m.trip)
    BY DEF SampleInv, Usable
  <2>2. Peer(m.from) = e
    BY DEF Peer, Endpoint
  <2> QED
    BY <2>1, <2>2 DEF Stamped
<1>5. PICK late \in {0, 1} : Congruent(now, (t + late) - 0)
  <2>1. PICK late \in {0, 1} : Stamped(now, t + late, 0)
    BY StampMade
  <2> QED
    BY <2>1, Zenon DEF Stamped
<1>6. Measured(e, m) = IF 2 * d < TS_MOD THEN d ELSE d - TS_MOD
  BY DEF Measured, TimestampDiff
<1>7. Measured(e, m) > 0
  BY DEF Usable
<1> HIDE DEF now, t, actual, d
<1>8. actual \in Nat /\ actual < TS_MOD /\ late \in Int /\ now \in Int /\ m.reply \in Int
      /\ actual = m.trip + m.age
  BY <1>2, <1>3 DEF actual
<1>9. (t + late) - 0 \in Int /\ t - actual \in Int
      /\ ((t + late) - 0) - (t - actual) = actual + late /\ actual + late \in Int
      /\ now - m.reply \in Int
  BY <1>2, <1>8
<1>10. Congruent(now - m.reply, actual + late)
  <2>1. Congruent(now - m.reply, ((t + late) - 0) - (t - actual))
    BY <1>4, <1>5, <1>8, <1>9, CongruentSum
  <2> QED
    BY <1>9, <2>1
<1>11. d \in 0 .. TS_MOD - 1
  BY <1>2, <1>9, ModRange DEF d
<1>12. Congruent(d, now - m.reply)
  BY <1>9, Modulo DEF d
<1>13. Congruent(d, actual + late)
  <2>1. d \in Int
    BY <1>2, <1>11
  <2> QED
    BY <1>9, <1>10, <1>12, <2>1, CongruentChain
<1>14. CASE actual + late < TS_MOD
  <2>1. actual + late \in 0 .. TS_MOD - 1
    BY <1>2, <1>8, <1>14
  <2>2. d = actual + late
    BY <1>11, <1>13, <2>1, CongruentUnique
  <2>3. d < TS_MOD /\ d \in Nat
    BY <1>2, <1>11
  <2>4. Measured(e, m) = d
    BY <1>2, <1>6, <1>7, <2>3
  <2>5. d - actual = late
    BY <1>8, <2>2
  <2> QED
    BY <1>8, <2>4, <2>5
<1>15. CASE ~(actual + late < TS_MOD)
  <2>1. actual + late = TS_MOD
    BY <1>2, <1>8, <1>15
  <2>2. Congruent(0, actual + late)
    <3>1. 0 = actual + late + (-1) * TS_MOD /\ -1 \in Int
      BY <1>2, <2>1
    <3> QED
      BY <3>1 DEF Congruent
  <2>3. Congruent(actual + late, 0)
    <3>1. actual + late = 0 + 1 * TS_MOD /\ 1 \in Int
      BY <1>2, <2>1
    <3> QED
      BY <3>1 DEF Congruent
  <2>4. Congruent(d, 0)
    BY <1>2, <1>9, <1>11, <1>13, <2>3, CongruentChain
  <2>5. d = 0
    BY <1>2, <1>11, <2>4, CongruentUnique
  <2> QED
    BY <1>2, <1>6, <1>7, <2>5
<1> QED
  BY <1>14, <1>15

\* What the run checks of the measurements, and why: a timestamp that is echoed
\* has not been replaced, and one that is used has not been round the cycle.
THEOREM MeasurementsTrue == Spec => []SampleTrue
<1>1. Init => SampleInv
  <2> SUFFICES ASSUME Init PROVE SampleInv
    OBVIOUS
  <2>1. /\ net = {} /\ sample = [measured |-> 0, actual |-> 0]
        /\ \A e \in Endpoint : saved[e] = [ts |-> 0, age |-> 0, trip |-> 0]
    BY DEF Init, NoSample
  <2> QED
    BY <2>1, ConnectionAssumption DEF SampleInv, SampleTrue
<1>2. TypeOK /\ SampleInv /\ [Next]_vars => SampleInv'
  <2> SUFFICES ASSUME TypeOK, SampleInv, [Next]_vars PROVE SampleInv'
    OBVIOUS
  <2>1. ASSUME UNCHANGED <<clock, saved, net, sample>> PROVE SampleInv'
    BY <2>1 DEF SampleInv, SampleTrue
  <2>2. CASE TimePasses
    <3>1. /\ saved' = [e \in Endpoint |-> [saved[e] EXCEPT !.age = UpTo(@ + 1, REPLY_LIMIT)]]
          /\ net' = {[m EXCEPT !.age = @ + 1, !.since = UpTo(@ + 1, PortLifetime)] :
                        m \in {m \in net : m.age < MAX_DELAY}}
          /\ sample' = [measured |-> 0, actual |-> 0]
      BY <2>2 DEF TimePasses, NoSample
    <3>2. ASSUME NEW n \in net'
          PROVE  /\ n.age <= MAX_DELAY /\ n.trip <= MAX_DELAY
                 /\ n.ts # 0 => Stamped(n.ts, Raw(clock', n.from), n.age)
                 /\ n.reply # NoTimestamp
                       => Stamped(n.reply, Raw(clock', Peer(n.from)), n.age + n.trip)
      <4>1. PICK m \in net : /\ m.age < MAX_DELAY
                             /\ n = [m EXCEPT !.age = @ + 1, !.since = UpTo(@ + 1, PortLifetime)]
        BY <3>1
      <4>2. m \in Datagram
        BY DEF TypeOK
      <4>3. /\ n.from = m.from /\ n.ts = m.ts /\ n.reply = m.reply /\ n.trip = m.trip
            /\ n.age = m.age + 1
        BY <4>1, <4>2 DEF Datagram
      <4>4. /\ m.from \in Endpoint /\ Peer(m.from) \in Endpoint
            /\ m.ts \in Int /\ m.reply \in Int /\ m.age \in Nat /\ m.trip \in Nat
            /\ MAX_DELAY \in Nat
        BY <4>2, ConnectionAssumption DEF Datagram, Peer, Endpoint
      <4>5. n.age <= MAX_DELAY /\ n.trip <= MAX_DELAY
        BY <4>1, <4>3, <4>4 DEF SampleInv
      <4>6. ASSUME n.ts # 0 PROVE Stamped(n.ts, Raw(clock', n.from), n.age)
        <5>1. Stamped(m.ts, Raw(clock, m.from), m.age)
          BY <4>3, <4>6 DEF SampleInv
        <5>2. Stamped(m.ts, Raw(clock', m.from), m.age + 1)
          BY <2>2, <4>4, <5>1, StampAges
        <5> QED
          BY <4>3, <5>2, Zenon
      <4>7. ASSUME n.reply # NoTimestamp
            PROVE  Stamped(n.reply, Raw(clock', Peer(n.from)), n.age + n.trip)
        <5> DEFINE total == m.age + m.trip
        <5>1. Stamped(m.reply, Raw(clock, Peer(m.from)), total) /\ total \in Int
          BY <4>3, <4>4, <4>7 DEF SampleInv
        <5>2. n.age + n.trip = total + 1
          BY <4>3, <4>4
        <5> HIDE DEF total
        <5>3. Stamped(m.reply, Raw(clock', Peer(m.from)), total + 1)
          BY <2>2, <4>4, <5>1, StampAges
        <5> QED
          BY <4>3, <5>2, <5>3, Zenon
      <4> QED
        BY <4>5, <4>6, <4>7
    <3>3. ASSUME NEW e \in Endpoint
          PROVE  /\ saved'[e].trip <= MAX_DELAY
                 /\ saved'[e].ts # 0 /\ saved'[e].age < REPLY_LIMIT
                       => Stamped(saved'[e].ts, Raw(clock', Peer(e)), saved'[e].age + saved'[e].trip)
      <4> DEFINE was == saved[e]
      <4>1. was \in [ts : 0 .. TS_MOD - 1, age : Nat, trip : Nat] /\ was.trip <= MAX_DELAY
        BY DEF TypeOK, SampleInv
      <4>2. saved'[e] = [was EXCEPT !.age = UpTo(@ + 1, REPLY_LIMIT)]
        BY <3>1
      <4>3. was.ts # 0 /\ was.age < REPLY_LIMIT
               => Stamped(was.ts, Raw(clock, Peer(e)), was.age + was.trip)
        BY DEF SampleInv
      <4> HIDE DEF was
      <4>4. /\ saved'[e].ts = was.ts /\ saved'[e].trip = was.trip
            /\ saved'[e].age = UpTo(was.age + 1, REPLY_LIMIT)
        BY <4>1, <4>2
      <4>5. ASSUME was.ts # 0, saved'[e].age < REPLY_LIMIT
            PROVE  Stamped(was.ts, Raw(clock', Peer(e)), saved'[e].age + was.trip)
        <5> DEFINE total == was.age + was.trip
        <5>1. saved'[e].age = was.age + 1 /\ was.age < REPLY_LIMIT
          BY <4>1, <4>4, <4>5, ConnectionAssumption DEF UpTo
        <5>2. saved'[e].age + was.trip = total + 1 /\ total \in Int /\ was.ts \in Int
          BY <4>1, <5>1, ConnectionAssumption
        <5>3. Stamped(was.ts, Raw(clock, Peer(e)), total)
          BY <4>3, <4>5, <5>1
        <5> HIDE DEF total
        <5>4. Stamped(was.ts, Raw(clock', Peer(e)), total + 1)
          BY <2>2, <5>2, <5>3, RawType, StampAges
        <5> QED
          BY <5>2, <5>4, Zenon
      <4>6. saved'[e].trip <= MAX_DELAY
        BY <4>1, <4>4
      <4>7. ASSUME saved'[e].ts # 0, saved'[e].age < REPLY_LIMIT
            PROVE  Stamped(saved'[e].ts, Raw(clock', Peer(e)), saved'[e].age + saved'[e].trip)
        <5>1. was.ts # 0
          BY <4>4, <4>7
        <5> QED
          BY <4>4, <4>5, <4>7, <5>1, Zenon
      <4> QED
        BY <4>6, <4>7
    <3>4. SampleTrue'
      <4>1. sample'.measured = 0 /\ sample'.actual = 0
        BY <2>2 DEF TimePasses, NoSample
      <4> QED
        BY <4>1 DEF SampleTrue
    <3> QED
      BY <3>2, <3>3, <3>4 DEF SampleInv
  <2>3. CASE ClientMoves
    BY <2>1, <2>3 DEF ClientMoves
  <2>4. ASSUME NEW e \in Endpoint, Send(e) PROVE SampleInv'
    <3> DEFINE new == EncryptFragment(e)
    <3>1. PICK lost \in SUBSET net : net' = (net \ lost) \cup {new}
      BY <2>4 DEF Send
    <3>2. UNCHANGED <<clock, saved, sample>>
      BY <2>4 DEF Send
    <3>3. /\ new.from = e /\ new.age = 0 /\ new.trip = saved[e].trip
          /\ new.ts = Timestamp16(e) /\ new.reply = TimestampReply(e)
      BY DEF EncryptFragment
    <3>4. saved[e].trip \in Nat /\ saved[e].trip <= MAX_DELAY /\ MAX_DELAY \in Nat
      BY ConnectionAssumption DEF TypeOK, SampleInv
    <3> HIDE DEF new
    <3>5. new.age <= MAX_DELAY /\ new.trip <= MAX_DELAY
      BY <3>3, <3>4
    <3>6. new.ts # 0 => Stamped(new.ts, Raw(clock, new.from), new.age)
      <4>1. PICK late \in {0, 1} :
                /\ Stamped(Timestamp16(e), Raw(clock, e) + late, 0)
                /\ Timestamp16(e) # 0 => late = 0
        BY StampMade
      <4>2. Raw(clock, e) + 0 = Raw(clock, e)
        BY RawType
      <4> QED
        BY <3>3, <4>1, <4>2, Zenon
    <3>7. new.reply # NoTimestamp
             => Stamped(new.reply, Raw(clock, Peer(new.from)), new.age + new.trip)
      <4>1. new.age + new.trip = saved[e].trip
        BY <3>3, <3>4
      <4> QED
        BY <3>3, <4>1, StampReturned, Zenon
    <3> QED
      BY <3>1, <3>2, <3>5, <3>6, <3>7 DEF SampleInv, SampleTrue
  <2>5. ASSUME NEW e \in Endpoint, NEW m \in net, ProcessIncoming(e, m) PROVE SampleInv'
    <3>1. UNCHANGED <<clock, net>> /\ m.from = Peer(e)
      BY <2>5 DEF ProcessIncoming, Reaches
    <3>2. CASE ~Fresh(e, m)
      BY <2>1, <2>5, <3>1, <3>2 DEF ProcessIncoming
    <3>3. CASE Fresh(e, m)
      <4>1. saved' = [saved EXCEPT ![e] = [ts |-> m.ts, age |-> 0, trip |-> m.age]]
            /\ Measure(e, m)
        BY <2>5, <3>3 DEF ProcessIncoming, ProcessFresh
      <4>2. saved'[e] = [ts |-> m.ts, age |-> 0, trip |-> m.age]
            /\ \A x \in Endpoint \ {e} : saved'[x] = saved[x]
        BY <4>1 DEF TypeOK
      <4>3. /\ saved'[e].trip <= MAX_DELAY
            /\ saved'[e].ts # 0 /\ saved'[e].age < REPLY_LIMIT
                  => Stamped(saved'[e].ts, Raw(clock, Peer(e)), saved'[e].age + saved'[e].trip)
        <5>1. m.age \in Nat /\ m.age <= MAX_DELAY
          BY DEF TypeOK, Datagram, SampleInv
        <5>2. m.ts # 0 => Stamped(m.ts, Raw(clock, Peer(e)), m.age)
          BY <3>1 DEF SampleInv
        <5>3. /\ saved'[e].ts = m.ts /\ saved'[e].trip = m.age
              /\ saved'[e].age + saved'[e].trip = m.age
          BY <4>2, <5>1
        <5> QED
          BY <5>1, <5>2, <5>3, Zenon
      <4>4. SampleTrue'
        <5>1. CASE ~Usable(e, m)
          BY <4>1, <5>1 DEF Measure, SampleInv, SampleTrue
        <5>2. CASE Usable(e, m)
          <6> SUFFICES ASSUME 2 * MAX_DELAY < TS_MOD
                       PROVE  /\ sample'.measured - sample'.actual <= 1
                              /\ sample'.actual - sample'.measured <= 1
            BY DEF SampleTrue
          <6>1. Measured(e, m) - (m.trip + m.age) \in {0, 1}
            BY <3>1, <5>2, MeasuredRight
          <6>2. Measured(e, m) \in Int /\ m.trip + m.age \in Int
            <7>1. m.trip \in Nat /\ m.age \in Nat
              BY DEF TypeOK, Datagram
            <7> QED
              BY <7>1, MeasuredType
          <6>3. sample'.measured = Measured(e, m) /\ sample'.actual = m.trip + m.age
            BY <4>1, <5>2 DEF Measure
          <6> QED
            BY <6>1, <6>2, <6>3
        <5> QED
          BY <5>1, <5>2
      <4>5. ASSUME NEW x \in Endpoint
            PROVE  /\ saved'[x].trip <= MAX_DELAY
                   /\ saved'[x].ts # 0 /\ saved'[x].age < REPLY_LIMIT
                         => Stamped(saved'[x].ts, Raw(clock, Peer(x)), saved'[x].age + saved'[x].trip)
        <5>1. CASE x = e
          BY <4>3, <5>1
        <5>2. CASE x # e
          BY <4>2, <5>2 DEF SampleInv
        <5> QED
          BY <5>1, <5>2
      <4> QED
        BY <3>1, <4>4, <4>5 DEF SampleInv
    <3> QED
      BY <3>2, <3>3
  <2>6. CASE HopPort
    BY <2>1, <2>6 DEF HopPort
  <2>7. CASE UNCHANGED vars
    BY <2>1, <2>7 DEF vars
  <2> QED
    BY <2>2, <2>3, <2>4, <2>5, <2>6, <2>7 DEF Next
<1>3. SampleInv => SampleTrue
  BY DEF SampleInv
<1> QED
  BY <1>1, <1>2, <1>3, TypeCorrect, PTL DEF Spec

=============================================================================
