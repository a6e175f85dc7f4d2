----------------------------- MODULE Connection -----------------------------
(***************************************************************************)
(* The datagram layer (crates/morsh-network/src/connection.rs and rtt.rs): *)
(* sequence numbers, the server's idea of where the client is, the ports   *)
(* the client hops through, and the round-trip estimate made from 16-bit   *)
(* timestamps.                                                             *)
(*                                                                         *)
(* Time passes in steps of one millisecond, scaled down.  A datagram grows *)
(* older in flight; it may be delivered again and again, after later ones, *)
(* or never.  What add_fragment makes of it is the subject of Fragment.  A *)
(* datagram that does not authenticate, or that comes back to its sender,  *)
(* changes nothing.                                                        *)
(***************************************************************************)
EXTENDS Integers, Sequences, FiniteSets, SequencesExt

CONSTANTS
    Networks,          \* networks the client may be attached to
    Ports,             \* ports its sockets may be bound to
    TS_MOD,            \* 65536: timestamps have 16 bits
    CLOCK_SKEW,        \* the server's clock less the client's
    RTT_LIMIT,         \* 5000: longer measurements are ignored
    REPLY_LIMIT,       \* 1000: a timestamp held longer is not echoed
    PORT_HOP_INTERVAL, \* 10000
    MAX_PORTS_OPEN,    \* 10
    MAX_DELAY,         \* how long a datagram may be in flight (a bound)
    MAX_SEQ,           \* datagrams an endpoint sends (a bound)
    MAX_IN_FLIGHT      \* datagrams in flight (a bound)

ASSUME ConnectionAssumption ==
    /\ TS_MOD \in Nat \ {0} /\ CLOCK_SKEW \in Nat
    /\ RTT_LIMIT \in Nat /\ REPLY_LIMIT \in Nat
    /\ PORT_HOP_INTERVAL \in Nat /\ MAX_PORTS_OPEN \in Nat \ {0}
    /\ MAX_DELAY \in Nat /\ MAX_SEQ \in Nat /\ MAX_IN_FLIGHT \in Nat
    /\ Networks # {} /\ Ports # {}

Endpoint == {"client", "server"}
Peer(e) == IF e = "client" THEN "server" ELSE "client"

VARIABLES
    clock,        \* the client's clock, modulo TS_MOD
    network,      \* the network the client is in
    sockets,      \* its sockets, by port, oldest first
    sinceHop,     \* now - last_port_choice
    sinceSuccess, \* now - last_roundtrip_success
    remote,       \* the server's remote_addr
    hasRemote,    \* hasRemote[e]: has_remote_addr
    sendSeq,      \* sendSeq[e]: send_seq
    expected,     \* expected[e]: expected_receiver_seq
    saved,        \* saved[e]: saved_timestamp and its age
    rtt,          \* rtt[e]: the RttEstimator
    net           \* the datagrams in flight

(***************************************************************************)
(* History variables: the latest of the client's datagrams the server has  *)
(* got, in the order they were sent, and how long ago it was sent; the     *)
(* measurement just made and what it should have been; the extremes.       *)
(***************************************************************************)
VARIABLES newest, sample, extremes

vars == <<clock, network, sockets, sinceHop, sinceSuccess, remote, hasRemote,
          sendSeq, expected, saved, rtt, net, newest, sample, extremes>>

UpTo(n, limit) == IF n < limit THEN n ELSE limit

NoAddress == <<"nowhere", 0>>
ServerAddress == <<"server", 0>>

\* A timestamp of all ones stands for none.
NoTimestamp == TS_MOD - 1

Timestamp16(e) ==
    LET ts == (clock + (IF e = "server" THEN CLOCK_SKEW ELSE 0)) % TS_MOD
    IN  IF ts = NoTimestamp THEN 0 ELSE ts

\* The difference of two timestamps as a signed 16-bit number.
TimestampDiff(a, b) ==
    LET d == (a - b) % TS_MOD IN IF 2 * d < TS_MOD THEN d ELSE d - TS_MOD

-----------------------------------------------------------------------------
(* RttEstimator *)

NewEstimator == [srtt_ms |-> 50, rttvar_ms |-> 25, have_sample |-> FALSE]

\* The defaults are averaged in like a sample.
UpdateAveraging(est, rtt_ms) ==
    LET diff == IF est.srtt_ms > rtt_ms THEN est.srtt_ms - rtt_ms
                                        ELSE rtt_ms - est.srtt_ms
    IN  [srtt_ms |-> (7 * est.srtt_ms + rtt_ms) \div 8,
         rttvar_ms |-> (3 * est.rttvar_ms + diff) \div 4,
         have_sample |-> TRUE]

\* RttEstimator::update
Update(est, rtt_ms) ==
    LET diff == IF est.srtt_ms > rtt_ms THEN est.srtt_ms - rtt_ms
                                        ELSE rtt_ms - est.srtt_ms
    IN  IF rtt_ms = 0 \/ rtt_ms > RTT_LIMIT THEN est
        ELSE IF est.have_sample
        THEN [srtt_ms |-> (7 * est.srtt_ms + rtt_ms) \div 8,
              rttvar_ms |-> (3 * est.rttvar_ms + diff) \div 4,
              have_sample |-> TRUE]
        ELSE [srtt_ms |-> rtt_ms, rttvar_ms |-> rtt_ms \div 2,
              have_sample |-> TRUE]

-----------------------------------------------------------------------------
NoSample == [measured |-> 0, actual |-> 0]

Init ==
    /\ clock \in 0 .. TS_MOD - 1
    /\ network \in Networks
    /\ \E p \in Ports : sockets = <<p>>
    /\ sinceHop = 0 /\ sinceSuccess = 0
    /\ remote = NoAddress
    /\ hasRemote = [e \in Endpoint |-> e = "client"]
    /\ sendSeq = [e \in Endpoint |-> 0]
    /\ expected = [e \in Endpoint |-> 0]
    /\ saved = [e \in Endpoint |-> [ts |-> 0, age |-> 0, trip |-> 0]]
    /\ rtt = [e \in Endpoint |-> NewEstimator]
    /\ net = {}
    /\ newest = [seq |-> -1, src |-> NoAddress, since |-> 0]
    /\ sample = NoSample
    /\ extremes = [e \in Endpoint |-> [least |-> RTT_LIMIT, most |-> 0]]

\* How long after the last datagram from a port an answer still finds it open.
PortLifetime == (MAX_PORTS_OPEN - 1) * (PORT_HOP_INTERVAL + 1)

\* A millisecond passes.  Ages are counted as far as they matter.
TimePasses ==
    /\ clock' = (clock + 1) % TS_MOD
    /\ sinceHop' = UpTo(sinceHop + 1, PORT_HOP_INTERVAL + 1)
    /\ sinceSuccess' = UpTo(sinceSuccess + 1, PORT_HOP_INTERVAL + 1)
    /\ saved' = [e \in Endpoint |->
                    [saved[e] EXCEPT !.age = UpTo(@ + 1, REPLY_LIMIT)]]
    /\ net' = {[m EXCEPT !.age = @ + 1, !.since = UpTo(@ + 1, PortLifetime)] :
                  m \in {m \in net : m.age < MAX_DELAY}}
    /\ newest' = [newest EXCEPT !.since = UpTo(@ + 1, PortLifetime)]
    /\ sample' = NoSample
    /\ UNCHANGED <<network, sockets, remote, hasRemote, sendSeq, expected, rtt,
                   extremes>>

\* The client's machine moves to another network.
ClientMoves ==
    /\ network' \in Networks \ {network}
    /\ UNCHANGED <<clock, sockets, sinceHop, sinceSuccess, remote, hasRemote,
                   sendSeq, expected, saved, rtt, net, newest, sample, extremes>>

-----------------------------------------------------------------------------
(* Sending *)

\* The timestamp goes back as it came.
TimestampReplyAsCame(e) ==
    IF saved[e].age < REPLY_LIMIT /\ saved[e].ts # 0
    THEN saved[e].ts ELSE NoTimestamp

\* The peer's last timestamp, moved on by the time it was held.
TimestampReply(e) ==
    IF saved[e].age < REPLY_LIMIT /\ saved[e].ts # 0
    THEN (saved[e].ts + saved[e].age) % TS_MOD ELSE NoTimestamp

\* trip and since are history: how long the datagram echoed was in flight, and
\* the time since the client last sent from the address used.
EncryptFragment(e) ==
    [from |-> e, seq |-> sendSeq[e],
     src |-> IF e = "client" THEN <<network, Last(sockets)>> ELSE ServerAddress,
     dst |-> IF e = "client" THEN ServerAddress ELSE remote,
     ts |-> Timestamp16(e), reply |-> TimestampReply(e),
     age |-> 0, trip |-> saved[e].trip,
     since |-> IF e = "client" THEN 0 ELSE newest.since]

\* One fragment of Connection::send, from the newest socket.
Send(e) ==
    /\ hasRemote[e]
    /\ sendSeq[e] < MAX_SEQ
    /\ \E lost \in SUBSET net :
          /\ net' = (net \ lost) \cup {EncryptFragment(e)}
          /\ Cardinality(net') <= MAX_IN_FLIGHT
    /\ sendSeq' = [sendSeq EXCEPT ![e] = @ + 1]
    /\ UNCHANGED <<clock, network, sockets, sinceHop, sinceSuccess, remote,
                   hasRemote, expected, saved, rtt, newest, sample, extremes>>

-----------------------------------------------------------------------------
(* Receiving *)

\* recv_raw: on any open socket.
Reaches(e, m) ==
    /\ m.from = Peer(e)
    /\ e = "client" => /\ m.dst[1] = network
                       /\ \E i \in DOMAIN sockets : sockets[i] = m.dst[2]

\* A datagram counts whenever it comes.
FreshAlways(e, m) == TRUE

Fresh(e, m) == m.seq >= expected[e]

\* The round trip the echoed timestamp tells, and whether it is used.
Measured(e, m) == TimestampDiff(Timestamp16(e), m.reply)
Usable(e, m) ==
    /\ m.reply # NoTimestamp
    /\ Measured(e, m) > 0 /\ Measured(e, m) < RTT_LIMIT

Measure(e, m) ==
    IF Usable(e, m)
    THEN /\ rtt' = [rtt EXCEPT ![e] = Update(@, Measured(e, m))]
         /\ sample' = [measured |-> Measured(e, m), actual |-> m.trip + m.age]
         /\ extremes' = [extremes EXCEPT ![e] =
               [least |-> UpTo(@.least, Measured(e, m)),
                most |-> IF @.most < Measured(e, m) THEN Measured(e, m)
                                                    ELSE @.most]]
    ELSE UNCHANGED <<rtt, sample, extremes>>

\* Only the server follows its peer's address.
Retarget(e, m) == remote' = IF e = "server" THEN m.src ELSE remote

\* A datagram that others have overtaken is used for its fragment only.
ProcessFresh(e, m) ==
    /\ expected' = [expected EXCEPT ![e] = m.seq + 1]
    /\ saved' = [saved EXCEPT ![e] = [ts |-> m.ts, age |-> 0, trip |-> m.age]]
    /\ Measure(e, m)
    /\ hasRemote' = [hasRemote EXCEPT ![e] = TRUE]
    /\ Retarget(e, m)

(***************************************************************************)
(* process_incoming.  If the fragment completes an instruction, the        *)
(* transport sets last_roundtrip_success to the time the acknowledged      *)
(* state was sent, which never goes back.                                  *)
(***************************************************************************)
ProcessIncoming(e, m) ==
    /\ Reaches(e, m)
    /\ IF Fresh(e, m) THEN ProcessFresh(e, m)
       ELSE UNCHANGED <<expected, saved, rtt, sample, extremes, hasRemote, remote>>
    /\ IF e = "client" THEN sinceSuccess' \in 0 .. sinceSuccess
                       ELSE UNCHANGED sinceSuccess
    /\ newest' = IF e = "server" /\ m.seq > newest.seq
                 THEN [seq |-> m.seq, src |-> m.src, since |-> m.since] ELSE newest
    /\ UNCHANGED <<clock, network, sockets, sinceHop, sendSeq, net>>

-----------------------------------------------------------------------------
(* Port hopping *)

ShouldHopPort ==
    /\ sinceHop > PORT_HOP_INTERVAL
    /\ sinceSuccess > PORT_HOP_INTERVAL

\* One port less is kept.
PruneSocketsEarly(s) ==
    IF Len(s) >= MAX_PORTS_OPEN /\ Len(s) > 1
    THEN SubSeq(s, Len(s) - MAX_PORTS_OPEN + 2, Len(s)) ELSE s

\* One port more is kept.
PruneSocketsLate(s) ==
    IF Len(s) > MAX_PORTS_OPEN + 1
    THEN SubSeq(s, Len(s) - MAX_PORTS_OPEN + 1, Len(s)) ELSE s

\* prune_sockets: the oldest go.
PruneSockets(s) ==
    IF Len(s) > MAX_PORTS_OPEN
    THEN SubSeq(s, Len(s) - MAX_PORTS_OPEN + 1, Len(s)) ELSE s

HopPort ==
    /\ ShouldHopPort
    /\ \E p \in Ports :
          /\ \A i \in DOMAIN sockets : sockets[i] # p
          /\ sockets' = PruneSockets(Append(sockets, p))
    /\ sinceHop' = 0
    /\ UNCHANGED <<clock, network, sinceSuccess, remote, hasRemote, sendSeq,
                   expected, saved, rtt, net, newest, sample, extremes>>

Next ==
    \/ TimePasses
    \/ ClientMoves
    \/ \E e \in Endpoint : Send(e)
    \/ \E e \in Endpoint : \E m \in net : ProcessIncoming(e, m)
    \/ HopPort

Spec == Init /\ [][Next]_vars

-----------------------------------------------------------------------------
(* Properties *)

Address == (Networks \X Ports) \cup {NoAddress, ServerAddress}
Datagram == [from : Endpoint, seq : Nat, src : Address, dst : Address,
             ts : 0 .. TS_MOD - 1, reply : 0 .. TS_MOD - 1,
             age : Nat, trip : Nat, since : Nat]

\* The types of the variables.
TypeOK ==
    /\ clock \in 0 .. TS_MOD - 1
    /\ network \in Networks
    /\ sockets \in Seq(Ports) /\ Len(sockets) \in 1 .. MAX_PORTS_OPEN
    /\ sinceHop \in Nat /\ sinceSuccess \in Nat
    /\ remote \in Address
    /\ hasRemote \in [Endpoint -> BOOLEAN]
    /\ sendSeq \in [Endpoint -> Nat] /\ expected \in [Endpoint -> Nat]
    /\ saved \in [Endpoint -> [ts : 0 .. TS_MOD - 1, age : Nat, trip : Nat]]
    /\ rtt \in [Endpoint -> [srtt_ms : Nat, rttvar_ms : Nat, have_sample : BOOLEAN]]
    /\ net \in SUBSET Datagram
    /\ newest \in [seq : Int, src : Address, since : Nat]
    /\ sample \in [measured : Int, actual : Nat]
    /\ extremes \in [Endpoint -> [least : Nat, most : Nat]]

\* The server sends to where the client was when it sent the latest datagram
\* to arrive, latest in the order of sending: a delayed one from the client's
\* old network does not turn it back.
AttachedToNewest ==
    /\ remote = newest.src
    /\ hasRemote["server"] <=> newest.seq >= 0

\* A measurement is the time the two datagrams were in flight, to within the
\* millisecond that avoiding the value for none may cost, wherever the clocks
\* are in their cycle and however long the peer held the timestamp.  It takes a
\* network that delivers within half the cycle or not at all.
SampleTrue ==
    2 * MAX_DELAY < TS_MOD =>
        /\ sample.measured - sample.actual <= 1
        /\ sample.actual - sample.measured <= 1

\* The estimate stays between the least and the greatest measurement, however
\* many are averaged with integer division, and so does the mean deviation.
EstimateWithinSamples ==
    \A e \in Endpoint : rtt[e].have_sample =>
        /\ extremes[e].least <= rtt[e].srtt_ms
        /\ rtt[e].srtt_ms <= extremes[e].most
        /\ rtt[e].rttvar_ms <= extremes[e].most

\* An answer finds the socket it is addressed to open, if it arrives before
\* MAX_PORTS_OPEN - 1 hop intervals have passed since the client used it.
AnswerFindsSocket ==
    \A m \in net :
        m.from = "server" /\ m.since < PortLifetime =>
            \E i \in DOMAIN sockets : sockets[i] = m.dst[2]
=============================================================================
