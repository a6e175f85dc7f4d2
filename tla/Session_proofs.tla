--------------------------- MODULE Session_proofs ---------------------------
(***************************************************************************)
(* The safety of a session, for every value of the constants of Session:   *)
(* Inv is inductive, and what the runs check of the two loops follows from *)
(* it.                                                                     *)
(***************************************************************************)
EXTENDS Session, DataFacts

(***************************************************************************)
(* The inductive invariant.                                                *)
(***************************************************************************)

\* Every instruction in flight has a number that the receiver can still get or
\* is past, and the last state is the current one.
TransportInv ==
    /\ pub = [e \in Endpoint |-> pub[e]]
    /\ got \in [Endpoint -> Num] /\ ackSent \in [Endpoint -> BOOLEAN]
    /\ net \in [Endpoint -> SUBSET [num : Num, ack : Num]]
    /\ \A e \in Endpoint :
        /\ DOMAIN pub[e] # {}
        /\ \A m \in net[e] : m.num \in DOMAIN pub[e] \/ m.num < Acked(e)
        /\ SHUTDOWN_NUM \in DOMAIN pub[e]
              => shut[e] /\ pub[e][SHUTDOWN_NUM] = Current(e)
        /\ ackSent[e] => got[e] = SHUTDOWN_NUM

\* Later states of the client are longer.
Growing ==
    \A m, n \in DOMAIN pub["client"] : m <= n => pub["client"][m] <= pub["client"][n]

\* The client's states are ever longer prefixes of a stream in which each key is
\* numbered by its place, and its ack of the server's last state goes out with
\* that state painted or about to be.
ClientInv ==
    /\ Len(stream) \in 1 .. MAX_EVENTS + 1
    /\ \A i \in DOMAIN stream : IsKey(stream[i]) => stream[i] = Key(i - 1)
    /\ Growing
    /\ ackSent["client"] /\ cpc \in {"check", "tick"} => painted
    /\ left = "server" => painted /\ cpc = "exited"

\* The server acknowledges what it has handled, and nothing before it has a
\* shell.
ServerInv ==
    /\ spc = "waiting" => child = "none" /\ ~shut["server"]
    /\ child = "none" =>
          /\ spc \in {"waiting", "exited"}
          /\ net["server"] = {} /\ seen = 0 /\ ptyLog = <<>>
          /\ channel = <<>> /\ written = 0 /\ term.shown = 0
    /\ \A m \in net["server"] : m.ack <= seen
    /\ seen <= got["server"]
    /\ spc \in {"housekeeping", "tick"} => seen = got["server"]
    /\ term.echo = 0 \/ term.echo \in frames

\* The j-th entry of the log is the j-th event after first, or in place of a
\* resize that another one follows.
Logged(j) ==
    \/ ptyLog[j] = stream[first + j]
    \/ /\ ptyLog[j] = Skipped
       /\ IsResize(stream[first + j])
       /\ j < Len(ptyLog) /\ IsResize(stream[first + j + 1])

\* The log goes as far as the state the server has handled.
LogInv ==
    child # "none" =>
        /\ pub["client"][seen] = first + Len(ptyLog)
        /\ \A j \in DOMAIN ptyLog : Logged(j)

\* The chunks of output in the channel.
Queued ==
    IF channel # <<>> /\ channel[Len(channel)] = "exited"
    THEN Len(channel) - 1 ELSE Len(channel)

\* The reader thread loses and invents nothing, and sends the exit last.
ShellInv ==
    /\ term.shown + Queued + unread <= written
    /\ \A i \in DOMAIN channel : channel[i] = "exited" => eof /\ i = Len(channel)

Inv == TypeOK /\ TransportInv /\ ClientInv /\ ServerInv /\ LogInv /\ ShellInv

-----------------------------------------------------------------------------
(* What the transport does, in terms of the invariant. *)

\* The two endpoints are each other's peer.
LEMMA PeerFacts ==
    /\ Endpoint = {"client", "server"}
    /\ Peer("client") = "server" /\ Peer("server") = "client"
    /\ \A e \in Endpoint : Peer(e) \in Endpoint /\ Peer(e) # e /\ Peer(Peer(e)) = e
BY DEF Endpoint, Peer

\* A nonempty set of numbers has a least and a greatest.
LEMMA Ends ==
    ASSUME NEW D \in SUBSET Num, D # {}
    PROVE  /\ Min(D) \in D /\ Min(D) \in Num
           /\ Max(D) \in D /\ Max(D) \in Num
           /\ \A n \in D : Min(D) <= n /\ n <= Max(D)
<1>1. D \in SUBSET (0 .. SHUTDOWN_NUM) /\ SHUTDOWN_NUM \in Nat
  BY SessionAssumption DEF Num
<1>2. D \in SUBSET Nat
  BY <1>1
<1>3. Min(D) \in D /\ \A n \in D : Min(D) <= n
  BY <1>2, MinProperties
<1>4. Max(D) \in D /\ \A n \in D : Max(D) >= n
  BY <1>1, MaxProperties
<1> QED
  BY <1>1, <1>3, <1>4 DEF Num

\* The acknowledged and the last number of an endpoint.
LEMMA PubEnds ==
    ASSUME TypeOK, TransportInv, NEW e \in Endpoint
    PROVE  /\ Acked(e) \in DOMAIN pub[e] /\ LastNum(e) \in DOMAIN pub[e]
           /\ Acked(e) \in Num /\ LastNum(e) \in Num
           /\ \A n \in DOMAIN pub[e] : Acked(e) <= n /\ n <= LastNum(e)
<1>1. DOMAIN pub[e] \in SUBSET Num /\ DOMAIN pub[e] # {}
  BY DEF TypeOK, TransportInv
<1> QED
  BY <1>1, Ends DEF Acked, LastNum

\* The number a tick uses is the last, the one after it, or the shutdown number.
LEMMA NewNumFacts ==
    ASSUME TypeOK, TransportInv, NEW e \in Endpoint
    PROVE  /\ NewNum(e) \in Num
           /\ NewNum(e) >= LastNum(e)
           /\ NewNum(e) = SHUTDOWN_NUM => shut[e]
           /\ NewNum(e) \in DOMAIN pub[e] => NewNum(e) = LastNum(e)
<1>1. /\ LastNum(e) \in 0 .. SHUTDOWN_NUM
      /\ LastNum(e) \in DOMAIN pub[e]
      /\ \A n \in DOMAIN pub[e] : n <= LastNum(e)
  BY PubEnds DEF Num
<1>2. SHUTDOWN_NUM \in Nat /\ (SHUTDOWN_NUM \in DOMAIN pub[e] => shut[e])
  BY SessionAssumption DEF TransportInv
<1>3. NewNum(e) \in 0 .. SHUTDOWN_NUM /\ NewNum(e) >= LastNum(e)
  BY <1>1, <1>2 DEF NewNum
<1>4. NewNum(e) = SHUTDOWN_NUM => shut[e]
  BY <1>1, <1>2 DEF NewNum
<1>5. NewNum(e) \in DOMAIN pub[e] => NewNum(e) = LastNum(e)
  BY <1>1, <1>3
<1> QED
  BY <1>3, <1>4, <1>5 DEF Num

\* A tick leaves what was published alone and adds at most the current state.
Ticked(e) ==
    /\ pub' = [x \in Endpoint |-> pub'[x]]
    /\ \A x \in Endpoint \ {e} :
          pub'[x] = pub[x] /\ net'[x] = net[x] /\ ackSent'[x] = ackSent[x]
    /\ DOMAIN pub[e] \subseteq DOMAIN pub'[e] /\ DOMAIN pub'[e] \subseteq Num
    /\ \A n \in DOMAIN pub[e] : pub'[e][n] = pub[e][n]
    /\ \A n \in DOMAIN pub'[e] : n \in DOMAIN pub[e] \/
          /\ n > LastNum(e) /\ pub'[e][n] = Current(e)
          /\ n = SHUTDOWN_NUM => shut[e]
    /\ net' \in [Endpoint -> SUBSET [num : Num, ack : Num]]
    /\ \A m \in net'[e] : m \in net[e] \/ (m.num \in DOMAIN pub'[e] /\ m.ack = got[e])
    /\ ackSent' \in [Endpoint -> BOOLEAN]
    /\ ackSent'[e] => got[e] = SHUTDOWN_NUM
    /\ shut' = shut /\ got' = got

LEMMA TickFacts ==
    ASSUME TypeOK, TransportInv, NEW e \in Endpoint, Tick(e)
    PROVE  Ticked(e)
<1> USE DEF Ticked
<1>1. shut' = shut /\ got' = got
  BY DEF Tick
<1>2. /\ pub = [x \in Endpoint |-> pub[x]] /\ DOMAIN pub[e] \subseteq Num
      /\ net \in [Endpoint -> SUBSET [num : Num, ack : Num]]
      /\ ackSent \in [Endpoint -> BOOLEAN] /\ got \in [Endpoint -> Num]
      /\ ackSent[e] => got[e] = SHUTDOWN_NUM
      /\ SHUTDOWN_NUM \in DOMAIN pub[e] => pub[e][SHUTDOWN_NUM] = Current(e)
  BY DEF TypeOK, TransportInv
<1>3. CASE UNCHANGED <<pub, net, ackSent>>
  BY <1>1, <1>2, <1>3
<1>4. CASE SendInstruction(e)
  <2> DEFINE n == NewNum(e)
             m == [num |-> n, ack |-> got[e]]
  <2>1. PICK lost \in SUBSET net[e] :
            net' = [net EXCEPT ![e] = (@ \ lost) \cup {m}]
    BY <1>4 DEF SendInstruction
  <2>2. m \in [num : Num, ack : Num] /\ n \in Num /\ n >= LastNum(e)
        /\ (n = SHUTDOWN_NUM => shut[e]) /\ (n \in DOMAIN pub[e] => n = LastNum(e))
    BY <1>2, NewNumFacts
  <2>3. ackSent' = [ackSent EXCEPT ![e] = got[e] = SHUTDOWN_NUM]
    BY <1>4 DEF SendInstruction
  <2>4. LastNum(e) \in DOMAIN pub[e] /\ LastNum(e) \in Num /\ Num \subseteq Nat
    BY PubEnds, SessionAssumption DEF Num
  <2> HIDE DEF m, n
  <2>5. /\ net' \in [Endpoint -> SUBSET [num : Num, ack : Num]]
        /\ \A x \in Endpoint \ {e} : net'[x] = net[x]
        /\ \A i \in net'[e] : i \in net[e] \/ i = m
    BY <1>2, <2>1, <2>2
  <2>6. /\ ackSent' \in [Endpoint -> BOOLEAN]
        /\ \A x \in Endpoint \ {e} : ackSent'[x] = ackSent[x]
        /\ ackSent'[e] => got[e] = SHUTDOWN_NUM
    BY <1>2, <2>3
  <2>7. CASE shut[e] \/ n # LastNum(e)
    <3>1. pub' = [pub EXCEPT ![e] = Put(@, n, Current(e))]
      BY <1>4, <2>7 DEF SendInstruction, n
    <3>2. pub'[e] = [x \in DOMAIN pub[e] \cup {n} |->
                        IF x = n THEN Current(e) ELSE pub[e][x]]
      BY <1>2, <3>1 DEF Put
    <3>3. n \in DOMAIN pub[e] => pub[e][n] = Current(e)
      <4> SUFFICES ASSUME n \in DOMAIN pub[e] PROVE pub[e][n] = Current(e)
        OBVIOUS
      <4>1. shut[e]
        BY <2>2, <2>7
      <4>2. n = SHUTDOWN_NUM
        BY <4>1 DEF NewNum, n
      <4> QED
        BY <1>2, <4>2
    <3>4. n > LastNum(e) \/ n \in DOMAIN pub[e]
      <4>1. n \in Nat /\ LastNum(e) \in Nat
        BY <2>2, <2>4
      <4> QED
        BY <2>2, <2>4, <4>1
    <3>5. /\ pub' = [x \in Endpoint |-> pub'[x]]
          /\ \A x \in Endpoint \ {e} : pub'[x] = pub[x]
      BY <1>2, <3>1
    <3> QED
      BY <1>1, <1>2, <2>2, <2>5, <2>6, <3>2, <3>3, <3>4, <3>5 DEF m
  <2>8. CASE ~(shut[e] \/ n # LastNum(e))
    <3>1. pub' = pub
      BY <1>4, <2>8 DEF SendInstruction, n
    <3> QED
      BY <1>1, <1>2, <2>4, <2>5, <2>6, <2>8, <3>1 DEF m
  <2> QED
    BY <2>7, <2>8
<1> QED
  BY <1>3, <1>4 DEF Tick

\* What is received may advance the number got and trim what was published.
Received(e) ==
    /\ pub' = [x \in Endpoint |-> pub'[x]]
    /\ \A x \in Endpoint \ {e} : pub'[x] = pub[x] /\ got'[x] = got[x]
    /\ got' \in [Endpoint -> Num]
    /\ got'[e] \in DOMAIN pub[Peer(e)] /\ got'[e] >= got[e]
    /\ DOMAIN pub'[e] \subseteq DOMAIN pub[e]
    /\ \A n \in DOMAIN pub'[e] : pub'[e][n] = pub[e][n]
    /\ \A n \in DOMAIN pub[e] : n \in DOMAIN pub'[e] \/ \A k \in DOMAIN pub'[e] : n < k
    /\ \E m \in net[Peer(e)] : \A n \in DOMAIN pub[e] : n >= m.ack => n \in DOMAIN pub'[e]
    /\ net' \in [Endpoint -> SUBSET [num : Num, ack : Num]]
    /\ net'[e] = net[e] /\ net'[Peer(e)] \subseteq net[Peer(e)]
    /\ shut' = shut /\ ackSent' = ackSent

LEMMA RecvFacts ==
    ASSUME TypeOK, TransportInv, NEW e \in Endpoint, Recv(e)
    PROVE  Received(e)
<1> USE DEF Received
<1> DEFINE p == Peer(e)
<1>1. p \in Endpoint /\ p # e /\ Peer(p) = e
  BY PeerFacts
<1>2. /\ pub = [x \in Endpoint |-> pub[x]] /\ DOMAIN pub[e] \subseteq Num
      /\ net \in [Endpoint -> SUBSET [num : Num, ack : Num]]
      /\ got \in [Endpoint -> Num] /\ got[e] \in DOMAIN pub[p]
      /\ Num \subseteq Nat
  <2>1. /\ pub = [x \in Endpoint |-> pub[x]]
        /\ net \in [Endpoint -> SUBSET [num : Num, ack : Num]]
        /\ got \in [Endpoint -> Num]
    BY DEF TransportInv
  <2>2. DOMAIN pub[e] \subseteq Num /\ got[e] \in DOMAIN pub[p]
    BY Zenon DEF TypeOK
  <2>3. Num \subseteq Nat
    BY SessionAssumption DEF Num
  <2> QED
    BY <2>1, <2>2, <2>3
<1>3. PICK m \in net[p] :
          /\ got' = [got EXCEPT ![e] = Max({@, m.num})] \/ UNCHANGED got
          /\ pub' = [pub EXCEPT ![e] = Restrict(@, {n \in DOMAIN @ : n >= m.ack})]
  BY DEF Recv
<1>4. m.num \in Num /\ m.ack \in Num /\ got[e] \in Num
  BY <1>1, <1>2, <1>3
<1>5. m.num \in DOMAIN pub[p] \/ m.num <= got[e]
  <2>1. m.num \in DOMAIN pub[p] \/ m.num < Acked(p)
    BY <1>1, <1>3 DEF TransportInv
  <2>2. Acked(p) \in Num /\ Acked(p) <= got[e]
    BY <1>1, <1>2, PubEnds
  <2>3. m.num \in Nat /\ Acked(p) \in Nat /\ got[e] \in Nat
    BY <1>2, <1>4, <2>2
  <2> QED
    BY <2>1, <2>2, <2>3
<1>6. Max({got[e], m.num}) = IF m.num <= got[e] THEN got[e] ELSE m.num
  <2>1. {got[e], m.num} \in SUBSET Num /\ {got[e], m.num} # {}
    BY <1>4
  <2> DEFINE x == Max({got[e], m.num})
  <2>2. x \in {got[e], m.num} /\ got[e] <= x /\ m.num <= x
    BY <2>1, Ends
  <2>3. got[e] \in Nat /\ m.num \in Nat
    BY <1>2, <1>4
  <2> QED
    BY <2>2, <2>3
<1>7. /\ got' \in [Endpoint -> Num] /\ \A x \in Endpoint \ {e} : got'[x] = got[x]
      /\ got'[e] \in DOMAIN pub[p] /\ got'[e] >= got[e]
  <2>1. CASE UNCHANGED got
    BY <1>2, <1>4, <2>1
  <2>2. CASE got' = [got EXCEPT ![e] = Max({@, m.num})]
    <3>1. got' = [got EXCEPT ![e] = IF m.num <= got[e] THEN got[e] ELSE m.num]
      BY <1>6, <2>2
    <3>2. got[e] \in Nat /\ m.num \in Nat
      BY <1>2, <1>4
    <3> QED
      BY <1>2, <1>4, <1>5, <3>1, <3>2
  <2> QED
    BY <1>3, <2>1, <2>2
<1>8. pub'[e] = [n \in {k \in DOMAIN pub[e] : k >= m.ack} |-> pub[e][n]]
  BY <1>2, <1>3 DEF Restrict
<1>9. /\ pub' = [x \in Endpoint |-> pub'[x]]
      /\ \A x \in Endpoint \ {e} : pub'[x] = pub[x]
  BY <1>2, <1>3
<1>10. \A n \in DOMAIN pub[e] : n \in DOMAIN pub'[e] \/ \A k \in DOMAIN pub'[e] : n < k
  <2> SUFFICES ASSUME NEW n \in DOMAIN pub[e], ~(n >= m.ack),
                      NEW k \in DOMAIN pub[e], k >= m.ack
               PROVE  n < k
    BY <1>8
  <2>1. n \in Nat /\ k \in Nat /\ m.ack \in Nat
    BY <1>2, <1>4
  <2> QED
    BY <2>1
<1>11. /\ net' \in [Endpoint -> SUBSET [num : Num, ack : Num]]
       /\ net'[e] = net[e] /\ net'[p] \subseteq net[p]
  <2>1. PICK S \in SUBSET net[p] : net' = [net EXCEPT ![p] = S]
    <3> DEFINE S == {i \in net[p] : i.num > got'[e] \/ i.ack > Acked(e)'}
    <3>1. net' = [net EXCEPT ![p] = S]
      BY DEF Recv
    <3> QED
      BY <3>1
  <2> QED
    BY <1>1, <1>2, <2>1
<1>12. shut' = shut /\ ackSent' = ackSent
  BY DEF Recv
<1>13. \A n \in DOMAIN pub[e] : n >= m.ack => n \in DOMAIN pub'[e]
  BY <1>8
<1> HIDE DEF p
<1> QED
  BY <1>3, <1>7, <1>8, <1>9, <1>10, <1>11, <1>12, <1>13 DEF p

\* The part of TypeOK that is about the transport.
PubOK ==
    /\ DOMAIN pub = Endpoint
    /\ \A e \in Endpoint : DOMAIN pub[e] \subseteq Num
    /\ \A n \in DOMAIN pub["client"] : pub["client"][n] \in 1 .. Len(stream)
    /\ \A n \in DOMAIN pub["server"] : pub["server"][n] \in Terminal
    /\ \A e \in Endpoint :
        /\ got[e] \in DOMAIN pub[Peer(e)] /\ ackSent[e] \in BOOLEAN
        /\ \A m \in net[e] : m.num <= LastNum(e) /\ m.ack <= got[e]

\* The transport's share of the invariant does not depend on the loops.
LEMMA TickTransport ==
    ASSUME TypeOK, TransportInv, Growing, Len(stream) \in Nat \ {0}, NEW e \in Endpoint,
           Ticked(e), UNCHANGED <<stream, term>>
    PROVE  PubOK' /\ TransportInv' /\ Growing'
<1> DEFINE D == DOMAIN pub[e]
           E == DOMAIN pub'[e]
<1>1. D \in SUBSET Num /\ D # {} /\ E \in SUBSET Num /\ D \subseteq E
  BY DEF TypeOK, TransportInv, Ticked
<1>2. Num \subseteq Nat /\ SHUTDOWN_NUM \in Nat /\ SHUTDOWN_NUM \in Num
  BY SessionAssumption DEF Num
<1>3. /\ Min(D) \in D /\ Max(D) \in D /\ \A n \in D : Min(D) <= n /\ n <= Max(D)
      /\ Min(E) \in E /\ Max(E) \in E /\ \A n \in E : Min(E) <= n /\ n <= Max(E)
  BY <1>1, Ends
<1>4. Acked(e) = Min(D) /\ LastNum(e) = Max(D) /\ Acked(e)' = Min(E) /\ LastNum(e)' = Max(E)
  BY DEF Acked, LastNum
<1>5. \A n \in E : n \in D \/ n > Max(D)
  BY <1>4 DEF Ticked
<1> HIDE DEF D, E
<1>6. Min(E) = Min(D) /\ Max(D) <= Max(E)
  <2>1. \A n \in E : n \in Nat
    BY <1>1, <1>2
  <2>2. Min(D) \in Nat /\ Max(D) \in Nat /\ Min(D) <= Max(D) /\ Min(E) \in Nat /\ Max(E) \in Nat
    BY <1>1, <1>3, <2>1
  <2>3. Min(E) <= Min(D) /\ Max(D) <= Max(E)
    BY <1>1, <1>3
  <2>4. Min(E) \in D \/ Min(E) > Max(D)
    BY <1>3, <1>5
  <2>5. Min(E) \in D => Min(D) <= Min(E)
    BY <1>3
  <2> QED
    BY <2>2, <2>3, <2>4, <2>5
<1>7. \A x \in Endpoint \ {e} : Acked(x)' = Acked(x) /\ LastNum(x)' = LastNum(x)
  BY DEF Acked, LastNum, Ticked
<1>8. \A x \in Endpoint : Current(x)' = Current(x)
  BY DEF Current
<1>9. PubOK'
  <2>1. DOMAIN pub' = Endpoint /\ \A x \in Endpoint : DOMAIN pub'[x] \subseteq Num
    BY DEF TypeOK, Ticked
  <2>2. \A n \in DOMAIN pub'["client"] : pub'["client"][n] \in 1 .. Len(stream)
    <3>1. CASE e = "client"
      <4>1. Current(e) \in 1 .. Len(stream)
        BY <3>1 DEF Current
      <4> QED
        BY <3>1, <4>1 DEF TypeOK, Ticked
    <3>2. CASE e # "client"
      BY <3>2, PeerFacts DEF TypeOK, Ticked
    <3> QED
      BY <3>1, <3>2
  <2>3. \A n \in DOMAIN pub'["server"] : pub'["server"][n] \in Terminal
    <3>1. CASE e = "server"
      <4>1. Current(e) \in Terminal
        BY <3>1 DEF Current, TypeOK
      <4> QED
        BY <3>1, <4>1 DEF TypeOK, Ticked
    <3>2. CASE e # "server"
      BY <3>2, PeerFacts DEF TypeOK, Ticked
    <3> QED
      BY <3>1, <3>2
  <2>4. ASSUME NEW x \in Endpoint
        PROVE  got'[x] \in DOMAIN pub'[Peer(x)] /\ ackSent'[x] \in BOOLEAN
    <3>1. got'[x] \in DOMAIN pub[Peer(x)]
      BY DEF TypeOK, Ticked
    <3>2. DOMAIN pub[Peer(x)] \subseteq DOMAIN pub'[Peer(x)]
      BY PeerFacts DEF Ticked
    <3> QED
      BY <3>1, <3>2 DEF Ticked
  <2>5. ASSUME NEW x \in Endpoint, NEW m \in net'[x]
        PROVE  m.num <= LastNum(x)' /\ m.ack <= got'[x]
    <3>1. m \in net[x] => m.num <= LastNum(x) /\ m.ack <= got[x]
      BY DEF TypeOK
    <3>2. m.num \in Num /\ m.ack \in Num /\ got[x] \in Num
      BY DEF Ticked, TransportInv
    <3>3. m.num \in Nat /\ m.ack \in Nat /\ got[x] \in Nat /\ Max(D) \in Nat /\ Max(E) \in Nat
      BY <1>1, <1>2, <1>3, <3>2
    <3>4. CASE x # e
      BY <1>7, <3>1, <3>4 DEF Ticked
    <3>5. CASE x = e
      <4>1. got'[x] = got[x] /\ (m \in net[x] \/ (m.num \in E /\ m.ack = got[x]))
        BY <3>5 DEF Ticked, E
      <4> QED
        BY <1>3, <1>4, <1>6, <3>1, <3>3, <3>5, <4>1
    <3> QED
      BY <3>4, <3>5
  <2> QED
    BY <2>1, <2>2, <2>3, <2>4, <2>5, Zenon DEF PubOK
<1>10. TransportInv'
  <2>1. /\ pub' = [x \in Endpoint |-> pub'[x]]
        /\ got' \in [Endpoint -> Num] /\ ackSent' \in [Endpoint -> BOOLEAN]
        /\ net' \in [Endpoint -> SUBSET [num : Num, ack : Num]]
    BY DEF TransportInv, Ticked
  <2>2. ASSUME NEW x \in Endpoint
        PROVE  /\ DOMAIN pub'[x] # {}
               /\ \A m \in net'[x] : m.num \in DOMAIN pub'[x] \/ m.num < Acked(x)'
               /\ SHUTDOWN_NUM \in DOMAIN pub'[x]
                     => shut'[x] /\ pub'[x][SHUTDOWN_NUM] = Current(x)'
               /\ ackSent'[x] => got'[x] = SHUTDOWN_NUM
    <3>1. CASE x # e
      BY <1>7, <1>8, <3>1 DEF Ticked, TransportInv
    <3>2. CASE x = e
      <4>1. E # {}
        BY <1>1
      <4>2. \A m \in net'[e] : m.num \in E \/ m.num < Acked(e)'
        <5>1. \A m \in net[e] : m.num \in E \/ m.num < Acked(e)
          BY <1>1 DEF TransportInv, D
        <5> QED
          BY <1>4, <1>6, <5>1 DEF Ticked, E
      <4>3. SHUTDOWN_NUM \in E => shut[e] /\ pub'[e][SHUTDOWN_NUM] = Current(e)
        BY DEF TransportInv, Ticked, E
      <4> QED
        BY <1>8, <3>2, <4>1, <4>2, <4>3 DEF Ticked, E
    <3> QED
      BY <3>1, <3>2
  <2> QED
    BY <2>1, <2>2, Zenon DEF TransportInv
<1>11. Growing'
  <2>1. CASE e # "client"
    BY <2>1, PeerFacts DEF Growing, Ticked
  <2>2. CASE e = "client"
    <3> SUFFICES ASSUME NEW m \in E, NEW n \in E, m <= n
                 PROVE  pub'[e][m] <= pub'[e][n]
      BY <2>2 DEF Growing, E
    <3>1. \A k \in D : pub'[e][k] = pub[e][k] /\ pub[e][k] \in 1 .. Len(stream) /\ k <= Max(D)
      BY <1>3, <2>2 DEF Ticked, D, TypeOK
    <3>2. \A k \in E : k \in D \/ (k > Max(D) /\ pub'[e][k] = Len(stream))
      BY <1>4, <2>2 DEF Ticked, D, E, Current
    <3>3. m \in Nat /\ n \in Nat /\ Max(D) \in Nat
      BY <1>1, <1>2, <1>3
    <3>4. CASE m \in D /\ n \in D
      BY <2>2, <3>1, <3>4 DEF Growing, D
    <3>5. CASE m \notin D
      BY <3>1, <3>2, <3>3, <3>5
    <3>6. CASE m \in D /\ n \notin D
      BY <3>1, <3>2, <3>3, <3>6
    <3> QED
      BY <3>4, <3>5, <3>6
  <2> QED
    BY <2>1, <2>2
<1> QED
  BY <1>9, <1>10, <1>11

LEMMA RecvTransport ==
    ASSUME TypeOK, TransportInv, Growing, NEW e \in Endpoint,
           Received(e), UNCHANGED <<stream, term>>
    PROVE  PubOK' /\ TransportInv' /\ Growing'
<1> DEFINE p == Peer(e)
           D == DOMAIN pub[e]
           E == DOMAIN pub'[e]
<1>1. p \in Endpoint /\ p # e /\ Peer(p) = e /\ \A x \in Endpoint : x = e \/ x = p
  BY PeerFacts
<1>2. Num \subseteq Nat /\ SHUTDOWN_NUM \in Nat /\ SHUTDOWN_NUM \in Num
  BY SessionAssumption DEF Num
<1>3. D \in SUBSET Num /\ E \subseteq D /\ \A n \in E : pub'[e][n] = pub[e][n]
  BY DEF TypeOK, Received
<1>4. got[p] \in E
  <2>1. got[p] \in D
    BY <1>1, Zenon DEF TypeOK
  <2>2. PICK m \in net[p] : \A n \in D : n >= m.ack => n \in E
    BY DEF Received
  <2>3. m.ack <= got[p]
    BY <1>1, <2>2, Zenon DEF TypeOK
  <2>4. m.ack \in Nat /\ got[p] \in Nat
    BY <1>1, <1>2, <2>2 DEF TransportInv
  <2> QED
    BY <2>1, <2>2, <2>3, <2>4
<1>5. /\ Min(D) \in D /\ Max(D) \in D /\ \A n \in D : Min(D) <= n /\ n <= Max(D)
      /\ Min(E) \in E /\ Max(E) \in E /\ \A n \in E : Min(E) <= n /\ n <= Max(E)
  <2>1. D # {} /\ E # {} /\ E \in SUBSET Num
    BY <1>3, <1>4
  <2> QED
    BY <1>3, <2>1, Ends
<1>6. Acked(e) = Min(D) /\ LastNum(e) = Max(D) /\ Acked(e)' = Min(E) /\ LastNum(e)' = Max(E)
  BY DEF Acked, LastNum
<1>7. \A n \in D : n \in E \/ \A k \in E : n < k
  BY DEF Received
<1> HIDE DEF D, E
<1>8. Max(E) = Max(D) /\ Min(D) <= Min(E)
  <2>1. \A n \in D : n \in Nat
    BY <1>2, <1>3
  <2>2. Max(D) \in Nat /\ Max(E) \in Nat /\ Max(E) <= Max(D) /\ Min(D) <= Min(E)
    BY <1>3, <1>5, <2>1
  <2>3. Max(D) \in E \/ Max(D) < Max(E)
    BY <1>5, <1>7
  <2>4. Max(D) \in E => Max(D) <= Max(E)
    BY <1>5
  <2> QED
    BY <2>2, <2>3, <2>4
<1>9. Acked(p)' = Acked(p) /\ LastNum(p)' = LastNum(p) /\ pub'[p] = pub[p]
  BY <1>1 DEF Acked, LastNum, Received
<1>10. \A x \in Endpoint : Current(x)' = Current(x)
  BY DEF Current
<1>11. PubOK'
  <2>1. DOMAIN pub' = Endpoint /\ \A x \in Endpoint : DOMAIN pub'[x] \subseteq Num
    BY <1>3 DEF TypeOK, Received, E
  <2>2. /\ \A n \in DOMAIN pub'["client"] : pub'["client"][n] \in 1 .. Len(stream)
        /\ \A n \in DOMAIN pub'["server"] : pub'["server"][n] \in Terminal
    <3>1. \A x \in Endpoint : /\ DOMAIN pub'[x] \subseteq DOMAIN pub[x]
                              /\ \A n \in DOMAIN pub'[x] : pub'[x][n] = pub[x][n]
      BY DEF Received
    <3>2. "client" \in Endpoint /\ "server" \in Endpoint
      BY PeerFacts
    <3>3. /\ \A n \in DOMAIN pub["client"] : pub["client"][n] \in 1 .. Len(stream)
          /\ \A n \in DOMAIN pub["server"] : pub["server"][n] \in Terminal
      BY DEF TypeOK
    <3> QED
      BY <3>1, <3>2, <3>3
  <2>3. ASSUME NEW x \in Endpoint
        PROVE  got'[x] \in DOMAIN pub'[Peer(x)] /\ ackSent'[x] \in BOOLEAN
    <3>1. CASE x = e
      BY <1>1, <1>9, <3>1 DEF Received, TransportInv
    <3>2. CASE x = p
      BY <1>1, <1>4, <3>2 DEF Received, TransportInv, E
    <3> QED
      BY <1>1, <3>1, <3>2
  <2>4. ASSUME NEW x \in Endpoint, NEW m \in net'[x]
        PROVE  m.num <= LastNum(x)' /\ m.ack <= got'[x]
    <3>1. m \in net[x]
      BY <1>1 DEF Received
    <3>2. m.num <= LastNum(x) /\ m.ack <= got[x]
      BY <3>1, Zenon DEF TypeOK
    <3>3. LastNum(x)' = LastNum(x)
      BY <1>1, <1>6, <1>8, <1>9
    <3>4. got'[x] >= got[x] /\ got'[x] \in Nat /\ got[x] \in Nat /\ m.ack \in Nat
      <4>1. got'[x] \in Num /\ got[x] \in Num /\ m.ack \in Num
        BY <3>1 DEF Received, TransportInv
      <4>2. got'[x] \in Nat /\ got[x] \in Nat /\ m.ack \in Nat
        BY <1>2, <4>1
      <4>3. x = e => got'[x] >= got[x]
        BY DEF Received
      <4>4. x # e => got'[x] = got[x]
        BY DEF Received
      <4> QED
        BY <4>2, <4>3, <4>4
    <3> QED
      BY <3>2, <3>3, <3>4
  <2> QED
    BY <2>1, <2>2, <2>3, <2>4, Zenon DEF PubOK
<1>12. TransportInv'
  <2>1. /\ pub' = [x \in Endpoint |-> pub'[x]]
        /\ got' \in [Endpoint -> Num] /\ ackSent' \in [Endpoint -> BOOLEAN]
        /\ net' \in [Endpoint -> SUBSET [num : Num, ack : Num]]
    BY DEF TransportInv, Received
  <2>2. ASSUME NEW x \in Endpoint
        PROVE  /\ DOMAIN pub'[x] # {}
               /\ \A m \in net'[x] : m.num \in DOMAIN pub'[x] \/ m.num < Acked(x)'
               /\ SHUTDOWN_NUM \in DOMAIN pub'[x]
                     => shut'[x] /\ pub'[x][SHUTDOWN_NUM] = Current(x)'
    <3>1. CASE x = p
      BY <1>1, <1>9, <1>10, <3>1 DEF Received, TransportInv
    <3>2. CASE x = e
      <4>1. \A m \in net[e] : m.num \in E \/ m.num < Min(E)
        <5> TAKE m \in net[e]
        <5>1. m.num \in D \/ m.num < Min(D)
          BY <1>6 DEF TransportInv, D
        <5>2. m.num \in Num
          BY DEF TransportInv
        <5>3. m.num \in Nat /\ Min(D) \in Nat /\ Min(E) \in Nat
          BY <1>2, <1>3, <1>5, <5>2
        <5> QED
          BY <1>5, <1>7, <1>8, <5>1, <5>3
      <4>2. SHUTDOWN_NUM \in E => shut[e] /\ pub'[e][SHUTDOWN_NUM] = Current(e)
        BY <1>3 DEF TransportInv, D
      <4> QED
        BY <1>4, <1>6, <1>10, <3>2, <4>1, <4>2 DEF Received, E
    <3> QED
      BY <1>1, <3>1, <3>2
  <2>3. ASSUME NEW x \in Endpoint, ackSent'[x]
        PROVE  got'[x] = SHUTDOWN_NUM
    <3>1. got[x] = SHUTDOWN_NUM
      BY <2>3 DEF Received, TransportInv
    <3>2. CASE x = e
      <4>1. got'[x] \in 0 .. SHUTDOWN_NUM /\ got'[x] >= SHUTDOWN_NUM
        BY <3>1, <3>2 DEF Received, Num
      <4> QED
        BY <1>2, <4>1
    <3>3. CASE x # e
      BY <3>1, <3>3 DEF Received
    <3> QED
      BY <3>2, <3>3
  <2> QED
    BY <2>1, <2>2, <2>3, Zenon DEF TransportInv
<1>13. Growing'
  <2>1. /\ DOMAIN pub'["client"] \subseteq DOMAIN pub["client"]
        /\ \A n \in DOMAIN pub'["client"] : pub'["client"][n] = pub["client"][n]
    BY PeerFacts DEF Received
  <2> QED
    BY <2>1 DEF Growing
<1> QED
  BY <1>11, <1>12, <1>13

\* A step of a loop that leaves the transport alone, or starts a shutdown.
LEMMA LoopTransport ==
    ASSUME TypeOK, TransportInv, Growing, Len(stream) \in Nat, Len(stream') \in Nat,
           Len(stream) <= Len(stream'),
           UNCHANGED <<pub, got, ackSent, net>>,
           \A e \in Endpoint : shut[e] => shut'[e] /\ Current(e)' = Current(e)
    PROVE  PubOK' /\ TransportInv' /\ Growing'
<1>1. \A x \in Endpoint : Acked(x)' = Acked(x) /\ LastNum(x)' = LastNum(x)
  BY DEF Acked, LastNum
<1>2. PubOK'
  <2>1. \A n \in DOMAIN pub'["client"] : pub'["client"][n] \in 1 .. Len(stream')
    BY DEF TypeOK
  <2> QED
    BY <1>1, <2>1, Zenon DEF TypeOK, PubOK
<1>3. TransportInv'
  <2>1. \A e \in Endpoint : SHUTDOWN_NUM \in DOMAIN pub'[e]
            => shut'[e] /\ pub'[e][SHUTDOWN_NUM] = Current(e)'
    BY DEF TransportInv
  <2> QED
    BY <1>1, <2>1 DEF TransportInv
<1>4. Growing'
  BY DEF Growing
<1> QED
  BY <1>2, <1>3, <1>4

\* The rest of TypeOK.
LoopsOK ==
    /\ shut \in [Endpoint -> BOOLEAN]
    /\ cpc \in {"select", "check", "tick", "exited"}
    /\ stream \in Seq(Event)
    /\ painted \in BOOLEAN
    /\ left \in {"no", "quit", "server", "timeout"}
    /\ spc \in {"waiting", "select", "input", "housekeeping", "tick", "exited"}
    /\ first \in 0 .. Len(stream) /\ seen \in DOMAIN pub["client"]
    /\ ptySize \in Sizes /\ ptyLog \in Seq(Event \cup {Skipped})
    /\ term \in Terminal /\ frames \subseteq Num
    /\ child \in {"none", "running", "exited"}
    /\ written \in 0 .. MAX_OUTPUT /\ unread \in 0 .. written
    /\ channel \in Seq({"output", "exited"}) /\ Len(channel) <= CHANNEL
    /\ eof \in BOOLEAN

\* TypeOK is what is said of the transport and of the loops.
LEMMA TypeParts == /\ TypeOK <=> PubOK /\ LoopsOK
                   /\ TypeOK' <=> PubOK' /\ LoopsOK'
<1>1. TypeOK <=> PubOK /\ LoopsOK
  BY Zenon DEF TypeOK, PubOK, LoopsOK
<1>2. TypeOK' <=> PubOK' /\ LoopsOK'
  BY Zenon DEF TypeOK, PubOK, LoopsOK
<1> QED
  BY <1>1, <1>2

-----------------------------------------------------------------------------
(* Events and sizes *)

\* The last size among events is one of the sizes.
LEMMA LastSizeType ==
    ASSUME NEW events \in Seq(Event), NEW size \in Sizes
    PROVE  LastSize(events, size) \in Sizes
<1> DEFINE R == {i \in DOMAIN events : IsResize(events[i])}
<1>1. CASE R = {}
  BY <1>1 DEF LastSize
<1>2. CASE R # {}
  <2>1. R \in SUBSET (0 .. Len(events)) /\ Len(events) \in Nat
    OBVIOUS
  <2> HIDE DEF R
  <2>2. Max(R) \in R
    BY <1>2, <2>1, MaxProperties
  <2>3. events[Max(R)] \in Event /\ IsResize(events[Max(R)])
    BY <2>2 DEF R
  <2>4. events[Max(R)][2] \in Sizes
    <3> DEFINE ev == events[Max(R)]
    <3> HIDE DEF ev
    <3>1. ev \in Event /\ ev[1] = "resize"
      BY <2>3 DEF ev, IsResize
    <3>2. \A i : Key(i)[1] = "key"
      BY DEF Key
    <3>3. PICK z \in Sizes : ev = Resize(z)
      BY <3>1, <3>2 DEF Event
    <3>4. ev[2] = z
      BY <3>3 DEF Resize
    <3> QED
      BY <3>4 DEF ev
  <2> QED
    BY <1>2, <2>4 DEF LastSize, R
<1> QED
  BY <1>1, <1>2

\* What the server is handed between two states of the client.
LEMMA BetweenFacts ==
    ASSUME TypeOK, Growing, NEW m \in DOMAIN pub["client"], NEW n \in DOMAIN pub["client"],
           m <= n
    PROVE  /\ EventsBetween(m, n) \in Seq(Event)
           /\ Len(EventsBetween(m, n)) = pub["client"][n] - pub["client"][m]
           /\ DOMAIN EventsBetween(m, n) = 1 .. pub["client"][n] - pub["client"][m]
           /\ \A i \in 1 .. pub["client"][n] - pub["client"][m] :
                 EventsBetween(m, n)[i] = stream[pub["client"][m] + i]
<1> DEFINE a == pub["client"][m]
           b == pub["client"][n]
<1>1. a \in 1 .. Len(stream) /\ b \in 1 .. Len(stream) /\ a <= b /\ stream \in Seq(Event)
  BY DEF TypeOK, Growing
<1> HIDE DEF a, b
<1>2. /\ SubSeq(stream, a + 1, b) \in Seq(Event)
      /\ Len(SubSeq(stream, a + 1, b)) = b - a
      /\ \A i \in 1 .. b - a : SubSeq(stream, a + 1, b)[i] = stream[a + i]
  BY <1>1
<1> QED
  BY <1>2 DEF EventsBetween, a, b

\* The log stays right as long as what it is about does.
LEMMA LogKept ==
    ASSUME TypeOK, LogInv, UNCHANGED <<seen, first, ptyLog>>,
           child' # "none" => child # "none",
           pub'["client"][seen] = pub["client"][seen],
           \A i \in 1 .. Len(stream) : stream'[i] = stream[i]
    PROVE  LogInv'
<1> SUFFICES ASSUME child # "none", child' # "none"
             PROVE  /\ pub'["client"][seen'] = first' + Len(ptyLog')
                    /\ \A j \in DOMAIN ptyLog' : Logged(j)'
  BY DEF LogInv
<1>1. pub["client"][seen] = first + Len(ptyLog) /\ \A j \in DOMAIN ptyLog : Logged(j)
  BY DEF LogInv
<1>2. pub["client"][seen] \in 1 .. Len(stream) /\ Len(stream) \in Nat
  BY DEF TypeOK
<1>3. first \in Nat /\ Len(ptyLog) \in Nat /\ DOMAIN ptyLog = 1 .. Len(ptyLog)
  BY DEF TypeOK
<1>4. ASSUME NEW j \in DOMAIN ptyLog PROVE Logged(j)'
  <2>1. stream'[first + j] = stream[first + j]
    BY <1>1, <1>2, <1>3
  <2>2. j < Len(ptyLog) => stream'[first + j + 1] = stream[first + j + 1]
    BY <1>1, <1>2, <1>3
  <2> QED
    BY <1>1, <2>1, <2>2 DEF Logged
<1> QED
  BY <1>1, <1>4

-----------------------------------------------------------------------------
(* Each action preserves the invariant. *)

\* Both programs start in the invariant.
LEMMA InitInv == Init => Inv
<1> SUFFICES ASSUME Init PROVE Inv
  OBVIOUS
<1> USE DEF Init
<1>1. SHUTDOWN_NUM \in Nat \ {0, 1} /\ 0 \in Num /\ MAX_OUTPUT \in Nat /\ MAX_EVENTS \in Nat
      /\ Window \in Sizes /\ DefaultSize \in Sizes /\ CHANNEL \in Nat
  BY SessionAssumption DEF Num
<1>2. stream \in Seq(Event) /\ Len(stream) = 1 /\ IsResize(stream[1]) /\ ~IsKey(stream[1])
      /\ DOMAIN stream = {1}
  <2>1. Resize(Window) \in Event
    BY <1>1 DEF Event
  <2> QED
    BY <2>1 DEF IsResize, IsKey, Resize
<1>3. term \in Terminal
  BY <1>1 DEF Terminal
<1>4. /\ pub = [e \in Endpoint |-> pub[e]] /\ DOMAIN pub = Endpoint
      /\ \A e \in Endpoint : DOMAIN pub[e] = {0} /\ net[e] = {} /\ ~shut[e] /\ ~ackSent[e]
      /\ \A e \in Endpoint : got[e] = 0
      /\ pub["client"][0] = 1 /\ pub["server"][0] = term
  BY <1>2, PeerFacts
<1>5. PubOK
  BY <1>1, <1>2, <1>3, <1>4, PeerFacts DEF PubOK
<1>6. TransportInv
  BY <1>1, <1>4 DEF TransportInv
<1>7. LoopsOK
  <2>1. shut \in [Endpoint -> BOOLEAN] /\ seen \in DOMAIN pub["client"]
    BY <1>4, PeerFacts
  <2>2. first \in 0 .. Len(stream) /\ written \in 0 .. MAX_OUTPUT /\ unread \in 0 .. written
    BY <1>1, <1>2
  <2>3. /\ ptyLog \in Seq(Event \cup {Skipped})
        /\ channel \in Seq({"output", "exited"}) /\ Len(channel) <= CHANNEL
    BY <1>1
  <2>4. ptySize \in Sizes /\ frames \subseteq Num
    BY <1>1
  <2> QED
    BY <1>2, <1>3, <2>1, <2>2, <2>3, <2>4 DEF LoopsOK
<1>8. ClientInv
  BY <1>1, <1>2, <1>4, PeerFacts DEF ClientInv, Growing
<1>9. ServerInv /\ LogInv
  BY <1>4, PeerFacts DEF ServerInv, LogInv
<1>10. ShellInv
  BY DEF ShellInv, Queued
<1> QED
  BY <1>5, <1>6, <1>7, <1>8, <1>9, <1>10, TypeParts DEF Inv

\* handle_term_event lets the stream grow or starts the shutdown.
LEMMA TermEventFacts ==
    ASSUME Inv, HandleTermEvent
    PROVE  /\ UNCHANGED <<pub, got, ackSent, net>>
           /\ stream' \in Seq(Event) /\ Len(stream') \in 1 .. MAX_EVENTS + 1
           /\ Len(stream) <= Len(stream')
           /\ \A i \in 1 .. Len(stream) : stream'[i] = stream[i]
           /\ \A i \in DOMAIN stream' : IsKey(stream'[i]) => stream'[i] = Key(i - 1)
           /\ shut' \in [Endpoint -> BOOLEAN] /\ shut'["server"] = shut["server"]
           /\ ~shut["client"]
<1>1. /\ stream \in Seq(Event) /\ Len(stream) \in 1 .. MAX_EVENTS + 1 /\ MAX_EVENTS \in Nat
      /\ \A i \in DOMAIN stream : IsKey(stream[i]) => stream[i] = Key(i - 1)
      /\ shut \in [Endpoint -> BOOLEAN]
  BY SessionAssumption DEF Inv, TypeOK, ClientInv
<1>2. ~shut["client"]
  BY DEF HandleTermEvent
<1>3. CASE UNCHANGED stream /\ StartShutdown("client") /\ UNCHANGED <<pub, got, ackSent, net>>
  <2>1. shut' \in [Endpoint -> BOOLEAN] /\ shut'["server"] = shut["server"]
    BY <1>1, <1>3, PeerFacts DEF StartShutdown
  <2>2. \A i \in DOMAIN stream' : IsKey(stream'[i]) => stream'[i] = Key(i - 1)
    BY <1>1, <1>3
  <2> QED
    BY <1>1, <1>2, <1>3, <2>1, <2>2
<1>4. ASSUME NEW ev \in Event, stream' = Append(stream, ev), Len(stream) <= MAX_EVENTS,
             UNCHANGED transport, IsKey(ev) => ev = Key(Len(stream))
      PROVE  /\ UNCHANGED <<pub, got, ackSent, net>>
             /\ stream' \in Seq(Event) /\ Len(stream') \in 1 .. MAX_EVENTS + 1
             /\ Len(stream) <= Len(stream')
             /\ \A i \in 1 .. Len(stream) : stream'[i] = stream[i]
             /\ \A i \in DOMAIN stream' : IsKey(stream'[i]) => stream'[i] = Key(i - 1)
             /\ shut' \in [Endpoint -> BOOLEAN] /\ shut'["server"] = shut["server"]
  <2>1. UNCHANGED <<pub, got, ackSent, net>> /\ shut' = shut
    BY <1>4 DEF transport
  <2>2. stream' \in Seq(Event) /\ Len(stream') = Len(stream) + 1
    BY <1>1, <1>4
  <2>3. \A i \in 1 .. Len(stream) : stream'[i] = stream[i]
    BY <1>1, <1>4
  <2>4. stream'[Len(stream) + 1] = ev /\ Len(stream) + 1 - 1 = Len(stream)
    BY <1>1, <1>4
  <2>5. ASSUME NEW i \in DOMAIN stream', IsKey(stream'[i]) PROVE stream'[i] = Key(i - 1)
    <3>1. CASE i = Len(stream) + 1
      BY <1>4, <2>4, <2>5, <3>1
    <3>2. CASE i \in 1 .. Len(stream)
      BY <1>1, <2>3, <2>5, <3>2
    <3> QED
      BY <1>1, <2>2, <3>1, <3>2
  <2> QED
    BY <1>1, <1>4, <2>1, <2>2, <2>3, <2>5
<1>5. CASE /\ Len(stream) <= MAX_EVENTS /\ UNCHANGED transport
           /\ stream' = Append(stream, Key(Len(stream)))
  <2>1. Key(Len(stream)) \in Event
    BY <1>1, <1>5 DEF Event
  <2> QED
    BY <1>2, <1>4, <1>5, <2>1
<1>6. CASE /\ Len(stream) <= MAX_EVENTS /\ UNCHANGED transport
           /\ \E s \in Sizes : stream' = Append(stream, Resize(s))
  <2>1. PICK s \in Sizes : stream' = Append(stream, Resize(s))
    BY <1>6
  <2>2. Resize(s) \in Event /\ ~IsKey(Resize(s))
    BY DEF Event, IsKey, Resize
  <2> QED
    BY <1>2, <1>4, <1>6, <2>1, <2>2
<1> QED
  BY <1>3, <1>5, <1>6, Zenon DEF HandleTermEvent

\* What a step of the client leaves alone of the server's invariants.
LEMMA ClientStep ==
    ASSUME Inv, UNCHANGED <<server, shell>>, PubOK', TransportInv', Growing',
           UNCHANGED <<seen, first, ptyLog>>,
           shut' \in [Endpoint -> BOOLEAN], shut'["server"] = shut["server"],
           stream' \in Seq(Event), Len(stream) <= Len(stream'),
           \A i \in 1 .. Len(stream) : stream'[i] = stream[i],
           net'["server"] \subseteq net["server"], got'["server"] = got["server"],
           seen \in DOMAIN pub'["client"], pub'["client"][seen] = pub["client"][seen],
           cpc' \in {"select", "check", "tick", "exited"}, painted' \in BOOLEAN,
           left' \in {"no", "quit", "server", "timeout"}
    PROVE  TypeOK' /\ ServerInv' /\ LogInv' /\ ShellInv'
<1> USE DEF server, shell
<1>1. LoopsOK
  BY TypeParts DEF Inv
<1>2. first' \in 0 .. Len(stream')
  <2>1. first \in 0 .. Len(stream) /\ Len(stream) \in Nat /\ Len(stream') \in Nat
    BY <1>1 DEF LoopsOK
  <2> QED
    BY <2>1
<1>3. LoopsOK'
  BY <1>1, <1>2 DEF LoopsOK
<1>4. TypeOK'
  BY <1>3, TypeParts
<1>5. ServerInv'
  BY DEF ServerInv, Inv
<1>6. LogInv'
  BY LogKept DEF Inv
<1>7. ShellInv'
  BY DEF ShellInv, Queued, Inv
<1> QED
  BY <1>4, <1>5, <1>6, <1>7

LEMMA ClientSelectInv == ASSUME Inv, ClientSelect PROVE Inv'
<1>1. /\ cpc = "select" /\ cpc' = "check" /\ painted' = (got["client"] = SHUTDOWN_NUM)
      /\ UNCHANGED <<left, server, shell>>
  BY DEF ClientSelect
<1>2. /\ TypeOK /\ TransportInv /\ Growing /\ stream \in Seq(Event)
      /\ Len(stream) \in 1 .. MAX_EVENTS + 1
      /\ left \in {"no", "quit", "server", "timeout"}
      /\ shut \in [Endpoint -> BOOLEAN] /\ seen \in DOMAIN pub["client"]
  BY DEF Inv, ClientInv, TypeOK
<1>3. ackSent["client"] => got["client"] = SHUTDOWN_NUM
  BY PeerFacts DEF Inv, TransportInv
<1>4. UNCHANGED <<seen, first, ptyLog, term>>
  BY <1>1 DEF server
<1>5. left # "server"
  BY <1>1 DEF Inv, ClientInv
<1>6. CASE HandleTermEvent
  <2>1. /\ UNCHANGED <<pub, got, ackSent, net>>
        /\ stream' \in Seq(Event) /\ Len(stream') \in 1 .. MAX_EVENTS + 1
        /\ Len(stream) <= Len(stream')
        /\ \A i \in 1 .. Len(stream) : stream'[i] = stream[i]
        /\ \A i \in DOMAIN stream' : IsKey(stream'[i]) => stream'[i] = Key(i - 1)
        /\ shut' \in [Endpoint -> BOOLEAN] /\ shut'["server"] = shut["server"]
        /\ ~shut["client"]
    BY <1>6, TermEventFacts
  <2>2. \A e \in Endpoint : shut[e] => shut'[e] /\ Current(e)' = Current(e)
    BY <1>4, <2>1, PeerFacts DEF Current
  <2>3. PubOK' /\ TransportInv' /\ Growing'
    BY <1>2, <2>1, <2>2, LoopTransport
  <2>4. TypeOK' /\ ServerInv' /\ LogInv' /\ ShellInv'
    BY <1>1, <1>2, <1>4, <2>1, <2>3, ClientStep
  <2>5. ClientInv'
    BY <1>1, <1>3, <1>5, <2>1, <2>3 DEF ClientInv
  <2> QED
    BY <2>3, <2>4, <2>5 DEF Inv
<1>7. CASE Recv("client") /\ UNCHANGED stream
  <2>1. Received("client")
    BY <1>2, <1>7, PeerFacts, RecvFacts
  <2>2. PubOK' /\ TransportInv' /\ Growing'
    BY <1>2, <1>4, <1>7, <2>1, PeerFacts, RecvTransport
  <2>3. shut' = shut /\ ackSent' = ackSent /\ got'["server"] = got["server"]
        /\ net'["server"] \subseteq net["server"]
    BY <2>1, PeerFacts DEF Received
  <2>4. seen \in DOMAIN pub'["client"] /\ pub'["client"][seen] = pub["client"][seen]
    <3>1. PICK m \in net["server"] :
              \A n \in DOMAIN pub["client"] : n >= m.ack => n \in DOMAIN pub'["client"]
      BY <2>1, PeerFacts DEF Received
    <3>2. m.ack <= seen
      BY <3>1 DEF Inv, ServerInv
    <3>3. m.ack \in Nat /\ seen \in Nat
      <4>1. m.ack \in Num /\ seen \in Num
        BY <1>2, <3>1, PeerFacts DEF TypeOK, TransportInv
      <4> QED
        BY <4>1, SessionAssumption DEF Num
    <3>4. seen \in DOMAIN pub'["client"]
      BY <1>2, <3>1, <3>2, <3>3
    <3> QED
      BY <2>1, <3>4 DEF Received
  <2>5. TypeOK' /\ ServerInv' /\ LogInv' /\ ShellInv'
    BY <1>1, <1>2, <1>4, <1>7, <2>2, <2>3, <2>4, ClientStep
  <2>6. ClientInv'
    BY <1>1, <1>3, <1>5, <1>7, <2>2, <2>3 DEF ClientInv, Inv
  <2> QED
    BY <2>2, <2>5, <2>6 DEF Inv
<1>8. CASE UNCHANGED <<transport, stream>>
  <2>1. UNCHANGED <<pub, got, ackSent, net, shut, stream>>
    BY <1>8 DEF transport
  <2>2. \A e \in Endpoint : shut[e] => shut'[e] /\ Current(e)' = Current(e)
    BY <1>4, <2>1 DEF Current
  <2>3. PubOK' /\ TransportInv' /\ Growing'
    BY <1>2, <2>1, <2>2, LoopTransport
  <2>4. TypeOK' /\ ServerInv' /\ LogInv' /\ ShellInv'
    BY <1>1, <1>2, <1>4, <2>1, <2>3, ClientStep
  <2>5. ClientInv'
    BY <1>1, <1>3, <1>5, <2>1, <2>3 DEF ClientInv, Inv
  <2> QED
    BY <2>3, <2>4, <2>5 DEF Inv
<1> QED
  BY <1>6, <1>7, <1>8 DEF ClientSelect

LEMMA ClientCheckInv == ASSUME Inv, ClientCheck PROVE Inv'
<1>1. /\ cpc = "check" /\ cpc' \in {"exited", "tick"}
      /\ UNCHANGED <<transport, stream, painted, server, shell>>
      /\ \/ cpc' = "tick" /\ left' = left
         \/ cpc' = "exited" /\ left' \in {"quit", "timeout"}
         \/ cpc' = "exited" /\ left' = "server" /\ ackSent["client"]
  BY DEF ClientCheck, ClientLeave, CounterpartyShutdownAckSent
<1>2. /\ TypeOK /\ TransportInv /\ Growing /\ stream \in Seq(Event)
      /\ Len(stream) \in 1 .. MAX_EVENTS + 1 /\ painted \in BOOLEAN
      /\ left \in {"no", "quit", "server", "timeout"} /\ left # "server"
      /\ shut \in [Endpoint -> BOOLEAN] /\ seen \in DOMAIN pub["client"]
      /\ ackSent["client"] => painted
  BY <1>1 DEF Inv, ClientInv, TypeOK
<1>3. UNCHANGED <<pub, got, ackSent, net, shut>> /\ UNCHANGED <<seen, first, ptyLog, term>>
  BY <1>1 DEF transport, server
<1>4. \A e \in Endpoint : shut[e] => shut'[e] /\ Current(e)' = Current(e)
  BY <1>1, <1>3 DEF Current
<1>5. PubOK' /\ TransportInv' /\ Growing'
  BY <1>1, <1>2, <1>3, <1>4, LoopTransport
<1>6. TypeOK' /\ ServerInv' /\ LogInv' /\ ShellInv'
  BY <1>1, <1>2, <1>3, <1>5, ClientStep
<1>7. ClientInv'
  BY <1>1, <1>2, <1>3, <1>5 DEF ClientInv, Inv
<1> QED
  BY <1>5, <1>6, <1>7 DEF Inv

LEMMA ClientTickInv == ASSUME Inv, ClientTick PROVE Inv'
<1>1. /\ cpc = "tick" /\ cpc' = "select" /\ Tick("client")
      /\ UNCHANGED <<stream, painted, left, server, shell>>
  BY DEF ClientTick
<1>2. /\ TypeOK /\ TransportInv /\ Growing /\ stream \in Seq(Event)
      /\ Len(stream) \in 1 .. MAX_EVENTS + 1 /\ painted \in BOOLEAN
      /\ left \in {"no", "quit", "server", "timeout"} /\ left # "server"
      /\ shut \in [Endpoint -> BOOLEAN] /\ seen \in DOMAIN pub["client"]
  BY <1>1 DEF Inv, ClientInv, TypeOK
<1>3. Ticked("client")
  BY <1>1, <1>2, PeerFacts, TickFacts
<1>4. UNCHANGED <<seen, first, ptyLog, term>>
  BY <1>1 DEF server
<1>5. PubOK' /\ TransportInv' /\ Growing'
  BY <1>1, <1>2, <1>3, <1>4, PeerFacts, TickTransport
<1>6. /\ shut' = shut /\ got' = got /\ net'["server"] = net["server"]
      /\ seen \in DOMAIN pub'["client"] /\ pub'["client"][seen] = pub["client"][seen]
  BY <1>2, <1>3, PeerFacts DEF Ticked
<1>7. TypeOK' /\ ServerInv' /\ LogInv' /\ ShellInv'
  BY <1>1, <1>2, <1>4, <1>5, <1>6, ClientStep
<1>8. ClientInv'
  BY <1>1, <1>2, <1>5 DEF ClientInv, Inv
<1> QED
  BY <1>5, <1>7, <1>8 DEF Inv

\* What a step of the server or of the shell leaves alone of the client's.
LEMMA ServerStep ==
    ASSUME Inv, UNCHANGED client, ackSent'["client"] = ackSent["client"],
           PubOK', TransportInv', Growing', LoopsOK', ServerInv', LogInv', ShellInv'
    PROVE  Inv'
<1>1. ClientInv'
  BY DEF ClientInv, Inv, client
<1> QED
  BY <1>1, TypeParts DEF Inv

\* What most steps of the server need of the invariant.
LEMMA InvFacts ==
    ASSUME Inv
    PROVE  /\ TypeOK /\ PubOK /\ LoopsOK /\ TransportInv /\ Growing
           /\ Len(stream) \in Nat \ {0}
           /\ Num \subseteq Nat /\ got["server"] \in DOMAIN pub["client"]
           /\ DOMAIN pub["client"] \subseteq Num
<1>1. PubOK /\ LoopsOK /\ TypeOK
  BY TypeParts DEF Inv
<1>2. got["server"] \in DOMAIN pub["client"] /\ DOMAIN pub["client"] \subseteq Num
  BY <1>1, PeerFacts DEF PubOK
<1>3. Len(stream) \in 1 .. MAX_EVENTS + 1 /\ MAX_EVENTS \in Nat
  BY SessionAssumption DEF Inv, ClientInv
<1>4. Len(stream) \in Nat \ {0} /\ Num \subseteq Nat
  BY <1>3, SessionAssumption DEF Num
<1> QED
  BY <1>1, <1>2, <1>4 DEF Inv, ClientInv

LEMMA WaitForClientInv == ASSUME Inv, WaitForClient PROVE Inv'
<1>1. spc = "waiting" /\ Recv("server") /\ UNCHANGED <<client, server, shell>>
  BY DEF WaitForClient
<1>2. UNCHANGED <<stream, term, spc, first, seen, ptySize, ptyLog, frames, cpc, painted, left>>
  BY <1>1 DEF client, server
<1>3. UNCHANGED <<child, written, unread, channel, eof>>
  BY <1>1 DEF shell
<1>4. Received("server")
  BY <1>1, InvFacts, PeerFacts, RecvFacts
<1>5. PubOK' /\ TransportInv' /\ Growing'
  BY <1>2, <1>4, InvFacts, PeerFacts, RecvTransport
<1>6. /\ pub'["client"] = pub["client"] /\ shut' = shut /\ ackSent' = ackSent
      /\ net'["server"] = net["server"] /\ got'["server"] >= got["server"]
      /\ got'["server"] \in DOMAIN pub["client"]
  BY <1>4, PeerFacts DEF Received
<1>7. child = "none"
  BY <1>1 DEF Inv, ServerInv
<1>8. LoopsOK'
  BY <1>2, <1>3, <1>6, InvFacts DEF LoopsOK
<1>9. ServerInv'
  <2>1. seen \in Nat /\ got["server"] \in Nat /\ got'["server"] \in Nat
    BY <1>6, InvFacts DEF LoopsOK
  <2>2. seen <= got["server"]
    BY DEF Inv, ServerInv
  <2>3. seen <= got'["server"]
    BY <1>6, <2>1, <2>2
  <2> QED
    BY <1>1, <1>2, <1>3, <1>6, <2>3 DEF Inv, ServerInv
<1>10. LogInv'
  BY <1>3, <1>7 DEF LogInv
<1>11. ShellInv'
  BY <1>2, <1>3 DEF Inv, ShellInv, Queued
<1> QED
  BY <1>1, <1>5, <1>6, <1>8, <1>9, <1>10, <1>11, ServerStep

\* The transport's share when a step of the server or of the shell leaves the
\* transport alone but for its own shutdown.
LEMMA QuietServer ==
    ASSUME Inv, UNCHANGED <<pub, got, ackSent, net, stream>>,
           shut'["client"] = shut["client"], shut["server"] => shut'["server"] /\ term' = term
    PROVE  PubOK' /\ TransportInv' /\ Growing'
<1>1. \A e \in Endpoint : shut[e] => shut'[e] /\ Current(e)' = Current(e)
  BY PeerFacts DEF Current
<1>2. Len(stream) \in Nat /\ Len(stream') = Len(stream)
  BY InvFacts
<1>3. Len(stream) <= Len(stream')
  BY <1>2
<1> QED
  BY <1>1, <1>2, <1>3, InvFacts, LoopTransport

LEMMA ServerGivesUpInv == ASSUME Inv, ServerGivesUp PROVE Inv'
<1>1. /\ spc = "waiting" /\ spc' = "exited"
      /\ UNCHANGED <<transport, client, shell, first, seen, ptySize, ptyLog, term, frames>>
  BY DEF ServerGivesUp
<1>2. UNCHANGED <<pub, shut, got, ackSent, net, stream>>
  BY <1>1 DEF transport, client
<1>3. UNCHANGED <<child, written, unread, channel, eof, cpc, painted, left>>
  BY <1>1 DEF shell, client
<1>4. PubOK' /\ TransportInv' /\ Growing'
  BY <1>1, <1>2, QuietServer
<1>5. LoopsOK'
  BY <1>1, <1>2, <1>3, InvFacts DEF LoopsOK
<1>6. ServerInv'
  BY <1>1, <1>2, <1>3 DEF Inv, ServerInv
<1>7. LogInv'
  BY <1>1, <1>3 DEF Inv, ServerInv, LogInv
<1>8. ShellInv'
  BY <1>1, <1>3 DEF Inv, ShellInv, Queued
<1> QED
  BY <1>1, <1>2, <1>4, <1>5, <1>6, <1>7, <1>8, ServerStep

LEMMA SpawnShellInv == ASSUME Inv, SpawnShell PROVE Inv'
<1>1. /\ spc = "waiting" /\ spc' = "select" /\ got["server"] # 0
      /\ ptySize' = LastSize(EventsBetween(0, got["server"]), DefaultSize)
      /\ term' = [term EXCEPT !.size = ptySize']
      /\ first' = pub["client"][got["server"]] /\ seen' = got["server"]
      /\ child' = "running"
      /\ UNCHANGED <<transport, client, ptyLog, frames, written, unread, channel, eof>>
  BY DEF SpawnShell
<1>2. UNCHANGED <<pub, shut, got, ackSent, net, stream, cpc, painted, left>>
  BY <1>1 DEF transport, client
<1>3. /\ child = "none" /\ ~shut["server"] /\ net["server"] = {} /\ ptyLog = <<>>
      /\ channel = <<>> /\ seen = 0
  BY <1>1 DEF Inv, ServerInv
<1>4. PubOK' /\ TransportInv' /\ Growing'
  BY <1>2, <1>3, QuietServer
<1>5. ptySize' \in Sizes
  <2>1. 0 \in DOMAIN pub["client"] /\ 0 <= got["server"]
    <3>1. seen \in DOMAIN pub["client"] /\ got["server"] \in Nat
      BY InvFacts DEF LoopsOK
    <3> QED
      BY <1>3, <3>1
  <2>2. EventsBetween(0, got["server"]) \in Seq(Event)
    BY <2>1, InvFacts, BetweenFacts
  <2> QED
    BY <1>1, <2>2, LastSizeType, SessionAssumption
<1>6. term' \in Terminal /\ term'.shown = term.shown /\ term'.echo = term.echo
  <2>1. term \in [shown : 0 .. MAX_OUTPUT, size : Sizes, echo : Num]
    BY InvFacts DEF LoopsOK, Terminal
  <2> QED
    BY <1>1, <1>5, <2>1 DEF Terminal
<1>7. first' \in 0 .. Len(stream') /\ first' \in Nat
  <2>1. pub["client"][got["server"]] \in 1 .. Len(stream) /\ Len(stream) \in Nat
    BY InvFacts DEF PubOK
  <2> QED
    BY <1>1, <1>2, <2>1
<1>8. LoopsOK'
  <2>1. seen' \in DOMAIN pub'["client"]
    BY <1>1, <1>2, InvFacts
  <2> QED
    BY <1>1, <1>2, <1>5, <1>6, <1>7, <2>1, InvFacts DEF LoopsOK
<1>9. ServerInv'
  <2>1. seen' <= got'["server"]
    BY <1>1, <1>2, InvFacts
  <2> QED
    BY <1>1, <1>2, <1>3, <1>6, <2>1 DEF Inv, ServerInv
<1>10. LogInv'
  BY <1>1, <1>2, <1>3, <1>7 DEF LogInv
<1>11. ShellInv'
  BY <1>1, <1>6 DEF Inv, ShellInv, Queued
<1> QED
  BY <1>1, <1>2, <1>4, <1>8, <1>9, <1>10, <1>11, ServerStep

\* The log, when the server has handled nothing new.
LEMMA LogStays ==
    ASSUME Inv, UNCHANGED <<stream, seen, first, ptyLog>>,
           child' # "none" => child # "none", pub'["client"] = pub["client"]
    PROVE  LogInv'
<1>1. pub'["client"][seen] = pub["client"][seen] /\ \A i \in 1 .. Len(stream) : stream'[i] = stream[i]
  OBVIOUS
<1> QED
  BY <1>1, LogKept DEF Inv

\* Taking an event from the channel.
LEMMA ChannelTail ==
    ASSUME Inv, channel # <<>>, channel' = Tail(channel)
    PROVE  /\ channel' \in Seq({"output", "exited"}) /\ Len(channel') <= CHANNEL
           /\ \A i \in DOMAIN channel' : channel'[i] = "exited" => eof /\ i = Len(channel')
           /\ Head(channel) = "output" => Queued \in Nat \ {0} /\ Queued' = Queued - 1
           /\ Head(channel) = "exited" => Queued = 0 /\ Queued' = 0
           /\ Head(channel) \in {"output", "exited"}
<1>1. /\ channel \in Seq({"output", "exited"}) /\ Len(channel) <= CHANNEL /\ CHANNEL \in Nat
      /\ \A i \in DOMAIN channel : channel[i] = "exited" => eof /\ i = Len(channel)
  BY InvFacts, SessionAssumption DEF Inv, LoopsOK, ShellInv
<1> DEFINE n == Len(channel)
<1>2. /\ n \in Nat \ {0} /\ channel' \in Seq({"output", "exited"}) /\ Len(channel') = n - 1
      /\ \A i \in 1 .. n - 1 : channel'[i] = channel[i + 1]
      /\ DOMAIN channel = 1 .. n /\ DOMAIN channel' = 1 .. n - 1 /\ Head(channel) = channel[1]
      /\ channel[1] \in {"output", "exited"}
  BY <1>1
<1> HIDE DEF n
<1>3. Len(channel') <= CHANNEL
  BY <1>1, <1>2 DEF n
<1>4. ASSUME NEW i \in DOMAIN channel', channel'[i] = "exited"
      PROVE  eof /\ i = Len(channel')
  <2>1. i + 1 \in DOMAIN channel /\ channel[i + 1] = "exited"
    BY <1>2, <1>4
  <2>2. eof /\ i + 1 = n
    BY <1>1, <2>1 DEF n
  <2> QED
    BY <1>2, <1>4, <2>2
<1>5. CASE channel[1] = "output"
  <2>1. CASE channel[n] = "exited"
    <3>1. n > 1 /\ channel'[n - 1] = channel[n] /\ n - 1 \in Nat \ {0}
      BY <1>2, <1>5, <2>1
    <3>2. channel' # <<>>
      BY <1>2, <3>1
    <3>3. Queued = n - 1
      BY <2>1 DEF Queued, n
    <3>4. Queued' = n - 2
      BY <1>2, <2>1, <3>1, <3>2 DEF Queued
    <3> QED
      BY <1>2, <1>3, <1>4, <1>5, <3>1, <3>3, <3>4
  <2>2. CASE channel[n] # "exited"
    <3>1. Queued = n
      BY <2>2 DEF Queued, n
    <3>2. Queued' = n - 1
      <4>1. CASE n = 1
        BY <1>2, <4>1 DEF Queued
      <4>2. CASE n # 1
        <5>1. channel'[n - 1] = channel[n]
          BY <1>2, <4>2
        <5> QED
          BY <1>2, <2>2, <5>1 DEF Queued
      <4> QED
        BY <4>1, <4>2
    <3> QED
      BY <1>2, <1>3, <1>4, <1>5, <3>1, <3>2
  <2> QED
    BY <2>1, <2>2
<1>6. CASE channel[1] = "exited"
  <2>1. n = 1
    BY <1>1, <1>2, <1>6 DEF n
  <2>2. Queued = 0
    BY <1>6, <2>1 DEF Queued, n
  <2>3. channel' = <<>>
    BY <1>2, <2>1
  <2>4. Queued' = 0
    BY <2>3 DEF Queued
  <2> QED
    BY <1>2, <1>3, <1>4, <1>6, <2>2, <2>4
<1> QED
  BY <1>2, <1>5, <1>6

LEMMA ServerSelectInv == ASSUME Inv, ServerSelect PROVE Inv'
<1>1. /\ spc = "select" /\ spc' = "input"
      /\ UNCHANGED <<client, first, seen, ptySize, ptyLog, frames, child, written, unread, eof>>
  BY DEF ServerSelect
<1>2. UNCHANGED <<cpc, stream, painted, left>>
  BY <1>1 DEF client
<1>3. child # "none" /\ shut \in [Endpoint -> BOOLEAN] /\ seen <= got["server"]
  BY <1>1, InvFacts DEF Inv, ServerInv, LoopsOK
<1>4. /\ term \in [shown : 0 .. MAX_OUTPUT, size : Sizes, echo : Num] /\ MAX_OUTPUT \in Nat
      /\ written \in 0 .. MAX_OUTPUT /\ unread \in 0 .. written
      /\ term.shown + Queued + unread <= written
  BY InvFacts, SessionAssumption DEF LoopsOK, Terminal, Inv, ShellInv
<1>5. CASE HandlePtyEvent
  <2>1. channel # <<>> /\ channel' = Tail(channel)
    BY <1>5 DEF HandlePtyEvent
  <2>2. /\ channel' \in Seq({"output", "exited"}) /\ Len(channel') <= CHANNEL
        /\ \A i \in DOMAIN channel' : channel'[i] = "exited" => eof /\ i = Len(channel')
        /\ Head(channel) = "output" => Queued \in Nat \ {0} /\ Queued' = Queued - 1
        /\ Head(channel) = "exited" => Queued = 0 /\ Queued' = 0
    BY <2>1, ChannelTail
  <2>3. /\ UNCHANGED <<pub, got, ackSent, net>> /\ shut' \in [Endpoint -> BOOLEAN]
        /\ shut'["client"] = shut["client"] /\ (shut["server"] => shut'["server"])
    BY <1>3, <1>5, PeerFacts DEF HandlePtyEvent, StartShutdown, transport
  <2>4. shut["server"] => term' = term
    BY <1>5 DEF HandlePtyEvent
  <2>5. term'.shown + Queued' + unread <= written /\ term' \in Terminal /\ term'.echo = term.echo
    <3>1. CASE term' = term
      <4>1. Head(channel) \in {"output", "exited"}
        BY <2>1, ChannelTail
      <4> QED
        BY <1>4, <2>2, <3>1, <4>1 DEF Terminal
    <3>2. CASE Head(channel) = "output" /\ term' = [term EXCEPT !.shown = @ + 1]
      <4>1. Queued \in Nat \ {0} /\ Queued' = Queued - 1
        BY <2>2, <3>2
      <4>2. term'.shown = term.shown + 1 /\ term'.echo = term.echo /\ term'.size = term.size
            /\ term.shown \in Nat
        BY <1>4, <3>2
      <4>3. term.shown + 1 \in 0 .. MAX_OUTPUT
        BY <1>4, <4>1, <4>2
      <4>4. term' \in Terminal
        BY <1>4, <3>2, <4>3 DEF Terminal
      <4> QED
        BY <1>4, <4>1, <4>2, <4>4
    <3> QED
      BY <1>5, <3>1, <3>2 DEF HandlePtyEvent
  <2>6. PubOK' /\ TransportInv' /\ Growing'
    BY <1>2, <2>3, <2>4, QuietServer
  <2>7. LoopsOK'
    BY <1>1, <1>2, <2>2, <2>3, <2>5, InvFacts DEF LoopsOK
  <2>8. ServerInv'
    BY <1>1, <1>3, <2>3, <2>5 DEF Inv, ServerInv
  <2>9. LogInv'
    BY <1>1, <1>2, <1>3, <2>3, LogStays
  <2>10. ShellInv'
    BY <1>1, <2>2, <2>5 DEF ShellInv
  <2> QED
    BY <1>1, <2>3, <2>6, <2>7, <2>8, <2>9, <2>10, ServerStep
<1>6. CASE Recv("server") /\ UNCHANGED <<channel, term>>
  <2>1. Received("server")
    BY <1>6, InvFacts, PeerFacts, RecvFacts
  <2>2. PubOK' /\ TransportInv' /\ Growing'
    BY <1>2, <1>6, <2>1, InvFacts, PeerFacts, RecvTransport
  <2>3. /\ pub'["client"] = pub["client"] /\ shut' = shut /\ ackSent' = ackSent
        /\ net'["server"] = net["server"] /\ got'["server"] >= got["server"]
        /\ got'["server"] \in DOMAIN pub["client"]
    BY <2>1, PeerFacts DEF Received
  <2>4. seen <= got'["server"]
    <3>1. seen \in Nat /\ got["server"] \in Nat /\ got'["server"] \in Nat
      BY <2>3, InvFacts DEF LoopsOK
    <3> QED
      BY <1>3, <2>3, <3>1
  <2>5. LoopsOK'
    BY <1>1, <1>2, <1>6, <2>3, InvFacts DEF LoopsOK
  <2>6. ServerInv'
    BY <1>1, <1>3, <1>6, <2>3, <2>4 DEF Inv, ServerInv
  <2>7. LogInv'
    BY <1>1, <1>2, <1>3, <2>3, LogStays
  <2>8. ShellInv'
    BY <1>1, <1>6 DEF Inv, ShellInv, Queued
  <2> QED
    BY <1>1, <2>2, <2>3, <2>5, <2>6, <2>7, <2>8, ServerStep
<1>7. CASE UNCHANGED <<transport, channel, term>>
  <2>1. UNCHANGED <<pub, shut, got, ackSent, net>>
    BY <1>7 DEF transport
  <2>2. PubOK' /\ TransportInv' /\ Growing'
    BY <1>2, <1>7, <2>1, QuietServer
  <2>3. LoopsOK'
    BY <1>1, <1>2, <1>7, <2>1, InvFacts DEF LoopsOK
  <2>4. ServerInv'
    BY <1>1, <1>3, <1>7, <2>1 DEF Inv, ServerInv
  <2>5. LogInv'
    BY <1>1, <1>2, <1>3, <2>1, LogStays
  <2>6. ShellInv'
    BY <1>1, <1>7 DEF Inv, ShellInv, Queued
  <2> QED
    BY <1>1, <2>1, <2>2, <2>3, <2>4, <2>5, <2>6, ServerStep
<1> QED
  BY <1>5, <1>6, <1>7 DEF ServerSelect

\* The elements of a concatenation.
LEMMA ConcatFacts ==
    ASSUME NEW S, NEW s \in Seq(S), NEW t \in Seq(S)
    PROVE  /\ s \o t \in Seq(S) /\ Len(s \o t) = Len(s) + Len(t)
           /\ \A i \in 1 .. Len(s) : (s \o t)[i] = s[i]
           /\ \A i \in 1 .. Len(t) : (s \o t)[Len(s) + i] = t[i]
OBVIOUS

\* The elements of a sequence after the first n.
LEMMA SubSeqFacts ==
    ASSUME NEW S, NEW s \in Seq(S), NEW n \in 0 .. Len(s)
    PROVE  /\ SubSeq(s, n + 1, Len(s)) \in Seq(S)
           /\ Len(SubSeq(s, n + 1, Len(s))) = Len(s) - n
           /\ \A k \in 1 .. Len(s) - n : SubSeq(s, n + 1, Len(s))[k] = s[n + k]
OBVIOUS

\* What handle_client_input writes: every event in its place, but for a resize
\* that the next event supersedes.
LEMMA AppliedFacts ==
    ASSUME NEW events \in Seq(Event)
    PROVE  /\ Applied(events) \in Seq(Event \cup {Skipped})
           /\ Len(Applied(events)) = Len(events)
           /\ \A i \in 1 .. Len(events) :
                 \/ Applied(events)[i] = events[i]
                 \/ /\ Applied(events)[i] = Skipped /\ IsResize(events[i])
                    /\ i < Len(events) /\ IsResize(events[i + 1])
<1> DEFINE n == Len(events)
<1>1. n \in Nat /\ DOMAIN events = 1 .. n
  OBVIOUS
<1>2. Applied(events) \in [1 .. n -> Event \cup {Skipped}]
  BY <1>1 DEF Applied
<1>3. Applied(events) \in Seq(Event \cup {Skipped}) /\ Len(Applied(events)) = n
  BY <1>1, <1>2
<1>4. \A i \in 1 .. n :
         \/ Applied(events)[i] = events[i]
         \/ /\ Applied(events)[i] = Skipped /\ IsResize(events[i])
            /\ i < Len(events) /\ IsResize(events[i + 1])
  BY <1>1 DEF Applied
<1> QED
  BY <1>3, <1>4

LEMMA HandleClientInputInv == ASSUME Inv, HandleClientInput PROVE Inv'
<1> DEFINE g == got["server"]
           events == EventsBetween(seen, g)
<1>1. /\ spc = "input" /\ spc' = "housekeeping" /\ seen' = g
      /\ UNCHANGED <<transport, client, first, shell>>
      /\ ptyLog' = ptyLog \o Applied(events) /\ ptySize' = LastSize(events, ptySize)
      /\ \/ UNCHANGED <<term, frames>>
         \/ /\ ~shut["server"] /\ term' = [term EXCEPT !.size = ptySize']
            /\ frames' = frames \cup {g}
  BY DEF HandleClientInput
<1>2. UNCHANGED <<pub, shut, got, ackSent, net, cpc, stream, painted, left>>
  BY <1>1 DEF transport, client
<1>3. UNCHANGED <<child, written, unread, channel, eof>>
  BY <1>1 DEF shell
<1>4. child # "none" /\ seen <= g /\ g \in DOMAIN pub["client"] /\ seen \in DOMAIN pub["client"]
      /\ ptyLog \in Seq(Event \cup {Skipped}) /\ ptySize \in Sizes
      /\ pub["client"][seen] = first + Len(ptyLog)
      /\ \A j \in DOMAIN ptyLog : Logged(j)
  BY <1>1, InvFacts DEF Inv, ServerInv, LoopsOK, LogInv
<1>5. /\ events \in Seq(Event) /\ Len(events) = pub["client"][g] - pub["client"][seen]
      /\ \A i \in 1 .. Len(events) : events[i] = stream[pub["client"][seen] + i]
  BY <1>4, InvFacts, BetweenFacts
<1> DEFINE log == Applied(events)
<1>6. /\ log \in Seq(Event \cup {Skipped}) /\ Len(log) = Len(events)
      /\ \A i \in 1 .. Len(events) :
            \/ log[i] = events[i]
            \/ /\ log[i] = Skipped /\ IsResize(events[i])
               /\ i < Len(events) /\ IsResize(events[i + 1])
  BY <1>5, AppliedFacts
<1>7. ptySize' \in Sizes
  BY <1>1, <1>4, <1>5, LastSizeType
<1>8. ptyLog' = ptyLog \o log
  BY <1>1
<1> HIDE DEF events, log
<1>9. /\ ptyLog' \in Seq(Event \cup {Skipped}) /\ Len(ptyLog') = Len(ptyLog) + Len(events)
      /\ \A j \in 1 .. Len(ptyLog) : ptyLog'[j] = ptyLog[j]
      /\ \A i \in 1 .. Len(events) : ptyLog'[Len(ptyLog) + i] = log[i]
  <2>1. Len(log) \in Nat /\ Len(ptyLog) \in Nat /\ Len(log) = Len(events)
    BY <1>4, <1>6
  <2> DEFINE both == ptyLog \o log
             Entry == Event \cup {Skipped}
  <2>2. /\ both \in Seq(Entry) /\ Len(both) = Len(ptyLog) + Len(log)
        /\ \A j \in 1 .. Len(ptyLog) : both[j] = ptyLog[j]
        /\ \A i \in 1 .. Len(log) : both[Len(ptyLog) + i] = log[i]
    <3>1. ptyLog \in Seq(Entry) /\ log \in Seq(Entry)
      BY <1>4, <1>6
    <3> HIDE DEF Entry, both
    <3> QED
      BY <3>1, ConcatFacts DEF both
  <2> HIDE DEF both
  <2>3. ptyLog' = both
    BY <1>8 DEF both
  <2> QED
    BY <2>1, <2>2, <2>3
<1>10. /\ first \in Nat /\ Len(ptyLog) \in Nat /\ Len(events) \in Nat
       /\ pub["client"][g] \in Nat
  BY <1>4, <1>5, InvFacts, SMTT(30) DEF LoopsOK, PubOK
<1>11. LogInv'
  <2>1. pub'["client"][seen'] = first' + Len(ptyLog')
    BY <1>1, <1>2, <1>4, <1>5, <1>9, <1>10
  <2>2. ASSUME NEW j \in 1 .. Len(ptyLog) PROVE Logged(j)'
    <3>1. Logged(j) /\ ptyLog'[j] = ptyLog[j]
      BY <1>4, <1>9, <1>10
    <3>2. j < Len(ptyLog) => j < Len(ptyLog')
      BY <1>9, <1>10
    <3>3. first' = first /\ stream' = stream
      BY <1>1, <1>2
    <3> QED
      BY <3>1, <3>2, <3>3 DEF Logged
  <2>3. ASSUME NEW j, NEW i \in 1 .. Len(events), j = Len(ptyLog) + i
        PROVE  Logged(j)'
    <3>1. ptyLog'[j] = log[i] /\ stream[first + j] = events[i]
      <4>1. first + j = pub["client"][seen] + i
        BY <1>4, <1>10, <2>3
      <4> QED
        BY <1>5, <1>9, <2>3, <4>1
    <3>2. i < Len(events) => j < Len(ptyLog') /\ stream[first + j + 1] = events[i + 1]
      BY <1>4, <1>5, <1>9, <1>10, <2>3
    <3>3. first' = first /\ stream' = stream
      BY <1>1, <1>2
    <3> QED
      BY <1>6, <3>1, <3>2, <3>3 DEF Logged
  <2>4. ASSUME NEW j \in DOMAIN ptyLog' PROVE Logged(j)'
    <3>1. j \in 1 .. Len(ptyLog) + Len(events)
      BY <1>9
    <3>2. CASE j \in 1 .. Len(ptyLog)
      BY <2>2, <3>2
    <3>3. CASE j \notin 1 .. Len(ptyLog)
      <4>1. j - Len(ptyLog) \in 1 .. Len(events) /\ j = Len(ptyLog) + (j - Len(ptyLog))
        BY <1>10, <3>1, <3>3
      <4> QED
        BY <2>3, <4>1
    <3> QED
      BY <3>2, <3>3
  <2> QED
    BY <2>1, <2>4 DEF LogInv
<1>12. PubOK' /\ TransportInv' /\ Growing'
  BY <1>1, <1>2, QuietServer
<1>13. /\ term' \in Terminal /\ term'.shown = term.shown /\ term'.echo = term.echo
       /\ frames' \subseteq Num /\ frames \subseteq frames'
  <2>1. term \in [shown : 0 .. MAX_OUTPUT, size : Sizes, echo : Num] /\ frames \subseteq Num
        /\ g \in Num
    BY <1>4, InvFacts DEF LoopsOK, Terminal
  <2>2. CASE UNCHANGED <<term, frames>>
    BY <2>1, <2>2 DEF Terminal
  <2>3. CASE term' = [term EXCEPT !.size = ptySize'] /\ frames' = frames \cup {g}
    BY <1>7, <2>1, <2>3 DEF Terminal
  <2> QED
    BY <1>1, <2>2, <2>3
<1>14. LoopsOK'
  <2>1. seen' \in DOMAIN pub'["client"]
    BY <1>1, <1>2, <1>4
  <2> QED
    BY <1>1, <1>2, <1>3, <1>7, <1>9, <1>13, <2>1, InvFacts DEF LoopsOK
<1>15. ServerInv'
  <2>1. ASSUME NEW m \in net'["server"] PROVE m.ack <= seen'
    <3>1. m.ack <= seen /\ m \in [num : Num, ack : Num]
      BY <1>2, <2>1, PeerFacts DEF Inv, ServerInv, TransportInv
    <3>2. m.ack \in Nat /\ seen \in Nat /\ g \in Nat
      BY <1>4, <3>1, InvFacts
    <3> QED
      BY <1>1, <1>4, <3>1, <3>2
  <2>2. seen' = got'["server"] /\ seen' <= got'["server"]
    BY <1>1, <1>2, InvFacts
  <2>3. term'.echo = 0 \/ term'.echo \in frames'
    BY <1>13 DEF Inv, ServerInv
  <2> QED
    BY <1>1, <1>2, <1>3, <1>4, <2>1, <2>2, <2>3 DEF ServerInv
<1>16. ShellInv'
  BY <1>3, <1>13 DEF Inv, ShellInv, Queued
<1> QED
  BY <1>1, <1>2, <1>11, <1>12, <1>14, <1>15, <1>16, ServerStep

\* set_echo_ack keeps the frame that the echo ack stands for.
LEMMA EchoFacts ==
    ASSUME Inv, SetEchoAck
    PROVE  /\ term' \in Terminal /\ term'.shown = term.shown
           /\ frames' \subseteq frames /\ (term'.echo = 0 \/ term'.echo \in frames')
           /\ term.echo <= term'.echo
<1>1. PICK old \in SUBSET frames :
          LET echo == IF old = {} THEN 0 ELSE Max(old)
          IN  /\ term.echo \in frames => term.echo \in old
              /\ term' = [term EXCEPT !.echo = echo]
              /\ frames' = {n \in frames : StillNeeded(n, echo)}
  BY DEF SetEchoAck
<1> DEFINE echo == IF old = {} THEN 0 ELSE Max(old)
<1>2. /\ term.echo \in frames => term.echo \in old
      /\ term' = [term EXCEPT !.echo = echo]
      /\ frames' = {n \in frames : n >= echo}
  BY <1>1 DEF StillNeeded
<1>3. /\ term \in [shown : 0 .. MAX_OUTPUT, size : Sizes, echo : Num]
      /\ frames \subseteq Num /\ 0 \in Num
      /\ term.echo = 0 \/ term.echo \in frames
  BY InvFacts, SessionAssumption DEF LoopsOK, Terminal, Inv, ServerInv, Num
<1>4. /\ echo \in Num /\ (echo = 0 \/ echo \in old)
      /\ \A n \in old : n <= echo
  <2>1. CASE old = {}
    BY <1>3, <2>1
  <2>2. CASE old # {}
    <3>1. old \in SUBSET Num
      BY <1>3
    <3> QED
      BY <2>2, <3>1, Ends
  <2> QED
    BY <2>1, <2>2
<1> HIDE DEF echo
<1>5. echo \in Nat /\ term.echo \in Nat
  BY <1>3, <1>4, InvFacts
<1>6. term' \in Terminal /\ term'.shown = term.shown /\ term'.echo = echo
  BY <1>2, <1>3, <1>4 DEF Terminal
<1>7. echo = 0 \/ echo \in frames'
  BY <1>2, <1>4, <1>5
<1>8. term.echo <= echo
  BY <1>2, <1>3, <1>4, <1>5
<1> QED
  BY <1>2, <1>6, <1>7, <1>8

\* What housekeeping does to the terminal and the frames.
LEMMA HousekeepingFacts ==
    ASSUME Inv, Housekeeping
    PROVE  /\ spc = "housekeeping" /\ spc' \in {"exited", "tick"}
           /\ UNCHANGED <<pub, got, ackSent, net, client, first, seen,
                          ptySize, ptyLog, written, unread, channel, eof>>
           /\ shut' \in [Endpoint -> BOOLEAN] /\ shut'["client"] = shut["client"]
           /\ shut["server"] => shut'["server"] /\ term' = term
           /\ child' \in {child, "exited"}
           /\ term' \in Terminal /\ term'.shown = term.shown
           /\ frames' \subseteq frames /\ (term'.echo = 0 \/ term'.echo \in frames')
           /\ term.echo <= term'.echo
<1>1. /\ spc = "housekeeping"
      /\ UNCHANGED <<pub, got, ackSent, net, client, first, seen,
                     ptySize, ptyLog, written, unread, channel, eof>>
      /\ child' \in {child, "exited"}
  BY DEF Housekeeping
<1>2. spc' \in {"exited", "tick"}
  BY DEF Housekeeping
<1>3. /\ shut' \in [Endpoint -> BOOLEAN] /\ shut'["client"] = shut["client"]
      /\ shut["server"] => shut'["server"]
  <2>1. shut \in [Endpoint -> BOOLEAN]
    BY InvFacts DEF LoopsOK
  <2>2. shut' = shut \/ shut' = [shut EXCEPT !["server"] = TRUE]
    BY DEF Housekeeping, StartShutdown
  <2> QED
    BY <2>1, <2>2, PeerFacts
<1>4. CASE shut'["server"]
  <2>1. UNCHANGED <<term, frames>>
    BY <1>4 DEF Housekeeping
  <2>2. term \in [shown : 0 .. MAX_OUTPUT, size : Sizes, echo : Num]
        /\ (term.echo = 0 \/ term.echo \in frames)
    BY InvFacts DEF LoopsOK, Terminal, Inv, ServerInv
  <2>3. term.echo <= term.echo
    BY <2>2, InvFacts
  <2> QED
    BY <1>1, <1>2, <1>3, <2>1, <2>2, <2>3 DEF Terminal
<1>5. CASE ~shut'["server"]
  <2>1. SetEchoAck
    BY <1>5 DEF Housekeeping
  <2> QED
    BY <1>1, <1>2, <1>3, <1>5, <2>1, EchoFacts
<1> QED
  BY <1>4, <1>5

LEMMA HousekeepingInv == ASSUME Inv, Housekeeping PROVE Inv'
<1>1. /\ spc = "housekeeping" /\ spc' \in {"exited", "tick"}
      /\ UNCHANGED <<pub, got, ackSent, net, client, first, seen,
                     ptySize, ptyLog, written, unread, channel, eof>>
      /\ shut' \in [Endpoint -> BOOLEAN] /\ shut'["client"] = shut["client"]
      /\ shut["server"] => shut'["server"] /\ term' = term
      /\ child' \in {child, "exited"}
      /\ term' \in Terminal /\ term'.shown = term.shown
      /\ frames' \subseteq frames /\ (term'.echo = 0 \/ term'.echo \in frames')
  BY HousekeepingFacts
<1>2. UNCHANGED <<cpc, stream, painted, left>>
  BY <1>1 DEF client
<1>3. child # "none" /\ seen = got["server"]
  BY <1>1 DEF Inv, ServerInv
<1>4. PubOK' /\ TransportInv' /\ Growing'
  BY <1>1, <1>2, QuietServer
<1>5. LoopsOK'
  <2>1. child' \in {"none", "running", "exited"} /\ frames' \subseteq Num
    BY <1>1, InvFacts DEF LoopsOK
  <2> QED
    BY <1>1, <1>2, <2>1, InvFacts DEF LoopsOK
<1>6. ServerInv'
  BY <1>1, <1>3 DEF Inv, ServerInv
<1>7. LogInv'
  BY <1>1, <1>2, <1>3, LogStays
<1>8. ShellInv'
  BY <1>1 DEF Inv, ShellInv, Queued
<1> QED
  BY <1>1, <1>4, <1>5, <1>6, <1>7, <1>8, ServerStep

LEMMA ServerTickInv == ASSUME Inv, ServerTick PROVE Inv'
<1>1. /\ spc = "tick" /\ spc' = "select" /\ Tick("server")
      /\ UNCHANGED <<client, first, seen, ptySize, ptyLog, term, frames, shell>>
  BY DEF ServerTick
<1>2. UNCHANGED <<cpc, stream, painted, left>>
  BY <1>1 DEF client
<1>3. UNCHANGED <<child, written, unread, channel, eof>>
  BY <1>1 DEF shell
<1>4. Ticked("server")
  BY <1>1, InvFacts, PeerFacts, TickFacts
<1>5. PubOK' /\ TransportInv' /\ Growing'
  BY <1>1, <1>2, <1>4, InvFacts, PeerFacts, TickTransport
<1>6. /\ shut' = shut /\ got' = got /\ pub'["client"] = pub["client"]
      /\ ackSent'["client"] = ackSent["client"]
      /\ \A m \in net'["server"] : m \in net["server"] \/ m.ack = got["server"]
  BY <1>4, PeerFacts DEF Ticked
<1>7. child # "none" /\ seen = got["server"] /\ seen <= got["server"]
      /\ \A m \in net["server"] : m.ack <= seen
  BY <1>1 DEF Inv, ServerInv
<1>8. LoopsOK'
  BY <1>1, <1>2, <1>3, <1>6, InvFacts DEF LoopsOK
<1>9. ServerInv'
  BY <1>1, <1>3, <1>6, <1>7 DEF Inv, ServerInv
<1>10. LogInv'
  BY <1>1, <1>2, <1>3, <1>6, LogStays
<1>11. ShellInv'
  BY <1>1, <1>3 DEF Inv, ShellInv, Queued
<1> QED
  BY <1>1, <1>5, <1>6, <1>8, <1>9, <1>10, <1>11, ServerStep

\* A step of the shell, or of the thread that reads its pty.
LEMMA ShellStep ==
    ASSUME Inv, UNCHANGED <<transport, client, server>>,
           child' \in {"none", "running", "exited"}, child # "none", child' # "none",
           written' \in 0 .. MAX_OUTPUT, unread' \in 0 .. written',
           channel' \in Seq({"output", "exited"}), Len(channel') <= CHANNEL, eof' \in BOOLEAN,
           ShellInv'
    PROVE  Inv'
<1>1. UNCHANGED <<pub, shut, got, ackSent, net, cpc, stream, painted, left>>
  BY DEF transport, client
<1>2. UNCHANGED <<spc, first, seen, ptySize, ptyLog, term, frames>>
  BY DEF server
<1>3. PubOK' /\ TransportInv' /\ Growing'
  BY <1>1, <1>2, QuietServer
<1>4. LoopsOK'
  BY <1>1, <1>2, InvFacts DEF LoopsOK
<1>5. ServerInv'
  BY <1>1, <1>2 DEF Inv, ServerInv
<1>6. LogInv'
  BY <1>1, <1>2, LogStays
<1> QED
  BY <1>1, <1>3, <1>4, <1>5, <1>6, ServerStep

LEMMA ShellWritesInv == ASSUME Inv, ShellWrites PROVE Inv'
<1>1. /\ child = "running" /\ written < MAX_OUTPUT
      /\ written' = written + 1 /\ unread' = unread + 1
      /\ UNCHANGED <<transport, client, server, child, channel, eof>>
  BY DEF ShellWrites
<1>2. /\ written \in 0 .. MAX_OUTPUT /\ unread \in 0 .. written /\ MAX_OUTPUT \in Nat
      /\ channel \in Seq({"output", "exited"}) /\ Len(channel) <= CHANNEL /\ eof \in BOOLEAN
      /\ term.shown \in Nat /\ Queued \in Int
      /\ term.shown + Queued + unread <= written
      /\ \A i \in DOMAIN channel : channel[i] = "exited" => eof /\ i = Len(channel)
  BY InvFacts, SessionAssumption DEF LoopsOK, Inv, ShellInv, Terminal, Queued
<1>3. written' \in 0 .. MAX_OUTPUT /\ unread' \in 0 .. written'
  BY <1>1, <1>2
<1>4. term' = term /\ Queued' = Queued
  BY <1>1 DEF server, Queued
<1>5. ShellInv'
  <2>1. term'.shown + Queued' + unread' <= written'
    BY <1>1, <1>2, <1>4
  <2> QED
    BY <1>1, <1>2, <2>1 DEF ShellInv
<1> QED
  BY <1>1, <1>2, <1>3, <1>5, ShellStep

LEMMA ShellExitsInv == ASSUME Inv, ShellExits PROVE Inv'
<1>1. /\ child = "running" /\ child' = "exited"
      /\ UNCHANGED <<transport, client, server, written, unread, channel, eof>>
  BY DEF ShellExits
<1>2. LoopsOK /\ ShellInv
  BY InvFacts DEF Inv
<1>3. ShellInv'
  BY <1>1, <1>2 DEF ShellInv, Queued, server
<1> QED
  BY <1>1, <1>2, <1>3, ShellStep DEF LoopsOK

LEMMA ReaderSendsInv == ASSUME Inv, ReaderSends PROVE Inv'
<1>1. /\ ~eof /\ ~(Len(channel) >= CHANNEL)
      /\ UNCHANGED <<transport, client, server, child, written>>
      /\ \/ /\ unread > 0 /\ unread' = unread - 1
            /\ channel' = Append(channel, "output") /\ eof' = eof
         \/ /\ unread = 0 /\ child = "exited" /\ unread' = unread
            /\ channel' = Append(channel, "exited") /\ eof' = TRUE
  BY DEF ReaderSends, ChannelFull
<1>2. /\ written \in 0 .. MAX_OUTPUT /\ unread \in 0 .. written /\ MAX_OUTPUT \in Nat
      /\ channel \in Seq({"output", "exited"}) /\ CHANNEL \in Nat /\ eof \in BOOLEAN
      /\ term.shown \in Nat /\ child \in {"none", "running", "exited"}
      /\ term.shown + Queued + unread <= written
      /\ \A i \in DOMAIN channel : channel[i] = "exited" => eof /\ i = Len(channel)
  BY InvFacts, SessionAssumption DEF LoopsOK, Inv, ShellInv, Terminal
<1>3. child # "none"
  BY <1>1, <1>2 DEF Inv, ServerInv
<1>4. \A i \in DOMAIN channel : channel[i] # "exited"
  BY <1>1, <1>2
<1> DEFINE n == Len(channel)
<1>5. n \in Nat /\ Queued = n
  BY <1>2, <1>4 DEF Queued
<1>6. PICK ev \in {"output", "exited"} : channel' = Append(channel, ev)
  BY <1>1
<1>7. /\ channel' \in Seq({"output", "exited"}) /\ Len(channel') = n + 1
      /\ channel'[n + 1] = ev /\ \A i \in 1 .. n : channel'[i] = channel[i]
      /\ DOMAIN channel' = 1 .. n + 1 /\ DOMAIN channel = 1 .. n
  BY <1>2, <1>6
<1>8. channel' # <<>>
  BY <1>5, <1>7
<1>9. Queued' = IF ev = "exited" THEN n ELSE n + 1
  <2>1. Len(channel') - 1 = n /\ channel'[Len(channel')] = ev
    BY <1>5, <1>7
  <2> QED
    BY <1>7, <1>8, <2>1 DEF Queued
<1>10. term' = term
  BY <1>1 DEF server
<1> HIDE DEF n
<1>11. term'.shown + Queued' + unread' <= written' /\ unread' \in 0 .. written'
  <2>1. CASE unread > 0 /\ unread' = unread - 1 /\ channel' = Append(channel, "output")
    <3>1. ev = "output"
      BY <1>2, <1>7, <2>1 DEF n
    <3> QED
      BY <1>1, <1>2, <1>5, <1>9, <1>10, <2>1, <3>1
  <2>2. CASE unread = 0 /\ unread' = unread /\ channel' = Append(channel, "exited")
    <3>1. ev = "exited"
      BY <1>2, <1>7, <2>2 DEF n
    <3> QED
      BY <1>1, <1>2, <1>5, <1>9, <1>10, <2>2, <3>1
  <2> QED
    BY <1>1, <2>1, <2>2
<1>12. ASSUME NEW i \in DOMAIN channel', channel'[i] = "exited"
       PROVE  eof' /\ i = Len(channel')
  <2>1. i = n + 1
    BY <1>4, <1>5, <1>7, <1>12
  <2>2. ev = "exited"
    BY <1>7, <1>12, <2>1
  <2>3. eof'
    BY <1>1, <1>2, <1>6, <1>7, <2>2 DEF n
  <2> QED
    BY <1>7, <2>1, <2>3
<1>13. Len(channel') <= CHANNEL
  BY <1>1, <1>2, <1>5, <1>7 DEF n
<1>14. ShellInv'
  BY <1>11, <1>12 DEF ShellInv
<1> QED
  BY <1>1, <1>2, <1>3, <1>7, <1>11, <1>13, <1>14, ShellStep

\* The invariant is inductive.
LEMMA NextInv == ASSUME Inv, [Next]_vars PROVE Inv'
<1>1. CASE UNCHANGED vars
  <2>1. UNCHANGED <<transport, client, server, shell>>
    BY <1>1 DEF vars
  <2>2. /\ UNCHANGED <<pub, shut, got, ackSent, net>>
        /\ UNCHANGED <<cpc, stream, painted, left>>
        /\ UNCHANGED <<spc, first, seen, ptySize, ptyLog, term, frames>>
        /\ UNCHANGED <<child, written, unread, channel, eof>>
    BY <2>1 DEF transport, client, server, shell
  <2>3. PubOK' /\ TransportInv' /\ Growing'
    BY <2>2, QuietServer
  <2>4. LoopsOK'
    BY <2>2, InvFacts DEF LoopsOK
  <2>5. ServerInv'
    BY <2>2 DEF Inv, ServerInv
  <2>6. LogInv'
    BY <2>2, LogStays
  <2>7. ShellInv'
    BY <2>2 DEF Inv, ShellInv, Queued
  <2> QED
    BY <2>1, <2>2, <2>3, <2>4, <2>5, <2>6, <2>7, ServerStep
<1>2. CASE ClientLoop
  BY <1>2, ClientSelectInv, ClientCheckInv, ClientTickInv DEF ClientLoop
<1>3. CASE WaitForClient \/ ServerGivesUp \/ SpawnShell
  BY <1>3, WaitForClientInv, ServerGivesUpInv, SpawnShellInv
<1>4. CASE ServerLoop
  BY <1>4, ServerSelectInv, HandleClientInputInv, HousekeepingInv, ServerTickInv DEF ServerLoop
<1>5. CASE ShellWrites \/ ShellExits \/ ReaderSends
  BY <1>5, ShellWritesInv, ShellExitsInv, ReaderSendsInv
<1> QED
  BY <1>1, <1>2, <1>3, <1>4, <1>5 DEF Next

-----------------------------------------------------------------------------
(* What follows from the invariant. *)

\* Every reachable state satisfies the invariant: the transport, the two loops
\* and the shell as Session composes them.
THEOREM Invariance == Spec => []Inv
<1>1. Inv /\ [Next]_vars => Inv'
  BY NextInv
<1> QED
  BY InitInv, <1>1, PTL DEF Spec

\* The variables of a session keep their types: the numbers got are among the
\* states the peer still keeps, and the channel does not outgrow its capacity.
THEOREM TypeCorrect == Spec => []TypeOK
<1>1. Inv => TypeOK
  BY DEF Inv
<1> QED
  BY Invariance, <1>1, PTL

\* main of the client paints the server's last screen before it leaves because
\* the server has shut down.
THEOREM FinalFrame == Spec => []FinalFramePainted
<1>1. Inv => FinalFramePainted
  BY DEF Inv, ClientInv, FinalFramePainted
<1> QED
  BY Invariance, <1>1, PTL

\* Where the log has a key, and where the user typed one, the two agree, and so
\* do the sizes in force: the last resize before a key is never a skipped one.
LEMMA LogAgrees ==
    ASSUME Inv, child # "none", NEW size, NEW j \in DOMAIN ptyLog
    PROVE  LET typed == SubSeq(stream, first + 1, Len(stream))
           IN  /\ j \in DOMAIN typed /\ typed[j] = stream[first + j]
               /\ IsKey(typed[j]) <=> IsKey(ptyLog[j])
               /\ IsKey(typed[j]) =>
                     /\ ptyLog[j] = typed[j] /\ typed[j] = Key(first + j - 1)
                     /\ SizeAt(ptyLog, j, size) = SizeAt(typed, j, size)
<1> DEFINE typed == SubSeq(stream, first + 1, Len(stream))
           n == Len(ptyLog)
<1>1. /\ stream \in Seq(Event) /\ ptyLog \in Seq(Event \cup {Skipped})
      /\ first \in 0 .. Len(stream) /\ pub["client"][seen] \in 1 .. Len(stream)
      /\ pub["client"][seen] = first + n
      /\ \A k \in DOMAIN ptyLog : Logged(k)
      /\ \A i \in DOMAIN stream : IsKey(stream[i]) => stream[i] = Key(i - 1)
  BY InvFacts DEF LoopsOK, PubOK, Inv, LogInv, ClientInv
<1>2. n \in Nat /\ Len(stream) \in Nat /\ first \in Nat /\ first + n <= Len(stream)
      /\ DOMAIN ptyLog = 1 .. n /\ DOMAIN stream = 1 .. Len(stream)
  <2>1. n \in Nat /\ DOMAIN ptyLog = 1 .. n /\ Len(stream) \in Nat /\ DOMAIN stream = 1 .. Len(stream)
    BY <1>1
  <2> QED
    BY <1>1, <2>1
<1>3. /\ typed \in Seq(Event) /\ Len(typed) = Len(stream) - first
      /\ \A k \in 1 .. Len(stream) - first : typed[k] = stream[first + k]
  BY <1>1, <1>2, SubSeqFacts
<1>4. /\ \A k \in 1 .. n : typed[k] = stream[first + k] /\ k \in DOMAIN typed
      /\ DOMAIN typed = 1 .. Len(stream) - first
  <2>1. DOMAIN typed = 1 .. Len(typed)
    BY <1>3
  <2> QED
    BY <1>2, <1>3, <2>1
<1> HIDE DEF typed
<1>5. ASSUME NEW k \in 1 .. n
      PROVE  \/ ptyLog[k] = typed[k]
             \/ /\ ptyLog[k] = Skipped /\ IsResize(typed[k])
                /\ k < n /\ IsResize(typed[k + 1])
  <2>1. Logged(k)
    BY <1>1, <1>2
  <2>2. k < n => typed[k + 1] = stream[first + k + 1]
    BY <1>2, <1>4
  <2> QED
    BY <1>4, <2>1, <2>2 DEF Logged
<1>6. ~IsKey(Skipped) /\ ~IsResize(Skipped) /\ \A ev : ~(IsKey(ev) /\ IsResize(ev))
  BY DEF IsKey, IsResize, Skipped
<1>7. IsKey(typed[j]) <=> IsKey(ptyLog[j])
  BY <1>2, <1>5, <1>6
<1>8. ASSUME IsKey(typed[j])
      PROVE  /\ ptyLog[j] = typed[j] /\ typed[j] = Key(first + j - 1)
             /\ SizeAt(ptyLog, j, size) = SizeAt(typed, j, size)
  <2>1. ptyLog[j] = typed[j]
    BY <1>2, <1>5, <1>6, <1>8
  <2>2. typed[j] = Key(first + j - 1)
    <3>1. first + j \in DOMAIN stream /\ typed[j] = stream[first + j]
      BY <1>2, <1>4
    <3> QED
      BY <1>1, <1>8, <3>1
  <2> DEFINE a == SubSeq(ptyLog, 1, j)
             b == SubSeq(typed, 1, j)
             A == {k \in DOMAIN a : IsResize(a[k])}
             B == {k \in DOMAIN b : IsResize(b[k])}
  <2>3. /\ DOMAIN a = 1 .. j /\ DOMAIN b = 1 .. j /\ j \in Nat
        /\ \A k \in 1 .. j : k \in 1 .. n /\ a[k] = ptyLog[k] /\ b[k] = typed[k]
    BY <1>1, <1>2, <1>3, <1>4
  <2> HIDE DEF a, b
  <2>4. A \in SUBSET (0 .. j) /\ B \in SUBSET (0 .. j) /\ A \subseteq B
    BY <1>5, <1>6, <2>3
  <2>5. CASE B = {}
    <3>1. A = {}
      BY <2>4, <2>5
    <3>2. LastSize(a, size) = size /\ LastSize(b, size) = size
      BY <2>5, <3>1 DEF LastSize
    <3> QED
      BY <2>1, <2>2, <3>2 DEF SizeAt, a, b
  <2>6. CASE B # {}
    <3> HIDE DEF A, B
    <3>1. Max(B) \in B /\ \A k \in B : Max(B) >= k
      BY <2>3, <2>4, <2>6, MaxProperties
    <3> DEFINE x == Max(B)
    <3>2. x \in 1 .. j /\ IsResize(typed[x])
      BY <2>3, <3>1 DEF B
    <3>3. x # j
      BY <1>6, <1>8, <3>2
    <3>4. ~IsResize(typed[x + 1])
      <4> SUFFICES ASSUME IsResize(typed[x + 1]) PROVE FALSE
        OBVIOUS
      <4>1. x + 1 \in 1 .. j
        BY <2>3, <3>2, <3>3
      <4>2. x + 1 \in B
        BY <2>3, <4>1 DEF B
      <4> QED
        BY <2>3, <3>1, <3>2, <4>2
    <3>5. ptyLog[x] = typed[x]
      BY <1>5, <2>3, <3>2, <3>4
    <3>6. x \in A
      BY <2>3, <3>2, <3>5 DEF A
    <3>7. Max(A) \in A /\ \A k \in A : Max(A) >= k
      BY <2>3, <2>4, <3>6, MaxProperties
    <3>8. Max(A) = x
      <4>1. Max(A) \in B
        BY <2>4, <3>7
      <4>2. Max(A) \in 0 .. j /\ x \in 1 .. j
        BY <2>4, <3>2, <4>1
      <4> QED
        BY <2>3, <3>1, <3>6, <3>7, <4>1, <4>2
    <3>9. a[x] = b[x]
      BY <2>3, <3>2, <3>5
    <3>10. LastSize(a, size) = a[x][2]
      BY <3>6, <3>8 DEF LastSize, A
    <3>11. LastSize(b, size) = b[x][2]
      BY <2>6 DEF LastSize, B
    <3> QED
      BY <2>1, <2>2, <3>9, <3>10, <3>11 DEF SizeAt, a, b
  <2> QED
    BY <2>5, <2>6
<1>9. j \in DOMAIN typed /\ typed[j] = stream[first + j]
  BY <1>2, <1>4
<1> QED
  BY <1>7, <1>8, <1>9 DEF typed

\* What the client knows to be acknowledged was written to the pty, each key
\* once, in order and at its size, whatever was lost, repeated or reordered, in
\* sessions of any length.
THEOREM AckedWritten == Spec => []AckedInputWritten
<1>1. ASSUME Inv PROVE AckedInputWritten
  <2> SUFFICES ASSUME child # "none" PROVE AckedInputWritten
    BY DEF AckedInputWritten
  <2> DEFINE start == LastSize(SubSeq(stream, 2, first), DefaultSize)
             typed == SubSeq(stream, first + 1, Len(stream))
             Same(i, j) == /\ ptyLog[j] = typed[i]
                           /\ SizeAt(ptyLog, j, start) = SizeAt(typed, i, start)
  <2>1. ASSUME NEW j \in DOMAIN ptyLog
        PROVE  /\ j \in DOMAIN typed
               /\ IsKey(typed[j]) <=> IsKey(ptyLog[j])
               /\ IsKey(typed[j]) => Same(j, j) /\ ptyLog[j] = Key(first + j - 1)
    BY <1>1, <2>1, LogAgrees
  <2>2. /\ ptyLog \in Seq(Event \cup {Skipped}) /\ first \in Nat
        /\ pub["client"][seen] = first + Len(ptyLog)
        /\ pub["client"][Acked("client")] <= pub["client"][seen]
        /\ pub["client"][Acked("client")] \in Nat
    <3>1. /\ Acked("client") \in DOMAIN pub["client"] /\ seen \in DOMAIN pub["client"]
          /\ Acked("client") <= seen
      BY <1>1, InvFacts, PeerFacts, PubEnds DEF LoopsOK
    <3>2. /\ ptyLog \in Seq(Event \cup {Skipped}) /\ first \in Nat
          /\ pub["client"][Acked("client")] \in Nat
      BY <1>1, <3>1, InvFacts DEF LoopsOK, PubOK
    <3>3. pub["client"][Acked("client")] <= pub["client"][seen]
      BY <1>1, <3>1, InvFacts DEF Growing
    <3> QED
      BY <1>1, <3>2, <3>3 DEF Inv, LogInv
  <2> HIDE DEF start, typed
  <2>3. ASSUME NEW i \in 1 .. pub["client"][Acked("client")] - first, IsKey(typed[i])
        PROVE  \E j \in DOMAIN ptyLog : Same(i, j)
    <3>1. i \in DOMAIN ptyLog
      BY <2>2
    <3> QED
      BY <2>1, <2>3, <3>1
  <2>4. ASSUME NEW j \in DOMAIN ptyLog, NEW k \in DOMAIN ptyLog,
               IsKey(ptyLog[j]), IsKey(ptyLog[k]), j < k
        PROVE  ptyLog[j][2] < ptyLog[k][2]
    <3>1. ptyLog[j] = Key(first + j - 1) /\ ptyLog[k] = Key(first + k - 1)
      BY <2>1, <2>4
    <3>2. ptyLog[j][2] = first + j - 1 /\ ptyLog[k][2] = first + k - 1
      BY <3>1 DEF Key
    <3>3. j \in Nat /\ k \in Nat
      BY <2>2
    <3> QED
      BY <2>2, <2>4, <3>2, <3>3
  <2>5. ASSUME NEW j \in DOMAIN ptyLog, IsKey(ptyLog[j])
        PROVE  \E i \in DOMAIN typed : Same(i, j)
    BY <2>1, <2>5
  <2> QED
    BY <2>3, <2>4, <2>5 DEF AckedInputWritten, start, typed
<1> QED
  BY Invariance, <1>1, PTL

\* What a step does to the last state of an endpoint and to the echo ack.
StepFacts ==
    /\ \A e \in Endpoint : /\ shut[e] => Current(e)' = Current(e)
                           /\ SHUTDOWN_NUM \in DOMAIN pub[e] => SHUTDOWN_NUM \in DOMAIN pub'[e]
    /\ term.echo <= term'.echo

\* A step that neither receives nor touches the terminal.
LEMMA KeepsState ==
    ASSUME Inv, UNCHANGED term, shut["client"] => UNCHANGED stream,
           \A e \in Endpoint : DOMAIN pub[e] \subseteq DOMAIN pub'[e]
    PROVE  StepFacts
<1>1. term.echo \in Nat
  BY InvFacts DEF LoopsOK, Terminal
<1>2. term.echo <= term'.echo
  BY <1>1
<1>3. \A e \in Endpoint : shut[e] => Current(e)' = Current(e)
  BY PeerFacts DEF Current
<1> QED
  BY <1>2, <1>3 DEF StepFacts

\* A step that receives.
LEMMA RecvKeepsState ==
    ASSUME Inv, UNCHANGED <<term, stream>>, NEW e \in Endpoint, Recv(e)
    PROVE  StepFacts
<1>1. Received(e)
  BY InvFacts, RecvFacts
<1>2. PICK m \in net[Peer(e)] : \A n \in DOMAIN pub[e] : n >= m.ack => n \in DOMAIN pub'[e]
  BY <1>1 DEF Received
<1>3. m.ack \in 0 .. SHUTDOWN_NUM /\ SHUTDOWN_NUM \in Nat
  BY <1>2, InvFacts, PeerFacts, SessionAssumption DEF TransportInv, Num
<1>4. \A x \in Endpoint : SHUTDOWN_NUM \in DOMAIN pub[x] => SHUTDOWN_NUM \in DOMAIN pub'[x]
  BY <1>1, <1>2, <1>3 DEF Received
<1>5. term.echo \in Nat
  BY InvFacts DEF LoopsOK, Terminal
<1>6. term.echo <= term'.echo
  BY <1>5
<1> QED
  BY <1>4, <1>6, PeerFacts DEF StepFacts, Current

LEMMA NextFacts == ASSUME Inv, [Next]_vars PROVE StepFacts
<1> USE DEF client, server, shell, transport
<1>1. CASE UNCHANGED vars
  BY <1>1, KeepsState DEF vars
<1>2. CASE ClientSelect
  <2>1. UNCHANGED term
    BY <1>2 DEF ClientSelect
  <2>2. CASE HandleTermEvent
    <3>1. UNCHANGED pub /\ ~shut["client"]
      BY <2>2, TermEventFacts
    <3> QED
      BY <2>1, <3>1, KeepsState
  <2>3. CASE Recv("client") /\ UNCHANGED stream
    BY <2>1, <2>3, PeerFacts, RecvKeepsState
  <2>4. CASE UNCHANGED <<transport, stream>>
    BY <2>1, <2>4, KeepsState
  <2> QED
    BY <1>2, <2>2, <2>3, <2>4 DEF ClientSelect
<1>3. CASE ClientCheck
  <2>1. UNCHANGED <<term, stream, pub>>
    BY <1>3 DEF ClientCheck, ClientLeave
  <2> QED
    BY <2>1, KeepsState
<1>4. CASE ClientTick \/ ServerTick
  <2>1. PICK e \in Endpoint : Tick(e) /\ UNCHANGED <<term, stream>>
    BY <1>4, PeerFacts DEF ClientTick, ServerTick
  <2>2. Ticked(e)
    BY <2>1, InvFacts, TickFacts
  <2>3. \A x \in Endpoint : DOMAIN pub[x] \subseteq DOMAIN pub'[x]
    BY <2>2 DEF Ticked
  <2> QED
    BY <2>1, <2>3, KeepsState
<1>5. CASE WaitForClient
  BY <1>5, PeerFacts, RecvKeepsState DEF WaitForClient
<1>6. CASE ServerGivesUp \/ ShellWrites \/ ShellExits \/ ReaderSends
  BY <1>6, KeepsState DEF ServerGivesUp, ShellWrites, ShellExits, ReaderSends
<1>7. ASSUME UNCHANGED <<pub, stream>>, shut["server"] => term' = term, term'.echo = term.echo
      PROVE  StepFacts
  <2>1. term.echo \in Nat
    BY InvFacts DEF LoopsOK, Terminal
  <2>2. term.echo <= term'.echo
    BY <1>7, <2>1
  <2> QED
    BY <1>7, <2>2, PeerFacts DEF StepFacts, Current
<1>8. term \in [shown : 0 .. MAX_OUTPUT, size : Sizes, echo : Num]
  BY InvFacts DEF LoopsOK, Terminal
<1>9. CASE SpawnShell
  <2>1. UNCHANGED <<pub, stream>> /\ spc = "waiting" /\ term' = [term EXCEPT !.size = ptySize']
    BY <1>9 DEF SpawnShell
  <2>2. ~shut["server"] /\ term'.echo = term.echo
    BY <1>8, <2>1 DEF Inv, ServerInv
  <2> QED
    BY <1>7, <2>1, <2>2
<1>10. CASE ServerSelect
  <2>1. CASE HandlePtyEvent
    <3>1. /\ UNCHANGED <<pub, stream>> /\ (shut["server"] => term' = term)
          /\ term' = term \/ term' = [term EXCEPT !.shown = @ + 1]
      BY <1>10, <2>1 DEF ServerSelect, HandlePtyEvent
    <3> QED
      BY <1>7, <1>8, <3>1
  <2>2. CASE Recv("server") /\ UNCHANGED term
    BY <1>10, <2>2, PeerFacts, RecvKeepsState DEF ServerSelect
  <2>3. CASE UNCHANGED <<transport, term>>
    BY <1>10, <2>3, KeepsState DEF ServerSelect
  <2> QED
    BY <1>10, <2>1, <2>2, <2>3 DEF ServerSelect
<1>11. CASE HandleClientInput
  <2>1. /\ UNCHANGED <<pub, stream>>
        /\ term' = term \/ (~shut["server"] /\ term' = [term EXCEPT !.size = ptySize'])
    BY <1>11 DEF HandleClientInput
  <2> QED
    BY <1>7, <1>8, <2>1
<1>12. CASE Housekeeping
  <2>1. /\ UNCHANGED <<pub, client>> /\ (shut["server"] => term' = term)
        /\ term.echo <= term'.echo
    BY <1>12, HousekeepingFacts
  <2> QED
    BY <2>1, PeerFacts DEF StepFacts, Current
<1> QED
  BY <1>1, <1>2, <1>3, <1>4, <1>5, <1>6, <1>9, <1>10, <1>11, <1>12
  DEF Next, ClientLoop, ServerLoop

\* The state that has gone out with the shutdown number stays what it is: none
\* of the handlers of either loop changes the current state any more.
THEOREM FinalFixed == Spec => FinalStateFixed
<1>1. ASSUME Inv, Inv', [Next]_vars
      PROVE  [\A e \in Endpoint : SHUTDOWN_NUM \in DOMAIN pub[e] =>
                 /\ pub'[e][SHUTDOWN_NUM] = pub[e][SHUTDOWN_NUM]
                 /\ Current(e)' = pub[e][SHUTDOWN_NUM]]_vars
  <2> SUFFICES ASSUME NEW e \in Endpoint, SHUTDOWN_NUM \in DOMAIN pub[e]
               PROVE  /\ pub'[e][SHUTDOWN_NUM] = pub[e][SHUTDOWN_NUM]
                      /\ Current(e)' = pub[e][SHUTDOWN_NUM]
    OBVIOUS
  <2>1. StepFacts
    BY <1>1, NextFacts
  <2>2. shut[e] /\ pub[e][SHUTDOWN_NUM] = Current(e)
    BY <1>1 DEF Inv, TransportInv
  <2>3. Current(e)' = Current(e) /\ SHUTDOWN_NUM \in DOMAIN pub'[e]
    BY <2>1, <2>2 DEF StepFacts
  <2>4. pub'[e][SHUTDOWN_NUM] = Current(e)'
    BY <1>1, <2>3 DEF Inv, TransportInv
  <2> QED
    BY <2>2, <2>3, <2>4
<1> QED
  BY Invariance, <1>1, PTL DEF Spec, FinalStateFixed

\* set_echo_ack never sets the echo ack back, with whatever timestamps: the
\* frame it stands for is still there, and older than any it may move to.
THEOREM EchoGrows == Spec => EchoAckGrows
<1>1. ASSUME Inv, [Next]_vars PROVE [term.echo <= term'.echo]_vars
  BY <1>1, NextFacts DEF StepFacts
<1> QED
  BY Invariance, <1>1, PTL DEF Spec, EchoAckGrows

=============================================================================
