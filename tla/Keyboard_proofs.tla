--------------------------- MODULE Keyboard_proofs ---------------------------
(***************************************************************************)
(* The safety of the path from the keyboard to the client's state, for     *)
(* every text, however the reads cut it up, and every escape key.          *)
(***************************************************************************)
EXTENDS Keyboard, DataFacts

-----------------------------------------------------------------------------
(* Sequences of bytes, joined. *)

LEMMA ConcatFacts ==
    ASSUME NEW s \in Seq(Nat), NEW t \in Seq(Nat)
    PROVE  s \o t \in Seq(Nat) /\ s \o <<>> = s /\ <<>> \o s = s
OBVIOUS

LEMMA ConcatAssoc ==
    ASSUME NEW s \in Seq(Nat), NEW t \in Seq(Nat), NEW u \in Seq(Nat)
    PROVE  (s \o t) \o u = s \o (t \o u)
BY SMTT(30)

LEMMA ConcatAppend ==
    ASSUME NEW s \in Seq(Nat), NEW t \in Seq(Nat), NEW x \in Nat
    PROVE  (s \o t) \o <<x>> = s \o Append(t, x)
<1>1. Append(t, x) = t \o <<x>> /\ <<x>> \in Seq(Nat)
  OBVIOUS
<1> QED
  BY <1>1, ConcatAssoc

-----------------------------------------------------------------------------
(* The keys that the events on their way stand for. *)

Event ==
    [kind : {"input"}, bytes : Seq(Nat)] \cup [kind : {"help"}, show : BOOLEAN]
      \cup [kind : {"resize"}, size : Windows] \cup {Quit}

HasQuit(events) == \E i \in DOMAIN events : events[i] = Quit
Heard(events) == KeysIn(UntilQuit(events))

LEMMA KeysOfType ==
    ASSUME NEW e \in Event
    PROVE  KeysOf(e) \in Seq(Nat) /\ (e.kind # "input" => KeysOf(e) = <<>>)
BY DEF Event, KeysOf, Quit

\* The keys of one event more.
LEMMA KeysInFacts ==
    ASSUME NEW s \in Seq(Event)
    PROVE  /\ KeysIn(s) \in Seq(Nat)
           /\ s = <<>> => KeysIn(s) = <<>>
           /\ \A e \in Event : KeysIn(Append(s, e)) = KeysIn(s) \o KeysOf(e)
<1> DEFINE pieces(t) == [i \in DOMAIN t |-> KeysOf(t[i])]
<1>1. ASSUME NEW t \in Seq(Event)
      PROVE  /\ pieces(t) \in Seq(Seq(Nat)) /\ Len(pieces(t)) = Len(t)
             /\ \A i \in 1 .. Len(t) : pieces(t)[i] = KeysOf(t[i])
  <2>1. Len(t) \in Nat /\ DOMAIN t = 1 .. Len(t) /\ \A i \in 1 .. Len(t) : t[i] \in Event
    OBVIOUS
  <2>2. pieces(t) \in [1 .. Len(t) -> Seq(Nat)]
    BY <2>1, KeysOfType
  <2>3. \A i \in 1 .. Len(t) : pieces(t)[i] = KeysOf(t[i])
    BY <2>1
  <2> HIDE DEF pieces
  <2>4. pieces(t) \in Seq(Seq(Nat)) /\ Len(pieces(t)) = Len(t)
    BY <2>1, <2>2, SMTT(30)
  <2> QED
    BY <2>3, <2>4
<1>2. \A t : KeysIn(t) = FlattenSeq(pieces(t))
  BY DEF KeysIn
<1> HIDE DEF pieces
<1>3. KeysIn(s) \in Seq(Nat)
  BY <1>1, <1>2, FlattenFacts
<1>4. s = <<>> => KeysIn(s) = <<>>
  <2>1. s = <<>> => pieces(s) = <<>>
    <3>1. pieces(s) \in Seq(Seq(Nat)) /\ Len(pieces(s)) = Len(s)
      BY <1>1
    <3>2. Len(<<>>) = 0
      OBVIOUS
    <3> DEFINE p == pieces(s)
    <3> HIDE DEF p
    <3>3. p \in Seq(Seq(Nat)) /\ Len(p) = 0 => p = <<>>
      OBVIOUS
    <3> QED
      BY <3>1, <3>2, <3>3 DEF p
  <2> QED
    BY <1>1, <1>2, <2>1, FlattenFacts
<1>5. ASSUME NEW e \in Event PROVE KeysIn(Append(s, e)) = KeysIn(s) \o KeysOf(e)
  <2> DEFINE t == Append(s, e)
  <2>1. /\ t \in Seq(Event) /\ Len(t) = Len(s) + 1 /\ t[Len(t)] = e
        /\ Len(t) \in 1 .. Len(t)
        /\ \A i \in 1 .. Len(s) : t[i] = s[i] /\ i \in 1 .. Len(t)
    OBVIOUS
  <2> HIDE DEF t
  <2>2. \A i \in 1 .. Len(s) : pieces(t)[i] = pieces(s)[i]
    BY <1>1, <2>1
  <2>3. pieces(t)[Len(pieces(t))] = KeysOf(e)
    BY <1>1, <2>1
  <2>4. FlattenSeq(pieces(t)) = FlattenSeq(pieces(s)) \o KeysOf(e)
    <3> DEFINE longer == pieces(t)
               shorter == pieces(s)
    <3>1. /\ shorter \in Seq(Seq(Nat)) /\ longer \in Seq(Seq(Nat))
          /\ Len(longer) = Len(shorter) + 1
          /\ \A i \in 1 .. Len(shorter) : longer[i] = shorter[i]
      BY <1>1, <2>1, <2>2
    <3> HIDE DEF longer, shorter
    <3>2. FlattenSeq(longer) = FlattenSeq(shorter) \o longer[Len(longer)]
      BY <3>1, FlattenOneMore
    <3> QED
      BY <2>3, <3>2, Zenon DEF longer, shorter
  <2> QED
    BY <1>2, <2>4, Zenon DEF t
<1> QED
  BY <1>3, <1>4, <1>5

\* What UntilQuit keeps of one event more.
LEMMA UntilQuitFacts ==
    ASSUME NEW s \in Seq(Event)
    PROVE  /\ UntilQuit(s) \in Seq(Event)
           /\ ~HasQuit(s) => UntilQuit(s) = s
           /\ \A e \in Event :
                /\ HasQuit(Append(s, e)) <=> HasQuit(s) \/ e = Quit
                /\ HasQuit(s) \/ e = Quit => UntilQuit(Append(s, e)) = UntilQuit(s)
<1> DEFINE quits(t) == {i \in DOMAIN t : t[i] = Quit}
           n == Len(s)
<1>1. n \in Nat /\ DOMAIN s = 1 .. n
  OBVIOUS
<1>2. ~HasQuit(s) => UntilQuit(s) = s
  BY DEF HasQuit, UntilQuit
<1>3. ASSUME HasQuit(s)
      PROVE  /\ Min(quits(s)) \in 1 .. n
             /\ \A i \in quits(s) : Min(quits(s)) <= i
             /\ UntilQuit(s) = SubSeq(s, 1, Min(quits(s)) - 1)
  <2>1. quits(s) \in SUBSET Nat /\ quits(s) # {}
    BY <1>1, <1>3 DEF HasQuit
  <2>2. Min(quits(s)) \in quits(s) /\ \A i \in quits(s) : Min(quits(s)) <= i
    BY <2>1, MinProperties
  <2>3. UntilQuit(s) = SubSeq(s, 1, Min(quits(s)) - 1)
    BY <2>1 DEF UntilQuit
  <2> QED
    BY <1>1, <2>2, <2>3
<1>4. UntilQuit(s) \in Seq(Event)
  <2>1. CASE HasQuit(s)
    BY <1>1, <1>3, <2>1
  <2>2. CASE ~HasQuit(s)
    BY <1>2, <2>2
  <2> QED
    BY <2>1, <2>2
<1>5. ASSUME NEW e \in Event
      PROVE  /\ HasQuit(Append(s, e)) <=> HasQuit(s) \/ e = Quit
             /\ HasQuit(s) \/ e = Quit => UntilQuit(Append(s, e)) = UntilQuit(s)
  <2> DEFINE t == Append(s, e)
  <2>1. /\ t \in Seq(Event) /\ DOMAIN t = 1 .. n + 1 /\ t[n + 1] = e
        /\ \A i \in 1 .. n : t[i] = s[i]
        /\ \A k \in 0 .. n : SubSeq(t, 1, k) = SubSeq(s, 1, k)
    <3>1. \A k \in 0 .. n : SubSeq(t, 1, k) = SubSeq(s, 1, k)
      <4> TAKE k \in 0 .. n
      <4>1. SubSeq(t, 1, k) \in Seq(Event) /\ SubSeq(s, 1, k) \in Seq(Event)
            /\ Len(SubSeq(t, 1, k)) = k /\ Len(SubSeq(s, 1, k)) = k
        OBVIOUS
      <4>2. \A i \in 1 .. k : SubSeq(t, 1, k)[i] = SubSeq(s, 1, k)[i]
        OBVIOUS
      <4> QED
        BY <4>1, <4>2
    <3> QED
      BY <3>1
  <2> HIDE DEF t
  <2>2. SubSeq(s, 1, n) = s
    OBVIOUS
  <2>3. HasQuit(t) <=> HasQuit(s) \/ e = Quit
    BY <1>1, <2>1 DEF HasQuit
  <2>4. ASSUME HasQuit(s) PROVE UntilQuit(t) = UntilQuit(s)
    <3> DEFINE m == Min(quits(s))
    <3>1. m \in 1 .. n /\ m \in quits(s) /\ \A i \in quits(s) : m <= i
      <4>1. quits(s) \in SUBSET Nat /\ quits(s) # {}
        BY <1>1, <2>4 DEF HasQuit
      <4> QED
        BY <1>1, <4>1, MinProperties
    <3> HIDE DEF m
    <3>2. m \in quits(t) /\ \A i \in quits(t) : m <= i
      BY <1>1, <2>1, <3>1
    <3>3. quits(t) \in SUBSET Nat /\ quits(t) # {}
      BY <1>1, <2>1, <3>2
    <3>4. Min(quits(t)) \in quits(t) /\ \A i \in quits(t) : Min(quits(t)) <= i
      BY <3>3, MinProperties
    <3>5. Min(quits(t)) = m
      <4>1. Min(quits(t)) \in Nat /\ m \in Nat /\ Min(quits(t)) <= m /\ m <= Min(quits(t))
        BY <3>2, <3>3, <3>4
      <4> QED
        BY <4>1
    <3>6. UntilQuit(t) = SubSeq(t, 1, m - 1)
      BY <3>3, <3>5 DEF UntilQuit
    <3>7. m - 1 \in 0 .. n
      BY <1>1, <3>1
    <3> QED
      BY <1>3, <2>1, <2>4, <3>6, <3>7 DEF m
  <2>5. ASSUME ~HasQuit(s), e = Quit PROVE UntilQuit(t) = UntilQuit(s)
    <3>1. quits(t) = {n + 1}
      BY <1>1, <2>1, <2>5 DEF HasQuit
    <3>2. Min({n + 1}) = n + 1
      <4>1. {n + 1} \in SUBSET Nat /\ {n + 1} # {}
        BY <1>1
      <4> QED
        BY <4>1, MinProperties
    <3>3. UntilQuit(t) = SubSeq(t, 1, (n + 1) - 1)
      BY <3>1, <3>2 DEF UntilQuit
    <3>4. (n + 1) - 1 = n /\ n \in 0 .. n
      BY <1>1
    <3> QED
      BY <1>2, <2>1, <2>2, <2>5, <3>3, <3>4
  <2> QED
    BY <2>3, <2>4, <2>5 DEF t
<1> QED
  BY <1>2, <1>4, <1>5

\* The keys heard from one event more, and from events in two parts.
LEMMA HeardAppend ==
    ASSUME NEW s \in Seq(Event)
    PROVE  /\ Heard(s) \in Seq(Nat)
           /\ s = <<>> => Heard(s) = <<>> /\ ~HasQuit(s)
           /\ \A e \in Event :
                Heard(Append(s, e)) = IF HasQuit(s) \/ e = Quit THEN Heard(s)
                                      ELSE Heard(s) \o KeysOf(e)
<1>1. Heard(s) \in Seq(Nat)
  BY UntilQuitFacts, KeysInFacts DEF Heard
<1>2. s = <<>> => Heard(s) = <<>> /\ ~HasQuit(s)
  <2>1. s = <<>> => ~HasQuit(s)
    BY DEF HasQuit
  <2> QED
    BY <2>1, UntilQuitFacts, KeysInFacts DEF Heard
<1>3. ASSUME NEW e \in Event
      PROVE  Heard(Append(s, e)) = IF HasQuit(s) \/ e = Quit THEN Heard(s)
                                   ELSE Heard(s) \o KeysOf(e)
  <2>1. CASE HasQuit(s) \/ e = Quit
    BY <2>1, UntilQuitFacts, Zenon DEF Heard
  <2>2. CASE ~(HasQuit(s) \/ e = Quit)
    <3>1. Append(s, e) \in Seq(Event)
      OBVIOUS
    <3>2. ~HasQuit(Append(s, e))
      BY <2>2, UntilQuitFacts
    <3>3. UntilQuit(Append(s, e)) = Append(s, e) /\ UntilQuit(s) = s
      BY <2>2, <3>1, <3>2, UntilQuitFacts
    <3>4. KeysIn(Append(s, e)) = KeysIn(s) \o KeysOf(e)
      BY KeysInFacts
    <3> QED
      BY <2>2, <3>3, <3>4, Zenon DEF Heard
  <2> QED
    BY <2>1, <2>2, Zenon
<1> QED
  BY <1>1, <1>2, <1>3

LEMMA HeardConcat ==
    ASSUME NEW s \in Seq(Event)
    PROVE  \A t \in Seq(Event) :
              /\ HasQuit(s \o t) <=> HasQuit(s) \/ HasQuit(t)
              /\ Heard(s \o t) = IF HasQuit(s) THEN Heard(s) ELSE Heard(s) \o Heard(t)
<1> DEFINE Joined(t) ==
              /\ HasQuit(s \o t) <=> HasQuit(s) \/ HasQuit(t)
              /\ Heard(s \o t) = IF HasQuit(s) THEN Heard(s) ELSE Heard(s) \o Heard(t)
           P == {k \in Nat : \A t \in Seq(Event) : Len(t) = k => Joined(t)}
<1>1. 0 \in P
  <2> SUFFICES ASSUME NEW t \in Seq(Event), Len(t) = 0 PROVE Joined(t)
    OBVIOUS
  <2>1. t = <<>> /\ s \o t = s
    OBVIOUS
  <2>2. Heard(t) = <<>> /\ ~HasQuit(t) /\ Heard(s) \in Seq(Nat)
    BY <2>1, HeardAppend
  <2>3. Heard(s) \o Heard(t) = Heard(s)
    BY <2>2
  <2> QED
    BY <2>1, <2>2, <2>3, Zenon
<1>2. ASSUME NEW k \in P PROVE k + 1 \in P
  <2> SUFFICES ASSUME NEW t \in Seq(Event), Len(t) = k + 1 PROVE Joined(t)
    OBVIOUS
  <2> DEFINE u == SubSeq(t, 1, k)
             e == t[k + 1]
  <2>1. u \in Seq(Event) /\ Len(u) = k /\ e \in Event /\ t = Append(u, e)
        /\ s \o t = Append(s \o u, e) /\ s \o u \in Seq(Event)
    <3>1. u \in Seq(Event) /\ Len(u) = k /\ e \in Event /\ s \o u \in Seq(Event)
      OBVIOUS
    <3>2. t = Append(u, e)
      OBVIOUS
    <3> HIDE DEF u, e
    <3>3. s \o Append(u, e) = Append(s \o u, e)
      BY <3>1
    <3> QED
      BY <3>1, <3>2, <3>3
  <2>2. Joined(u)
    BY <1>2, <2>1
  <2> HIDE DEF u, e
  <2>3. HasQuit(t) <=> HasQuit(u) \/ e = Quit
    BY <2>1, UntilQuitFacts
  <2>9. ASSUME NEW w \in Seq(Event)
        PROVE  /\ HasQuit(Append(w, e)) <=> HasQuit(w) \/ e = Quit
               /\ Heard(Append(w, e)) = IF HasQuit(w) \/ e = Quit THEN Heard(w)
                                        ELSE Heard(w) \o KeysOf(e)
    <3>1. HasQuit(Append(w, e)) <=> HasQuit(w) \/ e = Quit
      BY <2>1, UntilQuitFacts, Zenon
    <3>2. Heard(Append(w, e)) = IF HasQuit(w) \/ e = Quit THEN Heard(w)
                                ELSE Heard(w) \o KeysOf(e)
      BY <2>1, HeardAppend, ZenonT(30)
    <3> QED
      BY <3>1, <3>2, Zenon
  <2>4. HasQuit(s \o t) <=> HasQuit(s \o u) \/ e = Quit
    <3>1. s \o u \in Seq(Event) /\ s \o t = Append(s \o u, e)
      BY <2>1
    <3>2. HasQuit(Append(s \o u, e)) <=> HasQuit(s \o u) \/ e = Quit
      BY <2>9, <3>1
    <3> QED
      BY <3>1, <3>2, Zenon
  <2>5. Heard(t) = IF HasQuit(u) \/ e = Quit THEN Heard(u) ELSE Heard(u) \o KeysOf(e)
    BY <2>1, HeardAppend
  <2>6. Heard(s \o t) = IF HasQuit(s \o u) \/ e = Quit THEN Heard(s \o u)
                        ELSE Heard(s \o u) \o KeysOf(e)
    BY <2>1, <2>9, Zenon
  <2>7. Heard(s) \in Seq(Nat) /\ Heard(u) \in Seq(Nat) /\ KeysOf(e) \in Seq(Nat)
    BY <2>1, HeardAppend, KeysOfType
  <2>8. (Heard(s) \o Heard(u)) \o KeysOf(e) = Heard(s) \o (Heard(u) \o KeysOf(e))
    BY <2>7, SMTT(30)
  <2> QED
    BY <2>2, <2>3, <2>4, <2>5, <2>6, <2>8, Zenon
<1> HIDE DEF P
<1>3. P = Nat
  BY <1>1, <1>2, SetInduction DEF P
<1>4. \A t \in Seq(Event) : Len(t) \in P
  BY <1>3
<1> QED
  BY <1>4 DEF P

-----------------------------------------------------------------------------
(* Which bytes of a text begin an escape sequence, one byte more at a time. *)

\* i begins one, given where those before it begin.
Begins(c, b, E, i) ==
    /\ c # Disabled /\ b[i] = c.key
    /\ i - 1 \notin E
    /\ c.requires_lf => i > 1 /\ b[i - 1] \in LineEnd /\ i - 2 \notin E

AreEscapes(c, b, E) ==
    E \in SUBSET (1 .. Len(b)) /\ \A i \in 1 .. Len(b) : i \in E <=> Begins(c, b, E, i)

\* A set that is right for a text is right for its beginning, and the other way
\* round with one byte more.
LEMMA EscapesGrow ==
    ASSUME NEW c, NEW b \in Seq(Nat), NEW x \in Nat, NEW E, AreEscapes(c, b, E)
    PROVE  AreEscapes(c, Append(b, x),
                      IF Begins(c, Append(b, x), E, Len(b) + 1) THEN E \cup {Len(b) + 1} ELSE E)
<1> DEFINE n == Len(b)
           d == Append(b, x)
           F == IF Begins(c, d, E, n + 1) THEN E \cup {n + 1} ELSE E
<1>1. /\ n \in Nat /\ d \in Seq(Nat) /\ Len(d) = n + 1
      /\ \A i \in 1 .. n : d[i] = b[i]
  OBVIOUS
<1>2. E \in SUBSET (1 .. n) /\ \A i \in 1 .. n : i \in E <=> Begins(c, b, E, i)
  BY DEF AreEscapes
<1> HIDE DEF d, n
<1>3. F \in SUBSET (1 .. n + 1) /\ \A j \in Nat : j <= n => (j \in F <=> j \in E)
  BY <1>1, <1>2
<1>4. n + 1 \in F <=> Begins(c, d, E, n + 1)
  BY <1>1, <1>2
<1> HIDE DEF F
<1>5. ASSUME NEW i \in 1 .. n + 1 PROVE i \in F <=> Begins(c, d, F, i)
  <2>1. i - 1 \in Nat /\ i - 1 <= n /\ (i > 1 => i - 2 \in Nat /\ i - 2 <= n)
    BY <1>1
  <2>2. Begins(c, d, F, i) <=> Begins(c, d, E, i)
    BY <1>3, <2>1 DEF Begins
  <2>3. CASE i \in 1 .. n
    <3>1. d[i] = b[i] /\ (i > 1 => d[i - 1] = b[i - 1])
      BY <1>1, <2>3
    <3>2. Begins(c, d, E, i) <=> Begins(c, b, E, i)
      BY <3>1 DEF Begins
    <3> QED
      BY <1>1, <1>2, <1>3, <2>2, <2>3, <3>2
  <2>4. CASE i = n + 1
    BY <1>4, <2>2, <2>4
  <2> QED
    BY <1>1, <2>3, <2>4
<1>6. AreEscapes(c, d, F)
  BY <1>1, <1>3, <1>5 DEF AreEscapes
<1> QED
  BY <1>6 DEF d, F, n

LEMMA EscapesExist ==
    ASSUME NEW c
    PROVE  \A b \in Seq(Nat) : \E E : AreEscapes(c, b, E)
<1> DEFINE P == {k \in Nat : \A b \in Seq(Nat) : Len(b) = k => \E E : AreEscapes(c, b, E)}
<1>1. 0 \in P
  <2> SUFFICES ASSUME NEW b \in Seq(Nat), Len(b) = 0 PROVE AreEscapes(c, b, {})
    BY Zenon
  <2> QED
    BY DEF AreEscapes
<1>2. ASSUME NEW k \in P PROVE k + 1 \in P
  <2> SUFFICES ASSUME NEW b \in Seq(Nat), Len(b) = k + 1 PROVE \E E : AreEscapes(c, b, E)
    OBVIOUS
  <2> DEFINE u == SubSeq(b, 1, k)
             x == b[k + 1]
  <2>1. u \in Seq(Nat) /\ Len(u) = k /\ x \in Nat /\ b = Append(u, x)
    OBVIOUS
  <2> HIDE DEF u, x
  <2>2. PICK E : AreEscapes(c, u, E)
    BY <1>2, <2>1
  <2> QED
    BY <2>1, <2>2, EscapesGrow, Zenon
<1> HIDE DEF P
<1>3. P = Nat
  BY <1>1, <1>2, SetInduction DEF P
<1>4. \A b \in Seq(Nat) : Len(b) \in P
  BY <1>3
<1> QED
  BY <1>4 DEF P

LEMMA EscapesUnique ==
    ASSUME NEW c, NEW b \in Seq(Nat), NEW E, NEW F, AreEscapes(c, b, E), AreEscapes(c, b, F)
    PROVE  E = F
<1> DEFINE n == Len(b)
           P == {k \in Nat : \A i \in 0 .. k : i \in E <=> i \in F}
<1>1. n \in Nat /\ E \in SUBSET (1 .. n) /\ F \in SUBSET (1 .. n)
  BY DEF AreEscapes
<1>2. 0 \in P
  BY <1>1
<1>3. ASSUME NEW k \in P PROVE k + 1 \in P
  <2>1. k + 1 \in E <=> k + 1 \in F
    <3>1. CASE k + 1 \in 1 .. n
      <4> DEFINE i == k + 1
      <4>1. i - 1 \in 0 .. k /\ (i > 1 => i - 2 \in 0 .. k)
        OBVIOUS
      <4>2. Begins(c, b, E, i) <=> Begins(c, b, F, i)
        BY <1>3, <4>1 DEF Begins
      <4> QED
        BY <3>1, <4>2 DEF AreEscapes
    <3>2. CASE k + 1 \notin 1 .. n
      BY <1>1, <3>2
    <3> QED
      BY <3>1, <3>2
  <2>2. \A i \in 0 .. k + 1 : i \in 0 .. k \/ i = k + 1
    OBVIOUS
  <2> QED
    BY <1>3, <2>1, <2>2
<1> HIDE DEF P
<1>4. P = Nat
  BY <1>2, <1>3, SetInduction DEF P
<1>5. \A i \in 1 .. n : i \in E <=> i \in F
  <2>1. n \in P
    BY <1>1, <1>4
  <2> QED
    BY <1>1, <2>1 DEF P
<1> QED
  BY <1>1, <1>5

LEMMA EscapesAre ==
    ASSUME NEW c, NEW b \in Seq(Nat)
    PROVE  AreEscapes(c, b, Escapes(c, b))
<1> DEFINE Right(E) == \A i \in 1 .. Len(b) : i \in E <=> Begins(c, b, E, i)
<1>1. Escapes(c, b) = CHOOSE E \in SUBSET (1 .. Len(b)) : Right(E)
  BY Zenon DEF Escapes, Begins
<1>2. \E E \in SUBSET (1 .. Len(b)) : Right(E)
  BY EscapesExist DEF AreEscapes
<1> HIDE DEF Right
<1>3. Escapes(c, b) \in SUBSET (1 .. Len(b)) /\ Right(Escapes(c, b))
  BY <1>1, <1>2, Zenon
<1> QED
  BY <1>3 DEF AreEscapes, Right

\* The text is at the start of a line, as a printable escape key needs.
AtStart(c, b) == b # <<>> /\ b[Len(b)] \in LineEnd /\ Len(b) - 1 \notin Escapes(c, b)

LEMMA EscapesStep ==
    ASSUME NEW c, NEW b \in Seq(Nat), NEW x \in Nat
    PROVE  Escapes(c, Append(b, x)) =
              IF /\ c # Disabled /\ x = c.key /\ Len(b) \notin Escapes(c, b)
                 /\ c.requires_lf => AtStart(c, b)
              THEN Escapes(c, b) \cup {Len(b) + 1} ELSE Escapes(c, b)
<1> DEFINE n == Len(b)
           d == Append(b, x)
           E == Escapes(c, b)
           New == /\ c # Disabled /\ x = c.key /\ n \notin E
                  /\ c.requires_lf => AtStart(c, b)
<1>1. /\ n \in Nat /\ d \in Seq(Nat) /\ d[n + 1] = x
      /\ \A i \in 1 .. n : d[i] = b[i]
      /\ b # <<>> <=> n > 0
  OBVIOUS
<1>2. (n + 1) - 1 = n /\ (n + 1) - 2 = n - 1 /\ (n + 1 > 1 <=> n > 0)
  BY <1>1
<1>3. n > 0 => d[n] = b[n]
  BY <1>1
<1>4. Begins(c, d, E, n + 1) <=> New
  <2>1. Begins(c, d, E, n + 1) <=>
           /\ c # Disabled /\ x = c.key /\ n \notin E
           /\ c.requires_lf => n > 0 /\ d[n] \in LineEnd /\ n - 1 \notin E
    BY <1>1, <1>2, Zenon DEF Begins
  <2>2. AtStart(c, b) <=> n > 0 /\ d[n] \in LineEnd /\ n - 1 \notin E
    BY <1>1, <1>3, Zenon DEF AtStart
  <2> QED
    BY <2>1, <2>2, Zenon
<1>5. AreEscapes(c, b, E)
  BY EscapesAre
<1>6. AreEscapes(c, d, Escapes(c, d))
  BY <1>1, EscapesAre
<1> HIDE DEF E
<1>7. AreEscapes(c, d, IF Begins(c, d, E, n + 1) THEN E \cup {n + 1} ELSE E)
  BY <1>5, EscapesGrow
<1> HIDE DEF d, New, n
<1>8. Escapes(c, d) = IF Begins(c, d, E, n + 1) THEN E \cup {n + 1} ELSE E
  BY <1>1, <1>6, <1>7, EscapesUnique, Zenon
<1> QED
  BY <1>4, <1>8, Zenon DEF E, d, n, New

\* Escape sequences and quits of a text stay what they are when it goes on.
LEMMA QuitsStep ==
    ASSUME NEW c, NEW b \in Seq(Nat), NEW x \in Nat
    PROVE  /\ Escapes(c, b) \in SUBSET (1 .. Len(b))
           /\ Quits(c, b) \in SUBSET (1 .. Len(b))
           /\ \A i \in 0 .. Len(b) : i \in Escapes(c, Append(b, x)) <=> i \in Escapes(c, b)
           /\ Quits(c, Append(b, x)) =
                 IF x = DOT /\ Len(b) \in Escapes(c, b) THEN Quits(c, b) \cup {Len(b) + 1}
                 ELSE Quits(c, b)
<1> DEFINE n == Len(b)
           d == Append(b, x)
           E == Escapes(c, b)
           F == Escapes(c, d)
<1>1. /\ n \in Nat /\ Len(d) = n + 1 /\ d[n + 1] = x
      /\ \A i \in 1 .. n : d[i] = b[i]
  OBVIOUS
<1>2. E \in SUBSET (1 .. n)
  BY EscapesAre DEF AreEscapes
<1>3. F = E \/ F = E \cup {n + 1}
  BY EscapesStep, Zenon
<1> HIDE DEF E, F, n, d
<1>4. \A i \in 0 .. n : i \in F <=> i \in E
  BY <1>1, <1>2, <1>3
<1>5. /\ Quits(c, b) = {i \in 1 .. n : b[i] = DOT /\ i - 1 \in E}
      /\ Quits(c, d) = {i \in 1 .. n + 1 : d[i] = DOT /\ i - 1 \in F}
  BY <1>1 DEF Quits, E, F, n
<1>6. \A i \in 1 .. n + 1 : i - 1 \in F <=> i - 1 \in E
  BY <1>1, <1>4
<1>7. Quits(c, d) = IF x = DOT /\ n \in E THEN Quits(c, b) \cup {n + 1} ELSE Quits(c, b)
  BY <1>1, <1>5, <1>6
<1>8. Quits(c, b) \in SUBSET (1 .. n)
  BY <1>5
<1> QED
  BY <1>2, <1>4, <1>7, <1>8 DEF E, F, n, d

-----------------------------------------------------------------------------
(* What a text stands for, one byte more at a time. *)

LEMMA MeantAtType ==
    ASSUME NEW c, c.key \in Nat, NEW b \in Seq(Nat), NEW i \in 1 .. Len(b)
    PROVE  MeantAt(c, b, i) \in Seq(Nat)
<1>1. b[i] \in Nat
  OBVIOUS
<1>2. <<>> \in Seq(Nat) /\ <<b[i]>> \in Seq(Nat) /\ <<c.key>> \in Seq(Nat)
      /\ <<c.key, b[i]>> \in Seq(Nat)
  BY <1>1
<1> QED
  BY <1>2, Zenon DEF MeantAt

LEMMA MeantAtStays ==
    ASSUME NEW c, NEW b \in Seq(Nat), NEW x \in Nat, NEW i \in 1 .. Len(b)
    PROVE  MeantAt(c, Append(b, x), i) = MeantAt(c, b, i)
<1>1. Append(b, x)[i] = b[i] /\ i \in 0 .. Len(b) /\ i - 1 \in 0 .. Len(b)
  OBVIOUS
<1>2. \A j \in 0 .. Len(b) : j \in Escapes(c, Append(b, x)) <=> j \in Escapes(c, b)
  BY QuitsStep
<1>3. /\ i \in Escapes(c, Append(b, x)) <=> i \in Escapes(c, b)
      /\ i - 1 \in Escapes(c, Append(b, x)) <=> i - 1 \in Escapes(c, b)
  BY <1>1, <1>2
<1> QED
  BY <1>1, <1>3, Zenon DEF MeantAt

\* What the first k bytes stand for.
MeantUpTo(c, b, k) == [i \in 1 .. k |-> MeantAt(c, b, i)]

LEMMA MeantUpToType ==
    ASSUME NEW c, c.key \in Nat, NEW b \in Seq(Nat), NEW k \in 0 .. Len(b)
    PROVE  /\ MeantUpTo(c, b, k) \in Seq(Seq(Nat)) /\ Len(MeantUpTo(c, b, k)) = k
           /\ \A i \in 1 .. k : MeantUpTo(c, b, k)[i] = MeantAt(c, b, i)
<1>1. \A i \in 1 .. k : MeantAt(c, b, i) \in Seq(Nat)
  <2> TAKE i \in 1 .. k
  <2>1. i \in 1 .. Len(b)
    OBVIOUS
  <2> QED
    BY <2>1, MeantAtType
<1>2. MeantUpTo(c, b, k) \in [1 .. k -> Seq(Nat)]
  BY <1>1 DEF MeantUpTo
<1>3. \A i \in 1 .. k : MeantUpTo(c, b, k)[i] = MeantAt(c, b, i)
  BY DEF MeantUpTo
<1> QED
  BY <1>2, <1>3

\* How much of a text is before its first quit.
Before(c, b) == IF Quits(c, b) = {} THEN Len(b) ELSE Min(Quits(c, b)) - 1

LEMMA BeforeFacts ==
    ASSUME NEW c, NEW b \in Seq(Nat), NEW x \in Nat
    PROVE  /\ Before(c, b) \in 0 .. Len(b)
           /\ Quits(c, Append(b, x)) # {} => Before(c, Append(b, x)) = Before(c, b)
           /\ Quits(c, Append(b, x)) = {}
                 => Before(c, b) = Len(b) /\ Before(c, Append(b, x)) = Len(b) + 1
<1> DEFINE n == Len(b)
           d == Append(b, x)
           Q == Quits(c, b)
           R == Quits(c, d)
<1>1. n \in Nat /\ Len(d) = n + 1
  OBVIOUS
<1>2. Q \in SUBSET (1 .. n) /\ (R = Q \/ (R = Q \cup {n + 1}))
  <2>1. R = IF x = DOT /\ n \in Escapes(c, b) THEN Q \cup {n + 1} ELSE Q
    BY QuitsStep
  <2>2. Q \in SUBSET (1 .. n)
    BY QuitsStep
  <2> QED
    BY <2>1, <2>2
<1>3. /\ Before(c, b) = IF Q = {} THEN n ELSE Min(Q) - 1
      /\ Before(c, d) = IF R = {} THEN n + 1 ELSE Min(R) - 1
  BY <1>1 DEF Before
<1> HIDE DEF n, d, Q, R
<1>9. (\A i \in Q : i \in Nat /\ 1 <= i /\ i <= n) /\ (\A i \in R : i \in Q \/ i = n + 1)
      /\ \A i \in Q : i \in R
  BY <1>1, <1>2
<1>4. Q # {} => Min(Q) \in Q /\ \A i \in Q : Min(Q) <= i
  <2>1. Q \in SUBSET Nat
    BY <1>1, <1>2
  <2> QED
    BY <2>1, MinProperties
<1>5. R # {} => Min(R) \in R /\ \A i \in R : Min(R) <= i
  <2>1. R \in SUBSET Nat
    BY <1>1, <1>9
  <2> QED
    BY <2>1, MinProperties
<1>6. Before(c, b) \in 0 .. n
  <2>1. CASE Q = {}
    BY <1>1, <1>3, <2>1
  <2>2. CASE Q # {}
    <3>1. Min(Q) \in Nat /\ 1 <= Min(Q) /\ Min(Q) <= n
      BY <1>4, <1>9, <2>2
    <3> QED
      BY <1>1, <1>3, <2>2, <3>1
  <2> QED
    BY <2>1, <2>2
<1>7. R # {} => Before(c, d) = Before(c, b)
  <2>1. CASE Q = {} /\ R # {}
    <3>1. R = {n + 1} /\ Min(R) = n + 1
      BY <1>2, <1>5, <2>1
    <3> QED
      BY <1>1, <1>3, <2>1, <3>1
  <2>2. CASE Q # {} /\ R # {}
    <3>1. Min(R) \in Nat /\ Min(Q) \in Nat /\ Min(R) <= Min(Q) /\ Min(Q) <= Min(R)
      <4>1. Min(Q) \in Q /\ Min(R) \in R /\ (\A i \in R : Min(R) <= i)
            /\ \A i \in Q : Min(Q) <= i
        BY <1>4, <1>5, <2>2
      <4>2. Min(Q) \in Nat /\ Min(Q) <= n /\ Min(R) <= Min(Q)
        BY <1>9, <4>1
      <4>3. CASE Min(R) \in Q
        BY <1>9, <4>1, <4>2, <4>3
      <4>4. CASE Min(R) = n + 1
        BY <1>1, <4>2, <4>4
      <4> QED
        BY <1>9, <4>1, <4>3, <4>4
    <3>2. Min(R) = Min(Q)
      BY <3>1
    <3> QED
      BY <1>3, <2>2, <3>2
  <2> QED
    BY <2>1, <2>2
<1>8. R = {} => Before(c, b) = n /\ Before(c, d) = n + 1
  BY <1>2, <1>3
<1> QED
  BY <1>6, <1>7, <1>8 DEF n, d, R

LEMMA MeantStep ==
    ASSUME NEW c, c.key \in Nat, NEW b \in Seq(Nat), NEW x \in Nat
    PROVE  /\ Meant(c, b) \in Seq(Nat)
           /\ Meant(c, Append(b, x)) =
                 IF Quits(c, Append(b, x)) # {} THEN Meant(c, b)
                 ELSE Meant(c, b) \o MeantAt(c, Append(b, x), Len(b) + 1)
<1> DEFINE n == Len(b)
           d == Append(b, x)
           k == Before(c, b)
<1>1. n \in Nat /\ d \in Seq(Nat) /\ Len(d) = n + 1 /\ k \in 0 .. n /\ k \in 0 .. n + 1
  BY BeforeFacts
<1>2. \A t : Meant(c, t) = FlattenSeq(MeantUpTo(c, t, Before(c, t)))
  BY Zenon DEF Meant, MeantUpTo, Before
<1>3. \A j \in 0 .. n : MeantUpTo(c, d, j) = MeantUpTo(c, b, j)
  <2> TAKE j \in 0 .. n
  <2>1. \A i \in 1 .. j : MeantAt(c, d, i) = MeantAt(c, b, i)
    <3> TAKE i \in 1 .. j
    <3>1. i \in 1 .. Len(b)
      BY <1>1
    <3> QED
      BY <3>1, MeantAtStays
  <2> QED
    BY <2>1, Zenon DEF MeantUpTo
<1>4. Meant(c, b) \in Seq(Nat)
  <2>1. MeantUpTo(c, b, k) \in Seq(Seq(Nat))
    BY <1>1, MeantUpToType
  <2> QED
    BY <1>2, <2>1, FlattenFacts
<1>5. CASE Quits(c, d) # {}
  <2>1. Before(c, d) = k
    BY <1>5, BeforeFacts
  <2>2. Meant(c, d) = Meant(c, b)
    BY <1>1, <1>2, <1>3, <2>1, Zenon
  <2> QED
    BY <1>4, <1>5, <2>2
<1>6. CASE Quits(c, d) = {}
  <2>1. k = n /\ Before(c, d) = n + 1
    BY <1>6, BeforeFacts
  <2> DEFINE seqs == MeantUpTo(c, b, n)
             longer == MeantUpTo(c, d, n + 1)
  <2>2. seqs \in Seq(Seq(Nat)) /\ Len(seqs) = n
        /\ \A i \in 1 .. n : seqs[i] = MeantAt(c, b, i)
    <3>1. n \in 0 .. Len(b)
      BY <1>1
    <3> QED
      BY <3>1, MeantUpToType
  <2>3. longer \in Seq(Seq(Nat)) /\ Len(longer) = n + 1
        /\ \A i \in 1 .. n + 1 : longer[i] = MeantAt(c, d, i)
    <3>1. n + 1 \in 0 .. Len(d)
      BY <1>1
    <3> QED
      BY <1>1, <3>1, MeantUpToType
  <2>4. Meant(c, b) = FlattenSeq(seqs) /\ Meant(c, d) = FlattenSeq(longer)
    BY <1>2, <2>1
  <2> HIDE DEF seqs, longer, n, d, k
  <2>5. \A i \in 1 .. n : longer[i] = seqs[i]
    <3> TAKE i \in 1 .. n
    <3>1. MeantAt(c, d, i) = MeantAt(c, b, i)
      BY MeantAtStays DEF n, d
    <3> QED
      BY <1>1, <2>2, <2>3, <3>1
  <2>6. FlattenSeq(longer) = FlattenSeq(seqs) \o longer[Len(longer)]
    BY <2>2, <2>3, <2>5, FlattenOneMore
  <2>7. longer[Len(longer)] = MeantAt(c, d, n + 1)
    BY <1>1, <2>3
  <2>8. Meant(c, d) = Meant(c, b) \o MeantAt(c, d, n + 1)
    BY <2>4, <2>6, <2>7, Zenon
  <2> QED
    BY <1>4, <1>6, <2>8 DEF n, d
<1> QED
  BY <1>5, <1>6

-----------------------------------------------------------------------------
(* The escape filter. *)

FilterState == [armed : BOOLEAN, lf : BOOLEAN]
FeedState == [armed : BOOLEAN, lf : BOOLEAN, was : BOOLEAN, send : Seq(Nat), quit : BOOLEAN]

\* An escape key is a byte, and no line's end.
KeyOK(c) == c.key \in Nat /\ c.key \notin LineEnd

LEMMA ConfigFacts ==
    ASSUME NEW c \in Configs
    PROVE  KeyOK(c)
<1>1. PICK value \in Settings : c = FromSetting(value)
  BY DEF Configs
<1> DEFINE key == IF value.given /\ Len(value.bytes) = 1 /\ value.bytes[1] \in 1 .. 127
                  THEN value.bytes[1] ELSE DEFAULT_ESCAPE_KEY
           sure == IF key \in {3, 4, 10, 12, 13} THEN DEFAULT_ESCAPE_KEY ELSE key
<1>2. key \in Nat
  BY DEF DEFAULT_ESCAPE_KEY
<1>3. c = Disabled \/ c = ForKey(sure)
  BY <1>1, Zenon DEF FromSetting
<1> HIDE DEF key
<1>4. sure \in Nat /\ sure \notin LineEnd
  BY <1>2 DEF DEFAULT_ESCAPE_KEY, LineEnd
<1> HIDE DEF sure
<1>5. ForKey(sure).key = sure /\ Disabled.key = 0
  BY DEF ForKey, Disabled
<1> QED
  BY <1>3, <1>4, <1>5 DEF KeyOK, LineEnd

LEMMA PassedType ==
    ASSUME KeyOK(config), NEW byte \in Nat
    PROVE  Passed(byte) \in Seq(Nat)
<1>1. <<>> \in Seq(Nat) /\ <<config.key>> \in Seq(Nat) /\ <<config.key, byte>> \in Seq(Nat)
  BY DEF KeyOK
<1> QED
  BY <1>1, Zenon DEF Passed

\* What one byte does, by cases.
LEMMA FeedByteCases ==
    ASSUME KeyOK(config), NEW st \in FeedState, NEW byte \in Nat
    PROVE  LET to == FeedByte(st, byte) IN
           \/ st.quit /\ to = st
           \/ /\ ~st.quit /\ st.armed /\ byte = DOT
              /\ to = [st EXCEPT !.armed = FALSE, !.quit = TRUE]
           \/ /\ ~st.quit /\ st.armed /\ byte # DOT
              /\ to = [st EXCEPT !.armed = FALSE, !.send = @ \o Passed(byte)]
           \/ /\ ~st.quit /\ ~st.armed /\ IsEscape(st, byte)
              /\ to = [st EXCEPT !.armed = TRUE, !.was = TRUE, !.lf = FALSE]
           \/ /\ ~st.quit /\ ~st.armed /\ ~IsEscape(st, byte)
              /\ to = [st EXCEPT !.lf = byte \in LineEnd, !.send = Append(@, byte)]
<1>1. st.quit \in BOOLEAN /\ st.armed \in BOOLEAN
  BY DEF FeedState
<1>2. CASE st.quit
  BY <1>2 DEF FeedByte
<1>3. CASE ~st.quit /\ st.armed
  BY <1>3 DEF FeedByte, SecondKey
<1>4. CASE ~st.quit /\ ~st.armed /\ IsEscape(st, byte)
  BY <1>4 DEF FeedByte
<1>5. CASE ~st.quit /\ ~st.armed /\ ~IsEscape(st, byte)
  BY <1>5 DEF FeedByte
<1> QED
  BY <1>1, <1>2, <1>3, <1>4, <1>5

LEMMA FeedByteType ==
    ASSUME KeyOK(config), NEW st \in FeedState, NEW byte \in Nat
    PROVE  FeedByte(st, byte) \in FeedState
<1>1. st.send \o Passed(byte) \in Seq(Nat) /\ Append(st.send, byte) \in Seq(Nat)
      /\ (byte \in LineEnd) \in BOOLEAN
  BY PassedType DEF FeedState
<1> DEFINE to == FeedByte(st, byte)
<1>2. CASE to = st
  BY <1>2
<1>3. CASE to = [st EXCEPT !.armed = FALSE, !.quit = TRUE]
  BY <1>3 DEF FeedState
<1>4. CASE to = [st EXCEPT !.armed = FALSE, !.send = @ \o Passed(byte)]
  BY <1>1, <1>4 DEF FeedState
<1>5. CASE to = [st EXCEPT !.armed = TRUE, !.was = TRUE, !.lf = FALSE]
  BY <1>5 DEF FeedState
<1>6. CASE to = [st EXCEPT !.lf = byte \in LineEnd, !.send = Append(@, byte)]
  BY <1>1, <1>6 DEF FeedState
<1> QED
  BY <1>2, <1>3, <1>4, <1>5, <1>6, FeedByteCases, Zenon

\* Fed is what the bytes make of the filter, one after the other.
LEMMA FedRuns ==
    ASSUME KeyOK(config), NEW f \in FilterState, NEW bytes \in Seq(Nat)
    PROVE  /\ Fed(f, bytes) \in [0 .. Len(bytes) -> FeedState]
           /\ Fed(f, bytes)[0] = Begun(f)
           /\ \A i \in 1 .. Len(bytes) :
                 Fed(f, bytes)[i] = FeedByte(Fed(f, bytes)[i - 1], bytes[i])
<1> DEFINE n == Len(bytes)
           step == [i \in 1 .. n |-> [st \in FeedState |-> FeedByte(st, bytes[i])]]
           Is(g) == g = [i \in 0 .. n |-> IF i = 0 THEN Begun(f) ELSE FeedByte(g[i - 1], bytes[i])]
<1>1. n \in Nat /\ \A i \in 1 .. n : bytes[i] \in Nat
  OBVIOUS
<1>2. Begun(f) \in FeedState
  BY DEF Begun, FeedState, FilterState, WasArmed
<1>3. \A i \in 1 .. n, st \in FeedState : step[i][st] = FeedByte(st, bytes[i])
  OBVIOUS
<1>4. \A i \in 1 .. n, st \in FeedState : step[i][st] \in FeedState
  BY <1>1, <1>3, FeedByteType
<1>5. Steps(step, n, Begun(f), FeedState)
  BY <1>1, <1>2, <1>4 DEF Steps
<1> HIDE DEF step
<1>6. PICK g : Runs(g, step, n, Begun(f), FeedState)
  BY <1>5, RecursionExists, Zenon
<1>7. g \in [0 .. n -> FeedState] /\ g[0] = Begun(f)
      /\ \A i \in 1 .. n : g[i] = FeedByte(g[i - 1], bytes[i])
  <2>1. g \in [0 .. n -> FeedState] /\ g[0] = Begun(f)
        /\ \A i \in 1 .. n : g[i] = step[i][g[i - 1]]
    BY <1>6 DEF Runs
  <2>2. \A i \in 1 .. n : g[i - 1] \in FeedState
    <3> TAKE i \in 1 .. n
    <3>1. i - 1 \in 0 .. n
      BY <1>1
    <3> QED
      BY <2>1, <3>1, Zenon
  <2> QED
    BY <1>3, <2>1, <2>2, Zenon
<1>8. Is(g)
  <2>1. \A i \in 0 .. n : g[i] = IF i = 0 THEN Begun(f) ELSE FeedByte(g[i - 1], bytes[i])
    <3> TAKE i \in 0 .. n
    <3>1. i = 0 \/ i \in 1 .. n
      BY <1>1
    <3> QED
      BY <1>7, <3>1, Zenon
  <2> QED
    BY <1>7, <2>1, Zenon
<1>9. Fed(f, bytes) = CHOOSE h : Is(h)
  BY Zenon DEF Fed

<1>10. Is(Fed(f, bytes))
  BY <1>8, <1>9, Zenon
<1> DEFINE h == Fed(f, bytes)
           P == {k \in Nat : k <= n => h[k] = g[k]}
<1> HIDE DEF h
<1>11. h = [i \in 0 .. n |-> h[i]] /\ h[0] = Begun(f)
       /\ \A i \in 1 .. n : h[i] = FeedByte(h[i - 1], bytes[i])
  <2>1. Is(h)
    BY <1>10 DEF h
  <2>2. 0 \in 0 .. n /\ \A i \in 1 .. n : i \in 0 .. n /\ i # 0
    BY <1>1
  <2>3. h = [i \in 0 .. n |-> IF i = 0 THEN Begun(f) ELSE FeedByte(h[i - 1], bytes[i])]
    BY <2>1
  <2>4. \A i \in 0 .. n : h[i] = IF i = 0 THEN Begun(f) ELSE FeedByte(h[i - 1], bytes[i])
    BY <2>3, Zenon
  <2>5. h = [i \in 0 .. n |-> h[i]]
    BY <2>3, <2>4, Zenon
  <2> QED
    BY <2>2, <2>4, <2>5, Zenon
<1>12. 0 \in P
  BY <1>7, <1>11
<1>13. ASSUME NEW k \in P PROVE k + 1 \in P
  <2> SUFFICES ASSUME k + 1 <= n PROVE h[k + 1] = g[k + 1]
    OBVIOUS
  <2>1. k + 1 \in 1 .. n /\ (k + 1) - 1 = k /\ h[k] = g[k]
    BY <1>1, <1>13
  <2>2. h[k + 1] = FeedByte(h[k], bytes[k + 1]) /\ g[k + 1] = FeedByte(g[k], bytes[k + 1])
    BY <1>7, <1>11, <2>1, Zenon
  <2> QED
    BY <2>1, <2>2, Zenon
<1> HIDE DEF P
<1>14. P = Nat
  BY <1>12, <1>13, SetInduction DEF P
<1>15. \A i \in 0 .. n : h[i] = g[i]
  BY <1>1, <1>14 DEF P
<1>16. h = g
  BY <1>7, <1>11, <1>15, Zenon
<1> QED
  BY <1>7, <1>16 DEF h

\* The filter is where the text d has brought it, after sending what it had
\* sent for the beginning b of the text.
Follows(c, st, b, d) ==
    /\ st.quit <=> Quits(c, d) # {}
    /\ ~st.quit => /\ st.armed <=> Len(d) \in Escapes(c, d)
                   /\ st.lf <=> AtStart(c, d)
    /\ Meant(c, d) = Meant(c, b) \o st.send

\* No line starts at an escape key, nor at the key after it.
LEMMA EscapeKey ==
    ASSUME NEW c, KeyOK(c), NEW b \in Seq(Nat), Len(b) \in Escapes(c, b)
    PROVE  ~AtStart(c, b)
<1>1. AreEscapes(c, b, Escapes(c, b))
  BY EscapesAre
<1>2. Len(b) \in 1 .. Len(b) /\ Begins(c, b, Escapes(c, b), Len(b))
  BY <1>1 DEF AreEscapes
<1>3. b[Len(b)] = c.key
  BY <1>2 DEF Begins
<1> QED
  BY <1>3 DEF AtStart, KeyOK

LEMMA FollowStep ==
    ASSUME KeyOK(config), config # Disabled, NEW st \in FeedState, NEW x \in Nat,
           NEW b \in Seq(Nat), NEW d \in Seq(Nat), Follows(config, st, b, d)
    PROVE  Follows(config, FeedByte(st, x), b, Append(d, x))
<1> DEFINE to == FeedByte(st, x)
           n == Len(d)
           e == Append(d, x)
           E == Escapes(config, d)
           base == Meant(config, b)
<1>1. /\ e \in Seq(Nat) /\ Len(e) = n + 1 /\ e[n + 1] = x /\ e # <<>> /\ n \in Nat
      /\ n \in 0 .. n /\ (n + 1) - 1 = n
  BY SMTT(30)
<1>2. /\ st.quit \in BOOLEAN /\ st.armed \in BOOLEAN /\ st.lf \in BOOLEAN
      /\ st.send \in Seq(Nat) /\ config.key \in Nat
  BY DEF FeedState, KeyOK
<1>3. Meant(config, b) \in Seq(Nat) /\ Meant(config, d) \in Seq(Nat)
  BY <1>2, MeantStep
<1>4. Meant(config, e) = IF Quits(config, e) # {} THEN Meant(config, d)
                         ELSE Meant(config, d) \o MeantAt(config, e, n + 1)
  BY <1>2, MeantStep
<1>5. /\ E \in SUBSET (1 .. n)
      /\ n \in Escapes(config, e) <=> n \in E
      /\ Quits(config, e) = IF x = DOT /\ n \in E THEN Quits(config, d) \cup {n + 1}
                            ELSE Quits(config, d)
  BY <1>1, QuitsStep
<1>6. n + 1 \in Escapes(config, e) <=> /\ x = config.key /\ n \notin E
                                       /\ config.requires_lf => AtStart(config, d)
  <2>1. Escapes(config, e) =
           IF /\ config # Disabled /\ x = config.key /\ n \notin E
              /\ config.requires_lf => AtStart(config, d)
           THEN E \cup {n + 1} ELSE E
    BY EscapesStep
  <2>2. n + 1 \notin E
    BY <1>1, <1>5
  <2> QED
    BY <2>1, <2>2, Zenon
<1>7. AtStart(config, e) <=> x \in LineEnd /\ n \notin E
  BY <1>1, <1>5, Zenon DEF AtStart
<1>8. /\ st.quit <=> Quits(config, d) # {}
      /\ ~st.quit => /\ st.armed <=> n \in E
                     /\ st.lf <=> AtStart(config, d)
      /\ Meant(config, d) = Meant(config, b) \o st.send
  BY DEF Follows
<1>9. MeantAt(config, e, n + 1) = IF n + 1 \in Escapes(config, e) THEN <<>>
                                  ELSE IF n \notin E THEN <<x>> ELSE Passed(x)
  BY <1>1, <1>5, Zenon DEF MeantAt, Passed
<1>10. IsEscape(st, x) <=> x = config.key /\ (config.requires_lf => st.lf)
  BY DEF IsEscape
<1>11. n \in E => ~AtStart(config, d)
  BY EscapeKey DEF KeyOK
<1>12. Passed(x) \in Seq(Nat) /\ <<x>> \in Seq(Nat)
  BY PassedType
<1> HIDE DEF n, e, E
<1>13. CASE st.quit /\ to = st
  <2>1. Quits(config, e) # {}
    BY <1>5, <1>8, <1>13
  <2>2. Meant(config, e) = Meant(config, d)
    BY <1>4, <2>1
  <2> QED
    BY <1>8, <1>13, <2>1, <2>2, Zenon DEF Follows, e
<1>14. CASE /\ ~st.quit /\ st.armed /\ x = DOT
            /\ to = [st EXCEPT !.armed = FALSE, !.quit = TRUE]
  <2>1. Quits(config, e) # {}
    BY <1>5, <1>8, <1>14
  <2>2. Meant(config, e) = Meant(config, d)
    BY <1>4, <2>1
  <2>3. to.quit = TRUE /\ to.send = st.send
    BY <1>14 DEF FeedState
  <2> QED
    BY <1>8, <2>1, <2>2, <2>3, Zenon DEF Follows, e
<1>15. CASE /\ ~st.quit /\ st.armed /\ x # DOT
            /\ to = [st EXCEPT !.armed = FALSE, !.send = @ \o Passed(x)]
  <2>1. to.quit = FALSE /\ to.send = st.send \o Passed(x) /\ to.armed = FALSE /\ to.lf = st.lf
    BY <1>2, <1>15 DEF FeedState
  <2>2. n \in E /\ Quits(config, e) = {} /\ n + 1 \notin Escapes(config, e)
        /\ ~AtStart(config, e) /\ ~st.lf
    BY <1>5, <1>6, <1>7, <1>8, <1>11, <1>15
  <2>3. Meant(config, e) = (base \o st.send) \o Passed(x)
    BY <1>4, <1>8, <1>9, <2>2
  <2>4. Meant(config, e) = base \o to.send
    <3>1. (base \o st.send) \o Passed(x) = base \o (st.send \o Passed(x))
      <4> DEFINE p == Passed(x)
                 sent == st.send
      <4>1. base \in Seq(Nat) /\ sent \in Seq(Nat) /\ p \in Seq(Nat)
        BY <1>2, <1>3, <1>12
      <4> HIDE DEF p, sent, base
      <4>2. (base \o sent) \o p = base \o (sent \o p)
        BY <4>1, ConcatAssoc, SMTT(30)
      <4> QED
        BY <4>2 DEF p, sent
    <3> QED
      BY <2>1, <2>3, <3>1, Zenon
  <2> QED
    BY <1>1, <2>1, <2>2, <2>4, Zenon DEF Follows, e
<1>16. CASE /\ ~st.quit /\ ~st.armed /\ IsEscape(st, x)
            /\ to = [st EXCEPT !.armed = TRUE, !.was = TRUE, !.lf = FALSE]
  <2>1. to.quit = FALSE /\ to.send = st.send /\ to.armed = TRUE /\ to.lf = FALSE
    BY <1>2, <1>16 DEF FeedState
  <2>2. n \notin E /\ Quits(config, e) = {} /\ n + 1 \in Escapes(config, e)
    BY <1>5, <1>6, <1>8, <1>10, <1>16
  <2>3. ~AtStart(config, e)
    BY <1>7, <1>10, <1>16 DEF KeyOK
  <2>4. Meant(config, e) = (base \o st.send) \o <<>>
    BY <1>4, <1>8, <1>9, <2>2
  <2>5. Meant(config, e) = base \o to.send
    BY <1>2, <1>3, <2>1, <2>4
  <2> QED
    BY <1>1, <2>1, <2>2, <2>3, <2>5, Zenon DEF Follows, e
<1>17. CASE /\ ~st.quit /\ ~st.armed /\ ~IsEscape(st, x)
            /\ to = [st EXCEPT !.lf = x \in LineEnd, !.send = Append(@, x)]
  <2>1. to.quit = FALSE /\ to.send = Append(st.send, x) /\ to.armed = FALSE
        /\ to.lf = (x \in LineEnd)
    BY <1>2, <1>17 DEF FeedState
  <2>2. n \notin E /\ Quits(config, e) = {}
    BY <1>5, <1>8, <1>17
  <2>6. n + 1 \notin Escapes(config, e)
    BY <1>6, <1>8, <1>10, <1>17
  <2>3. AtStart(config, e) <=> x \in LineEnd
    BY <1>7, <2>2
  <2>4. Meant(config, e) = (base \o st.send) \o <<x>>
    BY <1>4, <1>8, <1>9, <2>2, <2>6
  <2>5. Meant(config, e) = base \o to.send
    <3>1. (base \o st.send) \o <<x>> = base \o Append(st.send, x)
      BY <1>2, <1>3, ConcatAppend
    <3> QED
      BY <2>1, <2>4, <3>1, Zenon
  <2> QED
    BY <1>1, <2>1, <2>2, <2>3, <2>5, <2>6, Zenon DEF Follows, e
<1> QED
  BY <1>13, <1>14, <1>15, <1>16, <1>17, FeedByteCases, Zenon DEF e

\* A text and what is read after it, one byte at a time.
LEMMA ReadParts ==
    ASSUME NEW b \in Seq(Nat), NEW bytes \in Seq(Nat)
    PROVE  /\ Len(bytes) \in Nat /\ b \o SubSeq(bytes, 1, 0) = b
           /\ b \o SubSeq(bytes, 1, Len(bytes)) = b \o bytes
           /\ \A k \in 0 .. Len(bytes) : b \o SubSeq(bytes, 1, k) \in Seq(Nat)
           /\ \A k \in 0 .. Len(bytes) - 1 :
                /\ bytes[k + 1] \in Nat
                /\ b \o SubSeq(bytes, 1, k + 1) = Append(b \o SubSeq(bytes, 1, k), bytes[k + 1])
<1>1. SubSeq(bytes, 1, 0) = <<>> /\ SubSeq(bytes, 1, Len(bytes)) = bytes
  OBVIOUS
<1>2. \A k \in 0 .. Len(bytes) : b \o SubSeq(bytes, 1, k) \in Seq(Nat)
  OBVIOUS
<1>4. b \o <<>> = b /\ Len(bytes) \in Nat
  OBVIOUS
<1>3. ASSUME NEW k \in 0 .. Len(bytes) - 1
      PROVE  /\ bytes[k + 1] \in Nat
             /\ b \o SubSeq(bytes, 1, k + 1) = Append(b \o SubSeq(bytes, 1, k), bytes[k + 1])
  <2> DEFINE u == SubSeq(bytes, 1, k)
             x == bytes[k + 1]
  <2>1. SubSeq(bytes, 1, k + 1) = Append(u, x) /\ u \in Seq(Nat) /\ x \in Nat
    OBVIOUS
  <2> HIDE DEF u, x
  <2>2. b \o Append(u, x) = Append(b \o u, x)
    BY <2>1, SMTT(30)
  <2> QED
    BY <2>1, <2>2 DEF u, x
<1> QED
  BY <1>1, <1>2, <1>3, <1>4, Zenon

\* The filter is in step with the text b.
InStep(c, f, b) ==
    /\ f.armed <=> Len(b) \in Escapes(c, b)
    /\ f.lf <=> AtStart(c, b)

LEMMA FeedFollows ==
    ASSUME KeyOK(config), config # Disabled, NEW f \in FilterState, NEW bytes \in Seq(Nat),
           NEW b \in Seq(Nat), Quits(config, b) = {}, InStep(config, f, b)
    PROVE  Follows(config, Fed(f, bytes)[Len(bytes)], b, b \o bytes)
<1> DEFINE n == Len(bytes)
           h == Fed(f, bytes)
           upto(k) == b \o SubSeq(bytes, 1, k)
           P == {k \in Nat : k <= n => Follows(config, h[k], b, upto(k))}
<1>1. /\ n \in Nat /\ h \in [0 .. n -> FeedState] /\ h[0] = Begun(f)
      /\ \A i \in 1 .. n : h[i] = FeedByte(h[i - 1], bytes[i])
  BY FedRuns
<1>2. /\ upto(0) = b /\ upto(n) = b \o bytes /\ \A k \in 0 .. n : upto(k) \in Seq(Nat)
      /\ \A k \in 0 .. n - 1 : bytes[k + 1] \in Nat /\ upto(k + 1) = Append(upto(k), bytes[k + 1])
  BY ReadParts
<1> HIDE DEF h, upto
<1>3. 0 \in P
  <2>1. /\ h[0].quit = FALSE /\ h[0].armed = f.armed /\ h[0].lf = f.lf /\ h[0].send = <<>>
    BY <1>1 DEF Begun
  <2>2. Meant(config, b) = Meant(config, b) \o <<>>
    <3>1. Meant(config, b) \in Seq(Nat)
      BY MeantStep DEF KeyOK
    <3> QED
      BY <3>1
  <2>3. Follows(config, h[0], b, b)
    BY <2>1, <2>2, Zenon DEF Follows, InStep
  <2> QED
    BY <1>2, <2>3
<1>4. ASSUME NEW k \in P PROVE k + 1 \in P
  <2> SUFFICES ASSUME k + 1 <= n PROVE Follows(config, h[k + 1], b, upto(k + 1))
    OBVIOUS
  <2>1. /\ k \in 0 .. n /\ k \in 0 .. n - 1 /\ k + 1 \in 1 .. n /\ (k + 1) - 1 = k
        /\ Follows(config, h[k], b, upto(k))
    BY <1>1, <1>4
  <2>2. h[k + 1] = FeedByte(h[k], bytes[k + 1]) /\ h[k] \in FeedState
    BY <1>1, <2>1, Zenon
  <2>3. upto(k) \in Seq(Nat) /\ bytes[k + 1] \in Nat
        /\ upto(k + 1) = Append(upto(k), bytes[k + 1])
    BY <1>2, <2>1, Zenon
  <2>4. Follows(config, FeedByte(h[k], bytes[k + 1]), b, Append(upto(k), bytes[k + 1]))
    BY <2>1, <2>2, <2>3, FollowStep
  <2> QED
    BY <2>2, <2>3, <2>4, Zenon
<1> HIDE DEF P
<1>5. P = Nat
  BY <1>3, <1>4, SetInduction DEF P
<1>6. Follows(config, h[n], b, upto(n))
  BY <1>1, <1>5 DEF P
<1> QED
  BY <1>2, <1>6, Zenon DEF h

\* After a quit nothing counts any more.
LEMMA AfterQuit ==
    ASSUME NEW c, KeyOK(c), NEW bytes \in Seq(Nat), NEW b \in Seq(Nat), Quits(c, b) # {}
    PROVE  Quits(c, b \o bytes) # {} /\ Meant(c, b \o bytes) = Meant(c, b)
<1> DEFINE n == Len(bytes)
           upto(k) == b \o SubSeq(bytes, 1, k)
           Over(d) == Quits(c, d) # {} /\ Meant(c, d) = Meant(c, b)
           P == {k \in Nat : k <= n => Over(upto(k))}
<1>1. /\ n \in Nat /\ upto(0) = b /\ upto(n) = b \o bytes /\ \A k \in 0 .. n : upto(k) \in Seq(Nat)
      /\ \A k \in 0 .. n - 1 : bytes[k + 1] \in Nat /\ upto(k + 1) = Append(upto(k), bytes[k + 1])
  BY ReadParts
<1> HIDE DEF upto
<1>2. ASSUME NEW d \in Seq(Nat), NEW x \in Nat, Over(d) PROVE Over(Append(d, x))
  <2>1. Quits(c, Append(d, x)) # {}
    <3>1. PICK i : i \in Quits(c, d)
      BY <1>2
    <3>2. Quits(c, Append(d, x)) = IF x = DOT /\ Len(d) \in Escapes(c, d)
                                    THEN Quits(c, d) \cup {Len(d) + 1} ELSE Quits(c, d)
      BY QuitsStep
    <3>3. i \in Quits(c, Append(d, x))
      BY <3>1, <3>2, Zenon
    <3> QED
      BY <3>3
  <2> QED
    BY <1>2, <2>1, MeantStep DEF KeyOK
<1>3. Over(b)
  OBVIOUS
<1> HIDE DEF Over
<1>4. 0 \in P
  BY <1>1, <1>3
<1>5. ASSUME NEW k \in P PROVE k + 1 \in P
  <2> SUFFICES ASSUME k + 1 <= n PROVE Over(upto(k + 1))
    OBVIOUS
  <2>1. k \in 0 .. n /\ k \in 0 .. n - 1 /\ Over(upto(k))
    BY <1>1, <1>5
  <2>2. upto(k) \in Seq(Nat) /\ bytes[k + 1] \in Nat
        /\ upto(k + 1) = Append(upto(k), bytes[k + 1])
    BY <1>1, <2>1, Zenon
  <2> QED
    BY <1>2, <2>1, <2>2, Zenon
<1> HIDE DEF P
<1>6. P = Nat
  BY <1>4, <1>5, SetInduction DEF P
<1>7. Over(upto(n))
  <2>1. n \in P /\ n <= n
    BY <1>1, <1>6
  <2> QED
    BY <2>1, Zenon DEF P
<1> QED
  BY <1>1, <1>7, Zenon DEF Over

\* Without an escape key everything is meant as it is.
LEMMA WithoutKey ==
    ASSUME NEW bytes \in Seq(Nat), NEW b \in Seq(Nat)
    PROVE  /\ Quits(Disabled, b) = {}
           /\ Meant(Disabled, b \o bytes) = Meant(Disabled, b) \o bytes
<1> DEFINE c == Disabled
           n == Len(bytes)
           upto(k) == b \o SubSeq(bytes, 1, k)
           Sent(k) == Meant(c, upto(k)) = Meant(c, b) \o SubSeq(bytes, 1, k)
           P == {k \in Nat : k <= n => Sent(k)}
<1>1. \A d \in Seq(Nat) : Escapes(c, d) = {} /\ Quits(c, d) = {}
  <2> TAKE d \in Seq(Nat)
  <2>1. AreEscapes(c, d, Escapes(c, d))
    BY EscapesAre
  <2>2. Escapes(c, d) = {}
    BY <2>1 DEF AreEscapes, Begins
  <2> QED
    BY <2>2 DEF Quits
<1>2. c.key \in Nat
  BY DEF Disabled
<1> HIDE DEF c
<1>3. ASSUME NEW d \in Seq(Nat), NEW x \in Nat PROVE Meant(c, Append(d, x)) = Meant(c, d) \o <<x>>
  <2>1. Append(d, x) \in Seq(Nat) /\ Append(d, x)[Len(d) + 1] = x
    OBVIOUS
  <2>2. Quits(c, Append(d, x)) = {} /\ Escapes(c, Append(d, x)) = {}
    BY <1>1, <2>1
  <2>3. MeantAt(c, Append(d, x), Len(d) + 1) = <<x>>
    BY <2>1, <2>2, Zenon DEF MeantAt
  <2> QED
    BY <1>2, <2>2, <2>3, MeantStep
<1>4. Meant(c, b) \in Seq(Nat)
  BY <1>2, MeantStep
<1>5. /\ n \in Nat /\ upto(0) = b /\ upto(n) = b \o bytes /\ \A k \in 0 .. n : upto(k) \in Seq(Nat)
      /\ \A k \in 0 .. n - 1 : bytes[k + 1] \in Nat /\ upto(k + 1) = Append(upto(k), bytes[k + 1])
  BY ReadParts
<1>6. /\ SubSeq(bytes, 1, 0) = <<>> /\ SubSeq(bytes, 1, n) = bytes
      /\ \A k \in 0 .. n - 1 : /\ SubSeq(bytes, 1, k) \in Seq(Nat)
                               /\ SubSeq(bytes, 1, k + 1) = Append(SubSeq(bytes, 1, k), bytes[k + 1])
  OBVIOUS
<1> HIDE DEF upto
<1>7. 0 \in P
  <2>1. Meant(c, b) \o <<>> = Meant(c, b)
    BY <1>4
  <2> QED
    BY <1>5, <1>6, <2>1
<1>8. ASSUME NEW k \in P PROVE k + 1 \in P
  <2> SUFFICES ASSUME k + 1 <= n PROVE Sent(k + 1)
    OBVIOUS
  <2> DEFINE x == bytes[k + 1]
             base == Meant(c, b)
             u == SubSeq(bytes, 1, k)
  <2>1. k \in 0 .. n /\ k \in 0 .. n - 1 /\ Sent(k)
    BY <1>5, <1>8, SMTT(30)
  <2>2. upto(k) \in Seq(Nat) /\ x \in Nat /\ upto(k + 1) = Append(upto(k), x)
        /\ u \in Seq(Nat) /\ SubSeq(bytes, 1, k + 1) = Append(u, x)
    BY <1>5, <1>6, <2>1, Zenon
  <2>3. Meant(c, upto(k + 1)) = (base \o u) \o <<x>>
    BY <1>3, <2>1, <2>2, Zenon
  <2> HIDE DEF x, base, u
  <2>4. (base \o u) \o <<x>> = base \o Append(u, x)
    BY <1>4, <2>2, ConcatAppend DEF base
  <2> QED
    BY <2>2, <2>3, <2>4, Zenon DEF base
<1> HIDE DEF P
<1>9. P = Nat
  BY <1>7, <1>8, SetInduction DEF P
<1>10. Sent(n)
  <2>1. n \in P /\ n <= n
    BY <1>5, <1>9
  <2> QED
    BY <2>1, Zenon DEF P
<1> QED
  BY <1>1, <1>5, <1>6, <1>10, Zenon DEF c

\* The filter remembers that it was waiting for a second key.
LEMMA FedWas ==
    ASSUME KeyOK(config), NEW f \in FilterState, NEW bytes \in Seq(Nat)
    PROVE  f.armed \/ Fed(f, bytes)[Len(bytes)].armed => Fed(f, bytes)[Len(bytes)].was
<1> DEFINE n == Len(bytes)
           h == Fed(f, bytes)
           Knows(st) == f.armed \/ st.armed => st.was
           P == {k \in Nat : k <= n => Knows(h[k])}
<1>1. /\ h \in [0 .. n -> FeedState] /\ h[0] = Begun(f)
      /\ \A i \in 1 .. n : h[i] = FeedByte(h[i - 1], bytes[i])
  BY FedRuns
<1>2. n \in Nat /\ \A i \in 1 .. n : bytes[i] \in Nat
  OBVIOUS
<1> HIDE DEF h
<1>3. Knows(h[0])
  BY <1>1 DEF Begun, WasArmed
<1>4. ASSUME NEW st \in FeedState, NEW x \in Nat, Knows(st) PROVE Knows(FeedByte(st, x))
  <2> DEFINE to == FeedByte(st, x)
  <2>1. CASE to = st
    BY <1>4, <2>1
  <2>2. CASE to = [st EXCEPT !.armed = FALSE, !.quit = TRUE]
    BY <1>4, <2>2 DEF FeedState
  <2>3. CASE to = [st EXCEPT !.armed = FALSE, !.send = @ \o Passed(x)]
    BY <1>4, <2>3 DEF FeedState
  <2>4. CASE to = [st EXCEPT !.armed = TRUE, !.was = TRUE, !.lf = FALSE]
    BY <1>4, <2>4 DEF FeedState
  <2>5. CASE to = [st EXCEPT !.lf = x \in LineEnd, !.send = Append(@, x)]
    BY <1>4, <2>5 DEF FeedState
  <2> QED
    BY <2>1, <2>2, <2>3, <2>4, <2>5, FeedByteCases, Zenon
<1> HIDE DEF Knows
<1>5. 0 \in P
  BY <1>3
<1>6. ASSUME NEW k \in P PROVE k + 1 \in P
  <2> SUFFICES ASSUME k + 1 <= n PROVE Knows(h[k + 1])
    OBVIOUS
  <2>1. k \in 0 .. n /\ k + 1 \in 1 .. n /\ (k + 1) - 1 = k /\ Knows(h[k])
    BY <1>2, <1>6
  <2>2. h[k + 1] = FeedByte(h[k], bytes[k + 1]) /\ h[k] \in FeedState /\ bytes[k + 1] \in Nat
    BY <1>1, <1>2, <2>1, Zenon
  <2> QED
    BY <1>4, <2>1, <2>2, Zenon
<1> HIDE DEF P
<1>7. P = Nat
  BY <1>5, <1>6, SetInduction DEF P
<1>8. Knows(h[n])
  <2>1. n \in P /\ n <= n
    BY <1>2, <1>7
  <2> QED
    BY <2>1, Zenon DEF P
<1> QED
  BY <1>8 DEF Knows, h

\* What feed returns, and when it reports on the help.
LEMMA FeedFacts ==
    ASSUME KeyOK(config), NEW f \in FilterState, NEW bytes \in Seq(Nat)
    PROVE  LET fed == Feed(f, bytes) IN
           /\ fed.f \in FilterState /\ fed.send \in Seq(Nat) /\ fed.quit \in BOOLEAN
           /\ fed.help = {} \/ (fed.help = {fed.f.armed} /\ ~fed.quit)
           /\ ~fed.quit /\ fed.help = {} => (fed.f.armed <=> f.armed)
<1> DEFINE end == Fed(f, bytes)[Len(bytes)]
           fed == Feed(f, bytes)
<1>1. end \in FeedState
  <2>1. Fed(f, bytes) \in [0 .. Len(bytes) -> FeedState]
    BY FedRuns
  <2>2. Len(bytes) \in 0 .. Len(bytes)
    OBVIOUS
  <2> QED
    BY <2>1, <2>2, Zenon
<1>2. f.armed \/ end.armed => end.was
  BY FedWas
<1>3. fed = IF config = Disabled THEN [f |-> f, send |-> bytes, help |-> {}, quit |-> FALSE]
            ELSE [f |-> [armed |-> end.armed, lf |-> end.lf], send |-> end.send,
                  help |-> IF end.quit \/ ~end.was THEN {} ELSE {end.armed},
                  quit |-> end.quit]
  BY Zenon DEF Feed
<1> HIDE DEF end, fed
<1>4. CASE config = Disabled
  <2>1. fed.f = f /\ fed.send = bytes /\ fed.help = {} /\ fed.quit = FALSE
    BY <1>3, <1>4
  <2> QED
    BY <2>1, Zenon DEF fed
<1>5. CASE config # Disabled
  <2>1. /\ fed.f = [armed |-> end.armed, lf |-> end.lf] /\ fed.send = end.send
        /\ fed.help = (IF end.quit \/ ~end.was THEN {} ELSE {end.armed})
        /\ fed.quit = end.quit
    BY <1>3, <1>5
  <2>2. fed.f.armed = end.armed /\ fed.f \in FilterState
    BY <1>1, <2>1 DEF FeedState, FilterState
  <2>3. end.quit \in BOOLEAN /\ end.was \in BOOLEAN /\ end.send \in Seq(Nat)
    BY <1>1 DEF FeedState
  <2>4. fed.help = {} \/ (fed.help = {fed.f.armed} /\ ~fed.quit)
    BY <2>1, <2>2
  <2>5. ~fed.quit /\ fed.help = {} => (fed.f.armed <=> f.armed)
    <3> SUFFICES ASSUME ~fed.quit, fed.help = {} PROVE fed.f.armed <=> f.armed
      OBVIOUS
    <3>1. ~end.was
      BY <2>1
    <3> QED
      BY <1>2, <2>2, <3>1, Zenon
  <2> QED
    BY <2>1, <2>2, <2>3, <2>4, <2>5, Zenon DEF fed
<1> QED
  BY <1>4, <1>5

\* What feed makes of the bytes is what they stand for after the text b.
LEMMA FeedText ==
    ASSUME KeyOK(config), NEW f \in FilterState, NEW bytes \in Seq(Nat), NEW b \in Seq(Nat),
           config # Disabled /\ Quits(config, b) = {} => InStep(config, f, b)
    PROVE  LET fed == Feed(f, bytes)
               d == b \o bytes
           IN  /\ Quits(config, b) = {} =>
                     /\ fed.quit <=> Quits(config, d) # {}
                     /\ Meant(config, d) = Meant(config, b) \o fed.send
               /\ Quits(config, b) # {} =>
                     Quits(config, d) # {} /\ Meant(config, d) = Meant(config, b)
               /\ config # Disabled /\ Quits(config, d) = {} => InStep(config, fed.f, d)
<1> DEFINE end == Fed(f, bytes)[Len(bytes)]
           fed == Feed(f, bytes)
           d == b \o bytes
<1>1. fed = IF config = Disabled THEN [f |-> f, send |-> bytes, help |-> {}, quit |-> FALSE]
            ELSE [f |-> [armed |-> end.armed, lf |-> end.lf], send |-> end.send,
                  help |-> IF end.quit \/ ~end.was THEN {} ELSE {end.armed},
                  quit |-> end.quit]
  BY Zenon DEF Feed
<1> HIDE DEF fed
<1>2. Quits(config, b) # {} => Quits(config, d) # {} /\ Meant(config, d) = Meant(config, b)
  BY AfterQuit
<1>3. CASE config = Disabled
  <2>1. d \in Seq(Nat) /\ Quits(config, b) = {} /\ Meant(config, d) = Meant(config, b) \o bytes
    BY <1>3, WithoutKey
  <2>2. Quits(config, d) = {}
    BY <1>3, <2>1, WithoutKey
  <2>3. fed.quit = FALSE /\ fed.send = bytes
    BY <1>1, <1>3
  <2> QED
    BY <1>3, <2>1, <2>2, <2>3, Zenon DEF fed
<1>4. CASE config # Disabled /\ Quits(config, b) = {}
  <2>1. Follows(config, end, b, d)
    BY <1>4, FeedFollows
  <2> HIDE DEF end
  <2>2. fed.quit = end.quit /\ fed.send = end.send
        /\ fed.f = [armed |-> end.armed, lf |-> end.lf]
    BY <1>1, <1>4
  <2>3. fed.f.armed = end.armed /\ fed.f.lf = end.lf
    BY <2>2
  <2> HIDE DEF d
  <2>4. /\ fed.quit <=> Quits(config, d) # {}
        /\ Meant(config, d) = Meant(config, b) \o fed.send
        /\ Quits(config, d) = {} => InStep(config, fed.f, d)
    BY <2>1, <2>2, <2>3, Zenon DEF Follows, InStep
  <2> QED
    BY <1>4, <2>4, Zenon DEF d, fed
<1>5. CASE config # Disabled /\ Quits(config, b) # {}
  BY <1>2, <1>5, Zenon
<1> QED
  BY <1>3, <1>4, <1>5

-----------------------------------------------------------------------------
(* Utf16ToUtf8 (Windows). *)

\* A high surrogate that may still find its pair.
Pending(u) == u # <<>> /\ u[Len(u)] = HIGH

\* What unit x adds to the text of u.
Released(u, x) ==
    (IF ~Pending(u) THEN <<>> ELSE IF x = LOW THEN <<PAIR>> ELSE <<REPLACEMENT>>)
      \o (IF x = HIGH THEN <<>>
          ELSE IF x # LOW THEN <<x>>
          ELSE IF Pending(u) THEN <<>> ELSE <<REPLACEMENT>>)

CharsUpTo(u, k) == [i \in 1 .. k |-> CharAt(u, i)]

LEMMA CharAtIs ==
    ASSUME NEW u, NEW i
    PROVE  CharAt(u, i) = IF u[i] = HIGH
                          THEN IF i = Len(u) THEN <<>>
                               ELSE IF u[i + 1] = LOW THEN <<PAIR>> ELSE <<REPLACEMENT>>
                          ELSE IF u[i] = LOW
                          THEN IF i > 1 /\ u[i - 1] = HIGH THEN <<>> ELSE <<REPLACEMENT>>
                          ELSE <<u[i]>>
<1>1. HIGH # LOW
  BY DEF HIGH, LOW
<1>2. CASE u[i] = HIGH
  BY <1>1, <1>2 DEF CharAt
<1>3. CASE u[i] = LOW
  BY <1>1, <1>3 DEF CharAt
<1>4. CASE u[i] # HIGH /\ u[i] # LOW
  BY <1>4 DEF CharAt
<1> QED
  BY <1>2, <1>3, <1>4

LEMMA CharsUpToType ==
    ASSUME NEW u \in Seq(Nat), NEW k \in 0 .. Len(u)
    PROVE  /\ CharsUpTo(u, k) \in Seq(Seq(Nat)) /\ Len(CharsUpTo(u, k)) = k
           /\ \A i \in 1 .. k : CharsUpTo(u, k)[i] = CharAt(u, i) /\ CharAt(u, i) \in Seq(Nat)
<1>1. \A i \in 1 .. k : CharAt(u, i) \in Seq(Nat)
  <2> TAKE i \in 1 .. k
  <2>1. u[i] \in Nat
    OBVIOUS
  <2>2. <<>> \in Seq(Nat) /\ <<PAIR>> \in Seq(Nat) /\ <<REPLACEMENT>> \in Seq(Nat)
        /\ <<u[i]>> \in Seq(Nat)
    BY <2>1 DEF PAIR, REPLACEMENT
  <2> QED
    BY <2>2, CharAtIs, Zenon
<1>2. CharsUpTo(u, k) \in [1 .. k -> Seq(Nat)]
  BY <1>1 DEF CharsUpTo
<1>3. \A i \in 1 .. k : CharsUpTo(u, k)[i] = CharAt(u, i)
  BY DEF CharsUpTo
<1> QED
  BY <1>1, <1>2, <1>3

\* The text is that of all its characters, the last one after the others.
LEMMA CharsOneMore ==
    ASSUME NEW u \in Seq(Nat), NEW k \in 0 .. Len(u) - 1
    PROVE  FlattenSeq(CharsUpTo(u, k + 1)) = FlattenSeq(CharsUpTo(u, k)) \o CharAt(u, k + 1)
<1> DEFINE longer == CharsUpTo(u, k + 1)
           seqs == CharsUpTo(u, k)
<1>1. k \in 0 .. Len(u) /\ k + 1 \in 0 .. Len(u) /\ k \in Nat
  OBVIOUS
<1>2. seqs \in Seq(Seq(Nat)) /\ Len(seqs) = k /\ \A i \in 1 .. k : seqs[i] = CharAt(u, i)
  BY <1>1, CharsUpToType
<1>3. longer \in Seq(Seq(Nat)) /\ Len(longer) = k + 1
      /\ \A i \in 1 .. k + 1 : longer[i] = CharAt(u, i)
  BY <1>1, CharsUpToType
<1> HIDE DEF longer, seqs
<1>4. \A i \in 1 .. Len(seqs) : longer[i] = seqs[i]
  BY <1>1, <1>2, <1>3
<1>5. FlattenSeq(longer) = FlattenSeq(seqs) \o longer[Len(longer)]
  BY <1>2, <1>3, <1>4, FlattenOneMore
<1>6. longer[Len(longer)] = CharAt(u, k + 1)
  BY <1>1, <1>3
<1> QED
  BY <1>5, <1>6, Zenon DEF longer, seqs

LEMMA TextStep ==
    ASSUME NEW p, p # "unix", NEW u \in Seq(Nat), NEW x \in Nat
    PROVE  /\ TextOf(p, u) \in Seq(Nat)
           /\ u = <<>> => TextOf(p, u) = <<>>
           /\ TextOf(p, Append(u, x)) = TextOf(p, u) \o Released(u, x)
<1> DEFINE n == Len(u)
           v == Append(u, x)
           F(w, k) == FlattenSeq(CharsUpTo(w, k))
<1>1. /\ n \in Nat /\ v \in Seq(Nat) /\ Len(v) = n + 1 /\ v[n + 1] = x
      /\ \A i \in 1 .. n : v[i] = u[i]
      /\ DOMAIN u = 1 .. n /\ DOMAIN v = 1 .. n + 1 /\ (u # <<>> <=> n > 0)
      /\ n \in 0 .. n /\ n \in 0 .. (n + 1) - 1
  OBVIOUS
<1>2. TextOf(p, u) = F(u, n) /\ TextOf(p, v) = F(v, n + 1)
  BY <1>1, Zenon DEF TextOf, CharsUpTo
<1>3. TextOf(p, u) \in Seq(Nat)
  <2>1. CharsUpTo(u, n) \in Seq(Seq(Nat))
    BY <1>1, CharsUpToType
  <2> QED
    BY <1>2, <2>1, FlattenFacts
<1>4. u = <<>> => TextOf(p, u) = <<>>
  <2> SUFFICES ASSUME u = <<>> PROVE FlattenSeq(CharsUpTo(u, n)) = <<>>
    BY <1>2
  <2> DEFINE w == CharsUpTo(u, n)
  <2>1. w \in Seq(Seq(Nat)) /\ Len(w) = 0
    BY <1>1, CharsUpToType
  <2> HIDE DEF w
  <2>2. w = <<>>
    BY <2>1
  <2> QED
    BY <2>1, <2>2, FlattenFacts DEF w
<1>5. F(v, n + 1) = F(v, n) \o CharAt(v, n + 1)
  <2>1. n \in 0 .. Len(v) - 1
    BY <1>1
  <2>2. v \in Seq(Nat)
    BY <1>1
  <2> HIDE DEF n, v
  <2> QED
    BY <2>1, <2>2, CharsOneMore
<1>6. n > 0 => v[n] = u[n] /\ n # n + 1
  <2> HIDE DEF n, v
  <2> QED
    BY <1>1
<1>7. CharAt(v, n + 1) = IF x = HIGH THEN <<>>
                         ELSE IF x # LOW THEN <<x>>
                         ELSE IF Pending(u) THEN <<>> ELSE <<REPLACEMENT>>
  <2>1. (n + 1) - 1 = n /\ (n + 1 > 1 <=> n > 0)
    BY <1>1
  <2>2. (n + 1 > 1 /\ v[n] = HIGH) <=> Pending(u)
    BY <1>1, <1>6, <2>1, Zenon DEF Pending
  <2>3. CharAt(v, n + 1) = IF x = HIGH THEN <<>>
                           ELSE IF x = LOW
                           THEN IF n + 1 > 1 /\ v[n] = HIGH THEN <<>> ELSE <<REPLACEMENT>>
                           ELSE <<x>>
    BY <1>1, <2>1, CharAtIs, Zenon
  <2> QED
    BY <2>2, <2>3, Zenon
<1> DEFINE last == IF x = HIGH THEN <<>>
                   ELSE IF x # LOW THEN <<x>>
                   ELSE IF Pending(u) THEN <<>> ELSE <<REPLACEMENT>>
           first == IF ~Pending(u) THEN <<>> ELSE IF x = LOW THEN <<PAIR>> ELSE <<REPLACEMENT>>
<1>8. last \in Seq(Nat) /\ first \in Seq(Nat)
  BY DEF PAIR, REPLACEMENT
<1>9. F(v, n) = F(u, n) \o first
  <2>1. CASE ~Pending(u)
    <3>1. ASSUME NEW i \in 1 .. n PROVE CharAt(v, i) = CharAt(u, i)
      <4> HIDE DEF n, v
      <4>1. v[i] = u[i]
        BY <1>1
      <4>2. i > 1 => v[i - 1] = u[i - 1]
        BY <1>1
      <4>3. i # n => v[i + 1] = u[i + 1]
        BY <1>1
      <4>4. i # Len(v) /\ (i = n => n > 0)
        BY <1>1
      <4>5. i = n => u[i] # HIGH
        BY <1>1, <2>1, <4>4, Zenon DEF Pending, n
      <4> DEFINE ch == IF u[i] = HIGH
                       THEN IF u[i + 1] = LOW THEN <<PAIR>> ELSE <<REPLACEMENT>>
                       ELSE IF u[i] = LOW
                       THEN IF i > 1 /\ u[i - 1] = HIGH THEN <<>> ELSE <<REPLACEMENT>>
                       ELSE <<u[i]>>
      <4>6. CharAt(v, i) = ch
        BY <4>1, <4>2, <4>3, <4>4, <4>5, CharAtIs, Zenon
      <4>7. CharAt(u, i) = ch
        BY <4>5, CharAtIs, Zenon DEF n
      <4> HIDE DEF ch
      <4> QED
        BY <4>6, <4>7
    <3>2. CharsUpTo(v, n) = CharsUpTo(u, n)
      BY <3>1, Zenon DEF CharsUpTo
    <3>3. F(u, n) \o <<>> = F(u, n)
      BY <1>2, <1>3
    <3> QED
      BY <2>1, <3>2, <3>3, Zenon
  <2>2. CASE Pending(u)
    <3>1. n > 0 /\ u[n] = HIGH /\ n \in Nat
      BY <1>1, <2>2 DEF Pending
    <3> DEFINE m == n - 1
    <3>2. m + 1 = n /\ m \in 0 .. n - 1 /\ m \in 0 .. (n + 1) - 1 /\ m \in 0 .. n
      BY <1>1, <3>1
    <3> HIDE DEF m
    <3>3. F(u, n) = F(u, m) \o CharAt(u, n)
      <4>1. F(u, m + 1) = F(u, m) \o CharAt(u, m + 1)
        BY <3>2, CharsOneMore
      <4> QED
        BY <3>2, <4>1, Zenon
    <3>4. F(v, n) = F(v, m) \o CharAt(v, n)
      <4>1. F(v, m + 1) = F(v, m) \o CharAt(v, m + 1)
        BY <1>1, <3>2, CharsOneMore
      <4> QED
        BY <3>2, <4>1, Zenon
    <3>5. ASSUME NEW i \in 1 .. m PROVE CharAt(v, i) = CharAt(u, i)
      <4> HIDE DEF n, v
      <4>1. v[i] = u[i]
        BY <1>1, <3>2
      <4>2. i > 1 => v[i - 1] = u[i - 1]
        BY <1>1, <3>2
      <4>3. v[i + 1] = u[i + 1]
        BY <1>1, <3>2
      <4>4. i # Len(v) /\ i # n
        BY <1>1, <3>2
      <4> DEFINE ch == IF u[i] = HIGH
                       THEN IF u[i + 1] = LOW THEN <<PAIR>> ELSE <<REPLACEMENT>>
                       ELSE IF u[i] = LOW
                       THEN IF i > 1 /\ u[i - 1] = HIGH THEN <<>> ELSE <<REPLACEMENT>>
                       ELSE <<u[i]>>
      <4>6. CharAt(v, i) = ch
        BY <4>1, <4>2, <4>3, <4>4, CharAtIs, Zenon
      <4>7. CharAt(u, i) = ch
        BY <4>4, CharAtIs, Zenon DEF n
      <4> HIDE DEF ch
      <4> QED
        BY <4>6, <4>7
    <3>6. F(v, m) = F(u, m)
      BY <3>5, Zenon DEF CharsUpTo
    <3>7. CharAt(u, n) = <<>>
      BY <3>1, CharAtIs, Zenon
    <3>8. CharAt(v, n) = first
      BY <1>1, <1>6, <2>2, <3>1, CharAtIs, Zenon
    <3>9. F(u, m) \in Seq(Nat)
      <4>1. CharsUpTo(u, m) \in Seq(Seq(Nat))
        BY <3>2, CharsUpToType
      <4> QED
        BY <4>1, FlattenFacts
    <3>10. F(u, m) \o <<>> = F(u, m)
      BY <3>9, ConcatFacts
    <3> QED
      BY <3>3, <3>4, <3>6, <3>7, <3>8, <3>10, Zenon
  <2> QED
    BY <2>1, <2>2
<1>10. TextOf(p, v) = (TextOf(p, u) \o first) \o last
  <2>1. CharAt(v, n + 1) = last
    BY <1>7
  <2> HIDE DEF F, first, last
  <2> QED
    BY <1>2, <1>5, <1>9, <2>1, Zenon
<1> DEFINE base == TextOf(p, u)
<1>11. Released(u, x) = first \o last
  BY Zenon DEF Released
<1> HIDE DEF first, last, base
<1>12. (base \o first) \o last = base \o (first \o last)
  <2>1. base \in Seq(Nat)
    BY <1>3 DEF base
  <2> QED
    BY <1>8, <2>1, ConcatAssoc
<1> QED
  BY <1>3, <1>4, <1>10, <1>11, <1>12, Zenon DEF base

UnitState == [high : BOOLEAN, out : Seq(Nat)]

\* A unit puts out what it adds to the text, and is kept if it may find its pair.
LEMMA PushFollows ==
    ASSUME NEW st \in UnitState, NEW u \in Seq(Nat), NEW x \in Nat, st.high <=> Pending(u)
    PROVE  /\ PushUnit(st, x) \in UnitState
           /\ PushUnit(st, x).out = st.out \o Released(u, x)
           /\ PushUnit(st, x).high <=> Pending(Append(u, x))
<1>1. /\ st.out \in Seq(Nat) /\ st.high \in BOOLEAN
      /\ HIGH # LOW /\ PAIR \in Nat /\ REPLACEMENT \in Nat
  BY DEF UnitState, HIGH, LOW, PAIR, REPLACEMENT
<1>2. Pending(Append(u, x)) <=> x = HIGH
  BY DEF Pending
<1> DEFINE o == st.out
<1>3. /\ \A y \in Nat : Append(o, y) \in Seq(Nat) /\ Append(o, y) = o \o (<<y>> \o <<>>)
                        /\ Append(o, y) = o \o (<<>> \o <<y>>)
      /\ o = o \o (<<>> \o <<>>)
      /\ \A y, z \in Nat : Append(Append(o, y), z) = o \o (<<y>> \o <<z>>)
                           /\ Append(Append(o, y), z) \in Seq(Nat)
  <2>1. o \in Seq(Nat)
    BY <1>1
  <2> HIDE DEF o
  <2>2. o = o \o (<<>> \o <<>>)
    BY <2>1
  <2>3. ASSUME NEW y \in Nat
        PROVE  /\ Append(o, y) \in Seq(Nat) /\ Append(o, y) = o \o (<<y>> \o <<>>)
               /\ Append(o, y) = o \o (<<>> \o <<y>>)
    <3>1. <<y>> \o <<>> = <<y>> /\ <<>> \o <<y>> = <<y>>
      OBVIOUS
    <3>2. Append(o, y) \in Seq(Nat) /\ Append(o, y) = o \o <<y>>
      BY <2>1
    <3> QED
      BY <3>1, <3>2, Zenon
  <2>4. ASSUME NEW y \in Nat, NEW z \in Nat
        PROVE  /\ Append(Append(o, y), z) = o \o (<<y>> \o <<z>>)
               /\ Append(Append(o, y), z) \in Seq(Nat)
    <3> DEFINE a == Append(o, y)
    <3>1. a \in Seq(Nat) /\ a = o \o <<y>> /\ <<y>> \in Seq(Nat) /\ <<z>> \in Seq(Nat)
      BY <2>1
    <3> HIDE DEF a
    <3>2. Append(a, z) = a \o <<z>> /\ Append(a, z) \in Seq(Nat)
      BY <3>1
    <3>3. (o \o <<y>>) \o <<z>> = o \o (<<y>> \o <<z>>)
      BY <2>1, <3>1, ConcatAssoc
    <3>4. Append(a, z) = o \o (<<y>> \o <<z>>)
      BY <3>1, <3>2, <3>3, Zenon
    <3> QED
      BY <3>2, <3>4 DEF a
  <2> QED
    BY <2>2, <2>3, <2>4
<1>4. CASE x = HIGH
  <2>1. PushUnit(st, x) = [high |-> TRUE, out |-> IF st.high THEN Append(o, REPLACEMENT) ELSE o]
    BY <1>1, <1>4 DEF PushUnit
  <2>2. Released(u, x) = IF st.high THEN <<REPLACEMENT>> \o <<>> ELSE <<>> \o <<>>
    BY <1>1, <1>4, Zenon DEF Released
  <2>3. (IF st.high THEN Append(o, REPLACEMENT) ELSE o) = o \o Released(u, x)
        /\ (IF st.high THEN Append(o, REPLACEMENT) ELSE o) \in Seq(Nat)
    BY <1>1, <1>3, <2>2, Zenon
  <2> QED
    BY <1>2, <1>4, <2>1, <2>3 DEF UnitState
<1>5. CASE x = LOW
  <2>1. PushUnit(st, x) = [high |-> FALSE,
                           out |-> Append(o, IF st.high THEN PAIR ELSE REPLACEMENT)]
    BY <1>1, <1>5 DEF PushUnit
  <2>2. Released(u, x) = IF st.high THEN <<PAIR>> \o <<>> ELSE <<>> \o <<REPLACEMENT>>
    BY <1>1, <1>5, Zenon DEF Released
  <2>3. Append(o, IF st.high THEN PAIR ELSE REPLACEMENT) = o \o Released(u, x)
        /\ Append(o, IF st.high THEN PAIR ELSE REPLACEMENT) \in Seq(Nat)
    BY <1>1, <1>3, <2>2, Zenon
  <2> QED
    BY <1>1, <1>2, <1>5, <2>1, <2>3 DEF UnitState
<1>6. CASE x # HIGH /\ x # LOW
  <2>1. PushUnit(st, x) = [high |-> FALSE,
                           out |-> Append(IF st.high THEN Append(o, REPLACEMENT) ELSE o, x)]
    BY <1>1, <1>6 DEF PushUnit
  <2>2. Released(u, x) = (IF st.high THEN <<REPLACEMENT>> ELSE <<>>) \o <<x>>
    BY <1>6 DEF Released
  <2>3. Append(IF st.high THEN Append(o, REPLACEMENT) ELSE o, x) = o \o Released(u, x)
        /\ Append(IF st.high THEN Append(o, REPLACEMENT) ELSE o, x) \in Seq(Nat)
    <3> HIDE DEF o
    <3>1. CASE st.high
      BY <1>1, <1>3, <2>2, <3>1, Zenon
    <3>2. CASE ~st.high
      BY <1>1, <1>3, <2>2, <3>2, Zenon
    <3> QED
      BY <3>1, <3>2
  <2> DEFINE out == Append(IF st.high THEN Append(o, REPLACEMENT) ELSE o, x)
  <2> HIDE DEF out
  <2>4. PushUnit(st, x) = [high |-> FALSE, out |-> out]
    BY <2>1, Zenon DEF out
  <2>5. out = o \o Released(u, x) /\ out \in Seq(Nat)
    BY <2>3 DEF out
  <2> QED
    BY <1>2, <1>6, <2>4, <2>5 DEF UnitState
<1> QED
  BY <1>4, <1>5, <1>6

\* A converter's state is right for some text.
LEMMA PushUnitType ==
    ASSUME NEW st \in UnitState, NEW x \in Nat
    PROVE  PushUnit(st, x) \in UnitState
<1>1. PICK u \in Seq(Nat) : st.high <=> Pending(u)
  <2>1. /\ <<HIGH>> \in Seq(Nat) /\ Pending(<<HIGH>>)
        /\ <<>> \in Seq(Nat) /\ ~Pending(<<>>) /\ st.high \in BOOLEAN
    BY DEF Pending, HIGH, UnitState
  <2> QED
    BY <2>1, Zenon
<1> QED
  BY <1>1, PushFollows

LEMMA EncodedRuns ==
    ASSUME high \in BOOLEAN, NEW units \in Seq(Nat)
    PROVE  /\ Encoded(units) \in [0 .. Len(units) -> UnitState]
           /\ Encoded(units)[0] = [high |-> high, out |-> <<>>]
           /\ \A i \in 1 .. Len(units) :
                 Encoded(units)[i] = PushUnit(Encoded(units)[i - 1], units[i])
<1> DEFINE n == Len(units)
           start == [high |-> high, out |-> <<>>]
           step == [i \in 1 .. n |-> [st \in UnitState |-> PushUnit(st, units[i])]]
           Is(g) == g = [i \in 0 .. n |-> IF i = 0 THEN start ELSE PushUnit(g[i - 1], units[i])]
<1>1. n \in Nat /\ \A i \in 1 .. n : units[i] \in Nat
  OBVIOUS
<1>2. start \in UnitState
  BY DEF UnitState
<1>3. \A i \in 1 .. n, st \in UnitState : step[i][st] = PushUnit(st, units[i])
  OBVIOUS
<1>4. \A i \in 1 .. n, st \in UnitState : step[i][st] \in UnitState
  BY <1>1, <1>3, PushUnitType
<1>5. Steps(step, n, start, UnitState)
  BY <1>1, <1>2, <1>4 DEF Steps
<1> HIDE DEF step, start
<1>6. PICK g : Runs(g, step, n, start, UnitState)
  BY <1>5, RecursionExists, Zenon
<1>7. g \in [0 .. n -> UnitState] /\ g[0] = start
      /\ \A i \in 1 .. n : g[i] = PushUnit(g[i - 1], units[i])
  <2>1. g \in [0 .. n -> UnitState] /\ g[0] = start
        /\ \A i \in 1 .. n : g[i] = step[i][g[i - 1]]
    BY <1>6 DEF Runs
  <2>2. \A i \in 1 .. n : g[i - 1] \in UnitState
    <3> TAKE i \in 1 .. n
    <3>1. i - 1 \in 0 .. n
      BY <1>1
    <3> QED
      BY <2>1, <3>1, Zenon
  <2> QED
    BY <1>3, <2>1, <2>2, Zenon
<1>8. Is(g)
  <2>1. \A i \in 0 .. n : g[i] = IF i = 0 THEN start ELSE PushUnit(g[i - 1], units[i])
    <3> TAKE i \in 0 .. n
    <3>1. i = 0 \/ i \in 1 .. n
      BY <1>1
    <3> QED
      BY <1>7, <3>1, Zenon
  <2> QED
    BY <1>7, <2>1, Zenon
<1>9. Encoded(units) = CHOOSE h : Is(h)
  BY Zenon DEF Encoded, start
<1>10. Is(Encoded(units))
  BY <1>8, <1>9, Zenon
<1> DEFINE h == Encoded(units)
           P == {k \in Nat : k <= n => h[k] = g[k]}
<1> HIDE DEF h
<1>11. h = [i \in 0 .. n |-> h[i]] /\ h[0] = start
       /\ \A i \in 1 .. n : h[i] = PushUnit(h[i - 1], units[i])
  <2>1. Is(h)
    BY <1>10 DEF h
  <2>2. 0 \in 0 .. n /\ \A i \in 1 .. n : i \in 0 .. n /\ i # 0
    BY <1>1
  <2>3. h = [i \in 0 .. n |-> IF i = 0 THEN start ELSE PushUnit(h[i - 1], units[i])]
    BY <2>1
  <2>4. \A i \in 0 .. n : h[i] = IF i = 0 THEN start ELSE PushUnit(h[i - 1], units[i])
    BY <2>3, Zenon
  <2>5. h = [i \in 0 .. n |-> h[i]]
    BY <2>3, <2>4, Zenon
  <2> QED
    BY <2>2, <2>4, <2>5, Zenon
<1>12. 0 \in P
  BY <1>7, <1>11
<1>13. ASSUME NEW k \in P PROVE k + 1 \in P
  <2> SUFFICES ASSUME k + 1 <= n PROVE h[k + 1] = g[k + 1]
    OBVIOUS
  <2>1. k + 1 \in 1 .. n /\ (k + 1) - 1 = k /\ h[k] = g[k]
    BY <1>1, <1>13
  <2>2. h[k + 1] = PushUnit(h[k], units[k + 1]) /\ g[k + 1] = PushUnit(g[k], units[k + 1])
    BY <1>7, <1>11, <2>1, Zenon
  <2> QED
    BY <2>1, <2>2, Zenon
<1> HIDE DEF P
<1>14. P = Nat
  BY <1>12, <1>13, SetInduction DEF P
<1>15. \A i \in 0 .. n : h[i] = g[i]
  BY <1>1, <1>14 DEF P
<1>16. h = g
  BY <1>7, <1>11, <1>15, Zenon
<1> QED
  BY <1>7, <1>16 DEF h, start

\* However the reads cut up the units, what the converter puts out is their text.
LEMMA EncodeText ==
    ASSUME high \in BOOLEAN, NEW p, p # "unix", NEW u \in Seq(Nat), NEW units \in Seq(Nat),
           high <=> Pending(u)
    PROVE  /\ Utf8(units) \in UnitState
           /\ TextOf(p, u) \in Seq(Nat)
           /\ TextOf(p, u \o units) = TextOf(p, u) \o Utf8(units).out
           /\ Utf8(units).high <=> Pending(u \o units)
<1> DEFINE n == Len(units)
           h == Encoded(units)
           upto(k) == u \o SubSeq(units, 1, k)
           base == TextOf(p, u)
           Right(st, w) == /\ TextOf(p, w) = base \o st.out
                           /\ st.high <=> Pending(w)
           P == {k \in Nat : k <= n => Right(h[k], upto(k))}
<1>1. /\ n \in Nat /\ h \in [0 .. n -> UnitState] /\ h[0] = [high |-> high, out |-> <<>>]
      /\ \A i \in 1 .. n : h[i] = PushUnit(h[i - 1], units[i])
  BY EncodedRuns
<1>2. /\ upto(0) = u /\ upto(n) = u \o units /\ \A k \in 0 .. n : upto(k) \in Seq(Nat)
      /\ \A k \in 0 .. n - 1 : units[k + 1] \in Nat /\ upto(k + 1) = Append(upto(k), units[k + 1])
  BY ReadParts
<1>3. base \in Seq(Nat)
  <2>1. 0 \in Nat
    OBVIOUS
  <2> QED
    BY <2>1, TextStep
<1> HIDE DEF h, upto, base
<1>4. 0 \in P
  <2>1. h[0].out = <<>> /\ h[0].high = high
    BY <1>1
  <2>2. base = base \o <<>>
    BY <1>3
  <2>3. Right(h[0], u)
    BY <2>1, <2>2, Zenon DEF base
  <2> QED
    BY <1>2, <2>3
<1>5. ASSUME NEW k \in P PROVE k + 1 \in P
  <2> SUFFICES ASSUME k + 1 <= n PROVE Right(h[k + 1], upto(k + 1))
    BY SMTT(30)
  <2> DEFINE st == h[k]
             w == upto(k)
             x == units[k + 1]
             o == st.out
             more == Released(w, x)
  <2>1. /\ k \in 0 .. n /\ k \in 0 .. n - 1 /\ k + 1 \in 1 .. n /\ (k + 1) - 1 = k
        /\ Right(h[k], upto(k))
    BY <1>1, <1>5
  <2>2. h[k + 1] = PushUnit(st, x) /\ st \in UnitState
    BY <1>1, <2>1, Zenon
  <2>3. w \in Seq(Nat) /\ x \in Nat /\ upto(k + 1) = Append(w, x)
    BY <1>2, <2>1, Zenon
  <2>4. o \in Seq(Nat)
    BY <2>2 DEF UnitState
  <2> HIDE DEF st, w, x
  <2>5. TextOf(p, w) = base \o o /\ (st.high <=> Pending(w))
    BY <2>1 DEF st, w
  <2>6. /\ PushUnit(st, x).out = o \o more
        /\ PushUnit(st, x).high <=> Pending(Append(w, x))
    BY <2>2, <2>3, <2>5, PushFollows
  <2>7. TextOf(p, Append(w, x)) = TextOf(p, w) \o more
    BY <2>3, TextStep
  <2>8. more \in Seq(Nat)
    <3>1. HIGH \in Nat /\ PAIR \in Nat /\ REPLACEMENT \in Nat
      BY DEF HIGH, PAIR, REPLACEMENT
    <3> QED
      BY <2>3, <3>1 DEF Released
  <2> HIDE DEF o, more
  <2>9. (base \o o) \o more = base \o (o \o more)
    BY <1>3, <2>4, <2>8, ConcatAssoc
  <2>10. TextOf(p, Append(w, x)) = base \o PushUnit(st, x).out
    BY <2>5, <2>6, <2>7, <2>9, Zenon
  <2> QED
    BY <2>2, <2>3, <2>6, <2>10, Zenon
<1> HIDE DEF P
<1>6. P = Nat
  BY <1>4, <1>5, SetInduction DEF P
<1>7. Right(h[n], upto(n))
  BY <1>1, <1>6, SMTT(30) DEF P
<1>8. h[n] \in UnitState
  BY <1>1, SMTT(30)
<1> QED
  BY <1>2, <1>3, <1>7, <1>8, Zenon DEF h, base, Utf8

-----------------------------------------------------------------------------
(* The events on the way. *)

\* The last event of a kind is e; there is none of that kind.
Latest(s, kind, e) == \E i \in DOMAIN s : s[i] = e /\ \A j \in DOMAIN s : j > i => s[j].kind # kind
None(s, kind) == \A i \in DOMAIN s : s[i].kind # kind

LEMMA EventSeqs ==
    ASSUME NEW s \in Seq(Event), NEW t \in Seq(Event), NEW u \in Seq(Event)
    PROVE  /\ s \o t \in Seq(Event) /\ (s \o t) \o u = s \o (t \o u)
           /\ s \o <<>> = s /\ <<>> \o s = s
           /\ Len(s \o t) = Len(s) + Len(t)
           /\ \A e \in Event : /\ <<e>> \in Seq(Event) /\ Len(<<e>>) = 1
                               /\ Append(s, e) = s \o <<e>>
           /\ s # <<>> => /\ Head(s) \in Event /\ Tail(s) \in Seq(Event)
                          /\ Len(Tail(s)) = Len(s) - 1
                          /\ s = <<Head(s)>> \o Tail(s)
<1>1. \A i \in 1 .. Len(s) : s[i] \in Event
  OBVIOUS
<1>2. \A e \in Event : /\ <<e>> \in Seq(Event) /\ Len(<<e>>) = 1
                       /\ Append(s, e) = s \o <<e>>
  OBVIOUS
<1>3. ASSUME s # <<>>
      PROVE  /\ Head(s) \in Event /\ Tail(s) \in Seq(Event)
             /\ Len(Tail(s)) = Len(s) - 1
             /\ s = <<Head(s)>> \o Tail(s)
  <2>1. Head(s) \in Event /\ Tail(s) \in Seq(Event) /\ Len(Tail(s)) = Len(s) - 1
    BY <1>3
  <2>2. s = <<Head(s)>> \o Tail(s)
    BY <1>3, <2>1
  <2> QED
    BY <2>1, <2>2
<1>4. s \o t \in Seq(Event) /\ (s \o t) \o u = s \o (t \o u)
  OBVIOUS
<1>5. s \o <<>> = s /\ <<>> \o s = s /\ Len(s \o t) = Len(s) + Len(t)
  OBVIOUS
<1> QED
  BY <1>2, <1>3, <1>4, <1>5

LEMMA Alone ==
    ASSUME NEW s \in Seq(Event), Len(s) <= 1, s # <<>>
    PROVE  s = <<Head(s)>> /\ Head(s) \in Event /\ 1 \in DOMAIN s /\ s[1] = Head(s)
<1>1. Len(s) = 1
  <2>1. Tail(s) \in Seq(Event) /\ Len(Tail(s)) = Len(s) - 1
    BY EventSeqs
  <2>2. Len(Tail(s)) \in Nat /\ Len(s) \in Nat
    BY <2>1
  <2> QED
    BY <2>1, <2>2
<1>2. Head(s) = s[1] /\ s[1] \in Event /\ 1 \in DOMAIN s
  BY <1>1
<1>3. s = <<s[1]>>
  BY <1>1
<1> QED
  BY <1>2, <1>3, Zenon

LEMMA LatestConcat ==
    ASSUME NEW s \in Seq(Event), NEW t \in Seq(Event), NEW kind, NEW e, e.kind = kind
    PROVE  /\ None(s \o t, kind) <=> None(s, kind) /\ None(t, kind)
           /\ Latest(s \o t, kind, e) <=>
                  Latest(t, kind, e) \/ (Latest(s, kind, e) /\ None(t, kind))
<1> DEFINE m == Len(s)
           n == Len(t)
           w == s \o t
<1>1. /\ m \in Nat /\ n \in Nat /\ DOMAIN s = 1 .. m /\ DOMAIN t = 1 .. n
      /\ DOMAIN w = 1 .. m + n
      /\ \A i \in 1 .. m : w[i] = s[i]
      /\ \A i \in 1 .. n : w[m + i] = t[i]
  OBVIOUS
<1>2. \A i \in 1 .. m : i \in 1 .. m + n
  BY <1>1
<1>3. \A i \in 1 .. n : m + i \in 1 .. m + n
  BY <1>1
<1>4. \A i \in 1 .. m + n : i \in 1 .. m \/ (i - m \in 1 .. n /\ m + (i - m) = i)
  BY <1>1
<1> HIDE DEF m, n, w
<1>5. None(w, kind) <=> None(s, kind) /\ None(t, kind)
  <2>1. None(w, kind) => None(s, kind) /\ None(t, kind)
    BY <1>1, <1>2, <1>3, Zenon DEF None
  <2>2. ASSUME None(s, kind), None(t, kind) PROVE None(w, kind)
    <3> SUFFICES ASSUME NEW i \in 1 .. m + n PROVE w[i].kind # kind
      BY <1>1, Zenon DEF None
    <3>1. CASE i \in 1 .. m
      BY <1>1, <2>2, <3>1, Zenon DEF None
    <3>2. CASE i - m \in 1 .. n /\ m + (i - m) = i
      <4>1. w[m + (i - m)] = t[i - m] /\ t[i - m].kind # kind
        BY <1>1, <2>2, <3>2, Zenon DEF None
      <4> QED
        BY <3>2, <4>1, Zenon
    <3> QED
      BY <1>4, <3>1, <3>2
  <2> QED
    BY <2>1, <2>2
<1>6. ASSUME Latest(w, kind, e)
      PROVE  Latest(t, kind, e) \/ (Latest(s, kind, e) /\ None(t, kind))
  <2>1. PICK i \in 1 .. m + n : w[i] = e /\ \A j \in 1 .. m + n : j > i => w[j].kind # kind
    BY <1>1, <1>6, Zenon DEF Latest
  <2>2. CASE i \in 1 .. m
    <3>1. \A j \in 1 .. n : m + j > i
      BY <1>1, <2>2
    <3>2. None(t, kind)
      BY <1>1, <1>3, <2>1, <3>1, Zenon DEF None
    <3>3. Latest(s, kind, e)
      BY <1>1, <1>2, <2>1, <2>2, Zenon DEF Latest
    <3> QED
      BY <3>2, <3>3
  <2>3. CASE i - m \in 1 .. n /\ m + (i - m) = i
    <3> DEFINE k == i - m
    <3>1. k \in 1 .. n /\ m + k = i
      BY <2>3
    <3> HIDE DEF k
    <3>2. t[k] = e
      BY <1>1, <2>1, <3>1, Zenon
    <3>3. \A j \in 1 .. n : j > k => m + j > i
      BY <1>1, <3>1
    <3>4. \A j \in 1 .. n : j > k => t[j].kind # kind
      BY <1>1, <1>3, <2>1, <3>3, Zenon
    <3> QED
      BY <1>1, <3>1, <3>2, <3>4, Zenon DEF Latest
  <2> QED
    BY <1>4, <2>2, <2>3
<1>7. ASSUME Latest(t, kind, e) PROVE Latest(w, kind, e)
  <2>1. PICK k \in 1 .. n : t[k] = e /\ \A j \in 1 .. n : j > k => t[j].kind # kind
    BY <1>1, <1>7, Zenon DEF Latest
  <2>2. w[m + k] = e /\ m + k \in 1 .. m + n
    BY <1>1, <1>3, <2>1, Zenon
  <2>3. ASSUME NEW j \in 1 .. m + n, j > m + k PROVE w[j].kind # kind
    <3>1. j - m \in 1 .. n /\ j - m > k /\ m + (j - m) = j
      BY <1>1, <2>3
    <3>2. w[m + (j - m)] = t[j - m] /\ t[j - m].kind # kind
      BY <1>1, <2>1, <3>1, Zenon
    <3> QED
      BY <3>1, <3>2, Zenon
  <2> QED
    BY <1>1, <2>2, <2>3, Zenon DEF Latest
<1>8. ASSUME Latest(s, kind, e), None(t, kind) PROVE Latest(w, kind, e)
  <2>1. PICK k \in 1 .. m : s[k] = e /\ \A j \in 1 .. m : j > k => s[j].kind # kind
    BY <1>1, <1>8, Zenon DEF Latest
  <2>2. w[k] = e /\ k \in 1 .. m + n
    BY <1>1, <1>2, <2>1, Zenon
  <2>3. ASSUME NEW j \in 1 .. m + n, j > k PROVE w[j].kind # kind
    <3>1. CASE j \in 1 .. m
      BY <1>1, <2>1, <2>3, <3>1, Zenon
    <3>2. CASE j - m \in 1 .. n /\ m + (j - m) = j
      <4>1. w[m + (j - m)] = t[j - m] /\ t[j - m].kind # kind
        BY <1>1, <1>8, <3>2, Zenon DEF None
      <4> QED
        BY <3>2, <4>1, Zenon
    <3> QED
      BY <1>4, <3>1, <3>2
  <2> QED
    BY <1>1, <2>2, <2>3, Zenon DEF Latest
<1> QED
  BY <1>5, <1>6, <1>7, <1>8 DEF w

LEMMA LatestSingle ==
    ASSUME NEW x \in Event, NEW kind, NEW e, e.kind = kind
    PROVE  /\ None(<<x>>, kind) <=> x.kind # kind
           /\ Latest(<<x>>, kind, e) <=> x = e
           /\ None(<<>>, kind) /\ ~Latest(<<>>, kind, e)
<1>1. DOMAIN <<x>> = {1} /\ <<x>>[1] = x /\ DOMAIN <<>> = {} /\ ~(1 > 1)
  OBVIOUS
<1> QED
  BY <1>1 DEF None, Latest

\* What the client will hear of a first event and of the ones after it.
LEMMA HeardSingle ==
    ASSUME NEW x \in Event
    PROVE  /\ HasQuit(<<x>>) <=> x = Quit
           /\ Heard(<<x>>) = KeysOf(x)
           /\ x = Quit => KeysOf(x) = <<>>
<1>1. <<>> \in Seq(Event) /\ Append(<<>>, x) = <<x>>
  OBVIOUS
<1>2. Heard(<<>>) = <<>> /\ ~HasQuit(<<>>)
  BY <1>1, HeardAppend
<1>3. HasQuit(Append(<<>>, x)) <=> HasQuit(<<>>) \/ x = Quit
  BY <1>1, UntilQuitFacts
<1>4. Heard(Append(<<>>, x)) = IF HasQuit(<<>>) \/ x = Quit THEN Heard(<<>>)
                               ELSE Heard(<<>>) \o KeysOf(x)
  BY <1>1, HeardAppend
<1>5. KeysOf(x) \in Seq(Nat) /\ <<>> \o KeysOf(x) = KeysOf(x)
  BY KeysOfType, ConcatFacts
<1>6. x = Quit => KeysOf(x) = <<>>
  BY DEF Quit, KeysOf
<1> QED
  BY <1>1, <1>2, <1>3, <1>4, <1>5, <1>6, Zenon

\* A resize among the events changes nothing the client hears, and nothing about
\* the help.
LEMMA InsertResize ==
    ASSUME NEW s \in Seq(Event), NEW t \in Seq(Event), NEW x \in Event, x.kind = "resize"
    PROVE  /\ HasQuit((s \o <<x>>) \o t) <=> HasQuit(s \o t)
           /\ Heard((s \o <<x>>) \o t) = Heard(s \o t)
           /\ None((s \o <<x>>) \o t, "help") <=> None(s \o t, "help")
           /\ \A show \in BOOLEAN :
                 Latest((s \o <<x>>) \o t, "help", Help(show)) <=> Latest(s \o t, "help", Help(show))
<1> DEFINE r == s \o <<x>>
<1>1. r \in Seq(Event) /\ <<x>> \in Seq(Event)
  BY EventSeqs
<1>2. x # Quit /\ x.kind # "help" /\ x.kind # "input"
  BY DEF Quit
<1>3. KeysOf(x) = <<>>
  BY <1>2, KeysOfType
<1>4. ~HasQuit(<<x>>) /\ Heard(<<x>>) = <<>>
  BY <1>2, <1>3, HeardSingle
<1>5. HasQuit(r) <=> HasQuit(s)
  BY <1>1, <1>4, HeardConcat
<1>6. Heard(r) = Heard(s)
  <2>1. Heard(s) \in Seq(Nat)
    BY HeardAppend
  <2>2. Heard(s) \o <<>> = Heard(s)
    BY <2>1, ConcatFacts
  <2>3. Heard(r) = IF HasQuit(s) THEN Heard(s) ELSE Heard(s) \o Heard(<<x>>)
    BY <1>1, HeardConcat
  <2> QED
    BY <1>4, <2>2, <2>3, Zenon
<1>7. /\ HasQuit(r \o t) <=> HasQuit(r) \/ HasQuit(t)
      /\ HasQuit(s \o t) <=> HasQuit(s) \/ HasQuit(t)
      /\ Heard(r \o t) = IF HasQuit(r) THEN Heard(r) ELSE Heard(r) \o Heard(t)
      /\ Heard(s \o t) = IF HasQuit(s) THEN Heard(s) ELSE Heard(s) \o Heard(t)
  <2> HIDE DEF r
  <2> QED
    BY <1>1, HeardConcat
<1>8. Heard(r \o t) = Heard(s \o t)
  <2> HIDE DEF r
  <2>1. CASE HasQuit(s)
    BY <1>5, <1>6, <1>7, <2>1
  <2>2. CASE ~HasQuit(s)
    BY <1>5, <1>6, <1>7, <2>2
  <2> QED
    BY <2>1, <2>2
<1>9. ASSUME NEW show \in BOOLEAN
      PROVE  /\ None(r \o t, "help") <=> None(s \o t, "help")
             /\ Latest(r \o t, "help", Help(show)) <=> Latest(s \o t, "help", Help(show))
  <2> DEFINE e == Help(show)
  <2>1. e.kind = "help" /\ e # x
    BY <1>2 DEF Help
  <2> HIDE DEF e, r
  <2>2. /\ None(r \o t, "help") <=> None(r, "help") /\ None(t, "help")
        /\ Latest(r \o t, "help", e) <=> Latest(t, "help", e) \/ (Latest(r, "help", e) /\ None(t, "help"))
    BY <1>1, <2>1, LatestConcat
  <2>3. /\ None(s \o t, "help") <=> None(s, "help") /\ None(t, "help")
        /\ Latest(s \o t, "help", e) <=> Latest(t, "help", e) \/ (Latest(s, "help", e) /\ None(t, "help"))
    BY <2>1, LatestConcat
  <2>4. /\ None(s \o <<x>>, "help") <=> None(s, "help") /\ None(<<x>>, "help")
        /\ Latest(s \o <<x>>, "help", e) <=>
              Latest(<<x>>, "help", e) \/ (Latest(s, "help", e) /\ None(<<x>>, "help"))
    BY <1>1, <2>1, LatestConcat
  <2>5. None(<<x>>, "help") /\ ~Latest(<<x>>, "help", e)
    BY <1>2, <2>1, LatestSingle
  <2> QED
    BY <2>2, <2>3, <2>4, <2>5, Zenon DEF e, r
<1> QED
  BY <1>5, <1>7, <1>8, <1>9, Zenon

LEMMA Nothing ==
    None(<<>>, "resize") /\ None(<<>>, "help") /\ ~HasQuit(<<>>) /\ Heard(<<>>) = <<>>
<1>1. <<>> \in Seq(Event) /\ DOMAIN <<>> = {}
  OBVIOUS
<1> QED
  BY <1>1, HeardAppend DEF None

\* The events of a read say what it fed the filter with came to.
LEMMA EventsFacts ==
    ASSUME NEW fed, fed.send \in Seq(Nat), fed.quit \in BOOLEAN, NEW armed \in BOOLEAN,
           fed.help = {} \/ (fed.help = {armed} /\ ~fed.quit)
    PROVE  /\ Events(fed) \in Seq(Event) /\ Len(Events(fed)) <= 2
           /\ None(Events(fed), "resize")
           /\ HasQuit(Events(fed)) <=> fed.quit
           /\ Heard(Events(fed)) = fed.send
           /\ fed.help = {} => None(Events(fed), "help")
           /\ fed.help # {} => Latest(Events(fed), "help", Help(armed))
<1> DEFINE in == IF fed.send = <<>> THEN <<>> ELSE <<Input(fed.send)>>
           help == IF fed.help = {} THEN <<>> ELSE <<Help(TRUE \in fed.help)>>
           quit == IF fed.quit THEN <<Quit>> ELSE <<>>
<1>0. Events(fed) = in \o help \o quit
  BY DEF Events
<1>1. Input(fed.send) \in Event /\ Input(fed.send).kind = "input"
  BY DEF Input, Event
<1>2. Quit \in Event /\ Quit.kind = "quit"
  BY DEF Quit, Event
<1>3. Help(armed) \in Event /\ Help(armed).kind = "help"
  BY DEF Help, Event
<1>4. help = IF fed.help = {} THEN <<>> ELSE <<Help(armed)>>
  <2>1. CASE armed = TRUE
    BY <2>1, Zenon
  <2>2. CASE armed = FALSE
    <3>1. (TRUE \in {FALSE}) = FALSE
      OBVIOUS
    <3>2. fed.help = {} \/ fed.help = {FALSE}
      BY <2>2, Zenon
    <3> QED
      BY <2>2, <3>1, <3>2, Zenon
  <2> QED
    BY <2>1, <2>2
<1>5. /\ in \in Seq(Event) /\ help \in Seq(Event) /\ quit \in Seq(Event)
      /\ Len(in) <= 1 /\ Len(help) <= 1 /\ Len(quit) <= 1
      /\ help = <<>> \/ quit = <<>>
  <2>1. /\ <<>> \in Seq(Event) /\ Len(<<>>) <= 1 /\ \A e \in Event : <<e>> \in Seq(Event) /\ Len(<<e>>) <= 1
    OBVIOUS
  <2>2. in = <<>> \/ in = <<Input(fed.send)>>
    OBVIOUS
  <2>3. help = <<>> \/ help = <<Help(armed)>>
    BY <1>4, Zenon
  <2>4. quit = <<>> \/ quit = <<Quit>>
    OBVIOUS
  <2>5. help = <<>> \/ quit = <<>>
    OBVIOUS
  <2> HIDE DEF in, help, quit
  <2> QED
    BY <1>1, <1>2, <1>3, <2>1, <2>2, <2>3, <2>4, <2>5, Zenon
<1> DEFINE none == Resize(FirstWindow)
<1>6. none.kind = "resize"
  BY DEF Resize
<1>7. /\ None(in, "resize") /\ None(in, "help") /\ ~HasQuit(in) /\ Heard(in) = fed.send
  <2>1. CASE fed.send = <<>>
    <3>1. in = <<>>
      BY <2>1
    <3> QED
      BY <2>1, <3>1, Nothing, Zenon
  <2>2. CASE fed.send # <<>>
    <3> DEFINE x == Input(fed.send)
    <3>1. in = <<x>> /\ KeysOf(x) = fed.send /\ x # Quit /\ x.kind = "input" /\ x \in Event
      BY <1>1, <2>2 DEF Input, KeysOf, Quit
    <3> HIDE DEF x
    <3>2. None(<<x>>, "resize") /\ None(<<x>>, "help")
      BY <1>3, <1>6, <3>1, LatestSingle
    <3>3. ~HasQuit(<<x>>) /\ Heard(<<x>>) = KeysOf(x)
      BY <3>1, HeardSingle
    <3> QED
      BY <3>1, <3>2, <3>3, Zenon
  <2> QED
    BY <2>1, <2>2
<1>8. /\ None(help, "resize") /\ ~HasQuit(help) /\ Heard(help) = <<>>
      /\ fed.help = {} => None(help, "help")
      /\ fed.help # {} => Latest(help, "help", Help(armed))
  <2>1. CASE fed.help = {}
    <3>1. help = <<>>
      BY <2>1
    <3> QED
      BY <2>1, <3>1, Nothing, Zenon
  <2>2. CASE fed.help # {}
    <3> DEFINE x == Help(armed)
    <3>1. help = <<x>> /\ KeysOf(x) = <<>> /\ x # Quit /\ x.kind = "help" /\ x \in Event
      BY <1>3, <1>4, <2>2 DEF Help, KeysOf, Quit
    <3>2. None(<<x>>, "resize") /\ Latest(<<x>>, "help", x)
      <4> HIDE DEF x
      <4> QED
        BY <1>6, <3>1, LatestSingle
    <3>3. ~HasQuit(<<x>>) /\ Heard(<<x>>) = KeysOf(x)
      <4> HIDE DEF x
      <4> QED
        BY <3>1, HeardSingle
    <3> QED
      BY <2>2, <3>1, <3>2, <3>3, Zenon
  <2> QED
    BY <2>1, <2>2
<1>9. /\ None(quit, "resize") /\ (HasQuit(quit) <=> fed.quit) /\ Heard(quit) = <<>>
      /\ None(quit, "help")
  <2>1. CASE ~fed.quit
    <3>1. quit = <<>>
      BY <2>1
    <3> QED
      BY <2>1, <3>1, Nothing, Zenon
  <2>2. CASE fed.quit
    <3>1. quit = <<Quit>> /\ KeysOf(Quit) = <<>>
      BY <2>2 DEF Quit, KeysOf
    <3>2. None(<<Quit>>, "resize") /\ None(<<Quit>>, "help")
      BY <1>2, <1>3, <1>6, LatestSingle
    <3>3. HasQuit(<<Quit>>) /\ Heard(<<Quit>>) = KeysOf(Quit)
      BY <1>2, HeardSingle
    <3> QED
      BY <2>2, <3>1, <3>2, <3>3, Zenon
  <2> QED
    BY <2>1, <2>2
<1> HIDE DEF in, help, quit, none
<1> DEFINE two == in \o help
<1>10. two \in Seq(Event) /\ Len(two) = Len(in) + Len(help)
       /\ two \o quit \in Seq(Event) /\ Len(two \o quit) = Len(two) + Len(quit)
  BY <1>5, EventSeqs
<1>11. Len(Events(fed)) <= 2 /\ Events(fed) \in Seq(Event)
  <2>1. Len(in) \in Nat /\ Len(help) \in Nat /\ Len(quit) \in Nat
    BY <1>5
  <2>2. Len(help) = 0 \/ Len(quit) = 0
    BY <1>5
  <2> QED
    BY <1>0, <1>5, <1>10, <2>1, <2>2
<1>12. None(Events(fed), "resize")
  <2>1. None(two, "resize")
    BY <1>5, <1>6, <1>7, <1>8, LatestConcat
  <2> HIDE DEF two
  <2>2. None(two \o quit, "resize")
    BY <1>5, <1>6, <1>9, <1>10, <2>1, LatestConcat
  <2> QED
    BY <1>0, <2>2 DEF two
<1>13. /\ HasQuit(Events(fed)) <=> fed.quit
       /\ Heard(Events(fed)) = fed.send
  <2>0. /\ HasQuit(two) <=> HasQuit(in) \/ HasQuit(help)
        /\ Heard(two) = IF HasQuit(in) THEN Heard(in) ELSE Heard(in) \o Heard(help)
    BY <1>5, HeardConcat
  <2>1. ~HasQuit(two) /\ Heard(two) = fed.send \o <<>>
    BY <1>7, <1>8, <2>0, Zenon
  <2>2. fed.send \o <<>> = fed.send
    BY ConcatFacts
  <2>3. Heard(two) = fed.send
    BY <2>1, <2>2, Zenon
  <2> HIDE DEF two
  <2>4. (HasQuit(two \o quit) <=> fed.quit) /\ Heard(two \o quit) = Heard(two) \o <<>>
    <3>1. /\ HasQuit(two \o quit) <=> HasQuit(two) \/ HasQuit(quit)
          /\ Heard(two \o quit) = IF HasQuit(two) THEN Heard(two) ELSE Heard(two) \o Heard(quit)
      BY <1>5, <1>10, HeardConcat
    <3> QED
      BY <1>9, <2>1, <3>1, Zenon
  <2>5. Heard(two \o quit) = fed.send
    BY <2>2, <2>3, <2>4, Zenon
  <2> QED
    BY <1>0, <2>4, <2>5 DEF two
<1>14. /\ fed.help = {} => None(Events(fed), "help")
       /\ fed.help # {} => Latest(Events(fed), "help", Help(armed))
  <2> DEFINE e == Help(armed)
  <2>1. e.kind = "help"
    BY <1>3
  <2> HIDE DEF e
  <2>2. /\ None(two, "help") <=> None(in, "help") /\ None(help, "help")
        /\ Latest(two, "help", e) <=> Latest(help, "help", e) \/ (Latest(in, "help", e) /\ None(help, "help"))
    BY <1>5, <2>1, LatestConcat
  <2> HIDE DEF two
  <2>3. /\ None(two \o quit, "help") <=> None(two, "help") /\ None(quit, "help")
        /\ Latest(two \o quit, "help", e) <=>
              Latest(quit, "help", e) \/ (Latest(two, "help", e) /\ None(quit, "help"))
    BY <1>5, <1>10, <2>1, LatestConcat
  <2>4. Events(fed) = two \o quit
    BY <1>0 DEF two
  <2> QED
    BY <1>7, <1>8, <1>9, <2>2, <2>3, <2>4, Zenon DEF e
<1> QED
  BY <1>11, <1>12, <1>13, <1>14

-----------------------------------------------------------------------------
(* The inductive invariant. *)

Types ==
    /\ platform \in Platforms /\ config \in Configs /\ typed \in Seq(Nat)
    /\ high \in BOOLEAN /\ winch \in BOOLEAN /\ reading \in BOOLEAN /\ resized \in BOOLEAN
    /\ shutdown \in BOOLEAN /\ running \in BOOLEAN
    /\ chan \in Seq(Event) /\ outbox \in Seq(Event) /\ held \in Seq(Event)
    /\ TypeOK

\* The keys pushed and those on the way are what the text stands for, and there is
\* a quit among what was taken or is on the way exactly if the text holds one.
KeysRight(c, keys, over, way, text) ==
    /\ (over \/ HasQuit(way)) <=> Quits(c, text) # {}
    /\ keys \o (IF over THEN <<>> ELSE Heard(way)) = Meant(c, text)

\* The filter and the converter are where the text has brought them.
FilterRight(c, f, text) == c # Disabled /\ Quits(c, text) = {} => InStep(c, f, text)
HighRight(p, hi, units) == hi <=> p # "unix" /\ Pending(units)

\* The last word about the help on the way, or the notification, is right.
HelpRight(armed, n, way) ==
    ~HasQuit(way) =>
        \/ Latest(way, "help", Help(armed))
        \/ /\ None(way, "help")
           /\ n.message = "help" => armed
           /\ armed => n.message \in {"help", "error"}

NoteRight(n) ==
    /\ n.is_network_error <=> n.message = "error"
    /\ n.show_quit_keystroke <=> n.message # "help"

\* The last word about the window's size on the way, or the size, is right.
SizeRight(to, known, way) ==
    \/ Latest(way, "resize", Resize(to))
    \/ None(way, "resize") /\ known = to

\* The task reports the window's size on Unix, the reader on Windows.
Reporters(p, asks, out, task) ==
    /\ p = "unix" => ~asks /\ None(out, "resize")
    /\ p # "unix" => task = <<>>
    /\ \A i \in DOMAIN task : task[i].kind = "resize"

KeysInv == running =>
    /\ KeysRight(config, pushed, shutdown, OnTheWay, SoFar)
    /\ FilterRight(config, filter, SoFar)
    /\ HighRight(platform, high, SubSeq(typed, 1, consumed))
HelpInv == running /\ ~shutdown => HelpRight(filter.armed, note, OnTheWay)
SizeInv == running /\ ~shutdown /\ ~winch /\ ~resized => SizeRight(window, size, OnTheWay \o held)

Inv == Types /\ KeysInv /\ HelpInv /\ NoteRight(note) /\ SizeInv
             /\ Reporters(platform, resized, outbox, held)

LEMMA NoText ==
    ASSUME NEW c, KeyOK(c)
    PROVE  /\ Quits(c, <<>>) = {} /\ Meant(c, <<>>) = <<>>
           /\ InStep(c, [armed |-> FALSE, lf |-> FALSE], <<>>)
<1> DEFINE b == <<>>
<1>1. b \in Seq(Nat) /\ Len(b) = 0 /\ 1 .. 0 = {} /\ 0 \in Nat
  OBVIOUS
<1>2. Quits(c, b) = {}
  BY <1>1, Zenon DEF Quits
<1>3. Escapes(c, b) \in SUBSET (1 .. Len(b))
  BY <1>1, QuitsStep
<1>4. Len(b) \notin Escapes(c, b)
  BY <1>1, <1>3
<1>5. ~AtStart(c, b)
  BY DEF AtStart
<1>6. Meant(c, b) = <<>>
  <2> DEFINE w == [i \in 1 .. 0 |-> MeantAt(c, b, i)]
  <2>1. Meant(c, b) = FlattenSeq(w)
    BY <1>1, <1>2, Zenon DEF Meant
  <2>2. w \in Seq(Seq(Nat)) /\ w = <<>>
    BY <1>1
  <2> HIDE DEF w
  <2> QED
    BY <2>1, <2>2, FlattenFacts
<1> QED
  BY <1>2, <1>4, <1>5, <1>6 DEF InStep

LEMMA InitInv == Init => Inv
<1> SUFFICES ASSUME Init PROVE Inv
  OBVIOUS
<1>1. platform \in Platforms /\ config \in Configs /\ typed \in Seq(Nat)
  BY KeyboardAssumption DEF Init
<1>2. Types
  <2>1. /\ consumed \in 0 .. Len(typed)
        /\ filter \in [armed : BOOLEAN, lf : BOOLEAN]
        /\ Len(chan) <= CHANNEL /\ Len(outbox) <= 2 /\ Len(held) <= 1
        /\ window \in Windows /\ size \in Windows /\ pushed \in Seq(Nat)
    BY <1>1, KeyboardAssumption DEF Init
  <2>2. note \in [message : {"", "help", "error", "exiting", "timeout"},
                  is_network_error : BOOLEAN, show_quit_keystroke : BOOLEAN]
    BY DEF Init, NoNote
  <2>3. chan \in Seq(Event) /\ outbox \in Seq(Event) /\ held \in Seq(Event)
    BY DEF Init
  <2>4. /\ high \in BOOLEAN /\ winch \in BOOLEAN /\ reading \in BOOLEAN /\ resized \in BOOLEAN
        /\ shutdown \in BOOLEAN /\ running \in BOOLEAN
    BY DEF Init
  <2> QED
    BY <1>1, <2>1, <2>2, <2>3, <2>4 DEF Types, TypeOK
<1>3. SubSeq(typed, 1, consumed) = <<>>
  BY <1>1 DEF Init
<1>4. SoFar = <<>>
  <2>1. CASE platform = "unix"
    BY <1>3, <2>1 DEF SoFar, TextOf
  <2>2. CASE platform # "unix"
    <3>1. <<>> \in Seq(Nat) /\ 0 \in Nat
      OBVIOUS
    <3>2. TextOf(platform, <<>>) = <<>>
      BY <2>2, <3>1, TextStep
    <3> QED
      BY <1>3, <3>2, Zenon DEF SoFar
  <2> QED
    BY <2>1, <2>2
<1>5. OnTheWay = <<>> /\ OnTheWay \o held = <<>>
  BY DEF Init, OnTheWay
<1>6. KeyOK(config)
  BY <1>1, ConfigFacts
<1>7. KeysInv
  <2>1. KeysRight(config, pushed, shutdown, OnTheWay, SoFar)
    <3>1. KeysRight(config, <<>>, FALSE, <<>>, <<>>)
      <4>1. <<>> \o <<>> = <<>>
        OBVIOUS
      <4> QED
        BY <1>6, <4>1, NoText, Nothing, Zenon DEF KeysRight
    <3>2. pushed = <<>> /\ shutdown = FALSE
      BY DEF Init
    <3> QED
      BY <1>4, <1>5, <3>1, <3>2, Zenon
  <2>2. FilterRight(config, filter, SoFar)
    BY <1>4, <1>6, NoText, Zenon DEF FilterRight, Init
  <2>3. HighRight(platform, high, SubSeq(typed, 1, consumed))
    BY <1>3 DEF HighRight, Pending, Init
  <2> QED
    BY <2>1, <2>2, <2>3 DEF KeysInv
<1>8. HelpInv
  <2>1. HelpRight(FALSE, NoNote, <<>>)
    BY Nothing DEF HelpRight, NoNote
  <2>2. filter.armed = FALSE /\ note = NoNote
    BY DEF Init
  <2> QED
    BY <1>5, <2>1, <2>2, Zenon DEF HelpInv
<1>9. NoteRight(note)
  BY DEF NoteRight, Init, NoNote
<1>10. SizeInv
  <2>1. SizeRight(FirstWindow, FirstWindow, <<>>)
    BY Nothing DEF SizeRight
  <2>2. window = FirstWindow /\ size = FirstWindow
    BY DEF Init
  <2> QED
    BY <1>5, <2>1, <2>2, Zenon DEF SizeInv
<1>11. Reporters(platform, resized, outbox, held)
  BY Nothing DEF Reporters, Init
<1> QED
  BY <1>2, <1>7, <1>8, <1>9, <1>10, <1>11 DEF Inv

\* What leaves the keys, the filter and the events alone keeps KeysInv.
LEMMA KeysKept ==
    ASSUME Inv, running', running,
           UNCHANGED <<platform, config, typed, consumed, high, filter, pushed, shutdown>>,
           HasQuit(OnTheWay)' <=> HasQuit(OnTheWay), Heard(OnTheWay)' = Heard(OnTheWay)
    PROVE  KeysInv'
<1>1. SoFar' = SoFar /\ SubSeq(typed, 1, consumed)' = SubSeq(typed, 1, consumed)
  BY DEF SoFar
<1>2. /\ KeysRight(config, pushed, shutdown, OnTheWay, SoFar)
      /\ FilterRight(config, filter, SoFar)
      /\ HighRight(platform, high, SubSeq(typed, 1, consumed))
  BY DEF Inv, KeysInv
<1>3. KeysRight(config, pushed, shutdown, OnTheWay, SoFar)'
  <2> DEFINE way == OnTheWay
  <2>1. KeysRight(config, pushed, shutdown, OnTheWay', SoFar)
    BY <1>2, Zenon DEF KeysRight
  <2> QED
    BY <1>1, <2>1, Zenon
<1>4. FilterRight(config, filter, SoFar)' /\ HighRight(platform, high, SubSeq(typed, 1, consumed))'
  BY <1>1, <1>2, Zenon
<1> QED
  BY <1>3, <1>4, Zenon DEF KeysInv

\* What is on the way and what the reader knows stay.
LEMMA WayKept ==
    ASSUME Inv, running' => running,
           UNCHANGED <<platform, config, typed, consumed, high, filter, pushed, shutdown,
                       chan, outbox>>
    PROVE  KeysInv' /\ (UNCHANGED note => HelpInv')
<1>1. OnTheWay' = OnTheWay
  BY DEF OnTheWay
<1>2. KeysInv'
  <2>1. CASE ~running'
    BY <2>1 DEF KeysInv
  <2>2. CASE running'
    BY <1>1, <2>2, KeysKept, Zenon
  <2> QED
    BY <2>1, <2>2
<1>3. UNCHANGED note => HelpInv'
  BY <1>1, Zenon DEF Inv, HelpInv
<1> QED
  BY <1>2, <1>3

LEMMA WindowChangesInv ==
    ASSUME Inv, NEW to \in Windows, WindowChanges(to)
    PROVE  Inv'
<1> USE DEF WindowChanges, Chosen, Reader, Loop
<1>1. Types'
  BY ZenonT(30) DEF Inv, Types, TypeOK
<1>2. KeysInv' /\ HelpInv'
  BY WayKept
<1>3. NoteRight(note)' /\ Reporters(platform, resized, outbox, held)'
  BY Zenon DEF Inv
<1>4. SizeInv'
  BY DEF SizeInv
<1> QED
  BY <1>1, <1>2, <1>3, <1>4 DEF Inv

LEMMA InputEndsInv ==
    ASSUME Inv, InputEnds
    PROVE  Inv'
<1> USE DEF InputEnds, Chosen, World, Loop
<1>1. Types'
  BY DEF Inv, Types, TypeOK
<1>2. KeysInv' /\ HelpInv'
  BY WayKept
<1>3. NoteRight(note)' /\ Reporters(platform, resized, outbox, held)'
  BY Zenon DEF Inv
<1>4. SizeInv'
  BY DEF Inv, SizeInv, OnTheWay
<1> QED
  BY <1>1, <1>2, <1>3, <1>4 DEF Inv

LEMMA ReaderStopsInv ==
    ASSUME Inv, ReaderStops
    PROVE  Inv'
<1> USE DEF ReaderStops, Chosen, World, Loop
<1>1. Types'
  <2>1. outbox' \in Seq(Event) /\ Len(outbox') <= 2
    OBVIOUS
  <2> QED
    BY <2>1, ZenonT(30) DEF Inv, Types, TypeOK
<1>2. KeysInv' /\ HelpInv' /\ SizeInv'
  BY DEF KeysInv, HelpInv, SizeInv
<1>3. NoteRight(note)'
  BY Zenon DEF Inv
<1>4. Reporters(platform, resized, outbox, held)'
  BY Nothing DEF Inv, Reporters
<1> QED
  BY <1>1, <1>2, <1>3, <1>4 DEF Inv

LEMMA ClientExitsInv ==
    ASSUME Inv, ClientExits
    PROVE  Inv'
<1> USE DEF ClientExits, Chosen, World, Reader
<1>1. Types'
  <2>1. note' \in [message : {"", "help", "error", "exiting", "timeout"},
                   is_network_error : BOOLEAN, show_quit_keystroke : BOOLEAN]
    <3>1. CASE UNCHANGED note
      BY <3>1 DEF Inv, Types, TypeOK
    <3>2. CASE note' = SetNotification("timeout")
      BY <3>2 DEF SetNotification
    <3> QED
      BY <3>1, <3>2
  <2> QED
    BY <2>1 DEF Inv, Types, TypeOK
<1>2. KeysInv' /\ HelpInv' /\ SizeInv'
  BY DEF KeysInv, HelpInv, SizeInv
<1>3. NoteRight(note)'
  BY DEF Inv, NoteRight, SetNotification
<1>4. Reporters(platform, resized, outbox, held)'
  BY Zenon DEF Inv
<1> QED
  BY <1>1, <1>2, <1>3, <1>4 DEF Inv

LEMMA NetworkFailsInv ==
    ASSUME Inv, NetworkFails
    PROVE  Inv'
<1> USE DEF NetworkFails, Chosen, Reader
<1>1. Types'
  BY DEF Inv, Types, TypeOK, SetNetworkError
<1>2. KeysInv'
  BY WayKept
<1>3. HelpInv'
  <2> SUFFICES ASSUME ~shutdown PROVE HelpRight(filter.armed, note', OnTheWay)
    BY Zenon DEF HelpInv, OnTheWay
  <2>1. HelpRight(filter.armed, note, OnTheWay)
    BY Zenon DEF Inv, HelpInv
  <2>2. note'.message = "error"
    BY DEF SetNetworkError
  <2> QED
    BY <2>1, <2>2 DEF HelpRight
<1>4. NoteRight(note)'
  BY DEF NoteRight, SetNetworkError
<1>5. Reporters(platform, resized, outbox, held)'
  BY Zenon DEF Inv
<1>6. SizeInv'
  BY DEF Inv, SizeInv, OnTheWay
<1> QED
  BY <1>1, <1>2, <1>3, <1>4, <1>5, <1>6 DEF Inv

\* The task's report is the last word about the window's size.
LEMMA TaskWakesInv ==
    ASSUME Inv, TaskWakes
    PROVE  Inv'
<1> USE DEF TaskWakes, Chosen, Reader, Loop
<1> DEFINE e == Resize(window)
<1>0. e \in Event /\ e.kind = "resize"
  BY DEF Inv, Types, TypeOK, Resize, Event
<1> HIDE DEF e
<1>1. Types'
  <2>1. held' = <<e>>
    BY DEF e
  <2>2. held' \in Seq(Event) /\ Len(held') <= 1
    BY <1>0, <2>1
  <2> QED
    BY <2>2, ZenonT(30) DEF Inv, Types, TypeOK
<1>2. KeysInv' /\ HelpInv'
  BY WayKept
<1>3. NoteRight(note)'
  BY Zenon DEF Inv
<1>4. Reporters(platform, resized, outbox, held)'
  <2>1. held' = <<e>> /\ e.kind = "resize"
    BY <1>0 DEF e
  <2>2. \A i \in DOMAIN held' : held'[i].kind = "resize"
    BY <2>1
  <2> QED
    BY <2>2 DEF Inv, Reporters
<1>5. SizeInv'
  <2>1. OnTheWay \in Seq(Event) /\ <<e>> \in Seq(Event)
    BY <1>0, EventSeqs DEF OnTheWay, Inv, Types
  <2>2. Latest(<<e>>, "resize", e)
    BY <1>0, LatestSingle
  <2>3. Latest(OnTheWay \o <<e>>, "resize", e)
    BY <1>0, <2>1, <2>2, LatestConcat
  <2>4. (OnTheWay \o held)' = OnTheWay \o <<e>>
    BY DEF OnTheWay, e
  <2>5. SizeRight(window, size', OnTheWay \o <<e>>)
    BY <2>3, Zenon DEF SizeRight, e
  <2> QED
    BY <2>4, <2>5, Zenon DEF SizeInv
<1> QED
  BY <1>1, <1>2, <1>3, <1>4, <1>5 DEF Inv

\* The reader's send moves an event along the way.
LEMMA ReaderSendsInv ==
    ASSUME Inv, ReaderSends
    PROVE  Inv'
<1> USE DEF ReaderSends, Chosen, World, Reader, Loop
<1> DEFINE e == Head(outbox)
           rest == Tail(outbox)
<1>0. chan \in Seq(Event) /\ outbox \in Seq(Event) /\ held \in Seq(Event)
  BY DEF Inv, Types
<1>1. /\ e \in Event /\ rest \in Seq(Event) /\ Len(rest) = Len(outbox) - 1
      /\ outbox = <<e>> \o rest
  BY <1>0, EventSeqs
<1>2. chan' = Append(chan, e) /\ outbox' = rest
  OBVIOUS
<1> HIDE DEF e, rest
<1>3. Types'
  <2>1. chan' \in Seq(Event) /\ Len(chan') = Len(chan) + 1 /\ Len(chan) \in Nat
    BY <1>0, <1>1, <1>2
  <2>2. Len(chan') <= CHANNEL
    BY <2>1, KeyboardAssumption
  <2>3. Len(outbox') <= 2
    <3>1. Len(outbox) <= 2
      BY DEF Inv, Types, TypeOK
    <3>2. Len(outbox) \in Nat
      BY <1>0
    <3> QED
      BY <1>1, <1>2, <3>1, <3>2
  <2> QED
    BY <1>1, <1>2, <2>1, <2>2, <2>3, ZenonT(30) DEF Inv, Types, TypeOK
<1>4. OnTheWay' = OnTheWay
  <2>1. /\ Append(chan, e) = chan \o <<e>> /\ <<e>> \in Seq(Event)
    BY <1>0, <1>1, EventSeqs
  <2>2. (chan \o <<e>>) \o rest = chan \o (<<e>> \o rest)
    BY <1>0, <1>1, <2>1, EventSeqs
  <2>3. OnTheWay' = chan' \o outbox'
    BY DEF OnTheWay
  <2> QED
    BY <1>1, <1>2, <2>1, <2>2, <2>3, Zenon DEF OnTheWay
<1>5. KeysInv'
  BY <1>4, KeysKept, Zenon
<1>6. HelpInv' /\ SizeInv'
  BY <1>4, Zenon DEF Inv, HelpInv, SizeInv
<1>7. NoteRight(note)'
  BY Zenon DEF Inv
<1>8. Reporters(platform, resized, outbox, held)'
  <2>1. None(outbox, "resize") => None(rest, "resize")
    <3>1. <<e>> \in Seq(Event) /\ Resize(window).kind = "resize"
      BY <1>1 DEF Resize
    <3>2. None(<<e>> \o rest, "resize") => None(rest, "resize")
      BY <1>1, <3>1, LatestConcat
    <3> QED
      BY <1>1, <3>2, Zenon
  <2> QED
    BY <1>2, <2>1 DEF Inv, Reporters
<1> QED
  BY <1>3, <1>5, <1>6, <1>7, <1>8 DEF Inv

\* A report enters the way before what the reader has yet to send, which says
\* nothing of the window's size.
LEMMA TaskSendsInv ==
    ASSUME Inv, TaskSends
    PROVE  Inv'
<1> USE DEF TaskSends, Chosen, World, Reader, Loop
<1> DEFINE e == Head(held)
<1>0. chan \in Seq(Event) /\ outbox \in Seq(Event) /\ held \in Seq(Event)
  BY DEF Inv, Types
<1>1. e \in Event /\ held = <<e>> /\ e.kind = "resize" /\ platform = "unix"
  <2>1. Len(held) <= 1 /\ held # <<>>
    BY DEF Inv, Types, TypeOK
  <2>2. held = <<e>> /\ e \in Event /\ 1 \in DOMAIN held /\ held[1] = e
    BY <1>0, <2>1, Alone
  <2>3. held[1].kind = "resize" /\ platform = "unix"
    BY <2>1, <2>2, Zenon DEF Inv, Reporters
  <2> QED
    BY <2>2, <2>3
<1>2. chan' = Append(chan, e) /\ held' = <<>> /\ outbox' = outbox
  OBVIOUS
<1> HIDE DEF e
<1>3. chan' = chan \o <<e>> /\ <<e>> \in Seq(Event)
  BY <1>0, <1>1, <1>2, EventSeqs
<1>4. Types'
  <2>1. chan' \in Seq(Event) /\ Len(chan') = Len(chan) + 1 /\ Len(chan) \in Nat
    BY <1>0, <1>1, <1>2
  <2>2. Len(chan') <= CHANNEL
    BY <2>1, KeyboardAssumption
  <2>3. held' \in Seq(Event) /\ Len(held') <= 1
    BY <1>2
  <2>4. TypeOK /\ Types
    BY DEF Inv, Types
  <2>5. TypeOK'
    BY <1>2, <2>2, <2>3, <2>4, Zenon DEF TypeOK
  <2> QED
    BY <1>2, <2>1, <2>3, <2>4, <2>5, Zenon DEF Types
<1>5. OnTheWay = chan \o outbox /\ OnTheWay' = (chan \o <<e>>) \o outbox
  BY <1>2, <1>3, Zenon DEF OnTheWay
<1>6. KeysInv'
  <2>1. /\ HasQuit(OnTheWay') <=> HasQuit(OnTheWay)
        /\ Heard(OnTheWay') = Heard(OnTheWay)
    BY <1>0, <1>1, <1>5, InsertResize
  <2> QED
    BY <2>1, KeysKept, Zenon
<1>7. HelpInv'
  <2>1. filter.armed \in BOOLEAN
    BY DEF Inv, Types, TypeOK
  <2>2. /\ HasQuit(OnTheWay') <=> HasQuit(OnTheWay)
        /\ None(OnTheWay', "help") <=> None(OnTheWay, "help")
        /\ Latest(OnTheWay', "help", Help(filter.armed)) <=> Latest(OnTheWay, "help", Help(filter.armed))
    BY <1>0, <1>1, <1>5, <2>1, InsertResize
  <2>3. HelpRight(filter.armed, note, OnTheWay) => HelpRight(filter.armed, note, OnTheWay')
    BY <2>2, Zenon DEF HelpRight
  <2> QED
    BY <2>3, Zenon DEF Inv, HelpInv
<1>8. NoteRight(note)'
  BY Zenon DEF Inv
<1>9. Reporters(platform, resized, outbox, held)'
  <2>1. DOMAIN held' = {}
    BY <1>2
  <2> QED
    BY <1>2, <2>1 DEF Inv, Reporters
<1>10. SizeInv'
  <2> SUFFICES ASSUME running, ~shutdown, ~winch, ~resized
               PROVE  SizeRight(window, size, (OnTheWay \o held)')
    BY Zenon DEF SizeInv
  <2> DEFINE w == Resize(window)
             r == chan \o <<e>>
             before == chan \o outbox
  <2>1. w.kind = "resize"
    BY DEF Resize
  <2>2. r \in Seq(Event) /\ before \in Seq(Event) /\ r \o outbox \in Seq(Event)
    <3>1. r \in Seq(Event) /\ before \in Seq(Event)
      BY <1>0, <1>3, EventSeqs
    <3> HIDE DEF r
    <3> QED
      BY <1>0, <3>1, EventSeqs
  <2>3. SizeRight(window, size, before \o <<e>>)
    BY <1>1, <1>5, Zenon DEF Inv, SizeInv
  <2>4. (OnTheWay \o held)' = r \o outbox
    <3>1. (r \o outbox) \o <<>> = r \o outbox
      <4> HIDE DEF r
      <4> QED
        BY <2>2, EventSeqs
    <3>2. (OnTheWay \o held)' = OnTheWay' \o held'
      OBVIOUS
    <3> QED
      BY <1>2, <1>5, <3>1, <3>2, Zenon
  <2>5. None(outbox, "resize")
    BY <1>1, Zenon DEF Inv, Reporters
  <2>6. ~None(<<e>>, "resize") /\ (Latest(<<e>>, "resize", w) <=> e = w)
    BY <1>1, <2>1, LatestSingle
  <2> HIDE DEF w
  <2>7. /\ Latest(before \o <<e>>, "resize", w) <=>
              Latest(<<e>>, "resize", w) \/ (Latest(before, "resize", w) /\ None(<<e>>, "resize"))
        /\ None(before \o <<e>>, "resize") <=> None(before, "resize") /\ None(<<e>>, "resize")
    <3> HIDE DEF before
    <3> QED
      BY <1>3, <2>1, <2>2, LatestConcat
  <2>8. e = w
    BY <2>3, <2>6, <2>7, Zenon DEF SizeRight, w
  <2>9. Latest(r, "resize", w)
    <3>1. Latest(chan \o <<e>>, "resize", w) <=>
             Latest(<<e>>, "resize", w) \/ (Latest(chan, "resize", w) /\ None(<<e>>, "resize"))
      BY <1>0, <1>3, <2>1, LatestConcat
    <3> QED
      BY <2>6, <2>8, <3>1, Zenon
  <2>10. Latest(r \o outbox, "resize", w)
    <3> HIDE DEF r
    <3> QED
      BY <1>0, <2>1, <2>2, <2>5, <2>9, LatestConcat
  <2> QED
    BY <2>4, <2>10, Zenon DEF SizeRight, w
<1> QED
  BY <1>4, <1>6, <1>7, <1>8, <1>9, <1>10 DEF Inv

\* The reader's report follows everything else on the way.
LEMMA AskSizeInv ==
    ASSUME Inv, AskSize
    PROVE  Inv'
<1> USE DEF AskSize, Chosen, World, Loop
<1> DEFINE e == Resize(window)
<1>0. e \in Event /\ e.kind = "resize"
  BY DEF Inv, Types, TypeOK, Resize, Event
<1>1. chan \in Seq(Event) /\ outbox = <<>> /\ outbox' = <<e>> /\ chan' = chan
  BY DEF Inv, Types
<1>2. platform # "unix" /\ held = <<>> /\ held' = <<>>
  BY DEF Inv, Reporters
<1> HIDE DEF e
<1>3. <<e>> \in Seq(Event) /\ <<>> \in Seq(Event)
  BY <1>0
<1>4. Types'
  <2>1. outbox' \in Seq(Event) /\ Len(outbox') <= 2
    BY <1>0, <1>1
  <2> QED
    BY <2>1 DEF Inv, Types, TypeOK
<1>5. /\ OnTheWay = chan \o <<>> /\ OnTheWay' = (chan \o <<e>>) \o <<>>
      /\ OnTheWay' = chan \o <<e>>
      /\ (OnTheWay \o held)' = chan \o <<e>>
  <2>1. OnTheWay = chan \o outbox /\ OnTheWay' = chan \o <<e>>
    BY <1>1, Zenon DEF OnTheWay
  <2>2. chan \o <<e>> \in Seq(Event)
    BY <1>1, <1>3, EventSeqs
  <2> DEFINE way == chan \o <<e>>
  <2> HIDE DEF way
  <2>3. way \o <<>> = way
    BY <2>2, EventSeqs DEF way
  <2>4. (OnTheWay \o held)' = OnTheWay' \o held'
    OBVIOUS
  <2> QED
    BY <1>1, <1>2, <2>1, <2>3, <2>4, Zenon DEF way
<1> DEFINE no == <<>>
<1> HIDE DEF no
<1>6. /\ no \in Seq(Event)
       /\ OnTheWay = chan \o no /\ OnTheWay' = (chan \o <<e>>) \o no
  BY <1>3, <1>5, Zenon DEF no
<1>7. KeysInv'
  <2>1. /\ HasQuit(OnTheWay') <=> HasQuit(OnTheWay)
        /\ Heard(OnTheWay') = Heard(OnTheWay)
    BY <1>0, <1>1, <1>6, InsertResize
  <2> QED
    BY <2>1, KeysKept, Zenon
<1>8. HelpInv'
  <2>1. filter.armed \in BOOLEAN
    BY DEF Inv, Types, TypeOK
  <2>2. /\ HasQuit(OnTheWay') <=> HasQuit(OnTheWay)
        /\ None(OnTheWay', "help") <=> None(OnTheWay, "help")
        /\ Latest(OnTheWay', "help", Help(filter.armed)) <=> Latest(OnTheWay, "help", Help(filter.armed))
    BY <1>0, <1>1, <1>6, <2>1, InsertResize
  <2>3. HelpRight(filter.armed, note, OnTheWay) => HelpRight(filter.armed, note, OnTheWay')
    BY <2>2, Zenon DEF HelpRight
  <2> QED
    BY <2>3, Zenon DEF Inv, HelpInv
<1>9. NoteRight(note)'
  BY Zenon DEF Inv
<1>10. Reporters(platform, resized, outbox, held)'
  BY <1>2 DEF Inv, Reporters
<1>11. SizeInv'
  <2>1. Latest(<<e>>, "resize", e)
    BY <1>0, LatestSingle
  <2>2. Latest(chan \o <<e>>, "resize", e)
    BY <1>0, <1>1, <1>3, <2>1, LatestConcat
  <2>3. SizeRight(window, size, chan \o <<e>>)
    BY <2>2, Zenon DEF SizeRight, e
  <2> QED
    BY <1>5, <2>3, Zenon DEF SizeInv
<1> QED
  BY <1>4, <1>7, <1>8, <1>9, <1>10, <1>11 DEF Inv

LEMMA EventCases ==
    ASSUME NEW h \in Event
    PROVE  \/ h.kind = "input" /\ h.bytes \in Seq(Nat) /\ KeysOf(h) = h.bytes /\ h # Quit
           \/ /\ h.kind = "help" /\ h.show \in BOOLEAN /\ h = Help(h.show)
              /\ KeysOf(h) = <<>> /\ h # Quit
           \/ /\ h.kind = "resize" /\ h.size \in Windows /\ h = Resize(h.size)
              /\ KeysOf(h) = <<>> /\ h # Quit
           \/ h.kind = "quit" /\ h = Quit
<1>1. CASE h \in [kind : {"input"}, bytes : Seq(Nat)]
  BY <1>1 DEF KeysOf, Quit
<1>2. CASE h \in [kind : {"help"}, show : BOOLEAN]
  BY <1>2 DEF KeysOf, Quit, Help
<1>3. CASE h \in [kind : {"resize"}, size : Windows]
  BY <1>3 DEF KeysOf, Quit, Resize
<1>4. CASE h = Quit
  BY <1>4 DEF Quit
<1> QED
  BY <1>1, <1>2, <1>3, <1>4 DEF Event

\* What the client takes moves from the way to what it has pushed.
LEMMA KeysTaken ==
    ASSUME NEW h \in Event, NEW t \in Seq(Event), NEW c, NEW keys \in Seq(Nat), NEW text,
           KeysRight(c, keys, FALSE, <<h>> \o t, text)
    PROVE  /\ h = Quit => KeysRight(c, keys, TRUE, t, text)
           /\ h # Quit => KeysRight(c, keys \o KeysOf(h), FALSE, t, text)
<1>1. <<h>> \in Seq(Event)
  OBVIOUS
<1>2. /\ HasQuit(<<h>> \o t) <=> HasQuit(<<h>>) \/ HasQuit(t)
      /\ Heard(<<h>> \o t) = IF HasQuit(<<h>>) THEN Heard(<<h>>) ELSE Heard(<<h>>) \o Heard(t)
  BY <1>1, HeardConcat
<1>3. (HasQuit(<<h>>) <=> h = Quit) /\ Heard(<<h>>) = KeysOf(h) /\ (h = Quit => KeysOf(h) = <<>>)
  BY HeardSingle
<1>4. KeysOf(h) \in Seq(Nat) /\ Heard(t) \in Seq(Nat)
  BY KeysOfType, HeardAppend
<1>5. (keys \o KeysOf(h)) \o Heard(t) = keys \o (KeysOf(h) \o Heard(t))
  BY <1>4, ConcatAssoc
<1>6. /\ HasQuit(<<h>> \o t) <=> Quits(c, text) # {}
      /\ keys \o Heard(<<h>> \o t) = Meant(c, text)
  BY Zenon DEF KeysRight
<1>7. CASE h = Quit
  <2>1. Heard(<<h>> \o t) = <<>> /\ HasQuit(<<h>> \o t)
    BY <1>2, <1>3, <1>7
  <2> QED
    BY <1>6, <1>7, <2>1, Zenon DEF KeysRight
<1>8. CASE h # Quit
  <2>1. Heard(<<h>> \o t) = KeysOf(h) \o Heard(t) /\ (HasQuit(<<h>> \o t) <=> HasQuit(t))
    BY <1>2, <1>3, <1>8
  <2> QED
    BY <1>5, <1>6, <1>8, <2>1, Zenon DEF KeysRight
<1> QED
  BY <1>7, <1>8

\* The notification once the client has taken h.
Noted(n, h) ==
    IF h.kind = "help" THEN IF h.show THEN ShowEscapeHelp ELSE HideEscapeHelp(n)
    ELSE IF h.kind = "quit" THEN SetNotification("exiting") ELSE n

NoteState == [message : {"", "help", "error", "exiting", "timeout"},
              is_network_error : BOOLEAN, show_quit_keystroke : BOOLEAN]

LEMMA NoteTaken ==
    ASSUME NEW h \in Event, NEW n \in NoteState, NoteRight(n)
    PROVE  /\ Noted(n, h) \in NoteState /\ NoteRight(Noted(n, h))
           /\ h.kind = "help" => /\ Noted(n, h).message = "help" => h.show
                                 /\ h.show => Noted(n, h).message = "help"
<1> USE DEF NoteState, NoteRight, Noted
<1>1. CASE h.kind = "help" /\ h.show
  BY <1>1 DEF ShowEscapeHelp, SetNotification
<1>2. CASE h.kind = "help" /\ ~h.show
  BY <1>2 DEF HideEscapeHelp
<1>3. CASE h.kind = "quit"
  BY <1>3 DEF SetNotification
<1>4. CASE h.kind # "help" /\ h.kind # "quit"
  BY <1>4
<1> QED
  BY <1>1, <1>2, <1>3, <1>4

LEMMA HelpTaken ==
    ASSUME NEW h \in Event, NEW t \in Seq(Event), NEW n \in NoteState, NoteRight(n),
           NEW armed \in BOOLEAN, h # Quit, HelpRight(armed, n, <<h>> \o t)
    PROVE  HelpRight(armed, Noted(n, h), t)
<1> SUFFICES ASSUME ~HasQuit(t), ~Latest(t, "help", Help(armed))
             PROVE  /\ None(t, "help")
                    /\ Noted(n, h).message = "help" => armed
                    /\ armed => Noted(n, h).message \in {"help", "error"}
  BY Zenon DEF HelpRight
<1> DEFINE e == Help(armed)
<1>1. <<h>> \in Seq(Event) /\ e.kind = "help"
  BY DEF Help
<1> HIDE DEF e
<1>2. ~HasQuit(<<h>> \o t)
  BY <1>1, HeardConcat, HeardSingle
<1>3. /\ Latest(<<h>> \o t, "help", e) <=>
            Latest(t, "help", e) \/ (Latest(<<h>>, "help", e) /\ None(t, "help"))
      /\ None(<<h>> \o t, "help") <=> None(<<h>>, "help") /\ None(t, "help")
  BY <1>1, LatestConcat
<1>4. (None(<<h>>, "help") <=> h.kind # "help") /\ (Latest(<<h>>, "help", e) <=> h = e)
  BY <1>1, LatestSingle
<1>5. None(t, "help") /\ (h = e \/ h.kind # "help")
  BY <1>2, <1>3, <1>4, Zenon DEF HelpRight, e
<1>6. CASE h = e
  <2>1. h.kind = "help" /\ h.show = armed
    BY <1>6 DEF e, Help
  <2> QED
    BY <1>5, <2>1, NoteTaken
<1>7. CASE h.kind # "help" /\ h # e
  <2>1. Noted(n, h) = n
    <3>1. h.kind # "quit"
      BY EventCases
    <3> QED
      BY <1>7, <3>1 DEF Noted
  <2>2. (n.message = "help" => armed) /\ (armed => n.message \in {"help", "error"})
    BY <1>2, <1>3, <1>4, <1>7, Zenon DEF HelpRight, e
  <2> QED
    BY <1>5, <2>1, <2>2
<1> QED
  BY <1>4, <1>5, <1>6, <1>7

LEMMA SizeTaken ==
    ASSUME NEW h \in Event, NEW t \in Seq(Event), NEW to, NEW known,
           SizeRight(to, known, <<h>> \o t)
    PROVE  SizeRight(to, IF h.kind = "resize" THEN h.size ELSE known, t)
<1> DEFINE e == Resize(to)
<1>1. <<h>> \in Seq(Event) /\ e.kind = "resize"
  BY DEF Resize
<1>2. h = e => h.size = to
  BY DEF Resize
<1> HIDE DEF e
<1>3. /\ Latest(<<h>> \o t, "resize", e) <=>
            Latest(t, "resize", e) \/ (Latest(<<h>>, "resize", e) /\ None(t, "resize"))
      /\ None(<<h>> \o t, "resize") <=> None(<<h>>, "resize") /\ None(t, "resize")
  BY <1>1, LatestConcat
<1>4. (None(<<h>>, "resize") <=> h.kind # "resize") /\ (Latest(<<h>>, "resize", e) <=> h = e)
  BY <1>1, LatestSingle
<1> QED
  BY <1>1, <1>2, <1>3, <1>4, Zenon DEF SizeRight, e

\* What the client makes of an event while no shutdown is in progress.
LEMMA HandleFacts ==
    ASSUME NEW h \in Event, Handle(h), Types, ~shutdown
    PROVE  /\ pushed' = IF h = Quit THEN pushed ELSE pushed \o KeysOf(h)
           /\ size' = IF h.kind = "resize" THEN h.size ELSE size
           /\ shutdown' = (h = Quit)
           /\ note' = Noted(note, h)
<1>1. pushed \o <<>> = pushed
  <2>1. pushed \in Seq(Nat)
    BY DEF Types, TypeOK
  <2> QED
    BY <2>1, ConcatFacts
<1>2. CASE h.kind = "input" /\ h.bytes \in Seq(Nat) /\ KeysOf(h) = h.bytes /\ h # Quit
  BY <1>2 DEF Handle, Noted, Types
<1>3. CASE /\ h.kind = "help" /\ h.show \in BOOLEAN /\ h = Help(h.show)
           /\ KeysOf(h) = <<>> /\ h # Quit
  BY <1>1, <1>3 DEF Handle, Noted, Types
<1>4. CASE /\ h.kind = "resize" /\ h.size \in Windows /\ h = Resize(h.size)
           /\ KeysOf(h) = <<>> /\ h # Quit
  BY <1>1, <1>4 DEF Handle, Noted, Types
<1>5. CASE h.kind = "quit" /\ h = Quit
  BY <1>5 DEF Handle, Noted, Types
<1> QED
  BY <1>2, <1>3, <1>4, <1>5, EventCases

LEMMA ClientTakesInv ==
    ASSUME Inv, ClientTakes
    PROVE  Inv'
<1> DEFINE h == Head(chan)
           rest == Tail(chan)
           way == rest \o outbox
<1>0. /\ chan \in Seq(Event) /\ outbox \in Seq(Event) /\ held \in Seq(Event)
      /\ pushed \in Seq(Nat) /\ shutdown \in BOOLEAN /\ note \in NoteState /\ NoteRight(note)
      /\ filter.armed \in BOOLEAN /\ Types
  BY DEF Inv, Types, TypeOK, NoteState
<1>1. /\ running /\ running' = running /\ chan' = rest /\ chan # <<>>
      /\ UNCHANGED <<platform, config, typed, window, winch, consumed, high, filter, reading,
                     resized, outbox, held>>
      /\ IF shutdown THEN UNCHANGED <<pushed, size, shutdown, note>> ELSE Handle(h)
  BY DEF ClientTakes, Chosen, World, Reader
<1>2. /\ h \in Event /\ rest \in Seq(Event) /\ Len(rest) = Len(chan) - 1
      /\ chan = <<h>> \o rest /\ <<h>> \in Seq(Event)
  BY <1>0, <1>1, EventSeqs
<1> HIDE DEF h, rest
<1>3. /\ way \in Seq(Event) /\ OnTheWay = <<h>> \o way /\ OnTheWay' = way
      /\ OnTheWay \o held = <<h>> \o (way \o held) /\ (OnTheWay \o held)' = way \o held
      /\ way \o held \in Seq(Event)
  <2>1. way \in Seq(Event) /\ (<<h>> \o rest) \o outbox = <<h>> \o (rest \o outbox)
    BY <1>0, <1>2, EventSeqs
  <2>2. OnTheWay = <<h>> \o way
    BY <1>2, <2>1, Zenon DEF OnTheWay
  <2>3. OnTheWay' = way
    BY <1>1, Zenon DEF OnTheWay
  <2> HIDE DEF way
  <2>4. (<<h>> \o way) \o held = <<h>> \o (way \o held) /\ way \o held \in Seq(Event)
    BY <1>0, <1>2, <2>1, EventSeqs, SMTT(30)
  <2>5. (OnTheWay \o held)' = OnTheWay' \o held'
    OBVIOUS
  <2>6. OnTheWay \o held = <<h>> \o (way \o held)
    BY <2>2, <2>4, Zenon
  <2>7. (OnTheWay \o held)' = way \o held
    BY <1>1, <2>3, <2>5, Zenon
  <2> QED
    BY <2>1, <2>2, <2>3, <2>4, <2>6, <2>7
<1> HIDE DEF way
<1>4. Len(chan') <= CHANNEL /\ chan' \in Seq(Event)
  <2>1. Len(chan) <= CHANNEL
    BY <1>0 DEF Types, TypeOK
  <2>2. Len(chan) \in Nat
    BY <1>0
  <2> QED
    BY <1>1, <1>2, <2>1, <2>2, KeyboardAssumption
<1>5. Reporters(platform, resized, outbox, held)'
  BY <1>1, Zenon DEF Inv
<1>6. SoFar' = SoFar /\ SubSeq(typed, 1, consumed)' = SubSeq(typed, 1, consumed)
  BY <1>1 DEF SoFar
<1>7. /\ KeysRight(config, pushed, shutdown, <<h>> \o way, SoFar)
      /\ FilterRight(config, filter, SoFar)
      /\ HighRight(platform, high, SubSeq(typed, 1, consumed))
  BY <1>1, <1>3, Zenon DEF Inv, KeysInv
<1>8. FilterRight(config, filter, SoFar)' /\ HighRight(platform, high, SubSeq(typed, 1, consumed))'
  BY <1>1, <1>6, <1>7, Zenon
<1>9. CASE shutdown
  <2>1. UNCHANGED <<pushed, size, shutdown, note>>
    BY <1>1, <1>9
  <2>2. Types'
    BY <1>0, <1>1, <1>4, <2>1, ZenonT(30) DEF Types, TypeOK
  <2>3. KeysInv'
    <3>1. KeysRight(config, pushed, shutdown, way, SoFar)
      BY <1>7, <1>9, Zenon DEF KeysRight
    <3>2. KeysRight(config, pushed, shutdown, OnTheWay, SoFar)'
      BY <1>1, <1>3, <1>6, <2>1, <3>1, Zenon
    <3> QED
      BY <1>8, <3>2, Zenon DEF KeysInv
  <2>4. HelpInv' /\ SizeInv'
    BY <1>9, <2>1 DEF HelpInv, SizeInv
  <2>5. NoteRight(note)'
    BY <1>0, <2>1, Zenon
  <2> QED
    BY <1>5, <2>2, <2>3, <2>4, <2>5 DEF Inv
<1>10. CASE ~shutdown
  <2>1. /\ pushed' = IF h = Quit THEN pushed ELSE pushed \o KeysOf(h)
        /\ size' = IF h.kind = "resize" THEN h.size ELSE size
        /\ shutdown' = (h = Quit)
        /\ note' = Noted(note, h)
    <3>1. Handle(h)
      BY <1>1, <1>10
    <3> QED
      BY <1>0, <1>2, <1>10, <3>1, HandleFacts
  <2>2. note' \in NoteState /\ NoteRight(note')
    BY <1>0, <1>2, <2>1, NoteTaken, Zenon
  <2>3. pushed' \in Seq(Nat)
    <3>1. KeysOf(h) \in Seq(Nat)
      BY <1>2, KeysOfType
    <3>2. pushed \o KeysOf(h) \in Seq(Nat)
      BY <1>0, <3>1, ConcatFacts
    <3> QED
      BY <1>0, <2>1, <3>2, Zenon
  <2>4. size' \in Windows
    <3>1. h.kind = "resize" => h.size \in Windows
      BY <1>2, EventCases
    <3>2. size \in Windows
      BY <1>0 DEF Types, TypeOK
    <3> QED
      BY <2>1, <3>1, <3>2
  <2>5. shutdown' \in BOOLEAN
    BY <2>1
  <2>6. Types'
    BY <1>0, <1>1, <1>4, <2>2, <2>3, <2>4, <2>5 DEF Types, TypeOK, NoteState
  <2>7. KeysInv'
    <3>1. KeysRight(config, pushed, FALSE, <<h>> \o way, SoFar)
      BY <1>7, <1>10, Zenon DEF KeysRight
    <3>2. /\ h = Quit => KeysRight(config, pushed, TRUE, way, SoFar)
          /\ h # Quit => KeysRight(config, pushed \o KeysOf(h), FALSE, way, SoFar)
      BY <1>0, <1>2, <1>3, <3>1, KeysTaken
    <3>3. KeysRight(config, pushed', shutdown', way, SoFar)
      <4>1. CASE h = Quit
        <5>1. shutdown' = TRUE /\ pushed' = pushed
          BY <2>1, <4>1
        <5> QED
          BY <3>2, <4>1, <5>1, Zenon
      <4>2. CASE h # Quit
        <5>1. shutdown' = FALSE /\ pushed' = pushed \o KeysOf(h)
          BY <2>1, <4>2
        <5> QED
          BY <3>2, <4>2, <5>1, Zenon
      <4> QED
        BY <4>1, <4>2
    <3>4. KeysRight(config, pushed, shutdown, OnTheWay, SoFar)'
      BY <1>1, <1>3, <1>6, <3>3, Zenon
    <3> QED
      BY <1>8, <3>4, Zenon DEF KeysInv
  <2>8. HelpInv'
    <3> SUFFICES ASSUME h # Quit PROVE HelpRight(filter.armed, note', way)
      BY <1>1, <1>3, <2>1, Zenon DEF HelpInv
    <3>1. HelpRight(filter.armed, note, <<h>> \o way)
      BY <1>1, <1>3, <1>10, Zenon DEF Inv, HelpInv
    <3>2. HelpRight(filter.armed, Noted(note, h), way)
      BY <1>0, <1>2, <1>3, <3>1, HelpTaken
    <3> QED
      BY <2>1, <3>2, Zenon
  <2>9. SizeInv'
    <3> SUFFICES ASSUME ~winch, ~resized PROVE SizeRight(window, size', way \o held)
      BY <1>1, <1>3, Zenon DEF SizeInv
    <3>1. SizeRight(window, size, <<h>> \o (way \o held))
      BY <1>1, <1>3, <1>10, Zenon DEF Inv, SizeInv
    <3>2. SizeRight(window, IF h.kind = "resize" THEN h.size ELSE size, way \o held)
      BY <1>2, <1>3, <3>1, SizeTaken, Zenon
    <3> QED
      BY <2>1, <3>2, Zenon
  <2> QED
    BY <1>5, <2>2, <2>6, <2>7, <2>8, <2>9 DEF Inv
<1> QED
  BY <1>0, <1>9, <1>10

LEMMA ConcatAt ==
    ASSUME NEW s \in Seq(Nat), NEW t \in Seq(Nat)
    PROVE  /\ s \o t \in Seq(Nat) /\ Len(s \o t) = Len(s) + Len(t)
           /\ \A i \in 1 .. Len(s) : (s \o t)[i] = s[i]
           /\ \A i \in 1 .. Len(t) : (s \o t)[Len(s) + i] = t[i]
OBVIOUS

LEMMA CutInTwo ==
    ASSUME NEW s \in Seq(Nat), NEW m \in Nat, NEW n \in Nat, m + n <= Len(s)
    PROVE  /\ SubSeq(s, 1, m) \in Seq(Nat) /\ SubSeq(s, m + 1, m + n) \in Seq(Nat)
           /\ SubSeq(s, 1, m + n) \in Seq(Nat)
           /\ SubSeq(s, 1, m + n) = SubSeq(s, 1, m) \o SubSeq(s, m + 1, m + n)
<1> DEFINE a == SubSeq(s, 1, m)
           b == SubSeq(s, m + 1, m + n)
           c == SubSeq(s, 1, m + n)
<1>1. Len(s) \in Nat /\ m <= Len(s)
  OBVIOUS
<1>2. a \in Seq(Nat) /\ Len(a) = m /\ \A i \in 1 .. m : a[i] = s[i]
  BY <1>1
<1>3. c \in Seq(Nat) /\ Len(c) = m + n /\ \A i \in 1 .. m + n : c[i] = s[i]
  BY <1>1
<1>4. b \in Seq(Nat) /\ Len(b) = n /\ \A i \in 1 .. n : b[i] = s[m + i]
  BY <1>1
<1> HIDE DEF a, b, c
<1>5. /\ a \o b \in Seq(Nat) /\ Len(a \o b) = m + n
      /\ \A i \in 1 .. m : (a \o b)[i] = a[i]
      /\ \A i \in 1 .. n : (a \o b)[m + i] = b[i]
  <2>1. a \in Seq(Nat) /\ b \in Seq(Nat) /\ Len(a) = m /\ Len(b) = n
    BY <1>2, <1>4
  <2>2. /\ a \o b \in Seq(Nat) /\ Len(a \o b) = Len(a) + Len(b)
        /\ \A i \in 1 .. Len(a) : (a \o b)[i] = a[i]
        /\ \A i \in 1 .. Len(b) : (a \o b)[Len(a) + i] = b[i]
    BY <2>1, ConcatAt, Zenon
  <2> QED
    BY <2>1, <2>2, Zenon
<1> DEFINE w == a \o b
<1>6. ASSUME NEW i \in 1 .. m + n PROVE c[i] = w[i]
  <2>1. CASE i \in 1 .. m
    BY <1>2, <1>3, <1>5, <2>1, Zenon
  <2>2. CASE i \notin 1 .. m
    <3>1. i - m \in 1 .. n /\ m + (i - m) = i
      BY <2>2
    <3>2. w[m + (i - m)] = s[m + (i - m)]
      BY <1>4, <1>5, <3>1, Zenon
    <3> QED
      BY <1>3, <3>1, <3>2, Zenon
  <2> QED
    BY <2>1, <2>2
<1> HIDE DEF w
<1>7. c = w
  <2>1. w \in Seq(Nat) /\ Len(w) = m + n
    BY <1>5 DEF w
  <2> QED
    BY <1>3, <1>6, <2>1
<1> QED
  BY <1>2, <1>3, <1>4, <1>7 DEF a, b, c, w

\* What a read adds to the text is what it feeds the filter with.
ReadOf(n) ==
    LET units == SubSeq(typed, consumed + 1, consumed + n)
    IN  IF platform = "windows" THEN Utf8(units) ELSE [high |-> FALSE, out |-> units]

LEMMA ReadText ==
    ASSUME Inv, running, NEW n \in Nat, n <= Len(typed) - consumed
    PROVE  LET text == ReadOf(n)
               later == SubSeq(typed, 1, consumed + n)
           IN  /\ text.out \in Seq(Nat) /\ text.high \in BOOLEAN
               /\ SoFar \in Seq(Nat)
               /\ TextOf(platform, later) = SoFar \o text.out
               /\ HighRight(platform, text.high, later)
<1> DEFINE units == SubSeq(typed, consumed + 1, consumed + n)
           old == SubSeq(typed, 1, consumed)
           later == SubSeq(typed, 1, consumed + n)
<1>1. /\ typed \in Seq(Nat) /\ consumed \in 0 .. Len(typed) /\ high \in BOOLEAN
      /\ platform \in {"unix", "windows"}
  BY KeyboardAssumption DEF Inv, Types, TypeOK
<1>2. /\ old \in Seq(Nat) /\ units \in Seq(Nat) /\ later \in Seq(Nat) /\ later = old \o units
  <2>1. consumed \in Nat /\ consumed + n <= Len(typed)
    BY <1>1
  <2> QED
    BY <1>1, <2>1, CutInTwo
<1> HIDE DEF units, old, later
<1>3. HighRight(platform, high, old) /\ SoFar = TextOf(platform, old)
  BY DEF Inv, KeysInv, old, SoFar
<1>4. ReadOf(n) = IF platform = "windows" THEN Utf8(units) ELSE [high |-> FALSE, out |-> units]
  BY Zenon DEF ReadOf, units
<1>5. CASE platform = "unix"
  <2>1. ReadOf(n).high = FALSE /\ ReadOf(n).out = units
    BY <1>4, <1>5
  <2>2. SoFar = old /\ TextOf(platform, later) = later
    BY <1>3, <1>5 DEF TextOf
  <2>3. HighRight(platform, FALSE, later)
    BY <1>5 DEF HighRight
  <2> QED
    BY <1>2, <2>1, <2>2, <2>3, Zenon DEF later
<1>6. CASE platform = "windows"
  <2>1. ReadOf(n) = Utf8(units) /\ platform # "unix"
    BY <1>4, <1>6
  <2>2. high <=> Pending(old)
    BY <1>3, <2>1, Zenon DEF HighRight
  <2>3. /\ Utf8(units) \in UnitState
        /\ TextOf(platform, old) \in Seq(Nat)
        /\ TextOf(platform, old \o units) = TextOf(platform, old) \o Utf8(units).out
        /\ Utf8(units).high <=> Pending(old \o units)
    BY <1>1, <1>2, <2>1, <2>2, EncodeText
  <2>4. Utf8(units).high \in BOOLEAN /\ Utf8(units).out \in Seq(Nat)
    BY <2>3 DEF UnitState
  <2>5. HighRight(platform, Utf8(units).high, later)
    BY <1>2, <2>1, <2>3, Zenon DEF HighRight
  <2> QED
    BY <1>2, <1>3, <2>1, <2>3, <2>4, <2>5, Zenon DEF later
<1> QED
  BY <1>1, <1>5, <1>6

\* Feeding the filter has brought it from the text b to the text d.
FedRight(c, b, d, fed) ==
    /\ Quits(c, b) = {} => /\ fed.quit <=> Quits(c, d) # {}
                           /\ Meant(c, d) = Meant(c, b) \o fed.send
    /\ Quits(c, b) # {} => Quits(c, d) # {} /\ Meant(c, d) = Meant(c, b)

\* The events of a read follow what was on the way.
LEMMA KeysRead ==
    ASSUME NEW c, NEW keys \in Seq(Nat), NEW over \in BOOLEAN, NEW s \in Seq(Event),
           NEW ev \in Seq(Event), NEW b, NEW d, NEW fed, fed.send \in Seq(Nat),
           KeysRight(c, keys, over, s, b),
           HasQuit(ev) <=> fed.quit, Heard(ev) = fed.send,
           FedRight(c, b, d, fed)
    PROVE  KeysRight(c, keys, over, s \o ev, d)
<1>1. /\ HasQuit(s \o ev) <=> HasQuit(s) \/ HasQuit(ev)
      /\ Heard(s \o ev) = IF HasQuit(s) THEN Heard(s) ELSE Heard(s) \o Heard(ev)
  BY HeardConcat, ZenonT(30)
<1>2. Heard(s) \in Seq(Nat)
  BY HeardAppend
<1>3. (keys \o Heard(s)) \o fed.send = keys \o (Heard(s) \o fed.send)
  BY <1>2, ConcatAssoc
<1>4. /\ (over \/ HasQuit(s)) <=> Quits(c, b) # {}
      /\ keys \o (IF over THEN <<>> ELSE Heard(s)) = Meant(c, b)
  BY Zenon DEF KeysRight
<1>5. CASE over
  BY <1>1, <1>4, <1>5, Zenon DEF KeysRight, FedRight
<1>6. CASE ~over /\ HasQuit(s)
  BY <1>1, <1>4, <1>6, Zenon DEF KeysRight, FedRight
<1>7. CASE ~over /\ ~HasQuit(s)
  <2>1. Heard(s \o ev) = Heard(s) \o fed.send
    BY <1>1, <1>7
  <2>2. Meant(c, d) = (keys \o Heard(s)) \o fed.send
    BY <1>4, <1>7, Zenon DEF FedRight
  <2>3. keys \o Heard(s \o ev) = Meant(c, d)
    BY <1>3, <2>1, <2>2, Zenon
  <2>4. HasQuit(s \o ev) <=> Quits(c, d) # {}
    BY <1>1, <1>4, <1>7, Zenon DEF FedRight
  <2> QED
    BY <1>7, <2>3, <2>4, Zenon DEF KeysRight
<1> QED
  BY <1>5, <1>6, <1>7

LEMMA HelpRead ==
    ASSUME NEW s \in Seq(Event), NEW ev \in Seq(Event), NEW n, NEW fed,
           NEW armed \in BOOLEAN, NEW was \in BOOLEAN,
           HelpRight(was, n, s), HasQuit(ev) <=> fed.quit,
           fed.help = {} => None(ev, "help"),
           fed.help # {} => Latest(ev, "help", Help(armed)),
           ~fed.quit /\ fed.help = {} => (armed <=> was)
    PROVE  HelpRight(armed, n, s \o ev)
<1> SUFFICES ASSUME ~HasQuit(s \o ev)
             PROVE  \/ Latest(s \o ev, "help", Help(armed))
                    \/ /\ None(s \o ev, "help")
                       /\ n.message = "help" => armed
                       /\ armed => n.message \in {"help", "error"}
  BY Zenon DEF HelpRight
<1>1. ~HasQuit(s) /\ ~HasQuit(ev)
  BY HeardConcat
<1> DEFINE e == Help(armed)
<1>2. e.kind = "help"
  BY DEF Help
<1> HIDE DEF e
<1>3. /\ Latest(s \o ev, "help", e) <=>
            Latest(ev, "help", e) \/ (Latest(s, "help", e) /\ None(ev, "help"))
      /\ None(s \o ev, "help") <=> None(s, "help") /\ None(ev, "help")
  BY <1>2, LatestConcat
<1>4. CASE fed.help # {}
  BY <1>3, <1>4, Zenon DEF e
<1>5. CASE fed.help = {}
  <2>1. armed = was
    BY <1>1, <1>5
  <2> QED
    BY <1>1, <1>3, <1>5, <2>1, Zenon DEF HelpRight, e
<1> QED
  BY <1>4, <1>5

LEMMA SizeRead ==
    ASSUME NEW s \in Seq(Event), NEW ev \in Seq(Event), NEW t \in Seq(Event), NEW to, NEW known,
           None(ev, "resize"), SizeRight(to, known, s \o t)
    PROVE  SizeRight(to, known, (s \o ev) \o t)
<1> DEFINE e == Resize(to)
           w == s \o ev
<1>1. e.kind = "resize" /\ w \in Seq(Event)
  BY EventSeqs DEF Resize
<1> HIDE DEF e
<1>2. /\ Latest(w, "resize", e) <=>
            Latest(ev, "resize", e) \/ (Latest(s, "resize", e) /\ None(ev, "resize"))
      /\ None(w, "resize") <=> None(s, "resize") /\ None(ev, "resize")
  BY <1>1, LatestConcat
<1>3. /\ Latest(s \o t, "resize", e) <=>
            Latest(t, "resize", e) \/ (Latest(s, "resize", e) /\ None(t, "resize"))
      /\ None(s \o t, "resize") <=> None(s, "resize") /\ None(t, "resize")
  BY <1>1, LatestConcat
<1> HIDE DEF w
<1>4. /\ Latest(w \o t, "resize", e) <=>
            Latest(t, "resize", e) \/ (Latest(w, "resize", e) /\ None(t, "resize"))
      /\ None(w \o t, "resize") <=> None(w, "resize") /\ None(t, "resize")
  BY <1>1, LatestConcat
<1>5. SizeRight(to, known, w \o t)
  BY <1>2, <1>3, <1>4, Zenon DEF SizeRight, e
<1> QED
  BY <1>5 DEF w

LEMMA ReadInv ==
    ASSUME Inv, NEW n \in 0 .. Min({BUFFER, Len(typed) - consumed}), NEW change \in BOOLEAN,
           Read(n, change)
    PROVE  Inv'
<1> DEFINE text == ReadOf(n)
           fed == Feed(filter, text.out)
           ev == Events(fed)
           later == SubSeq(typed, 1, consumed + n)
<1>0. /\ platform \in {"unix", "windows"} /\ config \in Configs /\ typed \in Seq(Nat)
      /\ consumed \in 0 .. Len(typed) /\ filter \in FilterState /\ filter.armed \in BOOLEAN
      /\ chan \in Seq(Event) /\ held \in Seq(Event) /\ winch \in BOOLEAN
      /\ pushed \in Seq(Nat) /\ shutdown \in BOOLEAN /\ running
  BY KeyboardAssumption DEF Inv, Types, TypeOK, FilterState, Read
<1>1. n \in Nat /\ n <= Len(typed) - consumed
  <2> DEFINE S == {BUFFER, Len(typed) - consumed}
  <2>1. S \in SUBSET Nat /\ S # {} /\ Len(typed) - consumed \in S
    BY <1>0, KeyboardAssumption
  <2> HIDE DEF S
  <2>2. Min(S) \in Nat /\ Min(S) <= Len(typed) - consumed
    BY <2>1, MinProperties
  <2>3. n \in 0 .. Min(S)
    BY DEF S
  <2> QED
    BY <1>0, <2>2, <2>3
<1>2. /\ reading /\ outbox = <<>> /\ ~resized
      /\ change => platform = "windows" /\ winch
      /\ high' = text.high
      /\ IF text.out = <<>> THEN UNCHANGED <<filter, outbox>>
         ELSE filter' = fed.f /\ outbox' = ev
      /\ consumed' = consumed + n /\ resized' = change /\ winch' = (winch /\ ~change)
      /\ UNCHANGED <<platform, config, typed, window, reading, held, chan, pushed, size,
                     shutdown, running, note>>
  BY Zenon DEF Read, ReadOf, Chosen, Loop
<1>3. /\ text.out \in Seq(Nat) /\ text.high \in BOOLEAN /\ SoFar \in Seq(Nat)
      /\ TextOf(platform, later) = SoFar \o text.out
      /\ HighRight(platform, text.high, later)
  BY <1>0, <1>1, ReadText
<1> HIDE DEF text
<1>4. KeyOK(config)
  BY <1>0, ConfigFacts
<1>5. /\ fed.f \in FilterState /\ fed.send \in Seq(Nat) /\ fed.quit \in BOOLEAN
      /\ fed.help = {} \/ (fed.help = {fed.f.armed} /\ ~fed.quit)
      /\ ~fed.quit /\ fed.help = {} => (fed.f.armed <=> filter.armed)
  BY <1>0, <1>3, <1>4, FeedFacts
<1>6. fed.f.armed \in BOOLEAN
  BY <1>5 DEF FilterState
<1>7. /\ KeysRight(config, pushed, shutdown, OnTheWay, SoFar)
      /\ FilterRight(config, filter, SoFar)
  BY <1>0, Zenon DEF Inv, KeysInv
<1>8. FedRight(config, SoFar, SoFar \o text.out, fed)
      /\ FilterRight(config, fed.f, SoFar \o text.out)
  <2>1. config # Disabled /\ Quits(config, SoFar) = {} => InStep(config, filter, SoFar)
    BY <1>7, Zenon DEF FilterRight
  <2> QED
    BY <1>0, <1>3, <1>4, <2>1, FeedText DEF FedRight, FilterRight
<1> HIDE DEF fed
<1>9. /\ ev \in Seq(Event) /\ Len(ev) <= 2 /\ None(ev, "resize")
      /\ HasQuit(ev) <=> fed.quit
      /\ Heard(ev) = fed.send
      /\ fed.help = {} => None(ev, "help")
      /\ fed.help # {} => Latest(ev, "help", Help(fed.f.armed))
  BY <1>5, <1>6, EventsFacts
<1> HIDE DEF ev, later
<1>10. OnTheWay = chan /\ SoFar' = SoFar \o text.out /\ SubSeq(typed, 1, consumed)' = later
  <2>1. chan \o <<>> = chan
    BY <1>0, EventSeqs
  <2>2. SubSeq(typed, 1, consumed)' = later
    BY <1>2, Zenon DEF later
  <2>3. SoFar' = TextOf(platform, later)
    BY <1>2, <2>2, Zenon DEF SoFar
  <2> QED
    BY <1>2, <1>3, <2>1, <2>2, <2>3, Zenon DEF OnTheWay
<1>11. HighRight(platform, high, SubSeq(typed, 1, consumed))'
  BY <1>2, <1>3, <1>10, Zenon
<1>12. NoteRight(note)'
  BY <1>2, Zenon DEF Inv
<1>13. consumed' \in 0 .. Len(typed') /\ high' \in BOOLEAN /\ winch' \in BOOLEAN /\ resized' \in BOOLEAN
  BY <1>0, <1>1, <1>2, <1>3
<1>14. running /\ ~shutdown => HelpRight(filter.armed, note, chan)
  BY <1>10, Zenon DEF Inv, HelpInv
<1>15. running /\ ~shutdown /\ ~winch => SizeRight(window, size, chan \o held)
  BY <1>2, <1>10, Zenon DEF Inv, SizeInv
<1>16. CASE text.out = <<>>
  <2>1. UNCHANGED <<filter, outbox>>
    BY <1>2, <1>16
  <2>2. SoFar' = SoFar /\ OnTheWay' = OnTheWay
    <3>1. SoFar \o <<>> = SoFar
      BY <1>3, ConcatFacts
    <3> QED
      BY <1>2, <1>10, <1>16, <2>1, <3>1, Zenon DEF OnTheWay
  <2>3. Types'
    BY <1>2, <1>13, <2>1 DEF Inv, Types, TypeOK
  <2>4. KeysInv'
    <3>1. KeysRight(config, pushed, shutdown, OnTheWay, SoFar)' /\ FilterRight(config, filter, SoFar)'
      BY <1>2, <1>7, <2>1, <2>2, Zenon
    <3> QED
      BY <1>11, <3>1, Zenon DEF KeysInv
  <2>5. HelpInv'
    BY <1>2, <2>1, <2>2, Zenon DEF Inv, HelpInv
  <2>6. SizeInv'
    <3> SUFFICES ASSUME running, ~shutdown, ~winch', ~change PROVE SizeRight(window, size, chan \o held)
      BY <1>2, <1>10, <2>2, Zenon DEF SizeInv
    <3> QED
      BY <1>2, <1>15
  <2>7. Reporters(platform, resized, outbox, held)'
    BY <1>2, <2>1 DEF Inv, Reporters
  <2> QED
    BY <1>12, <2>3, <2>4, <2>5, <2>6, <2>7 DEF Inv
<1>17. CASE text.out # <<>>
  <2>1. filter' = fed.f /\ outbox' = ev
    BY <1>2, <1>17
  <2>2. OnTheWay' = chan \o ev
    BY <1>2, <2>1, Zenon DEF OnTheWay
  <2>3. Types'
    BY <1>2, <1>5, <1>9, <1>13, <2>1 DEF Inv, Types, TypeOK, FilterState
  <2>4. KeysInv'
    <3>1. KeysRight(config, pushed, shutdown, chan \o ev, SoFar \o text.out)
      <4>1. KeysRight(config, pushed, shutdown, chan, SoFar)
        BY <1>7, <1>10, Zenon
      <4> QED
        BY <1>0, <1>5, <1>8, <1>9, <4>1, KeysRead
    <3>2. KeysRight(config, pushed, shutdown, OnTheWay, SoFar)' /\ FilterRight(config, filter, SoFar)'
      BY <1>2, <1>8, <1>10, <2>1, <2>2, <3>1, Zenon
    <3> QED
      BY <1>11, <3>2, Zenon DEF KeysInv
  <2>5. HelpInv'
    <3> SUFFICES ASSUME ~shutdown PROVE HelpRight(fed.f.armed, note, chan \o ev)
      BY <1>2, <2>1, <2>2, Zenon DEF HelpInv
    <3>1. HelpRight(filter.armed, note, chan)
      BY <1>0, <1>14
    <3> DEFINE now == fed.f.armed
               was == filter.armed
    <3>2. /\ now \in BOOLEAN /\ was \in BOOLEAN /\ HelpRight(was, note, chan)
          /\ fed.help # {} => Latest(ev, "help", Help(now))
          /\ ~fed.quit /\ fed.help = {} => (now <=> was)
      BY <1>0, <1>5, <1>6, <1>9, <3>1
    <3> HIDE DEF now, was
    <3>3. HelpRight(now, note, chan \o ev)
      BY <1>0, <1>9, <3>2, HelpRead
    <3> QED
      BY <3>3 DEF now
  <2>6. SizeInv'
    <3> SUFFICES ASSUME running, ~shutdown, ~winch', ~change
                 PROVE  SizeRight(window, size, (chan \o ev) \o held)
      BY <1>2, <2>2, Zenon DEF SizeInv
    <3>1. SizeRight(window, size, chan \o held)
      BY <1>2, <1>15
    <3> QED
      BY <1>0, <1>9, <3>1, SizeRead
  <2>7. Reporters(platform, resized, outbox, held)'
    <3>1. platform = "unix" => ~change
      BY <1>2
    <3> QED
      BY <1>2, <1>9, <2>1, <3>1, Zenon DEF Inv, Reporters
  <2> QED
    BY <1>12, <2>3, <2>4, <2>5, <2>6, <2>7 DEF Inv
<1> QED
  BY <1>16, <1>17

-----------------------------------------------------------------------------
(* The theorems. *)

\* The invariant holds in every reachable state.
THEOREM Invariance == Spec => []Inv
<1>1. Init => Inv
  BY InitInv
<1>2. Inv /\ [Next]_vars => Inv'
  <2> SUFFICES ASSUME Inv, [Next]_vars PROVE Inv'
    OBVIOUS
  <2>1. ASSUME NEW to \in Windows, WindowChanges(to) PROVE Inv'
    BY <2>1, WindowChangesInv
  <2>2. ASSUME NEW n \in 0 .. Min({BUFFER, Len(typed) - consumed}), NEW change \in BOOLEAN,
               Read(n, change)
        PROVE  Inv'
    BY <2>2, ReadInv
  <2>3. CASE AskSize
    BY <2>3, AskSizeInv
  <2>4. CASE ReaderSends
    BY <2>4, ReaderSendsInv
  <2>5. CASE ReaderStops
    BY <2>5, ReaderStopsInv
  <2>6. CASE InputEnds
    BY <2>6, InputEndsInv
  <2>7. CASE TaskWakes
    BY <2>7, TaskWakesInv
  <2>8. CASE TaskSends
    BY <2>8, TaskSendsInv
  <2>9. CASE ClientTakes
    BY <2>9, ClientTakesInv
  <2>10. CASE NetworkFails
    BY <2>10, NetworkFailsInv
  <2>11. CASE ClientExits
    BY <2>11, ClientExitsInv
  <2>12. CASE UNCHANGED vars
    <3>1. UNCHANGED <<platform, config, typed, consumed, window, winch, resizes, errors, high,
                      filter, reading, resized, outbox, held, chan, pushed, size, shutdown,
                      running, note>>
      BY <2>12 DEF vars
    <3>2. Types'
      <4>1. TypeOK'
        <5>1. TypeOK
          BY DEF Inv, Types
        <5> QED
          BY <3>1, <5>1, Zenon DEF TypeOK
      <4> QED
        BY <3>1, <4>1, Zenon DEF Inv, Types
    <3>3. KeysInv' /\ HelpInv'
      BY <3>1, WayKept
    <3>4. SizeInv'
      BY <3>1 DEF Inv, SizeInv, OnTheWay
    <3>5. NoteRight(note)' /\ Reporters(platform, resized, outbox, held)'
      BY <3>1, Zenon DEF Inv
    <3> QED
      BY <3>2, <3>3, <3>4, <3>5 DEF Inv
  <2> QED
    BY <2>1, <2>2, <2>3, <2>4, <2>5, <2>6, <2>7, <2>8, <2>9, <2>10, <2>11, <2>12 DEF Next
<1> QED
  BY <1>1, <1>2, PTL DEF Spec

\* The variables have their types: in particular neither the channel nor the
\* reader's backlog of events outgrows its bound.
THEOREM TypeCorrect == Spec => []TypeOK
<1>1. Inv => TypeOK
  BY DEF Inv, Types
<1> QED
  BY <1>1, Invariance, PTL

\* However the reads cut up what is typed, the keys the client has pushed, with
\* those on their way, are what the text so far stands for, and only a quit ends
\* the session: for every escape key and every text.
THEOREM KeysAreTrue == Spec => []KeysTrue
<1>1. Inv => KeysTrue
  <2> SUFFICES ASSUME Inv, running
               PROVE  /\ pushed \o KeysIn(Due) = Meant(config, SoFar)
                      /\ shutdown => Quits(config, SoFar) # {}
    BY DEF KeysTrue
  <2>1. KeysRight(config, pushed, shutdown, OnTheWay, SoFar)
    BY DEF Inv, KeysInv
  <2>2. KeysIn(Due) = IF shutdown THEN <<>> ELSE Heard(OnTheWay)
    <3>1. <<>> \in Seq(Event)
      OBVIOUS
    <3>2. KeysIn(<<>>) = <<>>
      BY <3>1, KeysInFacts
    <3> QED
      BY <3>2, Zenon DEF Due, Heard
  <2> QED
    BY <2>1, <2>2, Zenon DEF KeysRight
<1> QED
  BY <1>1, Invariance, PTL

\* The help is up while the escape key waits for its second key, unless an error
\* has replaced it, whatever was read, sent and taken before.
THEOREM HelpTrue == Spec => []HelpMatches
<1>1. Inv => HelpMatches
  <2> SUFFICES ASSUME Inv PROVE HelpMatches
    OBVIOUS
  <2>1. NoteRight(note)
    BY DEF Inv
  <2>2. ASSUME running, ~shutdown, \A i \in DOMAIN OnTheWay : OnTheWay[i].kind = "resize"
        PROVE  /\ note.message = "help" => filter.armed
               /\ filter.armed => note.message \in {"help", "error"}
    <3>1. HelpRight(filter.armed, note, OnTheWay)
      BY <2>2, Zenon DEF Inv, HelpInv
    <3>2. Quit.kind # "resize" /\ Help(filter.armed).kind # "resize"
      BY DEF Quit, Help
    <3>3. ~HasQuit(OnTheWay) /\ ~Latest(OnTheWay, "help", Help(filter.armed))
      BY <2>2, <3>2, Zenon DEF HasQuit, Latest
    <3> QED
      BY <3>1, <3>3, Zenon DEF HelpRight
  <2> QED
    BY <2>1, <2>2, Zenon DEF HelpMatches, NoteRight
<1> QED
  BY <1>1, Invariance, PTL

\* A change of the window's size that nobody has yet to report has reached the
\* client's state, however the reports and the keys were interleaved.
THEOREM WindowTrue == Spec => []WindowKnown
<1>1. Inv => WindowKnown
  <2> SUFFICES ASSUME Inv, running, ~shutdown, ~winch, ~resized, held = <<>>,
                      \A i \in DOMAIN chan : chan[i].kind # "resize",
                      \A i \in DOMAIN outbox : outbox[i].kind # "resize"
               PROVE  size = window
    BY Zenon DEF WindowKnown
  <2>1. /\ chan \in Seq(Event) /\ outbox \in Seq(Event) /\ held \in Seq(Event)
        /\ Resize(window).kind = "resize"
    BY DEF Inv, Types, Resize
  <2>2. None(chan, "resize") /\ None(outbox, "resize")
    BY DEF None
  <2> DEFINE e == Resize(window)
             way == chan \o outbox
  <2> HIDE DEF e
  <2>3. way \in Seq(Event) /\ None(way, "resize")
    BY <2>1, <2>2, EventSeqs, LatestConcat
  <2>4. SizeRight(window, size, way \o held)
    BY Zenon DEF Inv, SizeInv, OnTheWay
  <2>5. way \o held = way
    <3> HIDE DEF way
    <3> QED
      BY <2>3, EventSeqs
  <2>6. ~Latest(way, "resize", e)
    <3>1. e.kind = "resize"
      BY <2>1 DEF e
    <3> HIDE DEF way
    <3> QED
      BY <2>3, <3>1, Zenon DEF Latest, None
  <2> QED
    BY <2>4, <2>5, <2>6, Zenon DEF SizeRight, e
<1> QED
  BY <1>1, Invariance, PTL

=============================================================================
