----------------------------- MODULE DataFacts -----------------------------
(***************************************************************************)
(* Facts about natural numbers, recursion and the joining of sequences     *)
(* that the proofs of several modules use.                                 *)
(* Induction and recursion are stated about sets and functions, not about  *)
(* operators, so that every prover can instantiate them.                   *)
(***************************************************************************)
EXTENDS Naturals, SequencesExt, WellFoundedInduction, TLAPS

\* Min of a nonempty set of naturals is its least element.
LEMMA MinProperties ==
    ASSUME NEW S \in SUBSET Nat, S # {}
    PROVE  /\ Min(S) \in S
           /\ \A n \in S : Min(S) <= n
<1> DEFINE Less == OpToRel(<, Nat)
<1>1. \A y, x \in Nat : y < x => <<y, x>> \in Less
  BY Zenon DEF OpToRel
<1> HIDE DEF Less
<1>2. PICK x \in S : \A y \in S : ~(<<y, x>> \in Less)
  <2>1. IsWellFoundedOn(Less, Nat)
    BY NatLessThanWellFounded DEF Less
  <2> QED
    BY <2>1, WFMin
<1>3. \A y \in S : x <= y
  <2> TAKE y \in S
  <2>1. x \in Nat /\ y \in Nat
    OBVIOUS
  <2>2. ~(y < x)
    BY <1>1, <1>2, <2>1, Zenon
  <2> QED
    BY <2>1, <2>2
<1> QED
  BY <1>3 DEF Min

\* Max of a nonempty bounded set of naturals is its greatest element.
LEMMA MaxProperties ==
    ASSUME NEW B \in Nat, NEW S \in SUBSET (0 .. B), S # {}
    PROVE  /\ Max(S) \in S
           /\ \A n \in S : Max(S) >= n
<1> DEFINE T == {B - n : n \in S}
<1>1. T \in SUBSET Nat /\ T # {}
  <2>1. \A n \in S : B - n \in Nat
    OBVIOUS
  <2>2. T # {}
    <3>1. PICK n \in S : TRUE
      OBVIOUS
    <3> QED
      BY <3>1
  <2> QED
    BY <2>1, <2>2
<1> HIDE DEF T
<1>2. Min(T) \in T /\ \A u \in T : Min(T) <= u
  BY <1>1, MinProperties
<1>3. PICK x \in S : Min(T) = B - x
  BY <1>2 DEF T
<1>4. \A y \in S : x >= y
  <2> TAKE y \in S
  <2>1. B - y \in T
    BY DEF T
  <2>2. B - x <= B - y
    BY <1>2, <1>3, <2>1
  <2> QED BY <2>2
<1> QED
  BY <1>4 DEF Max

\* Induction over the natural numbers, for the set where a property holds.
LEMMA SetInduction ==
    ASSUME NEW P \in SUBSET Nat, 0 \in P, \A n \in P : n + 1 \in P
    PROVE  P = Nat
<1> DEFINE T == Nat \ P
<1> SUFFICES ASSUME T # {} PROVE FALSE
  OBVIOUS
<1>1. PICK m \in T : \A n \in T : m <= n
  BY MinProperties
<1>2. m - 1 \in P
  BY <1>1
<1> QED
  BY <1>1, <1>2

\* The n steps from start stay in S.
Steps(step, n, start, S) ==
    n \in Nat /\ start \in S /\ \A i \in 1 .. n, s \in S : step[i][s] \in S

\* f is where they lead.
Runs(f, step, n, start, S) ==
    f \in [0 .. n -> S] /\ f[0] = start /\ \A i \in 1 .. n : f[i] = step[i][f[i - 1]]

\* A function that is defined by its value at 0 and, at each i, from its value
\* at i - 1 exists, with values where the steps stay.
LEMMA RecursionExists ==
    ASSUME NEW step, NEW n, NEW start, NEW S, Steps(step, n, start, S)
    PROVE  \E f : Runs(f, step, n, start, S)
<1>0. n \in Nat /\ start \in S /\ \A i \in 1 .. n, s \in S : step[i][s] \in S
  BY DEF Steps
<1> DEFINE Is(f, k) == f[0] = start /\ \A i \in 1 .. k : f[i] = step[i][f[i - 1]]
           P == {k \in Nat : k <= n => \E f \in [0 .. k -> S] : Is(f, k)}
<1>1. 0 \in P
  <2> DEFINE f == [x \in 0 .. 0 |-> start]
  <2>1. f \in [0 .. 0 -> S] /\ Is(f, 0)
    BY <1>0
  <2> QED
    BY <1>0, <2>1
<1>2. ASSUME NEW k \in P PROVE k + 1 \in P
  <2> SUFFICES ASSUME k + 1 <= n
               PROVE  \E g \in [0 .. k + 1 -> S] : Is(g, k + 1)
    OBVIOUS
  <2>1. PICK f \in [0 .. k -> S] : Is(f, k)
    BY <1>0, <1>2
  <2> DEFINE g == [x \in 0 .. k + 1 |-> IF x <= k THEN f[x] ELSE step[k + 1][f[k]]]
  <2>2. f[k] \in S /\ step[k + 1][f[k]] \in S
    BY <1>0, <2>1
  <2>3. g \in [0 .. k + 1 -> S]
    BY <2>1, <2>2
  <2>4. g[0] = start
    BY <2>1
  <2>5. ASSUME NEW i \in 1 .. k + 1 PROVE g[i] = step[i][g[i - 1]]
    <3>1. CASE i <= k
      BY <2>1, <3>1
    <3>2. CASE i = k + 1
      BY <3>2
    <3> QED
      BY <3>1, <3>2
  <2> QED
    BY <2>3, <2>4, <2>5
<1> HIDE DEF P
<1>3. P = Nat
  BY <1>1, <1>2, SetInduction DEF P
<1> QED
  BY <1>0, <1>3 DEF P, Runs

\* Such a function has all its values there.
LEMMA RunsStay ==
    ASSUME NEW step, NEW n, NEW start, NEW S, Steps(step, n, start, S),
           NEW f, f[0] = start,
           \A i \in 1 .. n : f[i - 1] \in S => f[i] = step[i][f[i - 1]]
    PROVE  \A k \in 0 .. n : f[k] \in S
<1>0. n \in Nat /\ start \in S /\ \A i \in 1 .. n, s \in S : step[i][s] \in S
  BY DEF Steps
<1> DEFINE P == {k \in Nat : k <= n => f[k] \in S}
<1>1. 0 \in P
  BY <1>0
<1>2. ASSUME NEW k \in P PROVE k + 1 \in P
  <2> SUFFICES ASSUME k + 1 <= n PROVE f[k + 1] \in S
    OBVIOUS
  <2>1. k + 1 \in 1 .. n /\ (k + 1) - 1 = k /\ f[k] \in S
    BY <1>0
  <2>2. f[k + 1] = step[k + 1][f[k]]
    BY <2>1
  <2> QED
    BY <1>0, <2>1, <2>2
<1> HIDE DEF P
<1>3. P = Nat
  BY <1>1, <1>2, SetInduction DEF P
<1> QED
  BY <1>0, <1>3 DEF P

-----------------------------------------------------------------------------
(* Sequences of sequences, joined. *)

\* The sequences joined so far, each step adding the next one.
Joins(g, seqs, S) ==
    /\ g \in [0 .. Len(seqs) -> Seq(S)]
    /\ g[0] = <<>>
    /\ \A i \in 1 .. Len(seqs) : g[i] = g[i - 1] \o seqs[i]

\* The definition of FlattenSeq joins them.
LEMMA FlattenAgrees ==
    ASSUME NEW S, NEW seqs \in Seq(Seq(S)), NEW g, Joins(g, seqs, S), seqs # <<>>,
           NEW h, \A i \in 1 .. Len(seqs) :
                     h[i] = IF i = 1 THEN seqs[i] ELSE h[i - 1] \o seqs[i]
    PROVE  h[Len(seqs)] = g[Len(seqs)]
<1> DEFINE n == Len(seqs)
           P == {k \in Nat : k + 1 <= n => h[k + 1] = g[k + 1]}
<1>1. n \in Nat /\ n > 0 /\ seqs \in [1 .. n -> Seq(S)]
  OBVIOUS
<1>2. 0 \in P
  <2>1. 1 \in 1 .. Len(seqs) /\ 1 - 1 = 0
    BY <1>1
  <2>2. h[1] = seqs[1]
    BY <2>1
  <2>3. g[1] = g[0] \o seqs[1] /\ g[0] = <<>>
    BY <2>1 DEF Joins
  <2>4. seqs[1] \in Seq(S)
    BY <1>1
  <2> QED
    BY <2>2, <2>3, <2>4
<1>3. ASSUME NEW k \in P PROVE k + 1 \in P
  <2> SUFFICES ASSUME k + 2 <= n PROVE h[k + 2] = g[k + 2]
    OBVIOUS
  <2> DEFINE j == k + 2
  <2>1. j \in 1 .. n /\ j # 1 /\ j - 1 = k + 1 /\ k + 1 <= n
    BY <1>1
  <2>2. h[j] = h[k + 1] \o seqs[j]
    BY <2>1
  <2>3. g[j] = g[k + 1] \o seqs[j]
    BY <2>1 DEF Joins
  <2> QED
    BY <1>3, <2>1, <2>2, <2>3
<1> HIDE DEF P
<1>4. P = Nat
  BY <1>2, <1>3, SetInduction DEF P
<1>5. n - 1 \in P
  BY <1>1, <1>4
<1> QED
  BY <1>1, <1>5 DEF P

\* Whatever joins the sequences ends in what FlattenSeq yields.
LEMMA FlattenIs ==
    ASSUME NEW S, NEW seqs \in Seq(Seq(S)), NEW g, Joins(g, seqs, S)
    PROVE  FlattenSeq(seqs) = g[Len(seqs)]
<1> DEFINE n == Len(seqs)
           Is(f) == f = [i \in 1 .. n |-> IF i = 1 THEN seqs[i] ELSE f[i - 1] \o seqs[i]]
           chosen == CHOOSE f : Is(f)
<1>1. n \in Nat /\ seqs \in [1 .. n -> Seq(S)]
  OBVIOUS
<1>2. CASE seqs = <<>>
  BY <1>2 DEF FlattenSeq, Joins
<1>3. CASE seqs # <<>>
  <2>1. FlattenSeq(seqs) = chosen[n]
    BY <1>3 DEF FlattenSeq
  <2>2. Is([i \in 1 .. n |-> g[i]])
    <3> DEFINE f == [i \in 1 .. n |-> g[i]]
    <3>1. ASSUME NEW i \in 1 .. n
          PROVE  f[i] = IF i = 1 THEN seqs[i] ELSE f[i - 1] \o seqs[i]
      <4>1. CASE i = 1
        <5>1. g[1] = <<>> \o seqs[1] /\ seqs[1] \in Seq(S)
          BY <1>1, <4>1, SMTT(30) DEF Joins
        <5> QED
          BY <4>1, <5>1
      <4>2. CASE i # 1
        BY <1>1, <4>2 DEF Joins
      <4> QED
        BY <4>1, <4>2
    <3> QED
      BY <3>1, Zenon
  <2>3. Is(chosen)
    BY <2>2, Zenon
  <2> HIDE DEF chosen
  <2>4. \A i \in 1 .. n : chosen[i] = IF i = 1 THEN seqs[i] ELSE chosen[i - 1] \o seqs[i]
    BY <2>3, Zenon
  <2>5. chosen[n] = g[n]
    BY <1>3, <2>4, FlattenAgrees
  <2> QED
    BY <2>1, <2>5
<1> QED
  BY <1>2, <1>3

\* There is such a way to join any sequences.
LEMMA JoinsExists ==
    ASSUME NEW S, NEW seqs \in Seq(Seq(S))
    PROVE  \E g : Joins(g, seqs, S)
<1> DEFINE n == Len(seqs)
           step == [i \in 1 .. n |-> [s \in Seq(S) |-> s \o seqs[i]]]
<1>1. \A i \in 1 .. n, s \in Seq(S) : step[i][s] = s \o seqs[i]
  OBVIOUS
<1>2. Steps(step, n, <<>>, Seq(S))
  BY DEF Steps
<1> HIDE DEF step
<1>3. PICK g : Runs(g, step, n, <<>>, Seq(S))
  <2>1. \E g : Runs(g, step, n, <<>>, Seq(S))
    BY <1>2, RecursionExists, Zenon
  <2> QED
    BY <2>1, Zenon
<1>4. \A i \in 1 .. n : i - 1 \in 0 .. n /\ g[i - 1] \in Seq(S)
  <2> TAKE i \in 1 .. n
  <2>1. i - 1 \in 0 .. n
    OBVIOUS
  <2>2. g \in [0 .. n -> Seq(S)]
    BY <1>3 DEF Runs
  <2> QED
    BY <2>1, <2>2, Zenon
<1>5. \A i \in 1 .. n : g[i] = g[i - 1] \o seqs[i]
  BY <1>1, <1>3, <1>4 DEF Runs
<1> QED
  BY <1>3, <1>5 DEF Joins, Runs

\* What FlattenSeq yields is a sequence of the same elements, and one more
\* sequence to join comes last.
LEMMA FlattenFacts ==
    ASSUME NEW S, NEW seqs \in Seq(Seq(S))
    PROVE  /\ FlattenSeq(seqs) \in Seq(S)
           /\ seqs = <<>> => FlattenSeq(seqs) = <<>>
<1>1. PICK g : Joins(g, seqs, S)
  BY JoinsExists, Zenon
<1>2. Len(seqs) \in 0 .. Len(seqs)
  OBVIOUS
<1>3. g[Len(seqs)] \in Seq(S)
  BY <1>1, <1>2, Zenon DEF Joins
<1>4. seqs = <<>> => Len(seqs) = 0
  OBVIOUS
<1>5. seqs = <<>> => g[Len(seqs)] = <<>>
  BY <1>1, <1>4 DEF Joins
<1> QED
  BY <1>1, <1>3, <1>5, FlattenIs

\* Nothing comes of joining nothing but empty sequences.
LEMMA FlattenEmpty ==
    ASSUME NEW S, NEW seqs \in Seq(Seq(S))
    PROVE  FlattenSeq(seqs) = <<>> <=> \A i \in 1 .. Len(seqs) : seqs[i] = <<>>
<1> DEFINE n == Len(seqs)
<1>0. n \in Nat /\ seqs \in [1 .. n -> Seq(S)]
  OBVIOUS
<1>1. PICK g : Joins(g, seqs, S)
  BY JoinsExists, Zenon
<1>2. g \in [0 .. n -> Seq(S)] /\ g[0] = <<>> /\ \A i \in 1 .. n : g[i] = g[i - 1] \o seqs[i]
  BY <1>1 DEF Joins
<1> DEFINE P == {k \in Nat : k <= n => (g[k] = <<>> <=> \A i \in 1 .. k : seqs[i] = <<>>)}
<1>3. 0 \in P
  BY <1>0, <1>2
<1>4. ASSUME NEW k \in P PROVE k + 1 \in P
  <2> SUFFICES ASSUME k + 1 <= n
               PROVE  g[k + 1] = <<>> <=> \A i \in 1 .. k + 1 : seqs[i] = <<>>
    OBVIOUS
  <2> DEFINE last == seqs[k + 1]
  <2>1. /\ k + 1 \in 1 .. n /\ (k + 1) - 1 = k /\ k \in 0 .. n
        /\ 1 .. k + 1 = 1 .. k \cup {k + 1}
    BY <1>0
  <2>2. g[k + 1] = g[k] \o last
    BY <1>2, <2>1
  <2>3. g[k] \in Seq(S) /\ last \in Seq(S)
    BY <1>0, <1>2, <2>1
  <2>4. g[k] = <<>> <=> \A i \in 1 .. k : seqs[i] = <<>>
    BY <2>1
  <2>5. g[k] \o last = <<>> <=> (g[k] = <<>> /\ last = <<>>)
    <3> DEFINE a == g[k]
    <3> HIDE DEF a, last
    <3>1. Len(a \o last) = Len(a) + Len(last) /\ Len(a) \in Nat /\ Len(last) \in Nat
      BY <2>3 DEF a
    <3> QED
      BY <2>3, <3>1 DEF a
  <2> QED
    BY <2>1, <2>2, <2>4, <2>5
<1> HIDE DEF P
<1>5. P = Nat
  BY <1>3, <1>4, SetInduction DEF P
<1>6. FlattenSeq(seqs) = g[n]
  BY <1>1, FlattenIs
<1> QED
  BY <1>0, <1>5, <1>6 DEF P

LEMMA FlattenOneMore ==
    ASSUME NEW S, NEW seqs \in Seq(Seq(S)), NEW longer \in Seq(Seq(S)),
           Len(longer) = Len(seqs) + 1,
           \A i \in 1 .. Len(seqs) : longer[i] = seqs[i]
    PROVE  FlattenSeq(longer) = FlattenSeq(seqs) \o longer[Len(longer)]
<1> DEFINE n == Len(seqs)
<1>0. n \in Nat /\ Len(longer) = n + 1 /\ n + 1 \in 1 .. n + 1 /\ (n + 1) - 1 = n
  OBVIOUS
<1>1. PICK g : Joins(g, longer, S)
  BY JoinsExists, Zenon
<1> DEFINE short == [i \in 0 .. n |-> g[i]]
<1>2. Joins(short, seqs, S)
  <2>1. g \in [0 .. n + 1 -> Seq(S)] /\ g[0] = <<>>
    BY <1>0, <1>1 DEF Joins
  <2>2. \A i \in 0 .. n : g[i] \in Seq(S)
    <3> TAKE i \in 0 .. n
    <3>1. i \in 0 .. n + 1
      BY <1>0
    <3> QED
      BY <2>1, <3>1, Zenon
  <2>3. short \in [0 .. n -> Seq(S)]
    BY <2>2
  <2>4. short[0] = <<>>
    BY <1>0, <2>1
  <2>5. ASSUME NEW i \in 1 .. n PROVE short[i] = short[i - 1] \o seqs[i]
    <3>1. i \in 0 .. n /\ i - 1 \in 0 .. n /\ i \in 1 .. n + 1
      BY <1>0
    <3>2. g[i] = g[i - 1] \o longer[i] /\ longer[i] = seqs[i]
      BY <1>0, <1>1, <3>1 DEF Joins
    <3> QED
      BY <3>1, <3>2, Zenon
  <2> QED
    BY <2>3, <2>4, <2>5 DEF Joins
<1>3. FlattenSeq(seqs) = short[n] /\ FlattenSeq(longer) = g[n + 1]
  BY <1>0, <1>1, <1>2, FlattenIs
<1>4. g[n + 1] = g[n] \o longer[n + 1]
  BY <1>0, <1>1 DEF Joins
<1>5. short[n] = g[n]
  BY <1>0
<1> QED
  BY <1>0, <1>3, <1>4, <1>5

\* The last of the sequences comes last.
LEMMA FlattenLast ==
    ASSUME NEW S, NEW seqs \in Seq(Seq(S)), NEW n \in Nat, Len(seqs) = n + 1
    PROVE  /\ SubSeq(seqs, 1, n) \in Seq(Seq(S)) /\ Len(SubSeq(seqs, 1, n)) = n
           /\ \A i \in 1 .. n : SubSeq(seqs, 1, n)[i] = seqs[i]
           /\ FlattenSeq(seqs) = FlattenSeq(SubSeq(seqs, 1, n)) \o seqs[n + 1]
<1> DEFINE front == SubSeq(seqs, 1, n)
<1>1. front \in Seq(Seq(S)) /\ Len(front) = n /\ \A i \in 1 .. n : front[i] = seqs[i]
  OBVIOUS
<1> HIDE DEF front
<1>2. FlattenSeq(seqs) = FlattenSeq(front) \o seqs[Len(seqs)]
  BY <1>1, FlattenOneMore
<1> QED
  BY <1>1, <1>2 DEF front

\* Three sequences joined.
LEMMA FlattenThree ==
    ASSUME NEW S, NEW seqs \in Seq(Seq(S)), Len(seqs) = 3
    PROVE  FlattenSeq(seqs) = (seqs[1] \o seqs[2]) \o seqs[3]
<1> DEFINE two == SubSeq(seqs, 1, 2)
           one == SubSeq(two, 1, 1)
           none == SubSeq(one, 1, 0)
<1>1. /\ two \in Seq(Seq(S)) /\ Len(two) = 2 /\ two[1] = seqs[1] /\ two[2] = seqs[2]
      /\ FlattenSeq(seqs) = FlattenSeq(two) \o seqs[3]
  <2> DEFINE n == 2
             front == SubSeq(seqs, 1, n)
  <2>1. n \in Nat /\ Len(seqs) = n + 1
    OBVIOUS
  <2> HIDE DEF n
  <2>2. /\ front \in Seq(Seq(S)) /\ Len(front) = n /\ \A i \in 1 .. n : front[i] = seqs[i]
        /\ FlattenSeq(seqs) = FlattenSeq(front) \o seqs[n + 1]
    BY <2>1, FlattenLast
  <2>3. front = two
    BY DEF n
  <2> HIDE DEF two, front
  <2> QED
    BY <2>2, <2>3 DEF n
<1> HIDE DEF two
<1>2. /\ one \in Seq(Seq(S)) /\ Len(one) = 1 /\ one[1] = two[1]
      /\ FlattenSeq(two) = FlattenSeq(one) \o two[2]
  <2> DEFINE n == 1
             front == SubSeq(two, 1, n)
  <2>1. n \in Nat /\ Len(two) = n + 1
    BY <1>1
  <2> HIDE DEF n
  <2>2. /\ front \in Seq(Seq(S)) /\ Len(front) = n /\ \A i \in 1 .. n : front[i] = two[i]
        /\ FlattenSeq(two) = FlattenSeq(front) \o two[n + 1]
    BY <1>1, <2>1, FlattenLast
  <2>3. front = one
    BY DEF n
  <2> HIDE DEF one, front
  <2> QED
    BY <2>2, <2>3 DEF n
<1> HIDE DEF one
<1>3. /\ none \in Seq(Seq(S)) /\ Len(none) = 0
      /\ FlattenSeq(one) = FlattenSeq(none) \o one[1]
  <2> DEFINE n == 0
             front == SubSeq(one, 1, n)
  <2>1. n \in Nat /\ Len(one) = n + 1
    BY <1>2
  <2> HIDE DEF n
  <2>2. /\ front \in Seq(Seq(S)) /\ Len(front) = n /\ \A i \in 1 .. n : front[i] = one[i]
        /\ FlattenSeq(one) = FlattenSeq(front) \o one[n + 1]
    BY <1>2, <2>1, FlattenLast
  <2>3. front = none
    BY DEF n
  <2> HIDE DEF none, front
  <2> QED
    BY <2>2, <2>3 DEF n
<1> HIDE DEF none
<1>4. FlattenSeq(none) = <<>>
  <2>1. none = <<>>
    BY <1>3
  <2>2. \A q \in Seq(Seq(S)) : q = <<>> => FlattenSeq(q) = <<>>
    BY FlattenFacts
  <2> QED
    BY <1>3, <2>1, <2>2, Zenon
<1>5. one[1] \in Seq(S)
  <2>1. seqs[1] \in Seq(S)
    OBVIOUS
  <2> QED
    BY <1>1, <1>2, <2>1
<1>6. FlattenSeq(one) = one[1]
  BY <1>3, <1>4, <1>5
<1> QED
  BY <1>1, <1>2, <1>6

=============================================================================
