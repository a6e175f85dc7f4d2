--------------------------- MODULE Display_proofs ---------------------------
(***************************************************************************)
(* What holds of the user's terminal whatever frames are painted, in any   *)
(* order, over each other: its modes, its title, its scrolling region and  *)
(* the visibility of its cursor follow the frames, an unchanged frame      *)
(* writes nothing, and the cells read back as the last frame has them.     *)
(*                                                                         *)
(* The sequences are classified by what they leave alone: those that draw  *)
(* change no mode (Quiet), the resets of a group of modes only that group. *)
(*                                                                         *)
(* For the cells, emulator and update are followed together through a row: *)
(* what is left of the column has been drawn (Rendered), what is right of  *)
(* it still shows the old row, and pen, cursor and pending wrap are where  *)
(* the update believes them to be (RedrawInv, DiffInv).  Rows make up a    *)
(* screen (RowDone, Screen), moved where a scroll was found (Shifted), and *)
(* with its cursor the screen is what a frame Displays.                    *)
(***************************************************************************)
EXTENDS Display, DataFacts

-----------------------------------------------------------------------------
(* Executing one sequence after another. *)

\* The terminals a run of control sequences goes through.
Passes(f, t, ops) ==
    /\ f = [n \in 0 .. Len(ops) |-> f[n]]
    /\ f[0] = t
    /\ \A i \in 1 .. Len(ops) : f[i] = Execute(f[i - 1], ops[i])

LEMMA PassesExists ==
    ASSUME NEW t, NEW S, NEW ops \in Seq(S)
    PROVE  \E f : Passes(f, t, ops)
<1> DEFINE n == Len(ops)
           Is(f, k) == f[0] = t /\ \A i \in 1 .. k : f[i] = Execute(f[i - 1], ops[i])
           P == {k \in Nat : k <= n => \E f : Is(f, k)}
<1>0. n \in Nat
  OBVIOUS
<1>1. 0 \in P
  <2> DEFINE f == [x \in 0 .. 0 |-> t]
  <2>1. Is(f, 0)
    OBVIOUS
  <2> QED
    BY <2>1
<1>2. ASSUME NEW k \in P PROVE k + 1 \in P
  <2> SUFFICES ASSUME k + 1 <= n PROVE \E g : Is(g, k + 1)
    OBVIOUS
  <2>1. k \in Nat /\ k <= n
    BY <1>0
  <2>2. PICK f : Is(f, k)
    BY <1>2, <2>1
  <2> DEFINE last == Execute(f[k], ops[k + 1])
             g == [x \in 0 .. k + 1 |-> IF x <= k THEN f[x] ELSE last]
  <2> HIDE DEF last
  <2>3. g[0] = t
    BY <2>1, <2>2
  <2>4. ASSUME NEW i \in 1 .. k + 1 PROVE g[i] = Execute(g[i - 1], ops[i])
    <3>1. i - 1 \in 0 .. k + 1 /\ i - 1 <= k /\ i \in 0 .. k + 1
      BY <2>1
    <3>2. g[i - 1] = f[i - 1]
      BY <3>1
    <3>3. CASE i <= k
      <4>1. g[i] = f[i] /\ i \in 1 .. k
        BY <2>1, <3>1, <3>3
      <4> QED
        BY <2>2, <3>2, <4>1
    <3>4. CASE i = k + 1
      <4>1. g[i] = last /\ i - 1 = k
        BY <2>1, <3>1, <3>4
      <4> QED
        BY <3>2, <3>4, <4>1 DEF last
    <3> QED
      BY <2>1, <3>3, <3>4
  <2> HIDE DEF g
  <2>5. Is(g, k + 1)
    BY <2>3, <2>4
  <2> QED
    BY <2>5, Zenon
<1> HIDE DEF P
<1>3. P = Nat
  BY <1>1, <1>2, SetInduction DEF P
<1>4. PICK f : Is(f, n)
  BY <1>0, <1>3 DEF P
<1> DEFINE g == [x \in 0 .. n |-> f[x]]
<1>5. g = [x \in 0 .. n |-> g[x]]
  OBVIOUS
<1>6. g[0] = t
  BY <1>0, <1>4
<1>7. ASSUME NEW i \in 1 .. n PROVE g[i] = Execute(g[i - 1], ops[i])
  <2>1. g[i - 1] = f[i - 1] /\ g[i] = f[i]
    BY <1>0
  <2> QED
    BY <1>4, <2>1
<1> HIDE DEF g
<1> QED
  BY <1>5, <1>6, <1>7, Zenon DEF Passes

\* Two runs over the same sequences go through the same terminals.
LEMMA PassesUnique ==
    ASSUME NEW t, NEW S, NEW ops \in Seq(S), NEW f, NEW g,
           Passes(f, t, ops), Passes(g, t, ops)
    PROVE  f = g
<1> DEFINE n == Len(ops)
           P == {k \in Nat : k <= n => f[k] = g[k]}
<1>0. n \in Nat
  OBVIOUS
<1>1. 0 \in P
  BY DEF Passes
<1>2. ASSUME NEW k \in P PROVE k + 1 \in P
  <2> SUFFICES ASSUME k + 1 <= n PROVE f[k + 1] = g[k + 1]
    OBVIOUS
  <2>1. k + 1 \in 1 .. n /\ (k + 1) - 1 = k /\ k <= n
    BY <1>0
  <2>2. f[k + 1] = Execute(f[k], ops[k + 1]) /\ g[k + 1] = Execute(g[k], ops[k + 1])
    BY <2>1 DEF Passes
  <2> QED
    BY <2>1, <2>2
<1> HIDE DEF P
<1>3. P = Nat
  BY <1>1, <1>2, SetInduction DEF P
<1>4. \A k \in 0 .. n : f[k] = g[k]
  BY <1>0, <1>3 DEF P
<1> QED
  BY <1>4, Zenon DEF Passes

\* Executed is where such a run ends.
LEMMA ExecutedIs ==
    ASSUME NEW t, NEW S, NEW ops \in Seq(S), NEW f, Passes(f, t, ops)
    PROVE  Executed(t, ops) = f[Len(ops)]
<1> DEFINE n == Len(ops)
           Is(g) == g = [k \in 0 .. n |-> IF k = 0 THEN t ELSE Execute(g[k - 1], ops[k])]
           chosen == CHOOSE g : Is(g)
<1>0. n \in Nat
  OBVIOUS
<1>1. Executed(t, ops) = chosen[n]
  BY DEF Executed
<1>2. Is(f)
  <2>1. ASSUME NEW k \in 0 .. n
        PROVE  f[k] = IF k = 0 THEN t ELSE Execute(f[k - 1], ops[k])
    <3>1. k = 0 \/ k \in 1 .. n
      BY <1>0
    <3> QED
      BY <3>1, Zenon DEF Passes
  <2>2. f = [k \in 0 .. n |-> f[k]]
    BY DEF Passes
  <2> QED
    BY <2>1, <2>2, Zenon
<1>3. Is(chosen)
  BY <1>2, Zenon
<1> HIDE DEF chosen
<1>4. Passes(chosen, t, ops)
  <2>1. \A k \in 0 .. n : chosen[k] = IF k = 0 THEN t ELSE Execute(chosen[k - 1], ops[k])
    BY <1>3, Zenon
  <2>2. chosen = [k \in 0 .. n |-> chosen[k]]
    BY <1>3, Zenon
  <2>3. chosen[0] = t
    BY <1>0, <2>1
  <2>4. ASSUME NEW i \in 1 .. n PROVE chosen[i] = Execute(chosen[i - 1], ops[i])
    <3>1. i \in 0 .. n /\ i # 0
      BY <1>0
    <3> QED
      BY <2>1, <3>1, Zenon
  <2> QED
    BY <2>2, <2>3, <2>4, Zenon DEF Passes
<1>5. chosen = f
  BY <1>4, PassesUnique
<1> QED
  BY <1>1, <1>5

\* Executing nothing, and one sequence more.
LEMMA ExecutedStep ==
    ASSUME NEW t, NEW S, NEW ops \in Seq(S)
    PROVE  /\ ops = <<>> => Executed(t, ops) = t
           /\ \A op \in S :
                 Executed(t, Append(ops, op)) = Execute(Executed(t, ops), op)
<1>1. PICK f : Passes(f, t, ops)
  BY PassesExists, Zenon
<1>2. Executed(t, ops) = f[Len(ops)] /\ f[0] = t
  BY <1>1, ExecutedIs DEF Passes
<1>3. ops = <<>> => Executed(t, ops) = t
  BY <1>2
<1>4. ASSUME NEW op \in S
      PROVE  Executed(t, Append(ops, op)) = Execute(Executed(t, ops), op)
  <2> DEFINE longer == Append(ops, op)
             n == Len(ops)
  <2>1. /\ n \in Nat /\ longer \in Seq(S) /\ Len(longer) = n + 1
        /\ longer[n + 1] = op /\ \A i \in 1 .. n : longer[i] = ops[i]
    OBVIOUS
  <2> HIDE DEF longer
  <2>2. PICK g : Passes(g, t, longer)
    BY <2>1, PassesExists, Zenon
  <2> DEFINE short == [k \in 0 .. n |-> g[k]]
  <2>3. short[0] = t /\ short[n] = g[n] /\ short = [k \in 0 .. n |-> short[k]]
    BY <2>1, <2>2 DEF Passes
  <2>4. ASSUME NEW i \in 1 .. n PROVE short[i] = Execute(short[i - 1], ops[i])
    <3>1. short[i] = g[i] /\ short[i - 1] = g[i - 1] /\ i \in 1 .. n + 1
      BY <2>1
    <3>2. g[i] = Execute(g[i - 1], longer[i]) /\ longer[i] = ops[i]
      BY <2>1, <2>2, <3>1 DEF Passes
    <3> QED
      BY <3>1, <3>2
  <2> HIDE DEF short
  <2>5. Passes(short, t, ops)
    BY <2>3, <2>4, Zenon DEF Passes
  <2>6. Executed(t, ops) = short[n]
    BY <2>5, ExecutedIs
  <2>7. Executed(t, longer) = g[n + 1]
    BY <2>1, <2>2, ExecutedIs
  <2>8. g[n + 1] = Execute(g[n], op)
    <3>1. n + 1 \in 1 .. Len(longer) /\ (n + 1) - 1 = n
      BY <2>1
    <3> QED
      BY <2>1, <2>2, <3>1 DEF Passes
  <2> QED
    BY <2>3, <2>6, <2>7, <2>8 DEF longer
<1> QED
  BY <1>3, <1>4
LEMMA ExecutedEmpty ==
    ASSUME NEW t
    PROVE  Executed(t, <<>>) = t
<1>1. <<>> \in Seq({})
  OBVIOUS
<1> QED
  BY <1>1, ExecutedStep, Zenon

LEMMA ExecutedAppend ==
    ASSUME NEW t, NEW S, NEW ops \in Seq(S), NEW op \in S
    PROVE  Executed(t, Append(ops, op)) = Execute(Executed(t, ops), op)
<1>1. \A x \in S : Executed(t, Append(ops, x)) = Execute(Executed(t, ops), x)
  BY ExecutedStep
<1> QED
  BY <1>1

\* Two sequences executed one after the other.
LEMMA ExecutedConcat ==
    ASSUME NEW t, NEW S, NEW a \in Seq(S)
    PROVE  \A b \in Seq(S) : Executed(t, a \o b) = Executed(Executed(t, a), b)
<1> DEFINE Joined(b) == Executed(t, a \o b) = Executed(Executed(t, a), b)
           P == {k \in Nat : \A b \in Seq(S) : Len(b) = k => Joined(b)}
<1>1. 0 \in P
  <2> SUFFICES ASSUME NEW b \in Seq(S), Len(b) = 0 PROVE Joined(b)
    OBVIOUS
  <2>1. b = <<>> /\ a \o b = a
    OBVIOUS
  <2> QED
    BY <2>1, ExecutedEmpty, Zenon
<1>2. ASSUME NEW k \in P PROVE k + 1 \in P
  <2> SUFFICES ASSUME NEW b \in Seq(S), Len(b) = k + 1 PROVE Joined(b)
    OBVIOUS
  <2> DEFINE c == SubSeq(b, 1, k)
             op == b[k + 1]
  <2>1. c \in Seq(S) /\ Len(c) = k /\ op \in S /\ a \o c \in Seq(S)
    OBVIOUS
  <2>2. b = Append(c, op)
    OBVIOUS
  <2> HIDE DEF c, op
  <2>3. a \o b = Append(a \o c, op)
    BY <2>1, <2>2
  <2>4. Joined(c)
    BY <1>2, <2>1
  <2>5. Executed(t, a \o b) = Execute(Executed(t, a \o c), op)
    <3> DEFINE d == a \o c
    <3>1. d \in Seq(S) /\ op \in S
      BY <2>1
    <3> HIDE DEF d
    <3>2. Executed(t, Append(d, op)) = Execute(Executed(t, d), op)
      BY <3>1, ExecutedAppend
    <3> QED
      BY <2>3, <3>2 DEF d
  <2>6. Executed(Executed(t, a), b) = Execute(Executed(Executed(t, a), c), op)
    BY <2>1, <2>2, ExecutedStep
  <2> QED
    BY <2>4, <2>5, <2>6, Zenon
<1> HIDE DEF P
<1>3. P = Nat
  BY <1>1, <1>2, SetInduction DEF P
<1> QED
  BY <1>3 DEF P

\* A single one.
LEMMA ExecutedOne ==
    ASSUME NEW t, NEW op
    PROVE  Executed(t, <<op>>) = Execute(t, op) /\ Executed(t, <<>>) = t
<1>1. <<>> \in Seq({op}) /\ <<op>> = Append(<<>>, op)
  OBVIOUS
<1>2. Executed(t, <<>>) = t
  BY ExecutedEmpty
<1>3. Executed(t, Append(<<>>, op)) = Execute(Executed(t, <<>>), op)
  <2>1. op \in {op}
    OBVIOUS
  <2>2. \A ops \in Seq({op}) : Executed(t, Append(ops, op)) = Execute(Executed(t, ops), op)
    BY <2>1, ExecutedAppend
  <2> QED
    BY <1>1, <2>2, Zenon
<1> QED
  BY <1>1, <1>2, <1>3

-----------------------------------------------------------------------------
(* What the sequences leave alone. *)

Fields == {"rows", "cursor", "wrap", "pen", "region", "on", "mouse", "encoding", "title"}

Toggled == {2004, 1004, 1007}
MouseModes == {9, 1000, 1002, 1003}
EncodingModes == {1005, 1006, 1015}

\* What a frame is made of.  The literals are listed because the provers do not
\* know that they are strings.
Strings == STRING \cup {"", " ", "underline"}
Cells == [text : Strings, wide : BOOLEAN, spacer : BOOLEAN, style : SUBSET Strings]
Typed(f) ==
    /\ DOMAIN f = {"rows", "cursor", "visible", "title", "modes", "mouse", "encoding"}
    /\ f.rows \in Seq(Seq(Cells)) /\ f.rows # <<>>
    /\ f.cursor \in Nat \X Nat /\ f.visible \in BOOLEAN /\ f.title \in Strings
    /\ f.modes \subseteq Toggled
    /\ f.mouse \in {0} \cup MouseModes
    /\ f.encoding \in {0} \cup EncodingModes

\* The sequences that draw, and those that reset modes of one group.
Moves == {Cup(y, x) : y \in Nat, x \in Nat}
Texts == {Text(cell) : cell \in Cells}
Styles == {<<"sgr", style>> : style \in SUBSET Strings}
Marks == {<<"lf">>, <<"cr">>, ResetStyle, <<"erase">>}
Drawing == Moves \cup Texts \cup Styles \cup Marks
Resetting(group) == {Mode(n, FALSE) : n \in group}

\* u is t but for its cells, cursor and pen, and the mode of the group.
Kept(group, t, u) ==
    /\ DOMAIN u = Fields /\ DOMAIN u.rows = DOMAIN t.rows
    /\ u.region = t.region /\ u.on = t.on /\ u.title = t.title
    /\ group # MouseModes => u.mouse = t.mouse
    /\ group # EncodingModes => u.encoding = t.encoding

LEMMA Groups ==
    /\ Range(MouseReporting) = MouseModes
    /\ Range(MouseEncoding) = EncodingModes
    /\ Range(Modes) = {2004, 1004, 1007}
<1>1. DOMAIN MouseReporting = 1 .. 4 /\ DOMAIN MouseEncoding = 1 .. 3 /\ DOMAIN Modes = 1 .. 3
  BY DEF MouseReporting, MouseEncoding, Modes
<1>2. 1 .. 4 = {1, 2, 3, 4} /\ 1 .. 3 = {1, 2, 3}
  OBVIOUS
<1>3. Range(MouseReporting) = MouseModes
  BY <1>1, <1>2 DEF Range, MouseReporting, MouseModes
<1>4. Range(MouseEncoding) = EncodingModes
  BY <1>1, <1>2 DEF Range, MouseEncoding, EncodingModes
<1>5. Range(Modes) = {2004, 1004, 1007}
  BY <1>1, <1>2 DEF Range, Modes
<1> QED
  BY <1>3, <1>4, <1>5

LEMMA LineFeedKeeps ==
    ASSUME NEW t, DOMAIN t = Fields
    PROVE  Kept({}, t, LineFeed(t)) /\ DOMAIN LineFeed(t) = Fields
BY DEF LineFeed, Kept, Fields

LEMMA WriteKeeps ==
    ASSUME NEW t, DOMAIN t = Fields, NEW text
    PROVE  Kept({}, t, Write(t, text))
<1> DEFINE w == Width(text)
           cols == Len(t.rows[1])
           u == [t EXCEPT !.cursor[2] = 1]
           s == IF t.wrap \/ t.cursor[2] + w > cols + 1 THEN LineFeed(u) ELSE t
<1>1. DOMAIN u = Fields /\ Kept({}, t, u)
  BY DEF Kept, Fields
<1>2. Kept({}, u, LineFeed(u))
  BY <1>1, LineFeedKeeps
<1>3. Kept({}, t, t)
  BY DEF Kept
<1>4. DOMAIN s = Fields /\ Kept({}, t, s)
  BY <1>1, <1>2, <1>3 DEF Kept
<1> QED
  BY <1>4 DEF Write, Kept, Fields

\* A drawing sequence leaves the modes, the title and the region as they are.
LEMMA DrawingKeeps ==
    ASSUME NEW t, DOMAIN t = Fields, NEW op \in Drawing
    PROVE  Kept({}, t, Execute(t, op))
<1>1. CASE op \in Moves
  <2>1. op[1] = "cup"
    BY <1>1 DEF Moves, Cup
  <2> QED
    BY <2>1 DEF Execute, Kept, Fields
<1>2. CASE op \in Texts
  <2>1. PICK s : op = <<"text", s>>
    BY <1>2, Zenon DEF Texts, Text
  <2>2. Execute(t, op) = Write(t, op[2])
    BY <2>1 DEF Execute
  <2> QED
    BY <2>2, WriteKeeps
<1>3. CASE op \in Styles
  <2>1. op[1] = "sgr"
    BY <1>3 DEF Styles
  <2> QED
    BY <2>1 DEF Execute, Kept, Fields
<1>4. CASE op = <<"lf">>
  <2>1. Execute(t, op) = LineFeed(t)
    BY <1>4 DEF Execute
  <2> QED
    BY <2>1, LineFeedKeeps
<1>5. CASE op = <<"cr">>
  BY <1>5 DEF Execute, Kept, Fields
<1>6. CASE op = ResetStyle
  BY <1>6 DEF Execute, Kept, Fields, ResetStyle
<1>7. CASE op = <<"erase">>
  BY <1>7 DEF Execute, Kept, Fields
<1> QED
  BY <1>1, <1>2, <1>3, <1>4, <1>5, <1>6, <1>7 DEF Drawing, Marks

\* The reset of a mode of a group changes nothing else.
LEMMA ResettingKeeps ==
    ASSUME NEW t, DOMAIN t = Fields, NEW group \in {MouseModes, EncodingModes},
           NEW op \in Resetting(group)
    PROVE  /\ Kept(group, t, Execute(t, op))
           /\ group = MouseModes => Execute(t, op).mouse = 0
           /\ group = EncodingModes => Execute(t, op).encoding = 0
<1>1. PICK n \in group : op = <<"mode", n, FALSE>>
  BY DEF Resetting, Mode
<1>2. Execute(t, op) = SetMode(t, n, FALSE)
  BY <1>1 DEF Execute
<1>3. MouseModes # EncodingModes /\ MouseModes \cap EncodingModes = {}
  <2>1. 9 \in MouseModes /\ 9 \notin EncodingModes
    BY DEF MouseModes, EncodingModes
  <2>2. \A m \in MouseModes : m \notin EncodingModes
    BY DEF MouseModes, EncodingModes
  <2> QED
    BY <2>1, <2>2
<1>4. CASE group = MouseModes
  <2>1. Execute(t, op) = [t EXCEPT !.mouse = 0]
    <3>1. n \in Range(MouseReporting) /\ n \notin Range(MouseEncoding)
      BY <1>1, <1>3, <1>4, Groups
    <3> QED
      BY <1>2, <3>1 DEF SetMode
  <2> QED
    BY <1>3, <1>4, <2>1 DEF Kept, Fields
<1>5. CASE group = EncodingModes
  <2>1. Execute(t, op) = [t EXCEPT !.encoding = 0]
    <3>1. n \notin Range(MouseReporting) /\ n \in Range(MouseEncoding)
      BY <1>1, <1>3, <1>5, Groups
    <3> QED
      BY <1>2, <3>1 DEF SetMode
  <2> QED
    BY <1>3, <1>5, <2>1 DEF Kept, Fields
<1> QED
  BY <1>4, <1>5

\* Any number of such sequences.
LEMMA QuietRun ==
    ASSUME NEW t, DOMAIN t = Fields, NEW group \in {{}, MouseModes, EncodingModes}
    PROVE  \A ops \in Seq(Drawing \cup Resetting(group)) : Kept(group, t, Executed(t, ops))
<1> DEFINE S == Drawing \cup Resetting(group)
           P == {k \in Nat : \A ops \in Seq(S) : Len(ops) = k => Kept(group, t, Executed(t, ops))}
<1>0. Kept(group, t, t)
  BY DEF Kept
<1>1. 0 \in P
  <2> SUFFICES ASSUME NEW ops \in Seq(S), Len(ops) = 0 PROVE Kept(group, t, Executed(t, ops))
    OBVIOUS
  <2>1. ops = <<>>
    OBVIOUS
  <2> QED
    BY <1>0, <2>1, ExecutedStep
<1>2. ASSUME NEW k \in P PROVE k + 1 \in P
  <2> SUFFICES ASSUME NEW ops \in Seq(S), Len(ops) = k + 1 PROVE Kept(group, t, Executed(t, ops))
    OBVIOUS
  <2> DEFINE c == SubSeq(ops, 1, k)
             op == ops[k + 1]
             u == Executed(t, c)
  <2>1. c \in Seq(S) /\ Len(c) = k /\ op \in S
    OBVIOUS
  <2>2. ops = Append(c, op)
    OBVIOUS
  <2> HIDE DEF c, op, S
  <2>3. Kept(group, t, u) /\ DOMAIN u = Fields
    BY <1>2, <2>1 DEF Kept
  <2>4. Executed(t, ops) = Execute(u, op)
    BY <2>1, <2>2, ExecutedStep
  <2>5. Kept(group, u, Execute(u, op))
    <3>1. CASE op \in Drawing
      <4>1. Kept({}, u, Execute(u, op))
        BY <2>3, <3>1, DrawingKeeps
      <4>2. {} # MouseModes /\ {} # EncodingModes
        BY DEF MouseModes, EncodingModes
      <4> QED
        BY <4>1, <4>2 DEF Kept
    <3>2. CASE op \in Resetting(group)
      <4>1. group \in {MouseModes, EncodingModes}
        BY <3>2 DEF Resetting
      <4> QED
        BY <2>3, <3>2, <4>1, ResettingKeeps
    <3> QED
      BY <2>1, <3>1, <3>2 DEF S
  <2> QED
    BY <2>3, <2>4, <2>5 DEF Kept
<1> HIDE DEF P
<1>3. P = Nat
  BY <1>1, <1>2, SetInduction DEF P
<1> QED
  BY <1>3 DEF P

-----------------------------------------------------------------------------
(* The modes and the title (state_changes). *)

\* All control sequences.
Ops ==
    Drawing \cup {<<"mode", n, b>> : n \in Nat, b \in BOOLEAN}
      \cup {<<"title", s>> : s \in Strings} \cup {<<"region", n>> : n \in Nat}
      \cup {<<"reset_region">>}

LEMMA ExecutedChain ==
    \A t, a, b : a \in Seq(Ops) /\ b \in Seq(Ops) =>
        a \o b \in Seq(Ops) /\ Executed(t, a \o b) = Executed(Executed(t, a), b)
<1> TAKE t, a, b
<1> HAVE a \in Seq(Ops) /\ b \in Seq(Ops)
<1>1. \A c \in Seq(Ops) : Executed(t, a \o c) = Executed(Executed(t, a), c)
  BY ExecutedConcat
<1> QED
  BY <1>1

LEMMA ModeIsOp ==
    ASSUME NEW n \in Nat, NEW b \in BOOLEAN
    PROVE  Mode(n, b) \in Ops
BY DEF Mode, Ops

Flags == {25, Synchronized} \cup Toggled

\* Setting or resetting a mode that belongs to no group.
LEMMA FlagSet ==
    ASSUME NEW t, NEW n \in Flags, NEW on
    PROVE  Execute(t, Mode(n, on)) = [t EXCEPT !.on = IF on THEN @ \cup {n} ELSE @ \ {n}]
<1>1. Execute(t, Mode(n, on)) = SetMode(t, n, on)
  BY DEF Execute, Mode
<1>2. n \notin Range(MouseReporting) /\ n \notin Range(MouseEncoding)
  BY Groups DEF Flags, Toggled, MouseModes, EncodingModes, Synchronized
<1> QED
  BY <1>1, <1>2 DEF SetMode

LEMMA FlagOn ==
    ASSUME NEW t, NEW n \in Flags, NEW op, op = Mode(n, TRUE)
    PROVE  op \in Ops /\ Execute(t, op) = [t EXCEPT !.on = @ \cup {n}]
<1>1. n \in Nat
  BY DEF Flags, Toggled, Synchronized
<1>2. op \in Ops
  <2>1. Mode(n, TRUE) \in Ops
    BY <1>1, ModeIsOp
  <2> QED
    BY <2>1
<1>3. Execute(t, Mode(n, TRUE)) = [t EXCEPT !.on = @ \cup {n}]
  BY FlagSet
<1> QED
  BY <1>2, <1>3

LEMMA FlagOff ==
    ASSUME NEW t, NEW n \in Flags, NEW op, op = Mode(n, FALSE)
    PROVE  op \in Ops /\ Execute(t, op) = [t EXCEPT !.on = @ \ {n}]
<1>1. n \in Nat
  BY DEF Flags, Toggled, Synchronized
<1>2. op \in Ops
  <2>1. Mode(n, FALSE) \in Ops
    BY <1>1, ModeIsOp
  <2> QED
    BY <2>1
<1>3. Execute(t, Mode(n, FALSE)) = [t EXCEPT !.on = @ \ {n}]
  BY FlagSet
<1> QED
  BY <1>2, <1>3

\* One of the toggled modes, set unless it is what it should be.
LEMMA OneFlag ==
    ASSUME NEW t, DOMAIN t = Fields, NEW n \in Toggled, NEW set \in BOOLEAN,
           NEW skip \in BOOLEAN, skip => ((n \in t.on) <=> set),
           NEW piece, piece = IF skip THEN <<>> ELSE <<Mode(n, set)>>
    PROVE  LET u == Executed(t, piece)
           IN  /\ DOMAIN u = Fields
               /\ u.rows = t.rows /\ u.region = t.region /\ u.title = t.title
               /\ u.mouse = t.mouse /\ u.encoding = t.encoding
               /\ \A m : m \in u.on <=> IF m = n THEN set ELSE m \in t.on
<1>1. CASE skip
  <2>1. Executed(t, piece) = t
    BY <1>1, ExecutedEmpty
  <2> QED
    BY <1>1, <2>1
<1>2. CASE ~skip
  <2>1. Executed(t, piece) = Execute(t, Mode(n, set))
    BY <1>2, ExecutedOne
  <2>2. n \in Flags
    BY DEF Flags
  <2>3. \A on : Execute(t, Mode(n, on)) = [t EXCEPT !.on = IF on THEN @ \cup {n} ELSE @ \ {n}]
    BY <2>2, FlagSet, Zenon
  <2>4. Executed(t, piece) = [t EXCEPT !.on = IF set THEN @ \cup {n} ELSE @ \ {n}]
    BY <2>1, <2>3, Zenon
  <2> QED
    BY <2>4 DEF Fields
<1> QED
  BY <1>1, <1>2

\* The part of state_changes about the toggled modes.
ToggledChanges(first, old, new) ==
    FlattenSeq([i \in DOMAIN Modes |->
        LET set == Modes[i] \in new.modes
        IN  IF ~first /\ (Modes[i] \in old.modes) = set THEN <<>>
            ELSE <<Mode(Modes[i], set)>>])

LEMMA ToggledEffect ==
    ASSUME NEW t, DOMAIN t = Fields, NEW first, NEW old, NEW new,
           ~first => \A m \in Toggled : m \in t.on <=> m \in old.modes
    PROVE  LET u == Executed(t, ToggledChanges(first, old, new))
           IN  /\ ToggledChanges(first, old, new) \in Seq(Ops)
               /\ DOMAIN u = Fields
               /\ u.rows = t.rows /\ u.region = t.region /\ u.title = t.title
               /\ u.mouse = t.mouse /\ u.encoding = t.encoding
               /\ \A m : m \in u.on <=> IF m \in Toggled THEN m \in new.modes ELSE m \in t.on
<1> DEFINE set(i) == Modes[i] \in new.modes
           skip(i) == ~first /\ (Modes[i] \in old.modes) = set(i)
           piece(i) == IF skip(i) THEN <<>> ELSE <<Mode(Modes[i], set(i))>>
           pieces == [i \in DOMAIN Modes |-> piece(i)]
<1>1. /\ DOMAIN Modes = 1 .. 3 /\ Modes[1] = 2004 /\ Modes[2] = 1004 /\ Modes[3] = 1007
      /\ 1 .. 3 = {1, 2, 3}
  BY DEF Modes
<1>2. \A i \in 1 .. 3 : Modes[i] \in Toggled /\ Modes[i] \in Nat
  BY <1>1 DEF Toggled
<1>3. \A i \in 1 .. 3 : piece(i) \in Seq(Ops)
  <2> TAKE i \in 1 .. 3
  <2>1. set(i) \in BOOLEAN /\ Modes[i] \in Nat
    BY <1>2
  <2>2. Mode(Modes[i], set(i)) \in Ops
    BY <2>1, ModeIsOp
  <2> HIDE DEF set
  <2> QED
    BY <2>2
<1>4. ToggledChanges(first, old, new) = FlattenSeq(pieces)
  BY DEF ToggledChanges
<1> HIDE DEF piece
<1>5. /\ pieces \in Seq(Seq(Ops)) /\ Len(pieces) = 3
      /\ pieces[1] = piece(1) /\ pieces[2] = piece(2) /\ pieces[3] = piece(3)
  BY <1>1, <1>3
<1> HIDE DEF pieces
<1>6. FlattenSeq(pieces) = (piece(1) \o piece(2)) \o piece(3)
  BY <1>5, FlattenThree
<1> DEFINE t1 == Executed(t, piece(1))
           t2 == Executed(t1, piece(2))
           t3 == Executed(t2, piece(3))
<1>7. Executed(t, FlattenSeq(pieces)) = t3
  <2>1. piece(1) \o piece(2) \in Seq(Ops) /\ piece(1) \in Seq(Ops)
        /\ piece(2) \in Seq(Ops) /\ piece(3) \in Seq(Ops)
    BY <1>3
  <2>2. Executed(t, (piece(1) \o piece(2)) \o piece(3))
           = Executed(Executed(t, piece(1) \o piece(2)), piece(3))
    <3> DEFINE a == piece(1) \o piece(2)
    <3>1. a \in Seq(Ops)
      BY <2>1
    <3> HIDE DEF a
    <3>2. \A b \in Seq(Ops) : Executed(t, a \o b) = Executed(Executed(t, a), b)
      BY <3>1, ExecutedConcat
    <3> QED
      BY <2>1, <3>2 DEF a
  <2>3. Executed(t, piece(1) \o piece(2)) = t2
    BY <2>1, ExecutedConcat
  <2> QED
    BY <1>6, <2>2, <2>3
<1>8. ASSUME NEW i \in 1 .. 3, NEW v, DOMAIN v = Fields,
             skip(i) => ((Modes[i] \in v.on) <=> set(i))
      PROVE  LET u == Executed(v, piece(i))
             IN  /\ DOMAIN u = Fields
                 /\ u.rows = v.rows /\ u.region = v.region /\ u.title = v.title
                 /\ u.mouse = v.mouse /\ u.encoding = v.encoding
                 /\ \A m : m \in u.on <=> IF m = Modes[i] THEN set(i) ELSE m \in v.on
  <2>1. set(i) \in BOOLEAN /\ skip(i) \in BOOLEAN
    OBVIOUS
  <2>2. piece(i) = IF skip(i) THEN <<>> ELSE <<Mode(Modes[i], set(i))>>
    BY DEF piece
  <2> HIDE DEF set, skip
  <2> QED
    BY <1>2, <1>8, <2>1, <2>2, OneFlag
<1>9. \A i \in 1 .. 3 : skip(i) => ((Modes[i] \in t.on) <=> set(i))
  BY <1>2
<1>10. /\ DOMAIN t1 = Fields
       /\ t1.rows = t.rows /\ t1.region = t.region /\ t1.title = t.title
       /\ t1.mouse = t.mouse /\ t1.encoding = t.encoding
       /\ \A m : m \in t1.on <=> IF m = Modes[1] THEN set(1) ELSE m \in t.on
  BY <1>8, <1>9
<1> HIDE DEF t1
<1>11. /\ DOMAIN t2 = Fields
       /\ t2.rows = t.rows /\ t2.region = t.region /\ t2.title = t.title
       /\ t2.mouse = t.mouse /\ t2.encoding = t.encoding
       /\ \A m : m \in t2.on <=> IF m = Modes[2] THEN set(2) ELSE m \in t1.on
  <2>1. skip(2) => ((Modes[2] \in t1.on) <=> set(2))
    BY <1>1, <1>9, <1>10
  <2> QED
    BY <1>8, <1>10, <2>1
<1> HIDE DEF t2
<1>12. /\ DOMAIN t3 = Fields
       /\ t3.rows = t.rows /\ t3.region = t.region /\ t3.title = t.title
       /\ t3.mouse = t.mouse /\ t3.encoding = t.encoding
       /\ \A m : m \in t3.on <=> IF m = Modes[3] THEN set(3) ELSE m \in t2.on
  <2>1. skip(3) => ((Modes[3] \in t2.on) <=> set(3))
    BY <1>1, <1>9, <1>10, <1>11
  <2> QED
    BY <1>8, <1>11, <2>1
<1> HIDE DEF t3
<1>13. \A m : m \in t3.on <=> IF m \in Toggled THEN m \in new.modes ELSE m \in t.on
  BY <1>1, <1>10, <1>11, <1>12 DEF Toggled
<1>14. FlattenSeq(pieces) \in Seq(Ops)
  BY <1>3, <1>6
<1> QED
  BY <1>4, <1>7, <1>12, <1>13, <1>14

\* The resets of a group are nothing else, and there is one if no mode of the
\* group is wanted.
LEMMA ResetsFacts ==
    ASSUME NEW numbers \in {MouseReporting, MouseEncoding}, NEW new
    PROVE  /\ Resets(numbers, new) \in Seq(Resetting(Range(numbers)))
           /\ new = 0 => \E c \in Seq(Resetting(Range(numbers))), op \in Resetting(Range(numbers)) :
                            Resets(numbers, new) = Append(c, op)
<1> DEFINE S == Resetting(Range(numbers))
           piece(i) == IF numbers[i] = new THEN <<>> ELSE <<Mode(numbers[i], FALSE)>>
           pieces == [i \in DOMAIN numbers |-> piece(i)]
<1>1. PICK n \in Nat : DOMAIN numbers = 1 .. n + 1 /\ 0 \notin Range(numbers)
  <2>1. CASE numbers = MouseReporting
    <3>1. DOMAIN numbers = 1 .. 3 + 1
      BY <2>1 DEF MouseReporting
    <3> QED
      BY <2>1, <3>1, Groups DEF MouseModes
  <2>2. CASE numbers = MouseEncoding
    <3>1. DOMAIN numbers = 1 .. 2 + 1
      BY <2>2 DEF MouseEncoding
    <3> QED
      BY <2>2, <3>1, Groups DEF EncodingModes
  <2> QED
    BY <2>1, <2>2
<1>2. \A i \in 1 .. n + 1 : Mode(numbers[i], FALSE) \in S /\ numbers[i] \in Range(numbers)
  BY <1>1 DEF Resetting, Range
<1>3. Resets(numbers, new) = FlattenSeq(pieces)
  BY DEF Resets
<1> HIDE DEF S
<1>4. \A i \in 1 .. n + 1 : piece(i) \in Seq(S)
  <2> TAKE i \in 1 .. n + 1
  <2> DEFINE op == Mode(numbers[i], FALSE)
  <2>1. op \in S
    BY <1>2
  <2> HIDE DEF op
  <2>2. <<op>> \in Seq(S) /\ <<>> \in Seq(S)
    BY <2>1
  <2> QED
    BY <2>2 DEF op
<1> HIDE DEF piece
<1>5. pieces \in Seq(Seq(S)) /\ Len(pieces) = n + 1 /\ pieces[n + 1] = piece(n + 1)
  BY <1>1, <1>4
<1> HIDE DEF pieces
<1>6. FlattenSeq(pieces) \in Seq(S)
  BY <1>5, FlattenFacts
<1>7. ASSUME new = 0
      PROVE  \E c \in Seq(S), op \in S : Resets(numbers, new) = Append(c, op)
  <2> DEFINE c == FlattenSeq(SubSeq(pieces, 1, n))
             op == Mode(numbers[n + 1], FALSE)
  <2>1. n + 1 \in 1 .. n + 1
    OBVIOUS
  <2>2. piece(n + 1) = <<op>> /\ op \in S
    BY <1>1, <1>2, <1>7, <2>1 DEF piece
  <2>3. SubSeq(pieces, 1, n) \in Seq(Seq(S)) /\ FlattenSeq(pieces) = c \o pieces[n + 1]
    BY <1>5, FlattenLast
  <2>4. c \in Seq(S)
    BY <2>3, FlattenFacts
  <2> HIDE DEF c, op
  <2>5. c \o <<op>> = Append(c, op)
    BY <2>2, <2>4
  <2> QED
    BY <1>3, <1>5, <2>2, <2>3, <2>4, <2>5
<1> QED
  BY <1>3, <1>6, <1>7 DEF S

\* Setting a mode of a group.
LEMMA GroupSet ==
    ASSUME NEW t, DOMAIN t = Fields, NEW group \in {MouseModes, EncodingModes},
           NEW n \in group
    PROVE  /\ Kept(group, t, Execute(t, Mode(n, TRUE)))
           /\ group = MouseModes => Execute(t, Mode(n, TRUE)).mouse = n
           /\ group = EncodingModes => Execute(t, Mode(n, TRUE)).encoding = n
<1>1. Execute(t, Mode(n, TRUE)) = SetMode(t, n, TRUE)
  BY DEF Execute, Mode
<1>2. MouseModes # EncodingModes /\ MouseModes \cap EncodingModes = {}
  <2>1. 9 \in MouseModes /\ 9 \notin EncodingModes
    BY DEF MouseModes, EncodingModes
  <2>2. \A m \in MouseModes : m \notin EncodingModes
    BY DEF MouseModes, EncodingModes
  <2> QED
    BY <2>1, <2>2
<1>3. CASE group = MouseModes
  <2>1. n \in Range(MouseReporting) /\ n \notin Range(MouseEncoding)
    BY <1>2, <1>3, Groups
  <2>2. SetMode(t, n, TRUE) = [t EXCEPT !.mouse = n]
    BY <2>1 DEF SetMode
  <2> QED
    BY <1>1, <1>2, <1>3, <2>2 DEF Kept, Fields
<1>4. CASE group = EncodingModes
  <2>1. n \notin Range(MouseReporting) /\ n \in Range(MouseEncoding)
    BY <1>2, <1>4, Groups
  <2>2. SetMode(t, n, TRUE) = [t EXCEPT !.encoding = n]
    BY <2>1 DEF SetMode
  <2> QED
    BY <1>1, <1>2, <1>4, <2>2 DEF Kept, Fields
<1> QED
  BY <1>3, <1>4

\* The modes of a group end as the frame has them.
LEMMA ExclusiveEffect ==
    ASSUME NEW t, DOMAIN t = Fields, NEW numbers \in {MouseReporting, MouseEncoding},
           NEW new \in {0} \cup Range(numbers)
    PROVE  LET u == Executed(t, Exclusive(numbers, new))
           IN  /\ Exclusive(numbers, new) \in Seq(Ops)
               /\ Kept(Range(numbers), t, u)
               /\ numbers = MouseReporting => u.mouse = new
               /\ numbers = MouseEncoding => u.encoding = new
<1> DEFINE group == Range(numbers)
           resets == Resets(numbers, new)
           last == IF new = 0 THEN <<>> ELSE <<Mode(new, TRUE)>>
           r == Executed(t, resets)
<1>1. /\ group \in {MouseModes, EncodingModes}
      /\ numbers = MouseReporting => group = MouseModes
      /\ numbers = MouseEncoding => group = EncodingModes
  BY Groups
<1>2. group \subseteq Nat /\ 0 \notin group
  <2>1. MouseModes \subseteq Nat /\ 0 \notin MouseModes
    BY DEF MouseModes
  <2>2. EncodingModes \subseteq Nat /\ 0 \notin EncodingModes
    BY DEF EncodingModes
  <2> QED
    BY <1>1, <2>1, <2>2
<1>3. Resetting(group) \subseteq Ops
  <2>1. \A n \in group : Mode(n, FALSE) \in Ops
    BY <1>2, ModeIsOp
  <2> QED
    BY <2>1 DEF Resetting
<1>4. resets \in Seq(Resetting(group))
  BY ResetsFacts
<1>5. resets \in Seq(Drawing \cup Resetting(group)) /\ resets \in Seq(Ops)
  BY <1>3, <1>4
<1>6. last \in Seq(Ops)
  <2>1. CASE new = 0
    BY <2>1
  <2>2. CASE new # 0
    <3> DEFINE op == Mode(new, TRUE)
    <3>1. new \in Nat
      BY <1>2, <2>2
    <3>2. op \in Ops
      BY <3>1, ModeIsOp
    <3> HIDE DEF op
    <3>3. <<op>> \in Seq(Ops)
      BY <3>2
    <3> QED
      BY <2>2, <3>3 DEF op
  <2> QED
    BY <2>1, <2>2
<1>7. Exclusive(numbers, new) = resets \o last
  BY DEF Exclusive
<1>8. Exclusive(numbers, new) \in Seq(Ops)
  <2> HIDE DEF resets, last
  <2> QED
    BY <1>5, <1>6, <1>7
<1>9. Executed(t, Exclusive(numbers, new)) = Executed(r, last)
  <2>1. \A b \in Seq(Ops) : Executed(t, resets \o b) = Executed(r, b)
    BY <1>5, ExecutedConcat
  <2> HIDE DEF resets, last, r
  <2> QED
    BY <1>6, <1>7, <2>1
<1>10. Kept(group, t, r)
  BY <1>1, <1>5, QuietRun
<1>11. CASE new = 0
  <2>1. PICK c \in Seq(Resetting(group)), op \in Resetting(group) : resets = Append(c, op)
    BY <1>11, ResetsFacts
  <2>2. r = Execute(Executed(t, c), op)
    BY <2>1, ExecutedAppend
  <2>3. Kept(group, t, Executed(t, c))
    <3>1. c \in Seq(Drawing \cup Resetting(group))
      OBVIOUS
    <3> QED
      BY <1>1, <3>1, QuietRun
  <2>4. DOMAIN Executed(t, c) = Fields
    BY <2>3 DEF Kept
  <2>5. /\ group = MouseModes => r.mouse = 0
        /\ group = EncodingModes => r.encoding = 0
    BY <1>1, <2>2, <2>4, ResettingKeeps
  <2>6. Executed(r, last) = r
    BY <1>11, ExecutedEmpty
  <2> HIDE DEF r, group
  <2> QED
    BY <1>1, <1>8, <1>9, <1>10, <1>11, <2>5, <2>6 DEF group
<1>12. CASE new # 0
  <2>1. Executed(r, last) = Execute(r, Mode(new, TRUE)) /\ new \in group
    BY <1>12, ExecutedOne
  <2>2. DOMAIN r = Fields
    BY <1>10 DEF Kept
  <2> HIDE DEF r, last, group, resets
  <2> DEFINE u == Execute(r, Mode(new, TRUE))
  <2>3. /\ Kept(group, r, u)
        /\ group = MouseModes => u.mouse = new
        /\ group = EncodingModes => u.encoding = new
    BY <1>1, <2>1, <2>2, GroupSet
  <2> HIDE DEF u
  <2>4. Kept(group, t, u)
    BY <1>10, <2>3 DEF Kept
  <2>5. Executed(t, Exclusive(numbers, new)) = u
    BY <1>9, <2>1 DEF u
  <2> QED
    BY <1>1, <1>8, <2>3, <2>4, <2>5 DEF group
<1> QED
  BY <1>11, <1>12

\* A title that is not empty is on display.
Titled(display, title) == title # "" => display = title

\* The terminal is in the modes of the frame, and shows its title if it has one.
Follows(t, f) ==
    /\ DOMAIN t = Fields
    /\ \A m \in Toggled : m \in t.on <=> m \in f.modes
    /\ t.mouse = f.mouse /\ t.encoding = f.encoding
    /\ Titled(t.title, f.title)

\* What was not the business of state_changes.
Apart(t, u) ==
    /\ DOMAIN u.rows = DOMAIN t.rows /\ u.region = t.region
    /\ \A m : m \notin Toggled => (m \in u.on <=> m \in t.on)

TitleChange(first, old, new) ==
    IF (first /\ new.title = "") \/ (~first /\ old.title = new.title)
    THEN <<>> ELSE <<<<"title", new.title>>>>

LEMMA TitleSet ==
    ASSUME NEW t, NEW s \in Strings, NEW op, op = <<"title", s>>
    PROVE  op \in Ops /\ Execute(t, op) = [t EXCEPT !.title = s]
<1>1. op \in Ops
  BY DEF Ops
<1>2. op[1] = "title" /\ op[2] = s
  OBVIOUS
<1>3. Execute(t, op) = [t EXCEPT !.title = op[2]]
  BY <1>2 DEF Execute
<1> QED
  BY <1>1, <1>2, <1>3

LEMMA TitleEffect ==
    ASSUME NEW t, DOMAIN t = Fields, NEW first, NEW old, NEW new,
           ~first => Titled(t.title, old.title), new.title \in Strings
    PROVE  LET u == Executed(t, TitleChange(first, old, new))
           IN  /\ TitleChange(first, old, new) \in Seq(Ops)
               /\ DOMAIN u = Fields
               /\ u.rows = t.rows /\ u.region = t.region /\ u.on = t.on
               /\ u.mouse = t.mouse /\ u.encoding = t.encoding
               /\ Titled(u.title, new.title)
<1> DEFINE op == <<"title", new.title>>
           ops == TitleChange(first, old, new)
           idle == (first /\ new.title = "") \/ (~first /\ old.title = new.title)
<1>0. ops = IF idle THEN <<>> ELSE <<op>>
  BY DEF TitleChange
<1> HIDE DEF ops
<1>1. CASE idle
  <2>3. Titled(t.title, new.title)
    BY <1>1, Zenon DEF Titled
  <2> HIDE DEF op, idle
  <2>1. ops = <<>>
    BY <1>0, <1>1, Zenon
  <2>4. ops \in Seq(Ops)
    BY <2>1
  <2>2. Executed(t, ops) = t
    BY <2>1, ExecutedEmpty
  <2> QED
    BY <2>2, <2>3, <2>4 DEF ops
<1>2. CASE ~idle
  <2> HIDE DEF op, idle
  <2>1. ops = <<op>>
    BY <1>0, <1>2, Zenon
  <2>2. op \in Ops /\ Execute(t, op) = [t EXCEPT !.title = new.title]
    BY TitleSet DEF op
  <2>3. ops \in Seq(Ops)
    BY <2>1, <2>2
  <2>4. Executed(t, ops) = Execute(t, op)
    BY <2>1, ExecutedOne
  <2> DEFINE u == Executed(t, ops)
  <2>5. u = [t EXCEPT !.title = new.title]
    BY <2>2, <2>4
  <2> HIDE DEF u
  <2>6. /\ DOMAIN u = Fields /\ u.title = new.title
        /\ u.rows = t.rows /\ u.region = t.region /\ u.on = t.on
        /\ u.mouse = t.mouse /\ u.encoding = t.encoding
    BY <2>5 DEF Fields
  <2>7. Titled(u.title, new.title)
    BY <2>6, Zenon DEF Titled
  <2> QED
    BY <2>3, <2>6, <2>7 DEF ops, u
<1> QED
  BY <1>1, <1>2

\* state_changes brings the terminal's modes from one frame's to the other's,
\* or, for a first paint, from anything to the new frame's.
LEMMA StateChangesEffect ==
    ASSUME NEW t, DOMAIN t = Fields, NEW first \in BOOLEAN, NEW old, NEW new, Typed(new),
           ~first => Follows(t, old)
    PROVE  LET u == Executed(t, StateChanges(first, old, new))
           IN  /\ StateChanges(first, old, new) \in Seq(Ops)
               /\ Follows(u, new) /\ Apart(t, u)
<1> DEFINE a == TitleChange(first, old, new)
           b == ToggledChanges(first, old, new)
           mouse == ~first /\ old.mouse = new.mouse
           coded == ~first /\ old.encoding = new.encoding
           c == IF mouse THEN <<>> ELSE Exclusive(MouseReporting, new.mouse)
           d == IF coded THEN <<>> ELSE Exclusive(MouseEncoding, new.encoding)
           ta == Executed(t, a)
           tb == Executed(ta, b)
           tc == Executed(tb, c)
           td == Executed(tc, d)
<1>1. StateChanges(first, old, new) = ((a \o b) \o c) \o d
  BY DEF StateChanges, TitleChange, ToggledChanges
<1>2. /\ new.title \in Strings /\ new.modes \subseteq Toggled
      /\ new.mouse \in {0} \cup Range(MouseReporting)
      /\ new.encoding \in {0} \cup Range(MouseEncoding)
  BY Groups DEF Typed
<1>3. ~first => /\ \A m \in Toggled : m \in t.on <=> m \in old.modes
                /\ t.mouse = old.mouse /\ t.encoding = old.encoding
                /\ Titled(t.title, old.title)
  BY DEF Follows
<1>4. /\ a \in Seq(Ops) /\ DOMAIN ta = Fields
      /\ ta.rows = t.rows /\ ta.region = t.region /\ ta.on = t.on
      /\ ta.mouse = t.mouse /\ ta.encoding = t.encoding
      /\ Titled(ta.title, new.title)
  <2>1. ~first => Titled(t.title, old.title)
    BY <1>3
  <2> QED
    BY <1>2, <2>1, TitleEffect
<1> HIDE DEF a, ta
<1>5. /\ b \in Seq(Ops) /\ DOMAIN tb = Fields
      /\ tb.rows = ta.rows /\ tb.region = ta.region /\ tb.title = ta.title
      /\ tb.mouse = ta.mouse /\ tb.encoding = ta.encoding
      /\ \A m : m \in tb.on <=> IF m \in Toggled THEN m \in new.modes ELSE m \in ta.on
  <2>1. ~first => \A m \in Toggled : m \in ta.on <=> m \in old.modes
    BY <1>3, <1>4
  <2> QED
    BY <1>4, <2>1, ToggledEffect
<1> HIDE DEF b, tb
<1>6. /\ c \in Seq(Ops) /\ Kept(MouseModes, tb, tc)
      /\ tc.mouse = new.mouse /\ tc.encoding = t.encoding
  <2>1. CASE mouse
    <3>1. tc = tb
      BY <2>1, ExecutedEmpty
    <3>2. c \in Seq(Ops)
      BY <2>1
    <3> HIDE DEF c, tc
    <3> QED
      BY <1>3, <1>4, <1>5, <2>1, <3>1, <3>2 DEF Kept
  <2>2. CASE ~mouse
    <3>1. c = Exclusive(MouseReporting, new.mouse)
      BY <2>2
    <3> HIDE DEF c, mouse
    <3>2. /\ c \in Seq(Ops) /\ Kept(Range(MouseReporting), tb, tc) /\ tc.mouse = new.mouse
      BY <1>2, <1>5, <3>1, ExclusiveEffect
    <3>3. Range(MouseReporting) = MouseModes /\ MouseModes # EncodingModes
      BY Groups DEF MouseModes, EncodingModes
    <3> HIDE DEF tc
    <3> QED
      BY <1>4, <1>5, <3>2, <3>3 DEF Kept
  <2> QED
    BY <2>1, <2>2
<1> HIDE DEF c, tc
<1>7. /\ d \in Seq(Ops) /\ Kept(EncodingModes, tc, td)
      /\ td.mouse = new.mouse /\ td.encoding = new.encoding
  <2>1. CASE coded
    <3>1. td = tc
      BY <2>1, ExecutedEmpty
    <3>2. d \in Seq(Ops)
      BY <2>1
    <3> HIDE DEF d, td
    <3> QED
      BY <1>3, <1>6, <2>1, <3>1, <3>2 DEF Kept
  <2>2. CASE ~coded
    <3>1. d = Exclusive(MouseEncoding, new.encoding)
      BY <2>2
    <3>0. DOMAIN tc = Fields
      BY <1>6 DEF Kept
    <3> HIDE DEF d, coded
    <3>2. /\ d \in Seq(Ops) /\ Kept(Range(MouseEncoding), tc, td) /\ td.encoding = new.encoding
      BY <1>2, <3>0, <3>1, ExclusiveEffect
    <3>3. Range(MouseEncoding) = EncodingModes /\ MouseModes # EncodingModes
      BY Groups DEF MouseModes, EncodingModes
    <3> HIDE DEF td
    <3> QED
      BY <1>6, <3>2, <3>3 DEF Kept
  <2> QED
    BY <2>1, <2>2
<1> HIDE DEF d, td
<1>8. Executed(t, ((a \o b) \o c) \o d) = td /\ ((a \o b) \o c) \o d \in Seq(Ops)
  <2> DEFINE ab == a \o b
             abc == ab \o c
  <2>0. \A w, x, y : x \in Seq(Ops) /\ y \in Seq(Ops) =>
            x \o y \in Seq(Ops) /\ Executed(w, x \o y) = Executed(Executed(w, x), y)
    BY ExecutedChain
  <2>1. ab \in Seq(Ops) /\ Executed(t, ab) = tb
    BY <1>4, <1>5, <2>0 DEF ta, tb
  <2> HIDE DEF ab
  <2>2. abc \in Seq(Ops) /\ Executed(t, abc) = tc
    BY <1>6, <2>0, <2>1 DEF tc
  <2> HIDE DEF abc
  <2>3. abc \o d \in Seq(Ops) /\ Executed(t, abc \o d) = td
    BY <1>7, <2>0, <2>2 DEF td
  <2> QED
    BY <2>3 DEF ab, abc
<1>9. Follows(td, new)
  BY <1>4, <1>5, <1>6, <1>7 DEF Follows, Kept
<1>10. Apart(t, td)
  BY <1>4, <1>5, <1>6, <1>7 DEF Apart, Kept
<1> QED
  BY <1>1, <1>8, <1>9, <1>10

-----------------------------------------------------------------------------
(* The rows (full_redraw, diff). *)

\* An attribute string is a drawing sequence.
LEMMA DrawingOps ==
    /\ \A y, x \in Nat : Cup(y, x) \in Drawing
    /\ \A cell \in Cells : Text(cell) \in Drawing
    /\ \A style \in SUBSET Strings : StyleOn(style) \in Seq(Drawing)
    /\ ResetStyle \in Drawing
<1>1. \A y, x \in Nat : Cup(y, x) \in Drawing
  BY DEF Moves, Drawing
<1>2. \A cell \in Cells : Text(cell) \in Drawing
  BY Zenon DEF Texts, Drawing
<1>3. ASSUME NEW style \in SUBSET Strings PROVE StyleOn(style) \in Seq(Drawing)
  <2> DEFINE op == <<"sgr", style>>
  <2>1. op \in Drawing
    BY DEF Styles, Drawing
  <2>2. StyleOn(style) = IF style = {} THEN <<>> ELSE <<op>>
    BY DEF StyleOn
  <2> HIDE DEF op
  <2>3. <<op>> \in Seq(Drawing) /\ <<>> \in Seq(Drawing)
    BY <2>1
  <2>4. StyleOn(style) = <<>> \/ StyleOn(style) = <<op>>
    BY <2>2, Zenon
  <2> QED
    BY <2>3, <2>4, Zenon
<1>4. ResetStyle \in Drawing
  BY DEF Marks, Drawing
<1> QED
  BY <1>1, <1>2, <1>3, <1>4

\* A style on a reset one, if it is another than the pen's.
LEMMA StyleChange ==
    ASSUME NEW a \in Seq(Drawing), NEW style \in SUBSET Strings
    PROVE  a \o StyleOn(style) \in Seq(Drawing)
<1>1. StyleOn(style) \in Seq(Drawing)
  BY DrawingOps, Zenon
<1> QED
  BY <1>1

RedrawState == [next : Nat, style : SUBSET Strings, out : Seq(Drawing)]

LEMMA RedrawCellDraws ==
    ASSUME NEW row \in Seq(Cells), NEW st \in RedrawState, NEW x \in 1 .. Len(row)
    PROVE  RedrawCell(row, st, x) \in RedrawState
<1> DEFINE cell == row[x]
           text == Text(cell)
           styling == <<ResetStyle>> \o StyleOn(cell.style)
           style == IF cell.style = st.style THEN <<>> ELSE styling
           out == st.out \o style \o <<text>>
           next == IF cell.wide THEN x + 2 ELSE x + 1
<1>1. cell \in Cells /\ x \in Nat /\ st.out \in Seq(Drawing)
  BY DEF RedrawState
<1>2. cell.style \in SUBSET Strings
  BY <1>1 DEF Cells
<1>3. next \in Nat
  BY <1>1
<1>4. text \in Drawing
  BY <1>1, DrawingOps
<1>5. styling \in Seq(Drawing)
  <2>1. <<ResetStyle>> \in Seq(Drawing)
    BY DrawingOps
  <2> QED
    BY <1>2, <2>1, StyleChange
<1> HIDE DEF styling, text
<1>6. style \in Seq(Drawing)
  BY <1>5
<1> HIDE DEF style
<1>7. out \in Seq(Drawing)
  BY <1>1, <1>4, <1>6
<1>8. RedrawCell(row, st, x) =
          IF x # st.next THEN st ELSE [next |-> next, style |-> cell.style, out |-> out]
  BY DEF RedrawCell, style, styling, text
<1> HIDE DEF next, out, cell
<1>9. [next |-> next, style |-> cell.style, out |-> out] \in RedrawState
  BY <1>2, <1>3, <1>7 DEF RedrawState
<1> QED
  BY <1>8, <1>9

\* The passes of the loop over the columns of a row, one after the other.
LEMMA RedrawPasses ==
    ASSUME NEW rows \in Seq(Seq(Cells)), NEW y \in DOMAIN rows
    PROVE  LET row == rows[y] IN
           \E st :
             /\ st[0] = [next |-> 1, style |-> {}, out |-> <<Cup(y, 1)>>]
             /\ \A x \in 1 .. Len(row) : st[x] = RedrawCell(row, st[x - 1], x)
             /\ \A x \in 0 .. Len(row) : st[x] \in RedrawState
             /\ RedrawRow(rows, y) =
                    st[Len(row)].out
                      \o (IF st[Len(row)].style = {} THEN <<>> ELSE <<ResetStyle>>)
<1> DEFINE row == rows[y]
           n == Len(row)
           start == [next |-> 1, style |-> {}, out |-> <<Cup(y, 1)>>]
           step == [i \in 1 .. n |-> [s \in RedrawState |-> RedrawCell(row, s, i)]]
           Is(f) == f = [x \in 0 .. n |-> IF x = 0 THEN start ELSE RedrawCell(row, f[x - 1], x)]
           st == CHOOSE f : Is(f)
<1>0. row \in Seq(Cells) /\ n \in Nat /\ y \in Nat
  OBVIOUS
<1>1. start \in RedrawState
  <2> DEFINE op == Cup(y, 1)
  <2>1. op \in Drawing
    BY <1>0, DrawingOps
  <2> HIDE DEF op
  <2>2. [next |-> 1, style |-> {}, out |-> <<op>>] \in RedrawState
    BY <2>1 DEF RedrawState
  <2> QED
    BY <2>2 DEF op
<1> HIDE DEF row, start
<1>2. \A i \in 1 .. n, s \in RedrawState : step[i][s] = RedrawCell(row, s, i)
  OBVIOUS
<1>3. Steps(step, n, start, RedrawState)
  BY <1>0, <1>1, <1>2, RedrawCellDraws DEF Steps
<1> HIDE DEF step
<1>4. \E f : Is(f)
  <2>1. PICK f : Runs(f, step, n, start, RedrawState)
    BY <1>3, RecursionExists, Zenon
  <2>2. f \in [0 .. n -> RedrawState] /\ f[0] = start
    BY <2>1 DEF Runs
  <2>3. ASSUME NEW x \in 0 .. n
        PROVE  f[x] = IF x = 0 THEN start ELSE RedrawCell(row, f[x - 1], x)
    <3>1. CASE x = 0
      BY <2>2, <3>1
    <3>2. CASE x # 0
      <4>1. x \in 1 .. n /\ x - 1 \in 0 .. n
        BY <1>0, <3>2
      <4>2. f[x] = step[x][f[x - 1]] /\ f[x - 1] \in RedrawState
        BY <2>1, <2>2, <4>1 DEF Runs
      <4> QED
        BY <1>2, <3>2, <4>1, <4>2
    <3> QED
      BY <3>1, <3>2
  <2>4. Is(f)
    BY <2>2, <2>3
  <2> QED
    BY <2>4
<1>5. Is(st)
  BY <1>4, Zenon
<1>6. RedrawRow(rows, y) =
          LET end == st[n] IN end.out \o (IF end.style = {} THEN <<>> ELSE <<ResetStyle>>)
  BY Zenon DEF RedrawRow, row, start
<1> HIDE DEF st
<1>7. \A x \in 0 .. n : st[x] = IF x = 0 THEN start ELSE RedrawCell(row, st[x - 1], x)
  BY <1>5, Zenon
<1>8. \A k \in 0 .. n : st[k] \in RedrawState
  <2>1. st[0] = start
    BY <1>0, <1>7
  <2>2. ASSUME NEW i \in 1 .. n, st[i - 1] \in RedrawState
        PROVE  st[i] = step[i][st[i - 1]]
    <3>1. i \in 0 .. n /\ i # 0
      BY <1>0
    <3>2. st[i] = RedrawCell(row, st[i - 1], i)
      BY <1>7, <3>1, Zenon
    <3> QED
      BY <1>2, <2>2, <3>2
  <2> QED
    BY <1>3, <2>1, <2>2, RunsStay
<1>9. \A x \in 1 .. n : st[x] = RedrawCell(row, st[x - 1], x)
  <2> TAKE x \in 1 .. n
  <2>1. x \in 0 .. n /\ x # 0
    BY <1>0
  <2> QED
    BY <1>7, <2>1, Zenon
<1>10. st[0] = start
  BY <1>0, <1>7
<1> QED
  BY <1>6, <1>8, <1>9, <1>10 DEF row, start

\* A row of a full redraw only draws.
LEMMA RedrawRowDraws ==
    ASSUME NEW rows \in Seq(Seq(Cells)), NEW y \in DOMAIN rows
    PROVE  RedrawRow(rows, y) \in Seq(Drawing)
<1> DEFINE row == rows[y]
<1>0. Len(row) \in Nat
  OBVIOUS
<1> HIDE DEF row
<1>1. PICK st :
        /\ st[0] = [next |-> 1, style |-> {}, out |-> <<Cup(y, 1)>>]
        /\ \A x \in 1 .. Len(row) : st[x] = RedrawCell(row, st[x - 1], x)
        /\ \A x \in 0 .. Len(row) : st[x] \in RedrawState
        /\ RedrawRow(rows, y) =
               st[Len(row)].out \o (IF st[Len(row)].style = {} THEN <<>> ELSE <<ResetStyle>>)
  BY RedrawPasses, Zenon DEF row
<1> DEFINE end == st[Len(row)]
           tail == IF end.style = {} THEN <<>> ELSE <<ResetStyle>>
<1>2. end \in RedrawState
  BY <1>0, <1>1
<1>3. end.out \in Seq(Drawing)
  BY <1>2 DEF RedrawState
<1>4. tail \in Seq(Drawing)
  BY DrawingOps
<1> QED
  BY <1>1, <1>3, <1>4

DiffState == [next : Nat, pen : SUBSET Strings, pos : Nat, out : Seq(Drawing) \ {<<>>}]

LEMMA DiffCellDraws ==
    ASSUME NEW y \in Nat, NEW old_row, NEW row \in Seq(Cells), NEW st \in DiffState,
           NEW x \in 1 .. Len(row)
    PROVE  DiffCell(y, old_row, row, st, x) \in DiffState
<1> DEFINE cell == row[x]
           changed == old_row[x] # cell
           restyle == st.pen # cell.style
           at == IF restyle THEN x ELSE st.pos
           text == Text(cell)
           cup == Cup(y, x)
           styling == <<cup, ResetStyle>> \o StyleOn(cell.style)
           style == IF restyle THEN styling ELSE <<>>
           move == IF changed /\ at # x THEN <<cup>> ELSE <<>>
           write == IF changed THEN <<text>> ELSE <<>>
           out == st.out \o style \o move \o write
           next == IF OwnsNext(row, x) THEN x + 2 ELSE x + 1
           pen == IF OwnsNext(row, x) THEN row[x + 1].style ELSE cell.style
           pos == IF ~changed THEN 0 ELSE IF cell.wide THEN x + 2 ELSE x + 1
<1>1. cell \in Cells /\ x \in Nat /\ st.out \in Seq(Drawing) /\ st.out # <<>>
  BY DEF DiffState
<1>2. cell.style \in SUBSET Strings
  BY <1>1 DEF Cells
<1>3. next \in Nat /\ pos \in Nat
  BY <1>1
<1>4. pen \in SUBSET Strings
  <2>1. CASE OwnsNext(row, x)
    <3>1. x + 1 \in 1 .. Len(row)
      BY <2>1 DEF OwnsNext
    <3>2. row[x + 1] \in Cells
      BY <3>1
    <3> QED
      BY <2>1, <3>2 DEF Cells
  <2>2. CASE ~OwnsNext(row, x)
    BY <1>2, <2>2
  <2> QED
    BY <2>1, <2>2
<1>5. text \in Drawing /\ cup \in Drawing
  BY <1>1, DrawingOps
<1> HIDE DEF cup, text, changed, restyle
<1>6. styling \in Seq(Drawing)
  <2>1. <<cup, ResetStyle>> \in Seq(Drawing)
    BY <1>5, DrawingOps
  <2> QED
    BY <1>2, <2>1, StyleChange
<1> HIDE DEF styling
<1>7. style \in Seq(Drawing) /\ write \in Seq(Drawing)
  BY <1>5, <1>6
<1>8. move \in Seq(Drawing)
  BY <1>5
<1> HIDE DEF style, move, write
<1>9. out \in Seq(Drawing) \ {<<>>}
  BY <1>1, <1>7, <1>8
<1>10. DiffCell(y, old_row, row, st, x) =
          IF x # st.next THEN st ELSE [next |-> next, pen |-> pen, pos |-> pos, out |-> out]
  BY Zenon DEF DiffCell, style, styling, move, write, text, cup, changed, restyle
<1> HIDE DEF next, out, pen, pos
<1>11. [next |-> next, pen |-> pen, pos |-> pos, out |-> out] \in DiffState
  BY <1>3, <1>4, <1>9 DEF DiffState
<1> QED
  BY <1>10, <1>11

\* The passes of the loop over the columns of a changed row.
DiffPass(st, y, old_row, row, ops) ==
    /\ st[0] = [next |-> 1, pen |-> {}, pos |-> 0, out |-> <<ResetStyle>>]
    /\ \A x \in 1 .. Len(row) : st[x] = DiffCell(y, old_row, row, st[x - 1], x)
    /\ \A x \in 0 .. Len(row) : st[x] \in DiffState
    /\ ops = IF old_row = row THEN <<>> ELSE st[Len(row)].out

LEMMA DiffPasses ==
    ASSUME NEW rows \in Seq(Seq(Cells)), NEW y \in DOMAIN rows, NEW old_rows
    PROVE  \E st : DiffPass(st, y, old_rows[y], rows[y], DiffRow(old_rows, rows, y))
<1> DEFINE row == rows[y]
           old_row == old_rows[y]
           n == Len(row)
           start == [next |-> 1, pen |-> {}, pos |-> 0, out |-> <<ResetStyle>>]
           step == [i \in 1 .. n |-> [s \in DiffState |-> DiffCell(y, old_row, row, s, i)]]
           Is(f) == f = [x \in 0 .. n |-> IF x = 0 THEN start
                                          ELSE DiffCell(y, old_row, row, f[x - 1], x)]
           st == CHOOSE f : Is(f)
<1>0. row \in Seq(Cells) /\ n \in Nat /\ y \in Nat
  OBVIOUS
<1>1. start \in DiffState
  BY DrawingOps DEF DiffState
<1> HIDE DEF row, old_row, start
<1>2. \A i \in 1 .. n, s \in DiffState : step[i][s] = DiffCell(y, old_row, row, s, i)
  OBVIOUS
<1>3. Steps(step, n, start, DiffState)
  BY <1>0, <1>1, <1>2, DiffCellDraws DEF Steps
<1> HIDE DEF step
<1>4. \E f : Is(f)
  <2>1. PICK f : Runs(f, step, n, start, DiffState)
    BY <1>3, RecursionExists, Zenon
  <2>2. f \in [0 .. n -> DiffState] /\ f[0] = start
    BY <2>1 DEF Runs
  <2>3. ASSUME NEW x \in 0 .. n
        PROVE  f[x] = IF x = 0 THEN start ELSE DiffCell(y, old_row, row, f[x - 1], x)
    <3>1. CASE x = 0
      BY <2>2, <3>1
    <3>2. CASE x # 0
      <4>1. x \in 1 .. n /\ x - 1 \in 0 .. n
        BY <1>0, <3>2
      <4>2. f[x] = step[x][f[x - 1]] /\ f[x - 1] \in DiffState
        BY <2>1, <2>2, <4>1 DEF Runs
      <4> QED
        BY <1>2, <3>2, <4>1, <4>2
    <3> QED
      BY <3>1, <3>2
  <2>4. Is(f)
    BY <2>2, <2>3
  <2> QED
    BY <2>4
<1>5. Is(st)
  BY <1>4, Zenon
<1>6. DiffRow(old_rows, rows, y) = IF old_row = row THEN <<>> ELSE st[n].out
  BY Zenon DEF DiffRow, row, old_row, start
<1> HIDE DEF st
<1>7. \A x \in 0 .. n :
        st[x] = IF x = 0 THEN start ELSE DiffCell(y, old_row, row, st[x - 1], x)
  BY <1>5, Zenon
<1>8. \A k \in 0 .. n : st[k] \in DiffState
  <2>1. st[0] = start
    BY <1>0, <1>7
  <2>2. ASSUME NEW i \in 1 .. n, st[i - 1] \in DiffState
        PROVE  st[i] = step[i][st[i - 1]]
    <3>1. i \in 0 .. n /\ i # 0
      BY <1>0
    <3>2. st[i] = DiffCell(y, old_row, row, st[i - 1], i)
      BY <1>7, <3>1, Zenon
    <3> QED
      BY <1>2, <2>2, <3>2
  <2> QED
    BY <1>3, <2>1, <2>2, RunsStay
<1>9. \A x \in 1 .. n : st[x] = DiffCell(y, old_row, row, st[x - 1], x)
  <2> TAKE x \in 1 .. n
  <2>1. x \in 0 .. n /\ x # 0
    BY <1>0
  <2> QED
    BY <1>7, <2>1, Zenon
<1>10. st[0] = start
  BY <1>0, <1>7
<1>11. DiffPass(st, y, old_row, row, DiffRow(old_rows, rows, y))
  BY <1>6, <1>8, <1>9, <1>10 DEF DiffPass, row, old_row, start
<1> QED
  BY <1>11 DEF row, old_row

\* A row of a diff only draws, and does if it changed.
LEMMA DiffRowDraws ==
    ASSUME NEW rows \in Seq(Seq(Cells)), NEW y \in DOMAIN rows, NEW old_rows
    PROVE  /\ DiffRow(old_rows, rows, y) \in Seq(Drawing)
           /\ old_rows[y] # rows[y] <=> DiffRow(old_rows, rows, y) # <<>>
<1> DEFINE row == rows[y]
           old_row == old_rows[y]
<1>0. Len(row) \in Nat
  OBVIOUS
<1> HIDE DEF row, old_row
<1>e. PICK st : DiffPass(st, y, old_row, row, DiffRow(old_rows, rows, y))
  BY DiffPasses DEF row, old_row
<1>1. /\ \A x \in 0 .. Len(row) : st[x] \in DiffState
      /\ DiffRow(old_rows, rows, y) = IF old_row = row THEN <<>> ELSE st[Len(row)].out
  BY <1>e DEF DiffPass
<1>2. st[Len(row)] \in DiffState
  BY <1>0, <1>1
<1>3. st[Len(row)].out \in Seq(Drawing) /\ st[Len(row)].out # <<>>
  BY <1>2 DEF DiffState
<1> QED
  BY <1>1, <1>3 DEF row, old_row

\* Rows that only draw, one after the other.
LEMMA RowsDraw ==
    ASSUME NEW n \in Nat, NEW rows \in [1 .. n -> Seq(Drawing)]
    PROVE  FlattenSeq(rows) \in Seq(Drawing)
<1>1. rows \in Seq(Seq(Drawing))
  OBVIOUS
<1> QED
  BY <1>1, FlattenFacts

-----------------------------------------------------------------------------
(* Whole frames. *)

\* A terminal of h rows.
Terminal(t, h) == DOMAIN t = Fields /\ h \in Nat /\ DOMAIN t.rows = 1 .. h

\* u is t but for its cells, cursor and pen.
Drawn(t, u) ==
    /\ DOMAIN u = Fields /\ DOMAIN u.rows = DOMAIN t.rows
    /\ u.region = t.region /\ u.on = t.on /\ u.title = t.title
    /\ u.mouse = t.mouse /\ u.encoding = t.encoding

LEMMA DrawingRun ==
    ASSUME NEW t, DOMAIN t = Fields, NEW ops \in Seq(Drawing)
    PROVE  ops \in Seq(Ops) /\ Drawn(t, Executed(t, ops))
<1>1. {} # MouseModes /\ {} # EncodingModes
  BY DEF MouseModes, EncodingModes
<1>2. ops \in Seq(Drawing \cup Resetting({}))
  OBVIOUS
<1>3. Kept({}, t, Executed(t, ops))
  BY <1>2, QuietRun
<1>4. ops \in Seq(Ops)
  BY DEF Ops
<1> QED
  BY <1>1, <1>3, <1>4 DEF Kept, Drawn

LEMMA DrawingStep ==
    ASSUME NEW t, DOMAIN t = Fields, NEW op \in Drawing
    PROVE  Drawn(t, Execute(t, op))
<1>1. {} # MouseModes /\ {} # EncodingModes
  BY DEF MouseModes, EncodingModes
<1> QED
  BY <1>1, DrawingKeeps DEF Kept, Drawn

\* The scrolling region is set, and reset to the whole window.
LEMMA RegionReset ==
    ASSUME NEW t, NEW h, Terminal(t, h), NEW op, op = <<"reset_region">>
    PROVE  LET u == Execute(t, op)
           IN  /\ op \in Ops
               /\ Terminal(u, h) /\ u.region = h
               /\ u.on = t.on /\ u.title = t.title
               /\ u.mouse = t.mouse /\ u.encoding = t.encoding
<1>1. op \in Ops
  BY DEF Ops
<1>2. Len(t.rows) = h
  BY DEF Terminal
<1>3. Execute(t, op) = [t EXCEPT !.region = h, !.cursor = <<1, 1>>, !.wrap = FALSE]
  BY <1>2 DEF Execute
<1> QED
  BY <1>1, <1>3 DEF Terminal, Fields

LEMMA RegionSet ==
    ASSUME NEW t, NEW h, Terminal(t, h), NEW n \in Nat, NEW op, op = <<"region", n>>
    PROVE  LET u == Execute(t, op)
           IN  /\ op \in Ops
               /\ Terminal(u, h) /\ u.on = t.on /\ u.title = t.title
               /\ u.mouse = t.mouse /\ u.encoding = t.encoding
<1>1. op \in Ops
  BY DEF Ops
<1>2. op[1] = "region"
  OBVIOUS
<1>3. Execute(t, op) = [t EXCEPT !.region = Least(op[2], Len(t.rows)),
                                 !.cursor = <<1, 1>>, !.wrap = FALSE]
  BY <1>2 DEF Execute
<1> QED
  BY <1>1, <1>3 DEF Terminal, Fields

\* What a frame leaves behind, apart from its cells and the visible cursor.
Painted(t, u, h, new) ==
    /\ Terminal(u, h) /\ u.region = h /\ Follows(u, new)
    /\ \A m : m \notin Toggled /\ m # 25 => (m \in u.on <=> m \in t.on)

\* The cursor shown or hidden.
LEMMA CursorSet ==
    ASSUME NEW t, DOMAIN t = Fields, NEW on \in BOOLEAN
    PROVE  LET u == Executed(t, <<Mode(25, on)>>)
           IN  /\ <<Mode(25, on)>> \in Seq(Ops)
               /\ u = [t EXCEPT !.on = IF on THEN @ \cup {25} ELSE @ \ {25}]
<1> DEFINE op == Mode(25, on)
<1>1. op \in Ops
  BY ModeIsOp
<1>2. 25 \in Flags
  BY DEF Flags
<1>3. Execute(t, op) = [t EXCEPT !.on = IF on THEN @ \cup {25} ELSE @ \ {25}]
  BY <1>2, FlagSet
<1> HIDE DEF op
<1>4. Executed(t, <<op>>) = Execute(t, op)
  BY ExecutedOne
<1>5. <<op>> \in Seq(Ops)
  BY <1>1
<1> QED
  BY <1>3, <1>4, <1>5 DEF op

\* Two, three and five sequences executed one after the other.
LEMMA ExecutedTwo ==
    ASSUME NEW S, NEW a \in S, NEW b \in S
    PROVE  /\ <<a, b>> \in Seq(S)
           /\ \A t, ta : ta = Execute(t, a) => Executed(t, <<a, b>>) = Execute(ta, b)
<1> DEFINE s1 == <<a>>
           s2 == <<a, b>>
<1>0. s1 \in Seq(S)
  OBVIOUS
<1>1. s1 \in Seq(S) /\ Len(s1) = 1 /\ s1[1] = a
  OBVIOUS
<1>2. s2 \in Seq(S) /\ Len(s2) = 2 /\ s2[1] = a /\ s2[2] = b
  OBVIOUS
<1>3. \A t : Executed(t, s1) = Execute(t, a)
  BY ExecutedOne
<1> HIDE DEF s1, s2
<1>4. \A t : Executed(t, s2) = Execute(Executed(t, s1), b)
  <2> DEFINE w == Append(s1, b)
  <2>1. /\ w \in Seq(S) /\ Len(w) = 2
        /\ w[1] = a /\ w[2] = b
    <3>1. /\ w \in Seq(S) /\ Len(w) = Len(s1) + 1 /\ w[Len(s1) + 1] = b
          /\ \A i \in 1 .. Len(s1) : w[i] = s1[i]
      BY <1>0
    <3> HIDE DEF w
    <3> QED
      BY <1>1, <3>1
  <2>2. \A t : Executed(t, w) = Execute(Executed(t, s1), b)
    BY <1>0, ExecutedAppend
  <2> HIDE DEF w
  <2>3. \A i \in 1 .. 2 : w[i] = s2[i]
    BY <1>2, <2>1
  <2>4. w = s2
    BY <1>2, <2>1, <2>3
  <2> QED
    BY <2>2, <2>4
<1>5. \A t, ta : ta = Execute(t, a) => Executed(t, s2) = Execute(ta, b)
  BY <1>3, <1>4, Zenon
<1> QED
  BY <1>2, <1>5 DEF s2

LEMMA ExecutedThree ==
    ASSUME NEW S, NEW a \in S, NEW b \in S, NEW c \in S
    PROVE  /\ <<a, b, c>> \in Seq(S)
           /\ \A t, ta, tb : ta = Execute(t, a) /\ tb = Execute(ta, b) =>
                  Executed(t, <<a, b, c>>) = Execute(tb, c)
<1> DEFINE s2 == <<a, b>>
           s3 == <<a, b, c>>
<1>0. s2 \in Seq(S)
  OBVIOUS
<1>2. s2 \in Seq(S) /\ Len(s2) = 2 /\ s2[1] = a /\ s2[2] = b
  OBVIOUS
<1>3. s3 \in Seq(S) /\ Len(s3) = 3 /\ s3[1] = a /\ s3[2] = b /\ s3[3] = c
  OBVIOUS
<1>4. \A t, ta : ta = Execute(t, a) => Executed(t, s2) = Execute(ta, b)
  BY ExecutedTwo
<1> HIDE DEF s2, s3
<1>5. \A t : Executed(t, s3) = Execute(Executed(t, s2), c)
  <2> DEFINE w == Append(s2, c)
  <2>1. /\ w \in Seq(S) /\ Len(w) = 3
        /\ w[1] = a /\ w[2] = b /\ w[3] = c
    <3>1. /\ w \in Seq(S) /\ Len(w) = Len(s2) + 1 /\ w[Len(s2) + 1] = c
          /\ \A i \in 1 .. Len(s2) : w[i] = s2[i]
      BY <1>0
    <3> HIDE DEF w
    <3> QED
      BY <1>2, <3>1
  <2>2. \A t : Executed(t, w) = Execute(Executed(t, s2), c)
    BY <1>0, ExecutedAppend
  <2> HIDE DEF w
  <2>3. \A i \in 1 .. 3 : w[i] = s3[i]
    BY <1>3, <2>1
  <2>4. w = s3
    BY <1>3, <2>1, <2>3
  <2> QED
    BY <2>2, <2>4
<1>6. \A t, ta, tb : ta = Execute(t, a) /\ tb = Execute(ta, b) =>
          Executed(t, s3) = Execute(tb, c)
  BY <1>4, <1>5, Zenon
<1> QED
  BY <1>3, <1>6 DEF s3

LEMMA ExecutedFive ==
    ASSUME NEW S, NEW a \in S, NEW b \in S, NEW c \in S, NEW d \in S, NEW e \in S
    PROVE  /\ <<a, b, c, d, e>> \in Seq(S)
           /\ \A t, ta, tb, tc, td :
                  /\ ta = Execute(t, a) /\ tb = Execute(ta, b)
                  /\ tc = Execute(tb, c) /\ td = Execute(tc, d)
                  => Executed(t, <<a, b, c, d, e>>) = Execute(td, e)
<1> DEFINE s3 == <<a, b, c>>
           s4 == <<a, b, c, d>>
           s5 == <<a, b, c, d, e>>
<1>0. s3 \in Seq(S) /\ s4 \in Seq(S)
  OBVIOUS
<1>3. s3 \in Seq(S) /\ Len(s3) = 3 /\ s3[1] = a /\ s3[2] = b /\ s3[3] = c
  OBVIOUS
<1>4. /\ s4 \in Seq(S) /\ Len(s4) = 4
      /\ s4[1] = a /\ s4[2] = b /\ s4[3] = c /\ s4[4] = d
  OBVIOUS
<1>5. /\ s5 \in Seq(S) /\ Len(s5) = 5
      /\ s5[1] = a /\ s5[2] = b /\ s5[3] = c /\ s5[4] = d /\ s5[5] = e
  OBVIOUS
<1>6. \A t, ta, tb : ta = Execute(t, a) /\ tb = Execute(ta, b) =>
          Executed(t, s3) = Execute(tb, c)
  BY ExecutedThree
<1> HIDE DEF s3, s4, s5
<1>7. \A t : Executed(t, s4) = Execute(Executed(t, s3), d)
  <2> DEFINE w == Append(s3, d)
  <2>1. /\ w \in Seq(S) /\ Len(w) = 4
        /\ w[1] = a /\ w[2] = b /\ w[3] = c /\ w[4] = d
    <3>1. /\ w \in Seq(S) /\ Len(w) = Len(s3) + 1 /\ w[Len(s3) + 1] = d
          /\ \A i \in 1 .. Len(s3) : w[i] = s3[i]
      BY <1>0
    <3> HIDE DEF w
    <3> QED
      BY <1>3, <3>1
  <2>2. \A t : Executed(t, w) = Execute(Executed(t, s3), d)
    BY <1>0, ExecutedAppend
  <2> HIDE DEF w
  <2>3. \A i \in 1 .. 4 : w[i] = s4[i]
    BY <1>4, <2>1
  <2>4. w = s4
    BY <1>4, <2>1, <2>3
  <2> QED
    BY <2>2, <2>4
<1>8. \A t : Executed(t, s5) = Execute(Executed(t, s4), e)
  <2> DEFINE w == Append(s4, e)
  <2>1. /\ w \in Seq(S) /\ Len(w) = 5
        /\ w[1] = a /\ w[2] = b /\ w[3] = c /\ w[4] = d /\ w[5] = e
    <3>1. /\ w \in Seq(S) /\ Len(w) = Len(s4) + 1 /\ w[Len(s4) + 1] = e
          /\ \A i \in 1 .. Len(s4) : w[i] = s4[i]
      BY <1>0
    <3> HIDE DEF w
    <3> QED
      BY <1>4, <3>1
  <2>2. \A t : Executed(t, w) = Execute(Executed(t, s4), e)
    BY <1>0, ExecutedAppend
  <2> HIDE DEF w
  <2>3. \A i \in 1 .. 5 : w[i] = s5[i]
    BY <1>5, <2>1
  <2>4. w = s5
    BY <1>5, <2>1, <2>3
  <2> QED
    BY <2>2, <2>4
<1>9. \A t, ta, tb, tc, td :
          /\ ta = Execute(t, a) /\ tb = Execute(ta, b)
          /\ tc = Execute(tb, c) /\ td = Execute(tc, d)
          => Executed(t, s5) = Execute(td, e)
  <2> TAKE t, ta, tb, tc, td
  <2> HAVE /\ ta = Execute(t, a) /\ tb = Execute(ta, b)
           /\ tc = Execute(tb, c) /\ td = Execute(tc, d)
  <2>1. Executed(t, s3) = tc
    BY <1>6
  <2>2. Executed(t, s4) = td
    BY <1>7, <2>1
  <2> QED
    BY <1>8, <2>2
<1> QED
  BY <1>5, <1>9 DEF s5

\* Some of the sequences by name: the cursor hidden, a synchronized update
\* opened and closed, the scrolling region reset, the screen erased.
Begin == Mode(Synchronized, TRUE)
Hide == Mode(25, FALSE)
End == Mode(Synchronized, FALSE)
WholeRegion == <<"reset_region">>
Erase == <<"erase">>

LEMMA UpdateFlags ==
    /\ Begin \in Ops /\ \A t : Execute(t, Begin) = [t EXCEPT !.on = @ \cup {Synchronized}]
    /\ Hide \in Ops /\ \A t : Execute(t, Hide) = [t EXCEPT !.on = @ \ {25}]
    /\ End \in Ops /\ \A t : Execute(t, End) = [t EXCEPT !.on = @ \ {Synchronized}]
<1>1. Synchronized \in Flags /\ 25 \in Flags
  BY DEF Flags
<1>2. Begin \in Ops /\ \A t : Execute(t, Begin) = [t EXCEPT !.on = @ \cup {Synchronized}]
  BY <1>1, FlagOn, Zenon DEF Begin
<1>3. Hide \in Ops /\ \A t : Execute(t, Hide) = [t EXCEPT !.on = @ \ {25}]
  BY <1>1, FlagOff, Zenon DEF Hide
<1>4. End \in Ops /\ \A t : Execute(t, End) = [t EXCEPT !.on = @ \ {Synchronized}]
  BY <1>1, FlagOff, Zenon DEF End
<1> QED
  BY <1>2, <1>3, <1>4

LEMMA WholeRegionEffect ==
    ASSUME NEW t, NEW h, Terminal(t, h)
    PROVE  LET u == Execute(t, WholeRegion)
           IN  WholeRegion \in Ops /\ Terminal(u, h) /\ u.region = h /\ u.on = t.on
<1>1. \A op : op = WholeRegion =>
          LET u == Execute(t, op)
          IN  op \in Ops /\ Terminal(u, h) /\ u.region = h /\ u.on = t.on
  <2> SUFFICES ASSUME NEW op, op = <<"reset_region">>
               PROVE  LET u == Execute(t, op)
                      IN  op \in Ops /\ Terminal(u, h) /\ u.region = h /\ u.on = t.on
    BY DEF WholeRegion
  <2> QED
    BY RegionReset
<1> QED
  BY <1>1

\* The head of a full redraw.
LEMMA HeadEffect ==
    ASSUME NEW t, NEW h, Terminal(t, h)
    PROVE  LET head == <<Hide, WholeRegion, ResetStyle, Cup(1, 1), Erase>>
               u == Executed(t, head)
           IN  /\ head \in Seq(Ops) /\ Terminal(u, h) /\ u.region = h
               /\ u.on = t.on \ {25}
<1> DEFINE a == Hide
           b == WholeRegion
           c == ResetStyle
           d == Cup(1, 1)
           e == Erase
           ta == Execute(t, a)
           tb == Execute(ta, b)
           tc == Execute(tb, c)
           td == Execute(tc, d)
           te == Execute(td, e)
<1>1. a \in Ops /\ Terminal(ta, h) /\ ta.on = t.on \ {25}
  <2>1. a \in Ops
    BY UpdateFlags
  <2>2. ta = [t EXCEPT !.on = @ \ {25}]
    BY UpdateFlags, Zenon
  <2> HIDE DEF ta, a
  <2> QED
    BY <2>1, <2>2 DEF Terminal, Fields
<1> HIDE DEF a, ta
<1>2. b \in Ops /\ Terminal(tb, h) /\ tb.region = h /\ tb.on = ta.on
  BY <1>1, WholeRegionEffect
<1> HIDE DEF b, tb
<1>3. c \in Drawing /\ d \in Drawing /\ e \in Drawing
  BY DrawingOps DEF Drawing, Marks, Erase
<1> HIDE DEF c, d, e
<1>4. Drawn(tb, tc) /\ DOMAIN tc = Fields
  BY <1>2, <1>3, DrawingStep DEF Terminal, Drawn
<1> HIDE DEF tc
<1>5. Drawn(tc, td) /\ DOMAIN td = Fields
  BY <1>3, <1>4, DrawingStep DEF Drawn
<1> HIDE DEF td
<1>6. Drawn(td, te)
  BY <1>3, <1>5, DrawingStep
<1> HIDE DEF te
<1>7. Drawing \subseteq Ops
  BY DEF Ops
<1>8. <<a, b, c, d, e>> \in Seq(Ops) /\ Executed(t, <<a, b, c, d, e>>) = te
  BY <1>1, <1>2, <1>3, <1>7, ExecutedFive DEF ta, tb, tc, td, te
<1>9. Terminal(te, h) /\ te.region = h /\ te.on = t.on \ {25}
  BY <1>1, <1>2, <1>4, <1>5, <1>6 DEF Drawn, Terminal
<1> HIDE DEF te
<1> QED
  BY <1>8, <1>9 DEF a, b, c, d, e

LEMMA ConcatNotEmpty ==
    \A a, b \in Seq(Ops) : a # <<>> \/ b # <<>> => a \o b # <<>>
<1> TAKE a, b \in Seq(Ops)
<1>1. Len(a \o b) = Len(a) + Len(b) /\ Len(a) \in Nat /\ Len(b) \in Nat
  OBVIOUS
<1> QED
  BY <1>1

\* A full redraw leaves the terminal as the frame has it, whatever it was.
LEMMA FullRedrawEffect ==
    ASSUME NEW t, NEW h, Terminal(t, h), NEW new, Typed(new)
    PROVE  LET u == Executed(t, FullRedraw(new))
           IN  /\ FullRedraw(new) \in Seq(Ops) /\ FullRedraw(new) # <<>>
               /\ Painted(t, u, h, new)
               /\ 25 \in u.on <=> new.visible
<1> DEFINE head == <<Hide, WholeRegion, ResetStyle, Cup(1, 1), Erase>>
           changes == StateChanges(TRUE, new, new)
           rows == FlattenSeq([y \in DOMAIN new.rows |-> RedrawRow(new.rows, y)])
           cup_op == Cup(new.cursor[1], new.cursor[2])
           cup == <<cup_op>>
           show == IF new.visible THEN <<Mode(25, TRUE)>> ELSE <<>>
           a3 == head \o changes
           a4 == a3 \o rows
           a5 == a4 \o cup
           a6 == a5 \o show
           t2 == Executed(t, head)
           t3 == Executed(t2, changes)
           t4 == Executed(t3, rows)
           t5 == Executed(t4, cup)
           t6 == Executed(t5, show)
<1>1. FullRedraw(new) = a6
  BY Zenon DEF FullRedraw, Hide, WholeRegion, Erase
<1>0. head # <<>>
  OBVIOUS
<1>2. head \in Seq(Ops) /\ Terminal(t2, h) /\ t2.region = h /\ t2.on = t.on \ {25}
  BY HeadEffect
<1> HIDE DEF head, t2
<1>5. changes \in Seq(Ops) /\ Follows(t3, new) /\ Apart(t2, t3)
  <2>1. DOMAIN t2 = Fields /\ TRUE \in BOOLEAN
    BY <1>2 DEF Terminal
  <2>2. ~TRUE => Follows(t2, new)
    OBVIOUS
  <2> QED
    BY <2>1, <2>2, StateChangesEffect
<1> HIDE DEF changes, t3
<1>6. rows \in Seq(Ops) /\ Drawn(t3, t4)
  <2> DEFINE drawn_rows == [y \in DOMAIN new.rows |-> RedrawRow(new.rows, y)]
  <2>1. new.rows \in Seq(Seq(Cells))
    BY DEF Typed
  <2>2. PICK n \in Nat : DOMAIN new.rows = 1 .. n
    BY <2>1
  <2>3. \A y \in 1 .. n : RedrawRow(new.rows, y) \in Seq(Drawing)
    BY <2>1, <2>2, RedrawRowDraws
  <2>4. drawn_rows \in [1 .. n -> Seq(Drawing)]
    BY <2>2, <2>3
  <2> HIDE DEF drawn_rows
  <2>5. FlattenSeq(drawn_rows) \in Seq(Drawing)
    BY <2>4, RowsDraw
  <2>6. rows \in Seq(Drawing) /\ DOMAIN t3 = Fields
    BY <1>5, <2>5 DEF drawn_rows, Follows
  <2> QED
    BY <2>6, DrawingRun
<1> HIDE DEF rows, t4
<1>7. cup \in Seq(Ops) /\ Drawn(t4, t5)
  <2>1. cup_op \in Drawing
    <3>1. new.cursor \in Nat \X Nat
      BY DEF Typed
    <3>2. new.cursor[1] \in Nat /\ new.cursor[2] \in Nat
      BY <3>1
    <3> QED
      BY <3>2, DrawingOps
  <2> HIDE DEF cup_op
  <2>2. cup \in Seq(Drawing)
    BY <2>1
  <2> QED
    BY <1>6, <2>2, DrawingRun DEF Drawn
<1> HIDE DEF cup, t5
<1>8. /\ show \in Seq(Ops)
      /\ DOMAIN t6 = Fields /\ t6.rows = t5.rows /\ t6.region = t5.region
      /\ t6.title = t5.title /\ t6.mouse = t5.mouse /\ t6.encoding = t5.encoding
      /\ \A m : m # 25 => (m \in t6.on <=> m \in t5.on)
      /\ 25 \in t6.on <=> new.visible \/ 25 \in t5.on
  <2>0. DOMAIN t5 = Fields
    BY <1>7 DEF Drawn
  <2>1. CASE new.visible
    <3>1. show \in Seq(Ops) /\ t6 = [t5 EXCEPT !.on = @ \cup {25}]
      BY <2>0, <2>1, CursorSet
    <3> HIDE DEF show, t6
    <3> QED
      BY <2>0, <2>1, <3>1 DEF Drawn, Fields
  <2>2. CASE ~new.visible
    <3>1. show \in Seq(Ops) /\ t6 = t5
      BY <2>2, ExecutedEmpty
    <3> HIDE DEF show, t6
    <3> QED
      BY <2>0, <2>2, <3>1 DEF Drawn, Fields
  <2> QED
    BY <2>1, <2>2
<1> HIDE DEF show, t6
<1>9. a6 \in Seq(Ops) /\ Executed(t, a6) = t6 /\ a6 # <<>>
  <2> HIDE DEF a3, a4, a5, a6
  <2>3. a3 \in Seq(Ops) /\ Executed(t, a3) = t3
    BY <1>2, <1>5, ExecutedChain DEF a3, t2, t3
  <2>4. a4 \in Seq(Ops) /\ Executed(t, a4) = t4
    BY <1>6, <2>3, ExecutedChain DEF a4, t4
  <2>5. a5 \in Seq(Ops) /\ Executed(t, a5) = t5
    BY <1>7, <2>4, ExecutedChain DEF a5, t5
  <2>6. a6 \in Seq(Ops) /\ Executed(t, a6) = t6
    BY <1>8, <2>5, ExecutedChain DEF a6, t6
  <2>7. a3 # <<>>
    BY <1>0, <1>2, <1>5, ConcatNotEmpty DEF a3
  <2>8. a4 # <<>>
    BY <1>6, <2>3, <2>7, ConcatNotEmpty DEF a4
  <2>9. a5 # <<>>
    BY <1>7, <2>4, <2>8, ConcatNotEmpty DEF a5
  <2>10. a6 # <<>>
    BY <1>8, <2>5, <2>9, ConcatNotEmpty DEF a6
  <2> QED
    BY <2>6, <2>10
<1> HIDE DEF a6
<1>10. /\ 25 \notin t5.on /\ t5.region = h /\ Terminal(t5, h) /\ Follows(t5, new)
       /\ \A m : m \notin Toggled /\ m # 25 => (m \in t5.on <=> m \in t.on)
  <2>1. 25 \notin t2.on /\ t2.region = h /\ Terminal(t2, h)
        /\ \A m : m # 25 => (m \in t2.on <=> m \in t.on)
    BY <1>2
  <2>2. 25 \notin Toggled
    BY DEF Toggled
  <2>3. 25 \notin t3.on /\ t3.region = h /\ Terminal(t3, h)
        /\ \A m : m \notin Toggled /\ m # 25 => (m \in t3.on <=> m \in t.on)
    BY <1>5, <2>1, <2>2 DEF Apart, Follows, Terminal
  <2> QED
    BY <1>5, <1>6, <1>7, <2>3 DEF Drawn, Follows, Terminal
<1>11. 25 \in t6.on <=> new.visible
  BY <1>8, <1>10
<1>12. Painted(t, t6, h, new)
  <2>1. 25 \notin Toggled
    BY DEF Toggled
  <2>3. Terminal(t6, h) /\ t6.region = h
    BY <1>8, <1>10 DEF Terminal
  <2>4. Follows(t6, new)
    BY <1>8, <1>10, <2>1 DEF Follows
  <2> QED
    BY <1>8, <1>10, <2>3, <2>4 DEF Painted
<1> QED
  BY <1>1, <1>9, <1>11, <1>12

\* Rows of the old frame that are the first ones of the new one.
ScrollFound(scroll, old_rows, rows) ==
    /\ scroll.lines + scroll.height \in 1 .. Len(rows)
    /\ \A i \in 1 .. scroll.height : rows[i] = old_rows[scroll.lines + i]

\* What detect_scroll finds.
LEMMA ScrollFacts ==
    ASSUME NEW new, Typed(new), NEW old_rows
    PROVE  LET scroll == DetectScroll(old_rows, new)
           IN  /\ scroll.lines \in Nat /\ scroll.height \in Nat
               /\ scroll.lines = 0 => scroll.height = 0
               /\ scroll.lines # 0 => ScrollFound(scroll, old_rows, new.rows)
               /\ old_rows = new.rows => scroll.lines = 0
<1> DEFINE same == {y \in DOMAIN new.rows : new.rows[1] = old_rows[y]}
           lines == Min(same) - 1
           run == RunFrom(old_rows, new, lines)
           n == Len(new.rows)
<1>0. n \in Nat /\ n > 0 /\ DOMAIN new.rows = 1 .. n
  BY DEF Typed
<1>1. same \in SUBSET (1 .. n) /\ same \in SUBSET Nat
  BY <1>0
<1>2. CASE same = {} \/ 1 \in same
  <2>1. DetectScroll(old_rows, new) = [lines |-> 0, height |-> 0]
    BY <1>2 DEF DetectScroll
  <2> QED
    BY <2>1
<1>3. CASE ~(same = {} \/ 1 \in same)
  <2>1. DetectScroll(old_rows, new) = [lines |-> lines, height |-> Max(run)]
    BY <1>3 DEF DetectScroll
  <2> DEFINE m == Min(same)
  <2>2. m \in same
    BY <1>1, <1>3, MinProperties
  <2>3. m \in 1 .. n /\ m # 1 /\ new.rows[1] = old_rows[m]
    BY <1>1, <1>3, <2>2
  <2>4. old_rows # new.rows
    BY <1>0, <1>3
  <2> HIDE DEF m, same
  <2>5. lines \in Nat /\ lines > 0 /\ n - lines \in Nat /\ 1 \in 1 .. n - lines
    BY <1>0, <2>3 DEF m
  <2>6. lines + 1 = m
    BY <1>0, <2>3 DEF m
  <2> HIDE DEF lines
  <2>7. run \in SUBSET (0 .. n - lines)
    BY <2>5 DEF RunFrom
  <2>8. 1 \in run
    <3>1. \A i \in 1 .. 1 : new.rows[i] = old_rows[lines + i]
      BY <2>3, <2>6
    <3> QED
      BY <2>5, <3>1 DEF RunFrom
  <2> HIDE DEF run
  <2>9. Max(run) \in run
    BY <2>5, <2>7, <2>8, MaxProperties
  <2>10. Max(run) \in Nat
    <3> DEFINE k == Max(run)
    <3>1. k \in run
      BY <2>9
    <3> HIDE DEF k
    <3>2. k \in Nat
      BY <2>5, <2>7, <3>1
    <3> QED
      BY <3>2 DEF k
  <2> DEFINE k == Max(run)
             scroll == [lines |-> lines, height |-> k]
  <2>11. k \in 1 .. n - lines /\ \A i \in 1 .. k : new.rows[i] = old_rows[lines + i]
    <3>1. k \in run
      BY <2>9
    <3> HIDE DEF k
    <3> QED
      BY <3>1 DEF run, RunFrom
  <2> HIDE DEF k
  <2>12. ScrollFound(scroll, old_rows, new.rows)
    <3>1. lines + k \in 1 .. n
      BY <1>0, <2>5, <2>11
    <3> QED
      BY <2>11, <3>1 DEF ScrollFound
  <2>13. DetectScroll(old_rows, new) = scroll
    BY <2>1 DEF k
  <2>14. scroll.lines \in Nat /\ scroll.lines # 0 /\ scroll.height \in Nat
    BY <2>5, <2>10 DEF k
  <2> HIDE DEF scroll
  <2> QED
    BY <2>4, <2>12, <2>13, <2>14
<1> QED
  BY <1>2, <1>3

LEMMA LineFeedsDraw ==
    ASSUME NEW n \in Nat
    PROVE  LineFeeds(n) \in Seq(Drawing)
<1> DEFINE op == <<"lf">>
<1>1. op \in Drawing
  BY DEF Marks, Drawing
<1> HIDE DEF op
<1>2. [i \in 1 .. n |-> op] \in Seq(Drawing)
  BY <1>1
<1> QED
  BY <1>2 DEF LineFeeds, op

\* Scrolling leaves the region as it was: the whole window.
LEMMA ScrollEffect ==
    ASSUME NEW t, NEW h, Terminal(t, h), t.region = h, NEW scroll,
           scroll.lines \in Nat, scroll.height \in Nat, NEW new, NEW y
    PROVE  LET ops == EmitScroll(scroll, new, y)
           IN  ops \in Seq(Ops) /\ ops # <<>> /\ Drawn(t, Executed(t, ops))
<1> DEFINE bottom == scroll.lines + scroll.height
           feeds == LineFeeds(scroll.lines)
           ops == EmitScroll(scroll, new, y)
<1>0. bottom \in Nat
  OBVIOUS
<1>1. feeds \in Seq(Drawing)
  BY LineFeedsDraw
<1> HIDE DEF feeds
<1>2. CASE bottom = Len(new.rows) /\ y = Len(new.rows)
  <2> DEFINE a == ResetStyle
             b == <<"cr">>
             head == <<a, b>>
  <2>1. a \in Drawing /\ b \in Drawing
    BY DEF Marks, Drawing
  <2>2. ops = head \o feeds
    BY <1>2 DEF EmitScroll, feeds
  <2> HIDE DEF a, b, ops
  <2>3. head \in Seq(Drawing) /\ head # <<>>
    BY <2>1
  <2> HIDE DEF head
  <2>4. ops \in Seq(Drawing) /\ ops # <<>>
    BY <1>1, <2>2, <2>3
  <2>5. DOMAIN t = Fields
    BY DEF Terminal
  <2> QED
    BY <2>4, <2>5, DrawingRun DEF ops
<1>3. CASE ~(bottom = Len(new.rows) /\ y = Len(new.rows))
  <2> DEFINE a == ResetStyle
             b == <<"region", bottom>>
             c == Cup(bottom, 1)
             head == <<a, b, c>>
             last == <<"reset_region">>
             tail == <<last>>
             ta == Execute(t, a)
             tb == Execute(ta, b)
             tc == Execute(tb, c)
             td == Executed(tc, feeds)
             te == Executed(td, tail)
  <2>1. ops = (head \o feeds) \o tail
    BY <1>3 DEF EmitScroll, feeds
  <2>2. a \in Drawing /\ c \in Drawing
    BY <1>0, DrawingOps
  <2> HIDE DEF a, c, bottom, ops
  <2>3. Drawn(t, ta) /\ Terminal(ta, h)
    <3>1. Drawn(t, ta)
      BY <2>2, DrawingStep DEF Terminal
    <3> QED
      BY <3>1 DEF Drawn, Terminal
  <2> HIDE DEF ta
  <2>4. /\ b \in Ops /\ Terminal(tb, h) /\ tb.on = ta.on /\ tb.title = ta.title
        /\ tb.mouse = ta.mouse /\ tb.encoding = ta.encoding
    <3>1. \A op : op = b =>
              LET u == Execute(ta, op)
              IN  /\ op \in Ops /\ Terminal(u, h) /\ u.on = ta.on /\ u.title = ta.title
                  /\ u.mouse = ta.mouse /\ u.encoding = ta.encoding
      <4> TAKE op
      <4> HAVE op = b
      <4> QED
        BY <1>0, <2>3, RegionSet
    <3> HIDE DEF b
    <3> QED
      BY <3>1
  <2> HIDE DEF b, tb
  <2>5. Drawn(tb, tc) /\ Terminal(tc, h)
    <3>1. Drawn(tb, tc)
      BY <2>2, <2>4, DrawingStep DEF Terminal
    <3> QED
      BY <2>4, <3>1 DEF Drawn, Terminal
  <2> HIDE DEF tc
  <2>6. feeds \in Seq(Ops) /\ Drawn(tc, td) /\ Terminal(td, h)
    <3>1. feeds \in Seq(Ops) /\ Drawn(tc, td)
      BY <1>1, <2>5, DrawingRun DEF Terminal
    <3> HIDE DEF td
    <3> QED
      BY <2>5, <3>1 DEF Drawn, Terminal
  <2> HIDE DEF td
  <2>7. /\ last \in Ops /\ Terminal(te, h) /\ te.region = h
        /\ te.on = td.on /\ te.title = td.title
        /\ te.mouse = td.mouse /\ te.encoding = td.encoding
    <3>1. \A op : op = last =>
              LET u == Execute(td, op)
              IN  /\ op \in Ops /\ Terminal(u, h) /\ u.region = h
                  /\ u.on = td.on /\ u.title = td.title
                  /\ u.mouse = td.mouse /\ u.encoding = td.encoding
      <4> TAKE op
      <4> HAVE op = last
      <4> QED
        BY <2>6, RegionReset
    <3>2. te = Execute(td, last)
      BY ExecutedOne
    <3> HIDE DEF last, te
    <3> QED
      BY <3>1, <3>2
  <2> HIDE DEF last, te
  <2>8. Drawing \subseteq Ops
    BY DEF Ops
  <2>9. head \in Seq(Ops) /\ Executed(t, head) = tc
    BY <2>2, <2>4, <2>8, ExecutedThree DEF ta, tb, tc
  <2>10. head # <<>>
    OBVIOUS
  <2>11. tail \in Seq(Ops)
    BY <2>7
  <2> HIDE DEF head, tail
  <2> DEFINE front == head \o feeds
  <2>12. front \in Seq(Ops) /\ Executed(t, front) = td
    BY <2>6, <2>9, ExecutedChain DEF td
  <2>13. front # <<>>
    BY <2>6, <2>9, <2>10
  <2> HIDE DEF front
  <2>14. front \o tail \in Seq(Ops) /\ Executed(t, front \o tail) = te
    BY <2>11, <2>12, ExecutedChain DEF te
  <2>15. front \o tail # <<>>
    BY <2>11, <2>12, <2>13
  <2>16. Drawn(t, te)
    BY <2>3, <2>4, <2>5, <2>6, <2>7 DEF Drawn, Terminal
  <2> QED
    BY <2>1, <2>14, <2>15, <2>16 DEF front, ops
<1> QED
  BY <1>2, <1>3

\* The rows of a diff: they draw, and do if a row changed.
DiffRows(old_rows, new, height) ==
    FlattenSeq([y \in DOMAIN new.rows |->
                   IF y <= height THEN <<>> ELSE DiffRow(old_rows, new.rows, y)])

LEMMA DiffRowsDraw ==
    ASSUME NEW new, Typed(new), NEW old_rows, NEW height \in Nat
    PROVE  /\ DiffRows(old_rows, new, height) \in Seq(Drawing)
           /\ DiffRows(old_rows, new, height) = <<>> <=>
                  \A y \in DOMAIN new.rows : y <= height \/ old_rows[y] = new.rows[y]
<1> DEFINE piece(y) == IF y <= height THEN <<>> ELSE DiffRow(old_rows, new.rows, y)
           pieces == [y \in DOMAIN new.rows |-> piece(y)]
<1>1. new.rows \in Seq(Seq(Cells))
  BY DEF Typed
<1>2. PICK n \in Nat : DOMAIN new.rows = 1 .. n
  BY <1>1
<1>3. ASSUME NEW y \in 1 .. n
      PROVE  /\ piece(y) \in Seq(Drawing)
             /\ piece(y) = <<>> <=> (y <= height \/ old_rows[y] = new.rows[y])
  <2>1. /\ DiffRow(old_rows, new.rows, y) \in Seq(Drawing)
        /\ old_rows[y] # new.rows[y] <=> DiffRow(old_rows, new.rows, y) # <<>>
    BY <1>1, <1>2, DiffRowDraws
  <2>2. CASE y <= height
    BY <2>2
  <2>3. CASE ~(y <= height)
    BY <2>1, <2>3
  <2> QED
    BY <2>2, <2>3
<1>4. DiffRows(old_rows, new, height) = FlattenSeq(pieces)
  BY DEF DiffRows
<1> HIDE DEF piece
<1>5. pieces \in Seq(Seq(Drawing)) /\ Len(pieces) = n /\ \A y \in 1 .. n : pieces[y] = piece(y)
  BY <1>2, <1>3
<1> HIDE DEF pieces
<1>6. FlattenSeq(pieces) \in Seq(Drawing)
  BY <1>5, FlattenFacts
<1>7. FlattenSeq(pieces) = <<>> <=> \A y \in 1 .. Len(pieces) : pieces[y] = <<>>
  BY <1>5, FlattenEmpty
<1> QED
  BY <1>2, <1>3, <1>4, <1>5, <1>6, <1>7

\* The cursor is put in its place.
LEMMA RepositionDraws ==
    ASSUME NEW new, Typed(new), NEW old, NEW drawing
    PROVE  Reposition(drawing, old, new) \in Seq(Drawing)
<1> DEFINE cup == Cup(new.cursor[1], new.cursor[2])
<1>1. cup \in Drawing
  <2>1. new.cursor \in Nat \X Nat
    BY DEF Typed
  <2>2. new.cursor[1] \in Nat /\ new.cursor[2] \in Nat
    BY <2>1
  <2> QED
    BY <2>2, DrawingOps
<1>2. Reposition(drawing, old, new) = <<>> \/ Reposition(drawing, old, new) = <<cup>>
  BY DEF Reposition
<1> HIDE DEF cup
<1>3. <<cup>> \in Seq(Drawing) /\ <<>> \in Seq(Drawing)
  BY <1>1
<1> QED
  BY <1>2, <1>3, Zenon

\* A diff of frames of one size, on the terminal that shows the old one.
LEMMA SameSizeEffect ==
    ASSUME NEW t, NEW h, Terminal(t, h), t.region = h, NEW old, NEW new,
           Typed(old), Typed(new), Follows(t, old), Size(old) = Size(new)
    PROVE  LET u == Executed(t, Diff(old, new))
           IN  /\ Diff(old, new) \in Seq(Ops)
               /\ Painted(t, u, h, new)
               /\ 25 \in u.on <=> IF old.visible = new.visible THEN 25 \in t.on
                                  ELSE new.visible
               /\ old.rows # new.rows => Diff(old, new) # <<>>
<1> DEFINE scroll == DetectScroll(old.rows, new)
           old_rows == IF scroll.lines = 0 THEN old.rows ELSE ShiftRows(old.rows, scroll)
           changes == StateChanges(FALSE, old, new)
           scrolling == IF scroll.lines = 0 THEN <<>>
                        ELSE EmitScroll(scroll, new, old.cursor[1])
           rows == DiffRows(old_rows, new, scroll.height)
           a1 == changes \o scrolling
           drawing == a1 \o rows
           cursor == Reposition(drawing, old, new)
           a2 == drawing \o cursor
           show == IF old.visible # new.visible THEN <<Mode(25, new.visible)>> ELSE <<>>
           a3 == a2 \o show
           t1 == Executed(t, changes)
           t2 == Executed(t1, scrolling)
           t3 == Executed(t2, rows)
           t4 == Executed(t3, cursor)
           t5 == Executed(t4, show)
<1>1. Diff(old, new) = a3
  BY Zenon DEF Diff, DiffRows
<1>2. /\ scroll.lines \in Nat /\ scroll.height \in Nat
      /\ scroll.lines = 0 => scroll.height = 0
  BY ScrollFacts
<1>3. old.rows # new.rows => scrolling # <<>> \/ rows # <<>>
  <2> SUFFICES ASSUME old.rows # new.rows PROVE scrolling # <<>> \/ rows # <<>>
    OBVIOUS
  <2>1. CASE scroll.lines # 0
    <3>1. scrolling # <<>>
      BY <1>2, <2>1, ScrollEffect
    <3> QED
      BY <3>1
  <2>2. CASE scroll.lines = 0
    <3>1. old_rows = old.rows /\ scroll.height = 0
      BY <1>2, <2>2
    <3>2. old.rows \in Seq(Seq(Cells)) /\ new.rows \in Seq(Seq(Cells))
      BY DEF Typed
    <3>3. Len(old.rows) = Len(new.rows)
      BY DEF Size
    <3>4. PICK y \in DOMAIN new.rows : old.rows[y] # new.rows[y]
      BY <3>2, <3>3
    <3>5. ~(y <= 0)
      BY <3>2
    <3>6. rows # <<>>
      BY <1>2, <3>1, <3>4, <3>5, DiffRowsDraw
    <3> QED
      BY <3>6
  <2> QED
    BY <2>1, <2>2
<1>4. changes \in Seq(Ops) /\ Follows(t1, new) /\ Apart(t, t1) /\ Terminal(t1, h)
  <2>1. DOMAIN t = Fields /\ FALSE \in BOOLEAN /\ (~FALSE => Follows(t, old))
    BY DEF Terminal
  <2>2. changes \in Seq(Ops) /\ Follows(t1, new) /\ Apart(t, t1)
    BY <2>1, StateChangesEffect
  <2> HIDE DEF changes, t1
  <2> QED
    BY <2>2 DEF Apart, Follows, Terminal
<1> HIDE DEF changes, t1
<1>5. scrolling \in Seq(Ops) /\ Drawn(t1, t2) /\ Terminal(t2, h)
  <2>1. t1.region = h
    BY <1>4 DEF Apart
  <2>2. CASE scroll.lines = 0
    <3>1. t2 = t1 /\ scrolling \in Seq(Ops)
      BY <2>2, ExecutedEmpty
    <3> HIDE DEF t2, scrolling
    <3> QED
      BY <1>4, <3>1 DEF Drawn, Terminal
  <2>3. CASE scroll.lines # 0
    <3>1. scrolling = EmitScroll(scroll, new, old.cursor[1])
      BY <2>3
    <3> HIDE DEF scrolling, scroll
    <3>2. scrolling \in Seq(Ops) /\ Drawn(t1, t2)
      BY <1>2, <1>4, <2>1, <3>1, ScrollEffect
    <3> HIDE DEF t2
    <3> QED
      BY <1>4, <3>2 DEF Drawn, Terminal
  <2> QED
    BY <2>2, <2>3
<1> HIDE DEF scrolling, t2
<1>6. rows \in Seq(Ops) /\ Drawn(t2, t3) /\ DOMAIN t3 = Fields
  <2> HIDE DEF scroll, old_rows
  <2>1. rows \in Seq(Drawing)
    BY <1>2, DiffRowsDraw
  <2> QED
    BY <1>5, <2>1, DrawingRun DEF Drawn
<1> HIDE DEF rows, t3
<1>7. cursor \in Seq(Ops) /\ Drawn(t3, t4) /\ DOMAIN t4 = Fields
  <2> HIDE DEF drawing
  <2>1. cursor \in Seq(Drawing)
    BY RepositionDraws
  <2> QED
    BY <1>6, <2>1, DrawingRun DEF Drawn
<1> HIDE DEF cursor, t4
<1>8. /\ show \in Seq(Ops)
      /\ DOMAIN t5 = Fields /\ t5.rows = t4.rows /\ t5.region = t4.region
      /\ t5.title = t4.title /\ t5.mouse = t4.mouse /\ t5.encoding = t4.encoding
      /\ \A m : m # 25 => (m \in t5.on <=> m \in t4.on)
      /\ 25 \in t5.on <=> IF old.visible = new.visible THEN 25 \in t4.on ELSE new.visible
  <2>0. new.visible \in BOOLEAN
    BY DEF Typed
  <2>1. CASE old.visible = new.visible
    <3>1. t5 = t4 /\ show \in Seq(Ops)
      BY <2>1, ExecutedEmpty
    <3> HIDE DEF show, t5
    <3> QED
      BY <1>7, <2>1, <3>1
  <2>2. CASE old.visible # new.visible
    <3>1. show = <<Mode(25, new.visible)>>
      BY <2>2
    <3>2. /\ show \in Seq(Ops)
          /\ t5 = [t4 EXCEPT !.on = IF new.visible THEN @ \cup {25} ELSE @ \ {25}]
      BY <1>7, <2>0, <3>1, CursorSet
    <3> HIDE DEF show, t5
    <3> QED
      BY <1>7, <2>2, <3>2 DEF Fields
  <2> QED
    BY <2>1, <2>2
<1> HIDE DEF show, t5
<1>9. a3 \in Seq(Ops) /\ Executed(t, a3) = t5
  <2> HIDE DEF a1, drawing, a2, a3
  <2>1. a1 \in Seq(Ops) /\ Executed(t, a1) = t2
    BY <1>4, <1>5, ExecutedChain DEF a1, t1, t2
  <2>2. drawing \in Seq(Ops) /\ Executed(t, drawing) = t3
    BY <1>6, <2>1, ExecutedChain DEF drawing, t3
  <2>3. a2 \in Seq(Ops) /\ Executed(t, a2) = t4
    BY <1>7, <2>2, ExecutedChain DEF a2, t4
  <2> QED
    BY <1>8, <2>3, ExecutedChain DEF a3, t5
<1>10. old.rows # new.rows => a3 # <<>>
  <2> SUFFICES ASSUME scrolling # <<>> \/ rows # <<>> PROVE a3 # <<>>
    BY <1>3
  <2> HIDE DEF a1, drawing, a2, a3
  <2>1. a1 \in Seq(Ops) /\ (scrolling # <<>> => a1 # <<>>)
    BY <1>4, <1>5, ConcatNotEmpty, ExecutedChain DEF a1
  <2>2. drawing \in Seq(Ops) /\ drawing # <<>>
    BY <1>6, <2>1, ConcatNotEmpty, ExecutedChain DEF drawing
  <2>3. a2 \in Seq(Ops) /\ a2 # <<>>
    BY <1>7, <2>2, ConcatNotEmpty, ExecutedChain DEF a2
  <2> QED
    BY <1>8, <2>3, ConcatNotEmpty DEF a3
<1> HIDE DEF a3
<1>11. 25 \notin Toggled
  BY DEF Toggled
<1>12. /\ Terminal(t4, h) /\ t4.region = h /\ Follows(t4, new)
       /\ \A m : m \notin Toggled => (m \in t4.on <=> m \in t.on)
  BY <1>4, <1>5, <1>6, <1>7 DEF Drawn, Follows, Terminal, Apart
<1>13. Painted(t, t5, h, new)
  <2>1. Terminal(t5, h) /\ t5.region = h
    BY <1>8, <1>12 DEF Terminal
  <2>2. Follows(t5, new)
    BY <1>8, <1>11, <1>12 DEF Follows
  <2> QED
    BY <1>8, <1>12, <2>1, <2>2 DEF Painted
<1>14. 25 \in t5.on <=> IF old.visible = new.visible THEN 25 \in t.on ELSE new.visible
  BY <1>8, <1>11, <1>12
<1> QED
  BY <1>1, <1>9, <1>10, <1>13, <1>14

\* The diff of any two frames.
LEMMA DiffEffect ==
    ASSUME NEW t, NEW h, Terminal(t, h), t.region = h, NEW old, NEW new,
           Typed(old), Typed(new), Follows(t, old)
    PROVE  LET u == Executed(t, Diff(old, new))
           IN  /\ Diff(old, new) \in Seq(Ops)
               /\ Painted(t, u, h, new)
               /\ 25 \in u.on <=> IF Size(old) = Size(new) /\ old.visible = new.visible
                                  THEN 25 \in t.on ELSE new.visible
               /\ old.rows # new.rows => Diff(old, new) # <<>>
<1>1. CASE Size(old) = Size(new)
  BY <1>1, SameSizeEffect
<1>2. CASE Size(old) # Size(new)
  <2>1. Diff(old, new) = FullRedraw(new)
    BY <1>2, Zenon DEF Diff
  <2> QED
    BY <1>2, <2>1, FullRedrawEffect
<1> QED
  BY <1>1, <1>2

\* A terminal but for the modes in flags.
Switched(t, u, flags) ==
    /\ DOMAIN u = Fields /\ u.rows = t.rows /\ u.region = t.region
    /\ u.title = t.title /\ u.mouse = t.mouse /\ u.encoding = t.encoding
    /\ \A m : m \notin flags => (m \in u.on <=> m \in t.on)

LEMMA SwitchedFlag ==
    ASSUME NEW t, DOMAIN t = Fields, NEW n, NEW u,
           u = [t EXCEPT !.on = @ \cup {n}] \/ u = [t EXCEPT !.on = @ \ {n}]
    PROVE  Switched(t, u, {n})
  BY DEF Switched, Fields

LEMMA SwitchedKeeps ==
    ASSUME NEW t, NEW h, Terminal(t, h), t.region = h, NEW u, Switched(t, u, {25, Synchronized}),
           NEW f, Follows(t, f)
    PROVE  Terminal(u, h) /\ u.region = h /\ Follows(u, f)
<1>1. 25 \notin Toggled /\ Synchronized \notin Toggled
  BY DEF Toggled, Synchronized
<1>2. Terminal(u, h) /\ u.region = h
  BY DEF Terminal, Switched
<1>3. Follows(u, f)
  BY <1>1 DEF Follows, Switched
<1> QED
  BY <1>2, <1>3

\* A synchronized update opened and the cursor hidden; the update closed.
LEMMA OpenUpdate ==
    ASSUME NEW t, DOMAIN t = Fields
    PROVE  LET u == Executed(t, <<Begin, Hide>>)
           IN  /\ <<Begin, Hide>> \in Seq(Ops)
               /\ Switched(t, u, {25, Synchronized}) /\ 25 \notin u.on
<1> DEFINE ta == Execute(t, Begin)
           tb == Execute(ta, Hide)
<1>1. ta = [t EXCEPT !.on = @ \cup {Synchronized}]
  BY UpdateFlags, Zenon
<1>2. tb = [ta EXCEPT !.on = @ \ {25}]
  BY UpdateFlags, Zenon
<1>3. <<Begin, Hide>> \in Seq(Ops) /\ Executed(t, <<Begin, Hide>>) = tb
  BY UpdateFlags, ExecutedTwo
<1> HIDE DEF ta, tb
<1>4. Switched(t, ta, {Synchronized})
  BY <1>1, SwitchedFlag
<1>5. Switched(ta, tb, {25})
  BY <1>2, <1>4, SwitchedFlag DEF Switched
<1>6. 25 \notin tb.on
  BY <1>2, <1>4 DEF Switched, Fields
<1>7. Switched(t, tb, {25, Synchronized})
  BY <1>4, <1>5 DEF Switched
<1> QED
  BY <1>3, <1>6, <1>7

LEMMA CloseUpdate ==
    ASSUME NEW t, DOMAIN t = Fields
    PROVE  LET u == Executed(t, <<End>>)
           IN  /\ <<End>> \in Seq(Ops) /\ Switched(t, u, {Synchronized}) /\ Synchronized \notin u.on
<1> DEFINE ta == Execute(t, End)
<1>1. ta = [t EXCEPT !.on = @ \ {Synchronized}]
  BY UpdateFlags, Zenon
<1>2. Executed(t, <<End>>) = ta /\ <<End>> \in Seq(Ops)
  BY UpdateFlags, ExecutedOne
<1> HIDE DEF ta
<1>3. Switched(t, ta, {Synchronized})
  BY <1>1, SwitchedFlag
<1>4. Synchronized \notin ta.on
  BY <1>1 DEF Fields
<1> QED
  BY <1>2, <1>3, <1>4

\* A visible cursor shown again.
LEMMA CursorShown ==
    ASSUME NEW t, DOMAIN t = Fields, NEW new, 25 \in t.on => new.visible
    PROVE  LET u == Executed(t, ShowAgain(new))
           IN  /\ ShowAgain(new) \in Seq(Ops) /\ Switched(t, u, {25})
               /\ 25 \in u.on <=> new.visible
<1>1. CASE new.visible
  <2> DEFINE u == Executed(t, <<Mode(25, TRUE)>>)
  <2>1. ShowAgain(new) = <<Mode(25, TRUE)>>
    BY <1>1 DEF ShowAgain
  <2>2. <<Mode(25, TRUE)>> \in Seq(Ops) /\ u = [t EXCEPT !.on = @ \cup {25}]
    BY CursorSet
  <2> HIDE DEF u
  <2>3. Switched(t, u, {25})
    BY <2>2, SwitchedFlag
  <2>4. 25 \in u.on
    BY <2>2 DEF Fields
  <2> QED
    BY <1>1, <2>1, <2>2, <2>3, <2>4 DEF u
<1>2. CASE ~new.visible
  <2>1. ShowAgain(new) = <<>>
    BY <1>2 DEF ShowAgain
  <2>2. <<>> \in Seq(Ops) /\ Executed(t, <<>>) = t
    BY ExecutedEmpty
  <2>3. Switched(t, t, {25})
    BY DEF Switched
  <2> QED
    BY <1>2, <2>1, <2>2, <2>3
<1> QED
  BY <1>1, <1>2

\* What output_new_frame writes: with the update and the cursor around a frame
\* that draws.
LEMMA OutputEffect ==
    ASSUME NEW t, NEW h, Terminal(t, h), t.region = h, NEW old, NEW new,
           Typed(old), Typed(new), Follows(t, old), Synchronized \notin t.on
    PROVE  LET u == Executed(t, Output(old, new))
           IN  /\ Terminal(u, h) /\ u.region = h /\ Follows(u, new) /\ Synchronized \notin u.on
               /\ (25 \in t.on <=> old.visible) \/ old.rows # new.rows =>
                      (25 \in u.on <=> new.visible)
<1> DEFINE diff == Diff(old, new)
<1>0. 25 \notin Toggled /\ Synchronized \notin Toggled /\ Synchronized # 25
  BY DEF Toggled, Synchronized
<1>1. CASE diff = <<>> \/ old.rows = new.rows
  <2> DEFINE u == Executed(t, diff)
  <2>1. Output(old, new) = diff
    BY <1>1 DEF Output
  <2>2. /\ Painted(t, u, h, new)
        /\ 25 \in u.on <=> IF Size(old) = Size(new) /\ old.visible = new.visible
                           THEN 25 \in t.on ELSE new.visible
        /\ old.rows # new.rows => diff # <<>>
    BY DiffEffect
  <2>3. old.rows = new.rows
    BY <1>1, <2>2
  <2> HIDE DEF u, diff
  <2>4. Synchronized \notin u.on /\ Terminal(u, h) /\ u.region = h /\ Follows(u, new)
    BY <1>0, <2>2 DEF Painted
  <2> QED
    BY <2>1, <2>2, <2>3, <2>4 DEF u
<1>2. CASE ~(diff = <<>> \/ old.rows = new.rows)
  <2> DEFINE head == <<Begin, Hide>>
             show == ShowAgain(new)
             tail == <<End>>
             a1 == head \o diff
             a2 == a1 \o show
             a3 == a2 \o tail
             t1 == Executed(t, head)
             t2 == Executed(t1, diff)
             t3 == Executed(t2, show)
             t4 == Executed(t3, tail)
  <2>1. Output(old, new) = a3
    BY <1>2, Zenon DEF Output, Begin, Hide, End
  <2>2. head \in Seq(Ops) /\ Switched(t, t1, {25, Synchronized}) /\ 25 \notin t1.on
    BY OpenUpdate DEF Terminal
  <2> HIDE DEF head, t1
  <2>3. Terminal(t1, h) /\ t1.region = h /\ Follows(t1, old)
    BY <2>2, SwitchedKeeps
  <2>4. /\ diff \in Seq(Ops) /\ Painted(t1, t2, h, new)
        /\ 25 \in t2.on <=> IF Size(old) = Size(new) /\ old.visible = new.visible
                            THEN 25 \in t1.on ELSE new.visible
    BY <2>3, DiffEffect
  <2> HIDE DEF diff, t2
  <2>5. Terminal(t2, h) /\ t2.region = h /\ Follows(t2, new) /\ DOMAIN t2 = Fields
    BY <2>4 DEF Painted, Terminal
  <2>6. 25 \in t2.on => new.visible
    BY <2>2, <2>4
  <2>7. show \in Seq(Ops) /\ Switched(t2, t3, {25}) /\ (25 \in t3.on <=> new.visible)
    BY <2>5, <2>6, CursorShown
  <2> HIDE DEF show, t3
  <2>8. DOMAIN t3 = Fields
    BY <2>7 DEF Switched
  <2>9. tail \in Seq(Ops) /\ Switched(t3, t4, {Synchronized}) /\ Synchronized \notin t4.on
    BY <2>8, CloseUpdate
  <2> HIDE DEF tail, t4
  <2>10. Executed(t, a3) = t4
    <3> HIDE DEF a1, a2, a3
    <3>1. a1 \in Seq(Ops) /\ Executed(t, a1) = t2
      BY <2>2, <2>4, ExecutedChain DEF a1, t1, t2
    <3>2. a2 \in Seq(Ops) /\ Executed(t, a2) = t3
      BY <2>7, <3>1, ExecutedChain DEF a2, t3
    <3> QED
      BY <2>9, <3>2, ExecutedChain DEF a3, t4
  <2> HIDE DEF a3
  <2>11. Switched(t2, t4, {25, Synchronized})
    BY <2>7, <2>9 DEF Switched
  <2>12. Terminal(t4, h) /\ t4.region = h /\ Follows(t4, new)
    BY <2>5, <2>11, SwitchedKeeps
  <2>13. 25 \in t4.on <=> new.visible
    BY <1>0, <2>7, <2>9 DEF Switched
  <2> QED
    BY <2>1, <2>9, <2>10, <2>12, <2>13
<1> QED
  BY <1>1, <1>2

-----------------------------------------------------------------------------
(* A frame painted over itself (IdleIsSilent). *)

LEMMA JoinEmpty == <<>> \o <<>> = <<>>
<1>1. <<>> \in Seq(Ops)
  OBVIOUS
<1>2. Len(<<>> \o <<>>) = 0 /\ <<>> \o <<>> \in Seq(Ops)
  BY <1>1
<1> QED
  BY <1>2

LEMMA NoChanges ==
    ASSUME NEW f
    PROVE  StateChanges(FALSE, f, f) = <<>>
<1> DEFINE a == TitleChange(FALSE, f, f)
           b == ToggledChanges(FALSE, f, f)
<1>1. StateChanges(FALSE, f, f) = ((a \o b) \o <<>>) \o <<>>
  BY Zenon DEF StateChanges, TitleChange, ToggledChanges
<1>2. a = <<>>
  BY Zenon DEF TitleChange
<1>3. b = <<>>
  <2> DEFINE pieces == [i \in DOMAIN Modes |-> <<>>]
  <2>1. b = FlattenSeq(pieces)
    BY Zenon DEF ToggledChanges
  <2>2. DOMAIN Modes = 1 .. 3
    BY DEF Modes
  <2>3. pieces \in Seq(Seq(Ops)) /\ \A i \in 1 .. Len(pieces) : pieces[i] = <<>>
    BY <2>2
  <2> HIDE DEF pieces
  <2> QED
    BY <2>1, <2>3, FlattenEmpty
<1> QED
  BY <1>1, <1>2, <1>3, JoinEmpty, Zenon

LEMMA SilentOutput ==
    ASSUME NEW f, Typed(f)
    PROVE  Output(f, f) = <<>>
<1> DEFINE scroll == DetectScroll(f.rows, f)
           rows == DiffRows(f.rows, f, scroll.height)
<1>1. scroll.lines = 0 /\ scroll.height = 0
  BY ScrollFacts
<1>2. rows = <<>>
  <2>1. scroll.height \in Nat
    BY <1>1
  <2> QED
    BY <2>1, DiffRowsDraw
<1> HIDE DEF scroll
<1>3. Reposition(<<>>, f, f) = <<>>
  BY Zenon DEF Reposition
<1>4. ((((<<>> \o <<>>) \o rows) \o Reposition((<<>> \o <<>>) \o rows, f, f)) \o <<>>) = <<>>
  BY <1>2, <1>3, JoinEmpty, Zenon
<1>5. Diff(f, f) = <<>>
  BY <1>1, <1>4, NoChanges, Zenon DEF Diff, DiffRows, scroll
<1> QED
  BY <1>5, Zenon DEF Output

-----------------------------------------------------------------------------
(* The frames that are painted. *)

LEMMA FrameTyped ==
    ASSUME NEW f, IsFrame(f)
    PROVE  Typed(f)
<1>1. STRING \subseteq Strings
  BY Zenon DEF Strings
<1>2. CellData \subseteq Cells
  BY <1>1 DEF CellData, Cells
<1>3. f.rows \in Seq(Seq(CellData)) /\ f.rows # <<>>
  BY DEF IsFrame
<1>4. f.rows \in Seq(Seq(Cells))
  <2>1. Seq(CellData) \subseteq Seq(Cells)
    BY <1>2
  <2> HIDE DEF CellData
  <2> QED
    BY <1>3, <2>1
<1>5. Range(Modes) = Toggled
  BY Groups DEF Toggled
<1>6. /\ DOMAIN f = {"rows", "cursor", "visible", "title", "modes", "mouse", "encoding"}
      /\ f.cursor \in Nat \X Nat /\ f.visible \in BOOLEAN /\ f.title \in STRING
      /\ f.modes \in SUBSET Range(Modes) /\ f.mouse \in {0} \cup Range(MouseReporting)
      /\ f.encoding \in {0} \cup Range(MouseEncoding)
  BY DEF IsFrame
<1>7. f.title \in Strings
  BY <1>1, <1>6
<1> QED
  BY <1>3, <1>4, <1>5, <1>6, <1>7, Groups DEF Typed

\* A predicted cell is a cell.
LEMMA StyledTyped ==
    ASSUME NEW cell \in Cells, NEW flagged \in BOOLEAN
    PROVE  [cell EXCEPT !.style = IF flagged THEN @ \cup {"underline"} ELSE @] \in Cells
<1>1. "underline" \in Strings
  BY Zenon DEF Strings
<1> HIDE DEF Strings
<1> QED
  BY <1>1 DEF Cells

LEMMA ReplacedTyped ==
    ASSUME NEW cell \in Cells, NEW text \in STRING
    PROVE  [cell EXCEPT !.text = text, !.wide = FALSE, !.spacer = FALSE] \in Cells
<1>1. text \in Strings
  BY Zenon DEF Strings
<1> QED
  BY <1>1 DEF Cells

LEMMA OverlaidTyped ==
    ASSUME NEW frame \in Frames, NEW overlay \in Overlays
    PROVE  Typed(ApplyOverlay(frame, overlay))
<1> DEFINE styled(cell, p) ==
               [cell EXCEPT !.style = IF p.flagged THEN @ \cup {"underline"} ELSE @]
           predicted(cell, p) ==
               IF p.replacement = Unknown THEN styled(cell, p)
               ELSE styled([cell EXCEPT !.text = p.replacement, !.wide = FALSE,
                                        !.spacer = FALSE], p)
           painted(y, x) ==
               IF <<y, x>> \in DOMAIN overlay /\ x < Len(frame.rows[y])
               THEN predicted(frame.rows[y][x], overlay[<<y, x>>]) ELSE frame.rows[y][x]
           rows == [y \in DOMAIN frame.rows |-> [x \in DOMAIN frame.rows[y] |-> painted(y, x)]]
<1>1. Typed(frame)
  BY FramesAssumption, FrameTyped
<1>2. ApplyOverlay(frame, overlay) = [frame EXCEPT !.rows = rows]
  BY DEF ApplyOverlay
<1>3. ASSUME NEW at \in DOMAIN overlay
      PROVE  overlay[at].replacement \in STRING /\ overlay[at].flagged \in BOOLEAN
  BY FramesAssumption
<1>4. frame.rows \in Seq(Seq(Cells)) /\ frame.rows # <<>>
  BY <1>1 DEF Typed
<1>5. ASSUME NEW y \in DOMAIN frame.rows, NEW x \in DOMAIN frame.rows[y]
      PROVE  painted(y, x) \in Cells
  <2>1. frame.rows[y][x] \in Cells
    BY <1>4
  <2>2. ASSUME NEW at \in DOMAIN overlay, NEW cell \in Cells
        PROVE  predicted(cell, overlay[at]) \in Cells
    <3> DEFINE p == overlay[at]
               replaced == [cell EXCEPT !.text = p.replacement, !.wide = FALSE, !.spacer = FALSE]
    <3>1. p.replacement \in STRING /\ p.flagged \in BOOLEAN
      BY <1>3
    <3> HIDE DEF p
    <3>2. replaced \in Cells
      BY <3>1, ReplacedTyped
    <3> HIDE DEF replaced
    <3>3. styled(cell, p) \in Cells /\ styled(replaced, p) \in Cells
      BY <3>1, <3>2, StyledTyped
    <3> HIDE DEF styled
    <3> QED
      BY <3>3, Zenon DEF p, replaced
  <2> HIDE DEF predicted
  <2> QED
    BY <2>1, <2>2
<1> HIDE DEF painted
<1>6. rows \in Seq(Seq(Cells)) /\ rows # <<>>
  <2>1. PICK n \in Nat : DOMAIN frame.rows = 1 .. n /\ n > 0
    BY <1>4
  <2>2. ASSUME NEW y \in 1 .. n
        PROVE  [x \in DOMAIN frame.rows[y] |-> painted(y, x)] \in Seq(Cells)
    <3>1. PICK m \in Nat : DOMAIN frame.rows[y] = 1 .. m
      BY <1>4, <2>1
    <3> QED
      BY <1>5, <2>1, <3>1
  <2>3. 1 \in DOMAIN rows
    BY <2>1
  <2> QED
    BY <2>1, <2>2, <2>3
<1> HIDE DEF rows
<1>7. /\ DOMAIN frame = {"rows", "cursor", "visible", "title", "modes", "mouse", "encoding"}
      /\ DOMAIN [frame EXCEPT !.rows = rows] = DOMAIN frame
      /\ [frame EXCEPT !.rows = rows].rows = rows
      /\ \A k \in DOMAIN frame : k # "rows" => [frame EXCEPT !.rows = rows][k] = frame[k]
  BY <1>1 DEF Typed
<1> QED
  BY <1>1, <1>2, <1>6, <1>7 DEF Typed

LEMMA BlankTyped ==
    /\ Typed(BlankFrame(FirstSize)) /\ FirstSize[1] \in Nat
    /\ DOMAIN BlankFrame(FirstSize).rows = 1 .. FirstSize[1]
<1> DEFINE h == FirstSize[1]
           w == FirstSize[2]
           f == BlankFrame(FirstSize)
<1>1. h \in Nat /\ h > 0 /\ w \in Nat /\ w > 0
  BY FramesAssumption
<1>2. EmptyCell \in Cells
  <2>1. \A s \in Strings : Cell(s, FALSE, FALSE, {}) \in Cells
    BY DEF Cell, Cells
  <2>2. "" \in Strings
    BY Zenon DEF Strings
  <2> QED
    BY <2>1, <2>2, Zenon DEF EmptyCell
<1> HIDE DEF EmptyCell
<1>3. BlankRow(w) \in Seq(Cells)
  BY <1>1, <1>2 DEF BlankRow
<1>4. ASSUME NEW title \in Strings
      PROVE  LET g == [rows |-> [y \in 1 .. h |-> BlankRow(w)],
                       cursor |-> <<1, 1>>, visible |-> TRUE, title |-> title,
                       modes |-> {}, mouse |-> 0, encoding |-> 0]
             IN  Typed(g) /\ DOMAIN g.rows = 1 .. h
  BY <1>1, <1>3 DEF Typed
<1>5. "" \in Strings
  BY Zenon DEF Strings
<1>6. Typed(f) /\ DOMAIN f.rows = 1 .. h
  BY <1>4, <1>5, Zenon DEF BlankFrame
<1> QED
  BY <1>1, <1>6

-----------------------------------------------------------------------------
(* The screen: what is on it, where the cursor is, and with which pen. *)

SameScreen(t, u) ==
    /\ DOMAIN u = Fields
    /\ u.rows = t.rows /\ u.cursor = t.cursor /\ u.wrap = t.wrap
    /\ u.pen = t.pen /\ u.region = t.region

\* The sequences that set a mode or the title.
Switches ==
    {<<"mode", n, b>> : n \in Nat, b \in BOOLEAN} \cup {<<"title", s>> : s \in Strings}

LEMMA ModeSet ==
    ASSUME NEW t, NEW n, NEW on
    PROVE  Execute(t, Mode(n, on)) = SetMode(t, n, on)
BY Zenon DEF Execute, Mode

LEMMA SwitchStep ==
    ASSUME NEW t, DOMAIN t = Fields, NEW op \in Switches
    PROVE  SameScreen(t, Execute(t, op))
<1>1. CASE op \in {<<"mode", n, b>> : n \in Nat, b \in BOOLEAN}
  <2>1. PICK n \in Nat, b \in BOOLEAN : op = <<"mode", n, b>>
    BY <1>1
  <2>2. op = Mode(n, b)
    BY <2>1 DEF Mode
  <2>3. Execute(t, op) = SetMode(t, n, b)
    BY <2>2, ModeSet, Zenon
  <2> QED
    BY <2>3 DEF SetMode, SameScreen, Fields
<1>2. CASE op \in {<<"title", s>> : s \in Strings}
  <2>1. PICK s \in Strings : op = <<"title", s>>
    BY <1>2
  <2>2. Execute(t, op) = [t EXCEPT !.title = s]
    BY <2>1, TitleSet
  <2> QED
    BY <2>2 DEF SameScreen, Fields
<1> QED
  BY <1>1, <1>2 DEF Switches

\* Any number of them leaves the screen alone.
LEMMA SwitchRun ==
    ASSUME NEW t, DOMAIN t = Fields
    PROVE  \A ops \in Seq(Switches) : SameScreen(t, Executed(t, ops))
<1> DEFINE P == {k \in Nat : \A ops \in Seq(Switches) :
                                Len(ops) = k => SameScreen(t, Executed(t, ops))}
<1>0. SameScreen(t, t)
  BY DEF SameScreen
<1>1. 0 \in P
  <2> SUFFICES ASSUME NEW ops \in Seq(Switches), Len(ops) = 0
               PROVE  SameScreen(t, Executed(t, ops))
    OBVIOUS
  <2>1. ops = <<>>
    OBVIOUS
  <2> QED
    BY <1>0, <2>1, ExecutedStep
<1>2. ASSUME NEW k \in P PROVE k + 1 \in P
  <2> SUFFICES ASSUME NEW ops \in Seq(Switches), Len(ops) = k + 1
               PROVE  SameScreen(t, Executed(t, ops))
    OBVIOUS
  <2> DEFINE c == SubSeq(ops, 1, k)
             op == ops[k + 1]
             u == Executed(t, c)
  <2>1. c \in Seq(Switches) /\ Len(c) = k /\ op \in Switches
    OBVIOUS
  <2>2. ops = Append(c, op)
    OBVIOUS
  <2> HIDE DEF c, op
  <2>3. SameScreen(t, u) /\ DOMAIN u = Fields
    BY <1>2, <2>1 DEF SameScreen
  <2>4. Executed(t, ops) = Execute(u, op)
    BY <2>1, <2>2, ExecutedStep
  <2>5. SameScreen(u, Execute(u, op))
    BY <2>1, <2>3, SwitchStep
  <2> QED
    BY <2>3, <2>4, <2>5 DEF SameScreen
<1> HIDE DEF P
<1>3. P = Nat
  BY <1>1, <1>2, SetInduction DEF P
<1> QED
  BY <1>3 DEF P

\* state_changes writes nothing else.
LEMMA ExclusiveSwitches ==
    ASSUME NEW numbers \in {MouseReporting, MouseEncoding},
           NEW new \in {0} \cup Range(numbers)
    PROVE  Exclusive(numbers, new) \in Seq(Switches)
<1>1. Range(numbers) \subseteq Nat
  BY Groups DEF MouseModes, EncodingModes
<1>2. \A n \in Nat, b \in BOOLEAN : Mode(n, b) \in Switches
  BY DEF Mode, Switches
<1>3. Resetting(Range(numbers)) \subseteq Switches
  BY <1>1, <1>2 DEF Resetting
<1>4. Resets(numbers, new) \in Seq(Switches)
  <2>1. Resets(numbers, new) \in Seq(Resetting(Range(numbers)))
    BY ResetsFacts
  <2> QED
    BY <1>3, <2>1
<1> DEFINE op == Mode(new, TRUE)
<1>5. op \in Switches
  <2>1. new \in Nat
    BY <1>1
  <2> QED
    BY <1>2, <2>1
<1> HIDE DEF op
<1>6. <<>> \in Seq(Switches) /\ <<op>> \in Seq(Switches)
  BY <1>5
<1> DEFINE resets == Resets(numbers, new)
           last == IF new = 0 THEN <<>> ELSE <<op>>
<1>7. last \in Seq(Switches) /\ Exclusive(numbers, new) = resets \o last
  BY <1>6 DEF Exclusive, op
<1> HIDE DEF resets, last
<1> QED
  BY <1>4, <1>7 DEF resets

LEMMA StateChangesSwitch ==
    ASSUME NEW first, NEW old, NEW new, Typed(new)
    PROVE  StateChanges(first, old, new) \in Seq(Switches)
<1> DEFINE a == TitleChange(first, old, new)
           b == ToggledChanges(first, old, new)
           mouse == ~first /\ old.mouse = new.mouse
           coded == ~first /\ old.encoding = new.encoding
           c == IF mouse THEN <<>> ELSE Exclusive(MouseReporting, new.mouse)
           d == IF coded THEN <<>> ELSE Exclusive(MouseEncoding, new.encoding)
<1>1. StateChanges(first, old, new) = ((a \o b) \o c) \o d
  BY DEF StateChanges, TitleChange, ToggledChanges
<1>2. /\ new.title \in Strings /\ new.modes \subseteq Toggled
      /\ new.mouse \in {0} \cup Range(MouseReporting)
      /\ new.encoding \in {0} \cup Range(MouseEncoding)
  BY Groups DEF Typed
<1>3. a \in Seq(Switches)
  <2> DEFINE op == <<"title", new.title>>
  <2>1. op \in Switches
    BY <1>2 DEF Switches
  <2>2. a = <<>> \/ a = <<op>>
    BY DEF TitleChange
  <2> HIDE DEF op, a
  <2>3. <<op>> \in Seq(Switches) /\ <<>> \in Seq(Switches)
    BY <2>1
  <2> QED
    BY <2>2, <2>3, Zenon
<1>4. b \in Seq(Switches)
  <2> DEFINE set(i) == Modes[i] \in new.modes
             skip(i) == ~first /\ (Modes[i] \in old.modes) = set(i)
             piece(i) == IF skip(i) THEN <<>> ELSE <<Mode(Modes[i], set(i))>>
             pieces == [i \in DOMAIN Modes |-> piece(i)]
  <2>1. b = FlattenSeq(pieces)
    BY DEF ToggledChanges
  <2>2. DOMAIN Modes = 1 .. 3 /\ \A i \in 1 .. 3 : Modes[i] \in Nat
    BY DEF Modes
  <2>3. \A i \in 1 .. 3 : piece(i) \in Seq(Switches)
    <3> TAKE i \in 1 .. 3
    <3>1. set(i) \in BOOLEAN /\ Modes[i] \in Nat
      BY <2>2
    <3>2. Mode(Modes[i], set(i)) \in Switches
      <4>1. \A n \in Nat, b1 \in BOOLEAN : Mode(n, b1) \in Switches
        BY DEF Mode, Switches
      <4> HIDE DEF set
      <4> QED
        BY <3>1, <4>1
    <3> HIDE DEF set, skip
    <3> QED
      BY <3>2
  <2> HIDE DEF piece
  <2>4. pieces \in Seq(Seq(Switches))
    BY <2>2, <2>3
  <2> HIDE DEF pieces
  <2> QED
    BY <2>1, <2>4, FlattenFacts
<1>5. c \in Seq(Switches) /\ d \in Seq(Switches)
  <2>1. Exclusive(MouseReporting, new.mouse) \in Seq(Switches)
    BY <1>2, ExclusiveSwitches
  <2>2. Exclusive(MouseEncoding, new.encoding) \in Seq(Switches)
    BY <1>2, ExclusiveSwitches
  <2> QED
    BY <2>1, <2>2
<1> HIDE DEF a, b, c, d
<1> QED
  BY <1>1, <1>3, <1>4, <1>5

\* A terminal of h rows and w columns.
Grid(t, h, w) ==
    /\ DOMAIN t = Fields /\ h \in Nat \ {0} /\ w \in Nat \ {0}
    /\ DOMAIN t.rows = 1 .. h /\ \A y \in 1 .. h : DOMAIN t.rows[y] = 1 .. w
    /\ t.region \in 0 .. h

LEMMA GridSize ==
    ASSUME NEW t, NEW h, NEW w, Grid(t, h, w)
    PROVE  /\ Len(t.rows) = h /\ \A y \in 1 .. h : Len(t.rows[y]) = w
           /\ Len(t.rows[1]) = w /\ DOMAIN ErasedRow(t) = 1 .. w
<1>1. 1 \in 1 .. h
  BY DEF Grid
<1>2. DOMAIN t.rows[1] = 1 .. w
  BY <1>1 DEF Grid
<1> QED
  BY <1>1, <1>2 DEF Grid, ErasedRow

\* The lines move, or the cursor.
LEMMA LineFeedIs ==
    ASSUME NEW t, NEW h, NEW w, Grid(t, h, w)
    PROVE  LET u == LineFeed(t)
           IN  /\ Grid(u, h, w) /\ u.pen = t.pen /\ u.region = t.region
               /\ t.cursor[1] = t.region =>
                      /\ u.cursor = t.cursor
                      /\ \A y \in 1 .. h :
                            u.rows[y] = IF y > t.region THEN t.rows[y]
                                        ELSE IF y = t.region THEN ErasedRow(t)
                                        ELSE t.rows[y + 1]
<1> DEFINE u == LineFeed(t)
           moved(y) == IF y > t.region THEN t.rows[y]
                       ELSE IF y = t.region THEN ErasedRow(t) ELSE t.rows[y + 1]
           rows == [y \in DOMAIN t.rows |->
                      CASE y > t.region -> t.rows[y]
                        [] y = t.region -> ErasedRow(t)
                        [] OTHER -> t.rows[y + 1]]
<1>0. t.region \in Nat /\ h \in Nat /\ t.region <= h /\ DOMAIN ErasedRow(t) = 1 .. w
  BY GridSize DEF Grid
<1>1. DOMAIN rows = 1 .. h /\ \A y \in 1 .. h : rows[y] = moved(y)
  BY <1>0 DEF Grid
<1>2. ASSUME NEW y \in 1 .. h PROVE DOMAIN rows[y] = 1 .. w
  <2>1. y > t.region \/ y = t.region \/ y + 1 \in 1 .. h
    BY <1>0
  <2> QED
    BY <1>0, <1>1, <2>1 DEF Grid
<1>3. CASE t.cursor[1] = t.region
  <2>1. u = [t EXCEPT !.rows = rows]
    BY <1>3 DEF LineFeed
  <2> HIDE DEF u, rows
  <2>2. /\ Grid(u, h, w) /\ u.pen = t.pen /\ u.region = t.region
        /\ u.cursor = t.cursor /\ u.rows = rows
    BY <1>1, <1>2, <2>1 DEF Grid, Fields
  <2> QED
    BY <1>1, <2>2 DEF u
<1>4. CASE t.cursor[1] # t.region
  <2> HIDE DEF rows
  <2>1. u = t \/ u = [t EXCEPT !.cursor[1] = @ + 1]
    BY <1>4, Zenon DEF LineFeed
  <2> HIDE DEF u
  <2>2. Grid(u, h, w) /\ u.pen = t.pen /\ u.region = t.region
    BY <2>1 DEF Grid, Fields
  <2> QED
    BY <1>4, <2>2 DEF u
<1> QED
  BY <1>3, <1>4

\* The row after a glyph was written at x.
Overwritten(t, row, x, text) ==
    LET w == Width(text)
    IN  [k \in DOMAIN row |->
            CASE k = x -> Cell(text, w = 2, FALSE, t.pen)
              [] k = x + 1 /\ w = 2 -> Cell("", FALSE, TRUE, t.pen)
              [] k = x + w /\ row[k].spacer -> Erased(t)
              [] k + 1 = x /\ row[k].wide -> Erased(t)
              [] OTHER -> row[k]]

\* Wherever it is written, the screen keeps its size.
LEMMA WriteGrid ==
    ASSUME NEW t0, NEW h, NEW w, Grid(t0, h, w), NEW text
    PROVE  Grid(Write(t0, text), h, w)
<1> DEFINE cols == Len(t0.rows[1])
           n == Width(text)
           t1 == [t0 EXCEPT !.cursor[2] = 1]
           t == IF t0.wrap \/ t0.cursor[2] + n > cols + 1 THEN LineFeed(t1) ELSE t0
           x0 == t.cursor[2]
           y0 == t.cursor[1]
           wraps == x0 + n > cols
           at == IF wraps THEN cols ELSE x0 + n
           row == Overwritten(t, t.rows[y0], x0, text)
<1>1. Write(t0, text) = [t EXCEPT !.rows[y0] = row, !.wrap = wraps, !.cursor[2] = at]
  BY Zenon DEF Write, Overwritten
<1>2. Grid(t1, h, w)
  BY DEF Grid, Fields
<1> HIDE DEF t1
<1>3. Grid(t, h, w)
  BY <1>2, LineFeedIs
<1> HIDE DEF t, x0, cols, n
<1>4. y0 \in 1 .. h => DOMAIN row = 1 .. w
  BY <1>3 DEF Grid, Overwritten
<1> HIDE DEF row, wraps, at
<1> DEFINE u == Write(t0, text)
<1>5. u = [t EXCEPT !.rows[y0] = row, !.wrap = wraps, !.cursor[2] = at]
  BY <1>1
<1> HIDE DEF u, y0
<1>6. DOMAIN u = Fields /\ u.region = t.region /\ u.rows = [t.rows EXCEPT ![y0] = row]
  BY <1>3, <1>5 DEF Grid, Fields
<1>7. DOMAIN u.rows = 1 .. h /\ \A y \in 1 .. h : u.rows[y] = IF y = y0 THEN row ELSE t.rows[y]
  BY <1>3, <1>6 DEF Grid
<1>8. Grid(u, h, w)
  BY <1>3, <1>4, <1>6, <1>7 DEF Grid
<1> QED
  BY <1>8 DEF u

\* The next glyph goes to column x of row y.
At(t, y, x) == t.cursor = <<y, x>> /\ t.wrap = FALSE

\* Of the screen only the cursor is another.
Moved(t, u, h, w) ==
    Grid(u, h, w) /\ u.rows = t.rows /\ u.pen = t.pen /\ u.region = t.region

\* What the sequences other than text and line feeds do.
LEMMA CupIs ==
    ASSUME NEW t, NEW h, NEW w, Grid(t, h, w), NEW y \in Nat, NEW x \in Nat
    PROVE  LET u == Execute(t, Cup(y, x))
           IN  /\ Moved(t, u, h, w)
               /\ y \in 1 .. h /\ x \in 1 .. w => At(u, y, x)
<1> DEFINE u == Execute(t, Cup(y, x))
           cursor == <<Least(y, Len(t.rows)), Least(x, Len(t.rows[1]))>>
<1>1. u = [t EXCEPT !.cursor = cursor, !.wrap = FALSE]
  BY DEF Execute, Cup
<1>2. y \in 1 .. h /\ x \in 1 .. w => cursor = <<y, x>>
  BY GridSize DEF Least
<1> HIDE DEF u, cursor
<1>3. Grid(u, h, w) /\ u.rows = t.rows /\ u.pen = t.pen /\ u.region = t.region
      /\ u.cursor = cursor /\ u.wrap = FALSE
  BY <1>1 DEF Grid, Fields
<1> QED
  BY <1>2, <1>3 DEF u, At, Moved

\* A sequence that gives the pen a style.
Dips(t, op, pen) ==
    \/ op = ResetStyle /\ pen = {}
    \/ \E style : op = <<"sgr", style>> /\ pen = t.pen \cup style

LEMMA PenIs ==
    ASSUME NEW t, DOMAIN t = Fields, NEW op, NEW pen, Dips(t, op, pen)
    PROVE  LET u == Execute(t, op)
           IN  /\ DOMAIN u = Fields /\ u.rows = t.rows /\ u.cursor = t.cursor
               /\ u.wrap = t.wrap /\ u.region = t.region /\ u.pen = pen
<1> DEFINE u == Execute(t, op)
<1>1. u = [t EXCEPT !.pen = pen]
  <2>1. CASE op = ResetStyle /\ pen = {}
    BY <2>1, Zenon DEF Execute, ResetStyle
  <2>2. CASE \E style : op = <<"sgr", style>> /\ pen = t.pen \cup style
    <3>1. PICK style : op = <<"sgr", style>> /\ pen = t.pen \cup style
      BY <2>2
    <3>2. op[1] = "sgr" /\ op[2] = style
      BY <3>1
    <3>3. u = [t EXCEPT !.pen = @ \cup op[2]]
      BY <3>2 DEF Execute
    <3> QED
      BY <3>1, <3>2, <3>3
  <2> QED
    BY <2>1, <2>2 DEF Dips
<1> HIDE DEF u
<1>2. DOMAIN u = Fields /\ u.rows = t.rows /\ u.cursor = t.cursor
      /\ u.wrap = t.wrap /\ u.region = t.region /\ u.pen = pen
  BY <1>1 DEF Fields
<1> QED
  BY <1>2 DEF u

LEMMA MarksAre ==
    ASSUME NEW t, NEW h, NEW w, Grid(t, h, w)
    PROVE  /\ LET u == Execute(t, <<"cr">>)
              IN  /\ Grid(u, h, w) /\ u.rows = t.rows /\ u.pen = t.pen /\ u.region = t.region
                  /\ \A a, b : t.cursor = <<a, b>> => u.cursor = <<a, 1>>
           /\ Execute(t, <<"lf">>) = LineFeed(t)
           /\ Grid(Execute(t, Erase), h, w)
           /\ Execute(t, Erase).pen = t.pen
<1>1. Execute(t, <<"lf">>) = LineFeed(t)
  BY DEF Execute
<1> DEFINE u == Execute(t, <<"cr">>)
           v == Execute(t, Erase)
           rows == [y \in DOMAIN t.rows |-> ErasedRow(t)]
<1>2. u = [t EXCEPT !.cursor[2] = 1, !.wrap = FALSE]
  BY DEF Execute
<1>3. v = [t EXCEPT !.rows = rows]
  BY DEF Execute, Erase
<1>4. DOMAIN rows = 1 .. h /\ \A y \in 1 .. h : DOMAIN rows[y] = 1 .. w
  BY GridSize DEF Grid
<1> HIDE DEF u, v, rows
<1>5. /\ Grid(u, h, w) /\ u.rows = t.rows /\ u.pen = t.pen /\ u.region = t.region
      /\ \A a, b : t.cursor = <<a, b>> => u.cursor = <<a, 1>>
  BY <1>2 DEF Grid, Fields
<1>6. Grid(v, h, w) /\ v.pen = t.pen
  BY <1>3, <1>4 DEF Grid, Fields
<1> QED
  BY <1>1, <1>5, <1>6 DEF u, v

LEMMA RegionIs ==
    ASSUME NEW t, NEW h, NEW w, Grid(t, h, w), NEW n \in Nat, NEW op, NEW region,
           \/ op = <<"region", n>> /\ region = Least(n, h)
           \/ op = WholeRegion /\ region = h
    PROVE  LET u == Execute(t, op)
           IN  Grid(u, h, w) /\ u.rows = t.rows /\ u.pen = t.pen /\ u.region = region
<1> DEFINE u == Execute(t, op)
<1>0. Len(t.rows) = h /\ h \in Nat
  BY GridSize DEF Grid
<1>1. u = [t EXCEPT !.region = region, !.cursor = <<1, 1>>, !.wrap = FALSE]
  <2>1. CASE op = <<"region", n>> /\ region = Least(n, h)
    <3>1. op[1] = "region" /\ op[2] = n
      BY <2>1
    <3>2. u = [t EXCEPT !.region = Least(op[2], Len(t.rows)), !.cursor = <<1, 1>>, !.wrap = FALSE]
      BY <3>1 DEF Execute
    <3> QED
      BY <1>0, <2>1, <3>1, <3>2
  <2>2. CASE op = WholeRegion /\ region = h
    <3>1. op[1] = "reset_region"
      BY <2>2 DEF WholeRegion
    <3>2. u = [t EXCEPT !.region = Len(t.rows), !.cursor = <<1, 1>>, !.wrap = FALSE]
      BY <3>1 DEF Execute
    <3> QED
      BY <1>0, <2>2, <3>2
  <2> QED
    BY <2>1, <2>2
<1>2. region \in 0 .. h
  BY <1>0 DEF Least
<1> HIDE DEF u
<1>3. Grid(u, h, w) /\ u.rows = t.rows /\ u.pen = t.pen /\ u.region = region
  BY <1>1, <1>2 DEF Grid, Fields
<1> QED
  BY <1>3 DEF u

\* Whatever is executed, the screen keeps its size.
LEMMA GridStep ==
    ASSUME NEW t, NEW h, NEW w, Grid(t, h, w), NEW op \in Ops
    PROVE  Grid(Execute(t, op), h, w)
<1> DEFINE u == Execute(t, op)
<1>0. DOMAIN t = Fields
  BY DEF Grid
<1>1. CASE op \in Moves
  <2>1. PICK y \in Nat, x \in Nat : op = Cup(y, x)
    BY <1>1 DEF Moves
  <2> QED
    BY <2>1, CupIs DEF Moved
<1>2. CASE op \in Texts
  <2>1. PICK s : op = <<"text", s>>
    BY <1>2, Zenon DEF Texts, Text
  <2>2. Execute(t, op) = Write(t, op[2])
    BY <2>1 DEF Execute
  <2> QED
    BY <2>2, WriteGrid
<1>3. CASE op \in Styles \/ op = ResetStyle
  <2>1. \E pen : Dips(t, op, pen)
    BY <1>3 DEF Styles, Dips
  <2>2. DOMAIN u = Fields /\ u.rows = t.rows /\ u.region = t.region
    BY <1>0, <2>1, PenIs
  <2> QED
    BY <2>2 DEF Grid
<1>4. CASE op \in {<<"lf">>, <<"cr">>, <<"erase">>}
  <2>1. Grid(Execute(t, <<"lf">>), h, w)
    BY MarksAre, LineFeedIs
  <2>2. Grid(Execute(t, <<"cr">>), h, w) /\ Grid(Execute(t, <<"erase">>), h, w)
    BY MarksAre DEF Erase
  <2> QED
    BY <1>4, <2>1, <2>2
<1>5. CASE op \in Switches
  <2>1. SameScreen(t, u)
    BY <1>0, <1>5, SwitchStep
  <2> QED
    BY <2>1 DEF Grid, SameScreen
<1>6. CASE op \in {<<"region", n>> : n \in Nat} \cup {WholeRegion}
  <2>1. \E n \in Nat : \E region :
            \/ op = <<"region", n>> /\ region = Least(n, h)
            \/ op = WholeRegion /\ region = h
    BY <1>6
  <2> QED
    BY <2>1, RegionIs
<1> QED
  BY <1>1, <1>2, <1>3, <1>4, <1>5, <1>6 DEF Ops, Drawing, Marks, Switches, WholeRegion

LEMMA GridRun ==
    ASSUME NEW t, NEW h, NEW w, Grid(t, h, w)
    PROVE  \A ops \in Seq(Ops) : Grid(Executed(t, ops), h, w)
<1> DEFINE P == {k \in Nat : \A ops \in Seq(Ops) :
                                Len(ops) = k => Grid(Executed(t, ops), h, w)}
<1>1. 0 \in P
  <2> SUFFICES ASSUME NEW ops \in Seq(Ops), Len(ops) = 0
               PROVE  Grid(Executed(t, ops), h, w)
    OBVIOUS
  <2>1. ops = <<>>
    OBVIOUS
  <2> QED
    BY <2>1, ExecutedStep
<1>2. ASSUME NEW k \in P PROVE k + 1 \in P
  <2> SUFFICES ASSUME NEW ops \in Seq(Ops), Len(ops) = k + 1
               PROVE  Grid(Executed(t, ops), h, w)
    OBVIOUS
  <2> DEFINE c == SubSeq(ops, 1, k)
             op == ops[k + 1]
             u == Executed(t, c)
  <2>1. c \in Seq(Ops) /\ Len(c) = k /\ op \in Ops
    OBVIOUS
  <2>2. ops = Append(c, op)
    OBVIOUS
  <2> HIDE DEF c, op
  <2>3. Grid(u, h, w)
    BY <1>2, <2>1
  <2>4. Executed(t, ops) = Execute(u, op)
    BY <2>1, <2>2, ExecutedStep
  <2> HIDE DEF u
  <2> QED
    BY <2>1, <2>3, <2>4, GridStep
<1> HIDE DEF P
<1>3. P = Nat
  BY <1>1, <1>2, SetInduction DEF P
<1> QED
  BY <1>3 DEF P

\* A glyph written where there is room for it.
LEMMA WriteIs ==
    ASSUME NEW t, NEW h, NEW w, Grid(t, h, w), NEW y \in 1 .. h, NEW x \in 1 .. w,
           At(t, y, x), NEW text, x + Width(text) <= w + 1
    PROVE  LET u == Write(t, text)
           IN  /\ Grid(u, h, w) /\ u.pen = t.pen /\ u.region = t.region
               /\ \A k \in 1 .. h : k # y => u.rows[k] = t.rows[k]
               /\ u.rows[y] = Overwritten(t, t.rows[y], x, text)
               /\ x + Width(text) <= w =>
                      At(u, y, x + Width(text))
<1> DEFINE cols == Len(t.rows[1])
           n == Width(text)
           wraps == x + n > cols
           at == IF wraps THEN cols ELSE x + n
           row == Overwritten(t, t.rows[y], x, text)
           u == Write(t, text)
<1>0. cols = w /\ w \in Nat /\ n \in Nat /\ t.cursor[1] = y /\ t.cursor[2] = x /\ t.wrap = FALSE
  BY GridSize DEF Grid, Width, At
<1>1. u = [t EXCEPT !.rows[y] = row, !.wrap = wraps, !.cursor[2] = at]
  <2> DEFINE late == t.wrap \/ t.cursor[2] + n > cols + 1
             t1 == IF late THEN LineFeed([t EXCEPT !.cursor[2] = 1]) ELSE t
             y1 == t1.cursor[1]
             x1 == t1.cursor[2]
             over == x1 + n > cols
  <2>1. ~late
    BY <1>0
  <2>2. u = [t1 EXCEPT !.rows[y1] = Overwritten(t1, t1.rows[y1], x1, text), !.wrap = over,
                       !.cursor[2] = IF over THEN cols ELSE x1 + n]
    BY Zenon DEF Write, Overwritten
  <2>3. t1 = t
    BY <2>1
  <2> HIDE DEF t1, late, u, n, cols
  <2> QED
    BY <1>0, <2>2, <2>3, Zenon
<1>2. Grid(u, h, w)
  BY WriteGrid
<1> HIDE DEF u, row, n, cols
<1>3. /\ u.pen = t.pen /\ u.region = t.region /\ u.rows = [t.rows EXCEPT ![y] = row]
      /\ u.cursor = <<y, at>>
  BY <1>1 DEF Grid, Fields, At
<1>4. u.rows[y] = row /\ \A k \in 1 .. h : k # y => u.rows[k] = t.rows[k]
  BY <1>3 DEF Grid
<1>5. x + n <= w => At(u, y, x + n)
  <2> SUFFICES ASSUME x + n <= w PROVE At(u, y, x + n)
    OBVIOUS
  <2>1. wraps = FALSE
    BY <1>0
  <2>2. at = x + n
    BY <2>1
  <2> HIDE DEF wraps, at
  <2>3. u = [t EXCEPT !.rows[y] = row, !.wrap = FALSE, !.cursor[2] = at]
    BY <1>1, <2>1
  <2>4. u.wrap = FALSE
    BY <2>3 DEF Grid, Fields
  <2> QED
    BY <1>3, <2>2, <2>4 DEF At
<1> QED
  BY <1>2, <1>3, <1>4, <1>5 DEF u, n, row

-----------------------------------------------------------------------------
(* What is on the screen, cell by cell. *)

Blanked(text) == IF text = " " THEN "" ELSE text

\* The glyph a cell is written as.
Glyph(cell) == IF cell.text = "" THEN " " ELSE cell.text

\* What the terminal has in column x of a row of the frame.
Rendered(cell, row, x) ==
    /\ DOMAIN cell = {"text", "wide", "spacer", "style"}
    /\ Blanked(cell.text) = Blanked(row[x].text)
    /\ cell.wide = row[x].wide
    /\ cell.spacer = (row[x].spacer /\ ~LeftFree(row, x))
    /\ cell.style = row[x].style \/ (LeftFree(row, x) /\ cell.style \subseteq {"background"})

\* A row without a torn glyph (Shapely).
ProperRow(row, w) ==
    /\ row \in Seq(Cells) /\ Len(row) = w
    /\ \A x \in 1 .. w :
          /\ row[x].wide <=> row[x].text = "W"
          /\ row[x].wide => x < w /\ row[x + 1].spacer /\ row[x + 1].style = row[x].style
          /\ row[x].spacer => /\ x = w \/ (x > 1 /\ row[x - 1].wide)
                              /\ row[x].text = ""

\* A cell erased by an overwritten glyph.
Blank(cell) ==
    /\ DOMAIN cell = {"text", "wide", "spacer", "style"}
    /\ cell.text = "" /\ cell.wide = FALSE /\ cell.spacer = FALSE
    /\ cell.style \subseteq {"background"}

LEMMA GlyphFacts ==
    ASSUME NEW cell
    PROVE  /\ Text(cell) = <<"text", Glyph(cell)>>
           /\ Blanked(Glyph(cell)) = Blanked(cell.text)
           /\ cell.text = "W" => Width(Glyph(cell)) = 2 /\ cell.text # ""
           /\ cell.text # "W" => Width(Glyph(cell)) = 1
<1>1. Text(cell) = <<"text", Glyph(cell)>>
  BY Zenon DEF Text, Glyph
<1>2. Blanked(Glyph(cell)) = Blanked(cell.text)
  BY Zenon DEF Blanked, Glyph
<1>3. cell.text = "W" => Width(Glyph(cell)) = 2 /\ cell.text # ""
  BY Zenon DEF Width, Glyph
<1>4. cell.text # "W" => Width(Glyph(cell)) = 1
  BY Zenon DEF Width, Glyph
<1> QED
  BY <1>1, <1>2, <1>3, <1>4, Zenon

LEMMA RowFacts ==
    ASSUME NEW row, NEW w \in Nat, ProperRow(row, w), NEW x \in 1 .. w
    PROVE  /\ row[x] \in Cells /\ row[x].style \in SUBSET Strings
           /\ row[x].wide \in BOOLEAN /\ row[x].spacer \in BOOLEAN
           /\ Width(Glyph(row[x])) = IF row[x].wide THEN 2 ELSE 1
           /\ row[x].wide => /\ x + 1 \in 1 .. w /\ ~row[x].spacer
                             /\ row[x + 1].spacer /\ row[x + 1].style = row[x].style
                             /\ row[x + 1].wide = FALSE /\ row[x + 1].text = ""
<1>0. row \in Seq(Cells) /\ Len(row) = w
  BY DEF ProperRow
<1>1. row[x] \in Cells
  BY <1>0
<1>2. row[x].style \in SUBSET Strings /\ row[x].wide \in BOOLEAN /\ row[x].spacer \in BOOLEAN
  BY <1>1 DEF Cells
<1>3. row[x].wide <=> row[x].text = "W"
  BY DEF ProperRow
<1>4. Width(Glyph(row[x])) = IF row[x].wide THEN 2 ELSE 1
  BY <1>3, GlyphFacts
<1>5. ASSUME row[x].wide
      PROVE  /\ x + 1 \in 1 .. w /\ ~row[x].spacer
             /\ row[x + 1].spacer /\ row[x + 1].style = row[x].style
             /\ row[x + 1].wide = FALSE /\ row[x + 1].text = ""
  <2>1. x + 1 \in 1 .. w /\ row[x + 1].spacer /\ row[x + 1].style = row[x].style
    <3>1. x < w /\ row[x + 1].spacer /\ row[x + 1].style = row[x].style
      BY <1>5 DEF ProperRow
    <3> QED
      BY <3>1
  <2>2. row[x + 1].text = "" /\ (row[x + 1].wide <=> row[x + 1].text = "W")
    BY <2>1 DEF ProperRow
  <2>3. "" # "W"
    OBVIOUS
  <2>4. row[x + 1].wide \in BOOLEAN
    <3>1. row[x + 1] \in Cells
      BY <1>0, <2>1
    <3> QED
      BY <3>1 DEF Cells
  <2>5. ~row[x].spacer
    <3>1. row[x].text # ""
      BY <1>3, <1>5, <2>3
    <3> QED
      BY <3>1 DEF ProperRow
  <2> QED
    BY <2>1, <2>2, <2>3, <2>4, <2>5
<1> QED
  BY <1>1, <1>2, <1>4, <1>5

\* A glyph just written is what its cell of the frame says.
LEMMA WrittenRendered ==
    ASSUME NEW row, NEW w \in Nat, ProperRow(row, w), NEW x \in 1 .. w,
           x > 1 => ~row[x - 1].wide, NEW style, style = row[x].style
    PROVE  /\ Rendered(Cell(Glyph(row[x]), row[x].wide, FALSE, style), row, x)
           /\ row[x].wide => Rendered(Cell("", FALSE, TRUE, style), row, x + 1)
<1> DEFINE a == Cell(Glyph(row[x]), row[x].wide, FALSE, style)
           b == Cell("", FALSE, TRUE, style)
<1>1. /\ DOMAIN a = {"text", "wide", "spacer", "style"} /\ a.text = Glyph(row[x])
      /\ a.wide = row[x].wide /\ a.spacer = FALSE /\ a.style = style
  BY DEF Cell
<1>2. /\ DOMAIN b = {"text", "wide", "spacer", "style"} /\ b.text = ""
      /\ b.wide = FALSE /\ b.spacer = TRUE /\ b.style = style
  BY Zenon DEF Cell
<1> HIDE DEF a, b
<1>3. row[x].spacer => LeftFree(row, x)
  BY DEF LeftFree
<1>4. Blanked(a.text) = Blanked(row[x].text)
  BY <1>1, GlyphFacts
<1>5. Rendered(a, row, x)
  <2>1. a.spacer = (row[x].spacer /\ ~LeftFree(row, x))
    BY <1>1, <1>3, Zenon
  <2>2. a.style = row[x].style \/ (LeftFree(row, x) /\ a.style \subseteq {"background"})
    BY <1>1, Zenon
  <2> QED
    BY <1>1, <2>1, <2>2, <1>4 DEF Rendered
<1>6. ASSUME row[x].wide PROVE Rendered(b, row, x + 1)
  <2>1. /\ x + 1 \in 1 .. w /\ row[x + 1].spacer /\ row[x + 1].style = row[x].style
        /\ row[x + 1].wide = FALSE /\ row[x + 1].text = ""
    BY <1>6, RowFacts
  <2>2. ~LeftFree(row, x + 1)
    <3> DEFINE k == x + 1
    <3>1. k # 1 /\ k - 1 = x
      OBVIOUS
    <3> HIDE DEF k
    <3>2. ~LeftFree(row, k)
      BY <1>6, <3>1, Zenon DEF LeftFree
    <3> QED
      BY <3>2 DEF k
  <2>3. Blanked(b.text) = Blanked(row[x + 1].text)
    BY <1>2, <2>1
  <2>4. b.spacer = (row[x + 1].spacer /\ ~LeftFree(row, x + 1))
    BY <1>2, <2>1, <2>2, Zenon
  <2>5. /\ b.wide = row[x + 1].wide
        /\ b.style = row[x + 1].style \/ (LeftFree(row, x + 1) /\ b.style \subseteq {"background"})
    BY <1>2, <2>1, Zenon
  <2> QED
    BY <1>2, <2>3, <2>4, <2>5 DEF Rendered
<1> QED
  BY <1>5, <1>6 DEF a, b

\* What a glyph of n columns at x leaves of a row: the glyph, its second half,
\* and a blank where half of a glyph was overwritten.
Parts(new, row, w, x, n, a, b, e) ==
    /\ new[x] = a
    /\ n = 2 /\ x + 1 \in 1 .. w => new[x + 1] = b
    /\ x + n \in 1 .. w => new[x + n] = IF row[x + n].spacer THEN e ELSE row[x + n]
    /\ \A k \in 1 .. w : k > x + n => new[k] = row[k]
    /\ \A k \in 1 .. w : k < x => new[k] = IF k + 1 = x /\ row[k].wide THEN e ELSE row[k]

LEMMA OverwrittenIs ==
    ASSUME NEW t, NEW row, NEW w \in Nat, DOMAIN row = 1 .. w, NEW x \in 1 .. w, NEW text
    PROVE  Parts(Overwritten(t, row, x, text), row, w, x, Width(text),
                 Cell(text, Width(text) = 2, FALSE, t.pen), Cell("", FALSE, TRUE, t.pen),
                 Erased(t))
<1> DEFINE new == Overwritten(t, row, x, text)
           n == Width(text)
           a == Cell(text, n = 2, FALSE, t.pen)
           b == Cell("", FALSE, TRUE, t.pen)
           e == Erased(t)
<1>0. n = 1 \/ n = 2
  BY DEF Width
<1>1. new = [k \in DOMAIN row |->
                CASE k = x -> a
                  [] k = x + 1 /\ n = 2 -> b
                  [] k = x + n /\ row[k].spacer -> e
                  [] k + 1 = x /\ row[k].wide -> e
                  [] OTHER -> row[k]]
  BY Zenon DEF Overwritten
<1> HIDE DEF new, a, b, e, n
<1>2. new[x] = a
  BY <1>0, <1>1
<1>3. n = 2 /\ x + 1 \in 1 .. w => new[x + 1] = b
  BY <1>1
<1>4. x + n \in 1 .. w => new[x + n] = IF row[x + n].spacer THEN e ELSE row[x + n]
  BY <1>0, <1>1
<1>5. \A k \in 1 .. w : k > x + n => new[k] = row[k]
  BY <1>0, <1>1
<1>6. ASSUME NEW k \in 1 .. w, k < x
      PROVE  new[k] = IF k + 1 = x /\ row[k].wide THEN e ELSE row[k]
  BY <1>0, <1>1, <1>6
<1>7. Parts(new, row, w, x, n, a, b, e)
  BY <1>2, <1>3, <1>4, <1>5, <1>6 DEF Parts
<1> QED
  BY <1>7 DEF new, a, b, e, n

\* The row of t has what the new row says up to column n, and the cursor and the
\* pen are ready to go on.
Ready(t, h, w, y, n, pen) ==
    /\ Grid(t, h, w) /\ t.pen = pen
    /\ n <= w => At(t, y, n)

Done(t, y, row, n, w) == \A k \in 1 .. w : k < n => Rendered(t.rows[y][k], row, k)

\* The column after the glyph in column x.
After(row, x) == IF row[x].wide THEN x + 2 ELSE x + 1

\* No glyph reaches into column n.
Clear(row, n) == n > 1 => ~row[n - 1].wide

\* A cell next to one that was written.
Beside(cell, was) == IF was.spacer THEN Blank(cell) ELSE cell = was

\* u is t but for row y.
OtherRows(t, u, y, h) == u.region = t.region /\ \A k \in 1 .. h : k # y => u.rows[k] = t.rows[k]

\* u is t with the glyph that ends before column n written in row y.
Written(t, u, h, w, y, row, n) ==
    /\ Done(u, y, row, n, w) /\ OtherRows(t, u, y, h)
    /\ \A k \in 1 .. w : k > n => u.rows[y][k] = t.rows[y][k]
    /\ n \in 1 .. w => Beside(u.rows[y][n], t.rows[y][n])
    /\ n \in 1 .. w + 1 /\ n > 1 /\ Clear(row, n)

LEMMA WriteRendered ==
    ASSUME NEW t, NEW h, NEW w, NEW y \in 1 .. h, NEW x \in 1 .. w, NEW row,
           ProperRow(row, w), Ready(t, h, w, y, x, row[x].style),
           Done(t, y, row, x, w), Clear(row, x)
    PROVE  LET u == Execute(t, Text(row[x]))
               n == After(row, x)
           IN  Ready(u, h, w, y, n, row[x].style) /\ Written(t, u, h, w, y, row, n)
<1> DEFINE n == After(row, x)
           text == Glyph(row[x])
           g == Width(text)
           u == Execute(t, Text(row[x]))
           r == t.rows[y]
           v == u.rows[y]
           style == row[x].style
           a == Cell(text, row[x].wide, FALSE, style)
           b == Cell("", FALSE, TRUE, style)
           e == Erased(t)
<1>0. /\ w \in Nat /\ h \in Nat /\ Grid(t, h, w) /\ t.pen = style
      /\ At(t, y, x) /\ DOMAIN r = 1 .. w
  BY DEF Ready, Grid
<1>1. /\ row[x].wide \in BOOLEAN /\ g = IF row[x].wide THEN 2 ELSE 1
      /\ row[x].wide => x + 1 \in 1 .. w /\ row[x + 1].wide = FALSE
  <2> HIDE DEF text
  <2>1. /\ row[x].wide \in BOOLEAN /\ Width(Glyph(row[x])) = IF row[x].wide THEN 2 ELSE 1
        /\ row[x].wide => x + 1 \in 1 .. w /\ row[x + 1].wide = FALSE
    BY <1>0, RowFacts
  <2> QED
    BY <2>1 DEF text
<1> HIDE DEF g
<1>n. n = IF row[x].wide THEN x + 2 ELSE x + 1
  BY DEF After
<1> HIDE DEF n
<1>2. n = x + g /\ n <= w + 1 /\ n > 1 /\ x \in Nat /\ (n = x + 1 \/ n = x + 2) /\ n > x
  BY <1>n, <1>0, <1>1
<1>3. Clear(row, n)
  <2>1. CASE row[x].wide
    <3>1. n - 1 = x + 1
      BY <1>n, <2>1
    <3> QED
      BY <1>1, <2>1, <3>1 DEF Clear
  <2>2. CASE ~row[x].wide
    <3>1. n - 1 = x
      BY <1>n, <2>2
    <3> QED
      BY <1>1, <2>2, <3>1 DEF Clear
  <2> QED
    BY <2>1, <2>2
<1>4. u = Write(t, text)
  <2>1. Text(row[x]) = <<"text", text>>
    BY GlyphFacts
  <2> HIDE DEF text
  <2> DEFINE op == Text(row[x])
  <2>2. op[1] = "text" /\ op[2] = text
    BY <2>1
  <2> HIDE DEF op
  <2>3. Execute(t, op) = Write(t, op[2])
    BY <2>2 DEF Execute
  <2> QED
    BY <2>2, <2>3 DEF op
<1>5. /\ Grid(u, h, w) /\ u.pen = t.pen /\ u.region = t.region
      /\ \A k \in 1 .. h : k # y => u.rows[k] = t.rows[k]
      /\ v = Overwritten(t, r, x, text)
      /\ n <= w => At(u, y, n)
  <2> HIDE DEF text
  <2>1. x + Width(text) <= w + 1
    BY <1>2 DEF g
  <2> DEFINE z == Write(t, text)
  <2>2. /\ Grid(z, h, w) /\ z.pen = t.pen /\ z.region = t.region
        /\ \A k \in 1 .. h : k # y => z.rows[k] = t.rows[k]
        /\ z.rows[y] = Overwritten(t, r, x, text)
        /\ x + Width(text) <= w => At(z, y, x + Width(text))
    <3> HIDE DEF r, u
    <3>1. r = t.rows[y]
      BY DEF r
    <3>2. /\ Grid(z, h, w) /\ z.pen = t.pen /\ z.region = t.region
          /\ \A k \in 1 .. h : k # y => z.rows[k] = t.rows[k]
          /\ z.rows[y] = Overwritten(t, t.rows[y], x, text)
          /\ x + Width(text) <= w => At(z, y, x + Width(text))
      BY <1>0, <2>1, WriteIs
    <3> QED
      BY <3>1, <3>2
  <2> HIDE DEF z, u
  <2> QED
    BY <1>2, <1>4, <2>2 DEF z, g
<1>6. /\ v[x] = a
      /\ row[x].wide => v[x + 1] = b
      /\ n \in 1 .. w => v[n] = IF r[n].spacer THEN e ELSE r[n]
      /\ \A k \in 1 .. w : k > n => v[k] = r[k]
      /\ \A k \in 1 .. w : k < x => v[k] = IF k + 1 = x /\ r[k].wide THEN e ELSE r[k]
  <2>1. Parts(v, r, w, x, g, a, b, e)
    <3> DEFINE a2 == Cell(text, Width(text) = 2, FALSE, t.pen)
               b2 == Cell("", FALSE, TRUE, t.pen)
    <3>1. Parts(Overwritten(t, r, x, text), r, w, x, Width(text), a2, b2, Erased(t))
      <4> HIDE DEF r, text
      <4> QED
        BY <1>0, OverwrittenIs, Zenon
    <3>2. a2 = a
      <4>1. (Width(text) = 2) = row[x].wide
        BY <1>1 DEF g
      <4> QED
        BY <1>0, <4>1, Zenon
    <3>3. b2 = b
      BY <1>0, Zenon
    <3> HIDE DEF v, a, b, a2, b2, r
    <3> QED
      BY <1>5, <3>1, <3>2, <3>3, Zenon DEF g
  <2>2. row[x].wide => g = 2 /\ x + 1 \in 1 .. w
    BY <1>1
  <2> HIDE DEF v, a, b, e, r
  <2> QED
    BY <1>2, <2>1, <2>2 DEF Parts
<1> HIDE DEF u, text, r, v
<1>7. Rendered(a, row, x) /\ (row[x].wide => Rendered(b, row, x + 1))
  BY <1>0, WrittenRendered DEF text, Clear
<1>8. ASSUME NEW k \in 1 .. w, k < n PROVE Rendered(v[k], row, k)
  <2>1. CASE k < x
    <3>1. Rendered(r[k], row, k)
      BY <2>1 DEF Done, r
    <3>2. ~(k + 1 = x /\ r[k].wide)
      <4> SUFFICES ASSUME k + 1 = x, r[k].wide PROVE FALSE
        OBVIOUS
      <4>1. x > 1 /\ x - 1 = k
        BY <1>2
      <4>2. ~row[k].wide /\ r[k].wide = row[k].wide
        BY <3>1, <4>1 DEF Rendered, Clear
      <4> QED
        BY <4>2
    <3>3. v[k] = r[k]
      BY <1>6, <2>1, <3>2
    <3> QED
      BY <3>1, <3>3
  <2>2. CASE k = x
    BY <1>6, <1>7, <2>2
  <2>3. CASE k > x
    <3>1. row[x].wide /\ k = x + 1
      BY <1>1, <1>2, <1>8, <2>3
    <3> QED
      BY <1>6, <1>7, <3>1
  <2> QED
    BY <1>2, <2>1, <2>2, <2>3
<1>9. Blank(e)
  BY DEF Blank, Erased, Cell
<1>10. Ready(u, h, w, y, n, style)
  BY <1>0, <1>5 DEF Ready
<1>11. Done(u, y, row, n, w)
  BY <1>8 DEF Done, v
<1>12. OtherRows(t, u, y, h)
  BY <1>5 DEF OtherRows
<1>13. n \in 1 .. w => Beside(v[n], r[n])
  BY <1>6, <1>9 DEF Beside
<1>14. n \in 1 .. w + 1
  BY <1>0, <1>2
<1>15. \A k \in 1 .. w : k > n => v[k] = r[k]
  BY <1>6
<1>16. Written(t, u, h, w, y, row, n)
  BY <1>2, <1>3, <1>11, <1>12, <1>13, <1>14, <1>15, Zenon DEF Written, v, r
<1> QED
  BY <1>10, <1>16, Zenon DEF u, n

-----------------------------------------------------------------------------
(* Rows of a full redraw. *)

\* The pen in another style.
LEMMA Restyled ==
    ASSUME NEW t, DOMAIN t = Fields, NEW style \in SUBSET Strings
    PROVE  LET ops == <<ResetStyle>> \o StyleOn(style)
               u == Executed(t, ops)
           IN  /\ ops \in Seq(Drawing)
               /\ DOMAIN u = Fields /\ u.rows = t.rows /\ u.cursor = t.cursor
               /\ u.wrap = t.wrap /\ u.region = t.region /\ u.pen = style
<1> DEFINE v == Execute(t, ResetStyle)
           op == <<"sgr", style>>
           ops == <<ResetStyle>> \o StyleOn(style)
<1>1. /\ DOMAIN v = Fields /\ v.rows = t.rows /\ v.cursor = t.cursor
      /\ v.wrap = t.wrap /\ v.region = t.region /\ v.pen = {}
  <2>1. Dips(t, ResetStyle, {})
    BY DEF Dips
  <2> QED
    BY <2>1, PenIs
<1>2. CASE style = {}
  <2>1. ops = <<ResetStyle>>
    BY <1>2 DEF StyleOn
  <2> HIDE DEF ops
  <2>2. Executed(t, ops) = v
    BY <2>1, ExecutedOne
  <2>3. ops \in Seq(Drawing)
    BY <2>1, DrawingOps
  <2> HIDE DEF v
  <2> QED
    BY <1>1, <1>2, <2>2, <2>3 DEF ops
<1>3. CASE style # {}
  <2> DEFINE w == Execute(v, op)
  <2>1. op \in Drawing
    BY DEF Drawing, Styles
  <2>2. /\ DOMAIN w = Fields /\ w.rows = v.rows /\ w.cursor = v.cursor
        /\ w.wrap = v.wrap /\ w.region = v.region /\ w.pen = style
    <3> HIDE DEF v
    <3>1. Dips(v, op, style)
      <4>1. style = v.pen \cup style
        BY <1>1
      <4> QED
        BY <4>1 DEF Dips
    <3> HIDE DEF op
    <3> QED
      BY <1>1, <3>1, PenIs
  <2> DEFINE p == <<ResetStyle>>
             q == <<op>>
  <2>3. ops = p \o q
    BY <1>3, Zenon DEF StyleOn
  <2>4. p \in Seq(Drawing) /\ q \in Seq(Drawing)
    BY <2>1, DrawingOps
  <2>5. Executed(t, p) = v /\ Executed(v, q) = w
    BY ExecutedOne
  <2> HIDE DEF ops, op, p, q, v, w
  <2>6. \A b \in Seq(Drawing) : Executed(t, p \o b) = Executed(Executed(t, p), b)
    BY <2>4, ExecutedConcat
  <2>7. Executed(t, ops) = w
    BY <2>3, <2>4, <2>5, <2>6, Zenon
  <2>8. ops \in Seq(Drawing)
    BY <2>3, <2>4
  <2> QED
    BY <1>1, <2>2, <2>7, <2>8 DEF ops
<1> QED
  BY <1>2, <1>3

\* The terminal while a row is redrawn.
RedrawInv(t, st, row, y, h, w) ==
    LET u == Executed(t, st.out)
    IN  /\ st.next \in 1 .. w + 1
        /\ Ready(u, h, w, y, st.next, st.style) /\ Done(u, y, row, st.next, w)
        /\ OtherRows(t, u, y, h)
        /\ Clear(row, st.next)

LEMMA RedrawCellShows ==
    ASSUME NEW t, NEW h, NEW w, NEW y \in 1 .. h, NEW row, ProperRow(row, w),
           NEW st \in RedrawState, RedrawInv(t, st, row, y, h, w),
           st.next \in 1 .. w
    PROVE  LET x == st.next
               new == RedrawCell(row, st, x)
           IN  /\ RedrawInv(t, new, row, y, h, w)
               /\ new.next = After(row, x)
<1> DEFINE x == st.next
           style == row[x].style
           restyle == <<ResetStyle>> \o StyleOn(style)
           a == IF style = st.style THEN <<>> ELSE restyle
           op == Text(row[x])
           b == <<op>>
           next == After(row, x)
           out == st.out \o a \o b
           new == RedrawCell(row, st, x)
           u == Executed(t, st.out)
           v == Executed(u, a)
           z == Execute(v, op)
<1>1. new = [next |-> next, style |-> style, out |-> out]
  BY DEF RedrawCell, After
<1>2. /\ Grid(u, h, w) /\ u.pen = st.style /\ At(u, y, x)
      /\ Done(u, y, row, x, w) /\ OtherRows(t, u, y, h) /\ DOMAIN u = Fields
      /\ Clear(row, x)
  <2>1. x <= w
    OBVIOUS
  <2> HIDE DEF u
  <2> QED
    BY <2>1 DEF RedrawInv, Ready, u, Grid
<1>3. w \in Nat /\ row[x] \in Cells /\ style \in SUBSET Strings
  <2>1. w \in Nat
    BY <1>2 DEF Grid
  <2> QED
    BY <2>1, RowFacts
<1>4. st.out \in Seq(Ops) /\ a \in Seq(Ops) /\ b \in Seq(Ops)
  <2>1. Drawing \subseteq Ops
    BY DEF Ops
  <2>2. st.out \in Seq(Drawing)
    BY DEF RedrawState
  <2>3. restyle \in Seq(Drawing)
    BY <1>2, <1>3, Restyled
  <2>4. op \in Drawing
    BY <1>3, DrawingOps
  <2> HIDE DEF op, restyle
  <2> QED
    BY <2>1, <2>2, <2>3, <2>4
<1>5. /\ DOMAIN v = Fields /\ v.rows = u.rows /\ v.cursor = u.cursor
      /\ v.wrap = u.wrap /\ v.region = u.region /\ v.pen = style
  <2>1. CASE style = st.style
    <3>1. v = u
      BY <2>1, ExecutedOne
    <3> HIDE DEF u, v
    <3> QED
      BY <1>2, <2>1, <3>1
  <2>2. CASE style # st.style
    <3> HIDE DEF u
    <3> DEFINE v2 == Executed(u, restyle)
    <3>1. /\ DOMAIN v2 = Fields /\ v2.rows = u.rows /\ v2.cursor = u.cursor
          /\ v2.wrap = u.wrap /\ v2.region = u.region /\ v2.pen = style
      BY <1>2, <1>3, Restyled
    <3>2. v = v2
      BY <2>2
    <3> HIDE DEF v, v2
    <3> QED
      BY <3>1, <3>2
  <2> QED
    BY <2>1, <2>2
<1>6. Executed(t, out) = z
  <2>1. st.out \o a \in Seq(Ops) /\ Executed(t, st.out \o a) = v
    <3> DEFINE o == st.out
    <3>1. o \in Seq(Ops) /\ a \in Seq(Ops) /\ u = Executed(t, o) /\ v = Executed(u, a)
      BY <1>4
    <3> HIDE DEF a, o, u, v
    <3>2. o \o a \in Seq(Ops) /\ Executed(t, o \o a) = v
      BY <3>1, ExecutedChain
    <3> QED
      BY <3>2 DEF o
  <2> DEFINE sa == st.out \o a
  <2>2. sa \in Seq(Ops) /\ Executed(t, sa) = v /\ out = sa \o b
    BY <2>1
  <2> HIDE DEF sa, v, out, b
  <2>3. Executed(t, out) = Executed(v, b)
    BY <1>4, <2>2, ExecutedChain
  <2>4. Executed(v, b) = z
    BY ExecutedOne DEF b
  <2> QED
    BY <2>3, <2>4
<1>x. x \in 1 .. w
  OBVIOUS
<1> HIDE DEF x, a, b, op, u, v, restyle, out
<1>7. Ready(v, h, w, y, x, style) /\ Done(v, y, row, x, w) /\ OtherRows(t, v, y, h)
  BY <1>2, <1>5 DEF Ready, Grid, Done, OtherRows, At
<1>8. Ready(z, h, w, y, next, style) /\ Written(v, z, h, w, y, row, next)
  <2> DEFINE z2 == Execute(v, Text(row[x]))
  <2>1. Ready(z2, h, w, y, next, style) /\ Written(v, z2, h, w, y, row, next)
    BY <1>x, <1>2, <1>7, WriteRendered
  <2>2. z2 = z
    BY DEF op
  <2> QED
    BY <2>1, <2>2
<1>9. OtherRows(t, z, y, h)
  BY <1>7, <1>8 DEF OtherRows, Written
<1> HIDE DEF next, new, z
<1>10. new.next = next /\ new.style = style /\ Executed(t, new.out) = z
  BY <1>1, <1>6
<1>11. RedrawInv(t, new, row, y, h, w)
  BY <1>8, <1>9, <1>10 DEF RedrawInv, Written
<1> QED
  BY <1>10, <1>11 DEF x, next, new

\* A row of the terminal is the frame's.
RowDone(t, y, row, w) == \A k \in 1 .. w : Rendered(t.rows[y][k], row, k)

LEMMA RedrawRowShows ==
    ASSUME NEW t, NEW h, NEW w, Grid(t, h, w), t.pen = {},
           NEW rows \in Seq(Seq(Cells)), NEW y \in DOMAIN rows, y \in 1 .. h,
           ProperRow(rows[y], w)
    PROVE  LET u == Executed(t, RedrawRow(rows, y))
           IN  /\ Grid(u, h, w) /\ u.pen = {} /\ RowDone(u, y, rows[y], w)
               /\ OtherRows(t, u, y, h)
<1> DEFINE row == rows[y]
<1>0. Len(row) = w /\ w \in Nat \ {0} /\ h \in Nat /\ DOMAIN t = Fields /\ y \in Nat
  <2>1. Len(row) = w /\ w \in Nat \ {0} /\ h \in Nat /\ DOMAIN t = Fields
    BY Zenon DEF ProperRow, Grid
  <2> QED
    BY <2>1
<1>1. ProperRow(row, w)
  OBVIOUS
<1> HIDE DEF row
<1>2. PICK st :
        /\ st[0] = [next |-> 1, style |-> {}, out |-> <<Cup(y, 1)>>]
        /\ \A x \in 1 .. Len(row) : st[x] = RedrawCell(row, st[x - 1], x)
        /\ \A x \in 0 .. Len(row) : st[x] \in RedrawState
        /\ RedrawRow(rows, y) =
               st[Len(row)].out \o (IF st[Len(row)].style = {} THEN <<>> ELSE <<ResetStyle>>)
  BY RedrawPasses, Zenon DEF row
<1> DEFINE P == {k \in Nat : k <= w => /\ RedrawInv(t, st[k], row, y, h, w)
                                       /\ st[k].next \in {k + 1, k + 2}}
<1>3. 0 \in P
  <2> DEFINE op == Cup(y, 1)
             u == Execute(t, op)
             s == st[0]
  <2>1. s.next = 1 /\ s.style = {} /\ s.out = <<op>>
    BY <1>2
  <2>2. Executed(t, s.out) = u
    BY <2>1, ExecutedOne
  <2>3. Grid(u, h, w) /\ u.rows = t.rows /\ u.pen = {} /\ u.region = t.region /\ At(u, y, 1)
    <3>1. 1 \in 1 .. w /\ 1 \in Nat
      BY <1>0
    <3>2. Moved(t, u, h, w) /\ At(u, y, 1)
      BY <1>0, <3>1, CupIs, Zenon
    <3> QED
      BY <3>2 DEF Moved
  <2> HIDE DEF u, s, op
  <2>4. Ready(u, h, w, y, 1, {}) /\ Done(u, y, row, 1, w) /\ OtherRows(t, u, y, h)
    BY <2>3 DEF Ready, Done, OtherRows
  <2>5. Clear(row, 1) /\ 1 \in 1 .. w + 1
    BY <1>0 DEF Clear
  <2>6. RedrawInv(t, s, row, y, h, w)
    BY <2>1, <2>2, <2>4, <2>5 DEF RedrawInv
  <2> QED
    BY <2>1, <2>6 DEF s
<1>4. ASSUME NEW k \in P PROVE k + 1 \in P
  <2> DEFINE x == k + 1
             s == st[k]
             new == st[x]
  <2> SUFFICES ASSUME x <= w
               PROVE  RedrawInv(t, new, row, y, h, w) /\ new.next \in {x + 1, x + 2}
    OBVIOUS
  <2>1. /\ k \in Nat /\ x \in 1 .. w /\ x - 1 = k /\ k \in 0 .. w
        /\ RedrawInv(t, s, row, y, h, w) /\ (s.next = x \/ s.next = x + 1)
    BY <1>0
  <2>2. new = RedrawCell(row, s, x) /\ s \in RedrawState
    <3> HIDE DEF x
    <3>1. st[x] = RedrawCell(row, st[x - 1], x) /\ st[k] \in RedrawState
      BY <1>0, <1>2, <2>1
    <3> QED
      BY <2>1, <3>1
  <2> HIDE DEF x, s, new, P
  <2>3. CASE s.next = x
    <3> DEFINE z == RedrawCell(row, s, s.next)
    <3>1. /\ RedrawInv(t, z, row, y, h, w)
          /\ z.next = After(row, s.next)
      <4>1. s.next \in 1 .. w
        BY <2>1, <2>3
      <4>2. s \in RedrawState /\ RedrawInv(t, s, row, y, h, w)
        BY <2>1, <2>2
      <4> QED
        BY <1>1, <4>1, <4>2, RedrawCellShows
    <3> HIDE DEF z
    <3>2. new = z
      BY <2>2, <2>3 DEF z
    <3> QED
      BY <2>3, <3>1, <3>2 DEF After
  <2>4. CASE s.next # x
    <3>1. new = s
      BY <2>2, <2>4 DEF RedrawCell
    <3> QED
      BY <2>1, <2>4, <3>1
  <2> QED
    BY <2>3, <2>4
<1> HIDE DEF P
<1>5. P = Nat
  BY <1>3, <1>4, SetInduction DEF P
<1> DEFINE end == st[w]
           a == end.out
           b == IF end.style = {} THEN <<>> ELSE <<ResetStyle>>
           u == Executed(t, a)
           v == Executed(u, b)
<1>6. RedrawInv(t, end, row, y, h, w) /\ (end.next = w + 1 \/ end.next = w + 2)
  BY <1>0, <1>5 DEF P
<1>7. Executed(t, RedrawRow(rows, y)) = v
  <2>1. end \in RedrawState /\ RedrawRow(rows, y) = a \o b
    BY <1>0, <1>2
  <2>2. a \in Seq(Drawing)
    BY <2>1 DEF RedrawState
  <2>3. b \in Seq(Drawing)
    BY DrawingOps
  <2> HIDE DEF a, b
  <2>4. a \in Seq(Ops) /\ b \in Seq(Ops)
    BY <2>2, <2>3 DEF Ops
  <2>5. Executed(t, a \o b) = Executed(Executed(t, a), b)
    BY <2>4, ExecutedChain
  <2> QED
    BY <2>1, <2>5
<1>8. end.next = w + 1 /\ Grid(u, h, w) /\ u.pen = end.style /\ Done(u, y, row, w + 1, w)
      /\ OtherRows(t, u, y, h)
  <2> HIDE DEF end
  <2>1. end.next \in 1 .. w + 1
    BY <1>6 DEF RedrawInv
  <2>2. end.next = w + 1
    BY <1>0, <1>6, <2>1
  <2>3. Ready(u, h, w, y, w + 1, end.style) /\ Done(u, y, row, w + 1, w) /\ OtherRows(t, u, y, h)
    BY <1>6, <2>2 DEF RedrawInv
  <2> HIDE DEF u
  <2> QED
    BY <2>2, <2>3 DEF Ready
<1>9. DOMAIN v = Fields /\ v.rows = u.rows /\ v.region = u.region /\ v.pen = {}
  <2>1. CASE end.style = {}
    <3>1. v = u
      BY <2>1, ExecutedOne
    <3> HIDE DEF u, v
    <3> QED
      BY <1>8, <2>1, <3>1 DEF Grid
  <2>2. CASE end.style # {}
    <3>1. v = Execute(u, ResetStyle)
      BY <2>2, ExecutedOne
    <3> HIDE DEF u, v
    <3>2. Dips(u, ResetStyle, {}) /\ DOMAIN u = Fields
      BY <1>8 DEF Dips, Grid
    <3> DEFINE z == Execute(u, ResetStyle)
    <3>3. DOMAIN z = Fields /\ z.rows = u.rows /\ z.region = u.region /\ z.pen = {}
      BY <3>2, PenIs
    <3> HIDE DEF z
    <3> QED
      BY <3>1, <3>3 DEF z
  <2> QED
    BY <2>1, <2>2
<1> HIDE DEF u, v, end
<1>10. RowDone(v, y, row, w)
  <2>1. \A k \in 1 .. w : k < w + 1
    BY <1>0
  <2> QED
    BY <1>8, <1>9, <2>1 DEF Done, RowDone
<1>11. Grid(v, h, w) /\ OtherRows(t, v, y, h)
  BY <1>8, <1>9 DEF Grid, OtherRows
<1> QED
  BY <1>7, <1>9, <1>10, <1>11 DEF row

-----------------------------------------------------------------------------
(* Rows of a diff. *)

LEMMA AfterFacts ==
    ASSUME NEW row, NEW w \in Nat, ProperRow(row, w), NEW x \in 1 .. w
    PROVE  /\ After(row, x) \in 1 .. w + 1 /\ After(row, x) \in {x + 1, x + 2}
           /\ Clear(row, After(row, x))
<1> DEFINE n == After(row, x)
<1>1. CASE row[x].wide
  <2>1. x + 1 \in 1 .. w /\ row[x + 1].wide = FALSE
    BY <1>1, RowFacts
  <2>2. n = x + 2 /\ n - 1 = x + 1
    BY <1>1 DEF After
  <2> HIDE DEF n
  <2>3. Clear(row, n)
    BY <2>1, <2>2 DEF Clear
  <2>4. n \in 1 .. w + 1 /\ n \in {x + 1, x + 2}
    BY <2>1, <2>2
  <2> QED
    BY <2>3, <2>4 DEF n
<1>2. CASE ~row[x].wide
  <2>1. n = x + 1 /\ n - 1 = x
    BY <1>2 DEF After
  <2> HIDE DEF n
  <2>2. Clear(row, n)
    BY <1>2, <2>1 DEF Clear
  <2>3. n \in 1 .. w + 1 /\ n \in {x + 1, x + 2}
    BY <2>1
  <2> QED
    BY <2>2, <2>3 DEF n
<1> QED
  BY <1>1, <1>2

\* What the loop finds in the next column: the old cell, or the blank that is left
\* of the second half of a glyph that is gone.
Found(cell, old_row, n) ==
    IF Clear(old_row, n) THEN Rendered(cell, old_row, n) ELSE Blank(cell)

LEMMA BesideFound ==
    ASSUME NEW old_row, NEW w \in Nat, ProperRow(old_row, w), NEW n \in 1 .. w, n > 1,
           NEW was, Rendered(was, old_row, n), NEW cell, Beside(cell, was)
    PROVE  Found(cell, old_row, n)
<1>1. was.spacer <=> (old_row[n].spacer /\ ~LeftFree(old_row, n))
  BY Zenon DEF Rendered
<1>2. CASE Clear(old_row, n)
  <2>1. ~was.spacer
    BY <1>1, <1>2 DEF LeftFree, Clear
  <2>2. cell = was
    BY <2>1, Zenon DEF Beside
  <2> QED
    BY <1>2, <2>2, Zenon DEF Found
<1>3. CASE ~Clear(old_row, n)
  <2>1. n - 1 \in 1 .. w /\ (n - 1) + 1 = n
    OBVIOUS
  <2>2. old_row[n - 1].wide
    BY <1>3 DEF Clear
  <2>3. old_row[n].spacer
    BY <2>1, <2>2, RowFacts
  <2>4. was.spacer
    BY <1>1, <2>2, <2>3 DEF LeftFree
  <2>5. Blank(cell)
    BY <2>4, Zenon DEF Beside
  <2> QED
    BY <1>3, <2>5, Zenon DEF Found
<1> QED
  BY <1>2, <1>3

\* An unchanged column needs nothing to be written.
LEMMA UnchangedRendered ==
    ASSUME NEW old_row, NEW row, NEW w \in Nat, ProperRow(old_row, w), ProperRow(row, w),
           NEW x \in 1 .. w, old_row[x] = row[x], Clear(row, x), NEW cell,
           Found(cell, old_row, x)
    PROVE  Rendered(cell, row, x)
<1>1. row[x].spacer => LeftFree(row, x)
  BY DEF LeftFree, Clear
<1>2. CASE Clear(old_row, x)
  <2>1. Rendered(cell, old_row, x)
    BY <1>2, Zenon DEF Found
  <2>2. LeftFree(row, x) <=> LeftFree(old_row, x)
    BY <1>2 DEF LeftFree, Clear
  <2> QED
    BY <2>1, <2>2, Zenon DEF Rendered
<1>3. CASE ~Clear(old_row, x)
  <2>1. Blank(cell)
    BY <1>3, Zenon DEF Found
  <2> DEFINE k == x - 1
  <2>2. k \in 1 .. w /\ k + 1 = x /\ old_row[k].wide
    BY <1>3 DEF Clear
  <2> HIDE DEF k
  <2>3. /\ old_row[k + 1].spacer /\ old_row[k + 1].wide = FALSE
        /\ old_row[k + 1].text = ""
    BY <2>2, RowFacts
  <2>4. row[x].spacer /\ row[x].wide = FALSE /\ row[x].text = "" /\ LeftFree(row, x)
    BY <1>1, <2>2, <2>3
  <2>5. /\ DOMAIN cell = {"text", "wide", "spacer", "style"}
        /\ cell.text = "" /\ cell.wide = FALSE /\ cell.spacer = FALSE
        /\ cell.style \subseteq {"background"}
    BY <2>1, Zenon DEF Blank
  <2>6. cell.spacer = (row[x].spacer /\ ~LeftFree(row, x))
    BY <2>4, <2>5, Zenon
  <2>7. Blanked(cell.text) = Blanked(row[x].text) /\ cell.wide = row[x].wide
    BY <2>4, <2>5, Zenon
  <2> QED
    BY <2>4, <2>5, <2>6, <2>7 DEF Rendered
<1> QED
  BY <1>2, <1>3

\* So is the second half of an unchanged glyph.
LEMMA UnchangedHalf ==
    ASSUME NEW old_row, NEW row, NEW w \in Nat, ProperRow(old_row, w), ProperRow(row, w),
           NEW x \in 1 .. w, old_row[x] = row[x], row[x].wide, NEW cell,
           Rendered(cell, old_row, x + 1)
    PROVE  Rendered(cell, row, x + 1)
<1> DEFINE k == x + 1
<1>1. /\ row[k].spacer /\ row[k].style = row[x].style
      /\ row[k].wide = FALSE /\ row[k].text = ""
  BY RowFacts
<1>2. /\ old_row[k].spacer /\ old_row[k].style = row[x].style
      /\ old_row[k].wide = FALSE /\ old_row[k].text = ""
  <2>1. old_row[x].wide /\ old_row[x].style = row[x].style
    OBVIOUS
  <2> QED
    BY <2>1, RowFacts
<1>3. k - 1 = x /\ k # 1
  OBVIOUS
<1> HIDE DEF k
<1>4. ~LeftFree(row, k) /\ ~LeftFree(old_row, k)
  BY <1>3, Zenon DEF LeftFree
<1>5. Rendered(cell, old_row, k)
  BY DEF k
<1>6. Rendered(cell, row, k)
  BY <1>1, <1>2, <1>4, <1>5, Zenon DEF Rendered
<1> QED
  BY <1>6 DEF k

\* The columns of a row from n on are still those of the old frame.
Rest(t, y, old_row, n, w) ==
    /\ \A k \in 1 .. w : k > n => Rendered(t.rows[y][k], old_row, k)
    /\ n \in 1 .. w => Found(t.rows[y][n], old_row, n)

\* The terminal while a row is brought from one frame's to the other's.
DiffInv(t, st, old_row, row, y, h, w) ==
    LET u == Executed(t, st.out)
    IN  /\ st.next \in 1 .. w + 1
        /\ Grid(u, h, w) /\ u.pen = st.pen
        /\ Done(u, y, row, st.next, w) /\ Rest(u, y, old_row, st.next, w)
        /\ OtherRows(t, u, y, h) /\ Clear(row, st.next)
        /\ st.pos # 0 /\ st.next <= w => st.pos = st.next /\ At(u, y, st.next)

\* After a column that changed.
LEMMA ChangedColumn ==
    ASSUME NEW t, NEW h, NEW w, NEW y \in 1 .. h, NEW x \in 1 .. w, NEW row, NEW old_row,
           ProperRow(row, w), ProperRow(old_row, w), Ready(t, h, w, y, x, row[x].style),
           Done(t, y, row, x, w), Rest(t, y, old_row, x, w), Clear(row, x)
    PROVE  LET u == Execute(t, Text(row[x]))
               n == After(row, x)
           IN  /\ Ready(u, h, w, y, n, row[x].style) /\ Done(u, y, row, n, w)
               /\ OtherRows(t, u, y, h) /\ Rest(u, y, old_row, n, w)
<1> DEFINE u == Execute(t, Text(row[x]))
           n == After(row, x)
<1>0. w \in Nat
  BY DEF Ready, Grid
<1>1. /\ Ready(u, h, w, y, n, row[x].style) /\ Written(t, u, h, w, y, row, n)
      /\ n \in 1 .. w + 1 /\ (n = x + 1 \/ n = x + 2)
  BY <1>0, WriteRendered, AfterFacts
<1> HIDE DEF n
<1> HIDE DEF u
<1>2. ASSUME NEW k \in 1 .. w, k > n PROVE Rendered(u.rows[y][k], old_row, k)
  <2>1. k > x
    BY <1>0, <1>1, <1>2
  <2>2. Rendered(t.rows[y][k], old_row, k)
    BY <2>1 DEF Rest
  <2> QED
    BY <1>1, <1>2, <2>2 DEF Written
<1>3. ASSUME n \in 1 .. w PROVE Found(u.rows[y][n], old_row, n)
  <2>1. Rendered(t.rows[y][n], old_row, n)
    BY <1>1, <1>3 DEF Rest
  <2>2. Beside(u.rows[y][n], t.rows[y][n]) /\ n > 1
    BY <1>0, <1>1, <1>3 DEF Written
  <2> QED
    BY <1>0, <1>3, <2>1, <2>2, BesideFound
<1>4. Rest(u, y, old_row, n, w)
  BY <1>2, <1>3 DEF Rest
<1> QED
  BY <1>1, <1>4 DEF u, n, Written

\* After one that did not.
LEMMA UnchangedColumn ==
    ASSUME NEW t, NEW y, NEW w \in Nat, NEW x \in 1 .. w, NEW row, NEW old_row,
           ProperRow(row, w), ProperRow(old_row, w), old_row[x] = row[x],
           Done(t, y, row, x, w), Rest(t, y, old_row, x, w), Clear(row, x)
    PROVE  LET n == After(row, x)
           IN  Done(t, y, row, n, w) /\ Rest(t, y, old_row, n, w)
<1> DEFINE n == After(row, x)
           r == t.rows[y]
<1>1. n \in 1 .. w + 1 /\ (n = x + 1 \/ n = x + 2) /\ Clear(row, n)
  BY AfterFacts
<1>2. n = x + 2 => row[x].wide /\ x + 1 \in 1 .. w
  <2>1. n = x + 2 => row[x].wide
    BY DEF After
  <2> QED
    BY <2>1, RowFacts
<1>3. Clear(old_row, n)
  <2>1. After(old_row, x) = n
    BY DEF After
  <2>2. Clear(old_row, After(old_row, x))
    BY AfterFacts
  <2> QED
    BY <2>1, <2>2, Zenon
<1> HIDE DEF n, r
<1>4. ASSUME NEW k \in 1 .. w, k < n PROVE Rendered(r[k], row, k)
  <2>1. CASE k < x
    BY <2>1 DEF Done, r
  <2>2. CASE k = x
    <3>1. Found(r[x], old_row, x)
      BY DEF Rest, r
    <3> QED
      BY <2>2, <3>1, UnchangedRendered
  <2>3. CASE k = x + 1
    <3>1. row[x].wide
      BY <1>1, <1>2, <1>4, <2>3
    <3>2. Rendered(r[k], old_row, k)
      BY <2>3 DEF Rest, r
    <3> DEFINE cell == r[k]
    <3>3. Rendered(cell, old_row, x + 1)
      BY <2>3, <3>2
    <3> HIDE DEF cell
    <3>4. Rendered(cell, row, x + 1)
      BY <3>1, <3>3, UnchangedHalf
    <3> QED
      BY <2>3, <3>4 DEF cell
  <2> QED
    BY <1>1, <1>4, <2>1, <2>2, <2>3
<1>5. ASSUME NEW k \in 1 .. w, k > n \/ k = n PROVE Rendered(r[k], old_row, k)
  <2>1. k > x
    BY <1>1, <1>5
  <2> QED
    BY <2>1 DEF Rest, r
<1>6. n \in 1 .. w => Found(r[n], old_row, n)
  BY <1>3, <1>5 DEF Found
<1> QED
  BY <1>4, <1>5, <1>6 DEF Done, Rest, r, n

\* The pen in the style of the cell, the cursor on it.
LEMMA RestyledAt ==
    ASSUME NEW t, NEW h, NEW w, Grid(t, h, w), NEW y \in Nat, NEW x \in Nat,
           y \in 1 .. h, x \in 1 .. w, NEW style \in SUBSET Strings
    PROVE  LET ops == <<Cup(y, x), ResetStyle>> \o StyleOn(style)
               u == Executed(t, ops)
           IN  /\ ops \in Seq(Ops)
               /\ Grid(u, h, w) /\ u.rows = t.rows /\ u.region = t.region
               /\ u.pen = style /\ At(u, y, x)
<1> DEFINE cup == Cup(y, x)
           p == <<cup>>
           q == <<ResetStyle>> \o StyleOn(style)
           ops == <<Cup(y, x), ResetStyle>> \o StyleOn(style)
           v == Execute(t, cup)
           u == Executed(v, q)
<1>1. Moved(t, v, h, w) /\ At(v, y, x)
  BY CupIs
<1>2. DOMAIN v = Fields
  BY <1>1 DEF Moved, Grid
<1>3. cup \in Ops
  BY DrawingOps DEF Ops
<1> HIDE DEF v
<1>4. /\ q \in Seq(Drawing) /\ DOMAIN u = Fields /\ u.rows = v.rows /\ u.cursor = v.cursor
      /\ u.wrap = v.wrap /\ u.region = v.region /\ u.pen = style
  BY <1>2, Restyled
<1>5. ops = p \o q
  <2> DEFINE tail == StyleOn(style)
  <2>1. tail \in Seq(Drawing) /\ ResetStyle \in Drawing /\ cup \in Drawing
    BY DrawingOps
  <2> HIDE DEF tail, cup
  <2>2. <<cup, ResetStyle>> \o tail = <<cup>> \o (<<ResetStyle>> \o tail)
    BY <2>1
  <2> QED
    BY <2>2 DEF tail, cup
<1> HIDE DEF cup
<1>6. p \in Seq(Ops) /\ Executed(t, p) = v
  BY <1>3, ExecutedOne DEF v
<1>7. q \in Seq(Ops)
  BY <1>4 DEF Ops
<1> HIDE DEF p, q, ops
<1>8. p \o q \in Seq(Ops) /\ Executed(t, p \o q) = Executed(v, q)
  BY <1>6, <1>7, ExecutedChain
<1> HIDE DEF u
<1>9. Grid(u, h, w) /\ u.rows = t.rows /\ u.region = t.region /\ u.pen = style /\ At(u, y, x)
  BY <1>1, <1>4 DEF Moved, Grid, At
<1> QED
  BY <1>5, <1>8, <1>9 DEF u, ops

LEMMA DiffCellShows ==
    ASSUME NEW t, NEW h, NEW w, NEW y \in 1 .. h, NEW row, NEW old_row,
           ProperRow(row, w), ProperRow(old_row, w),
           NEW st \in DiffState, DiffInv(t, st, old_row, row, y, h, w),
           st.next \in 1 .. w
    PROVE  LET x == st.next
               new == DiffCell(y, old_row, row, st, x)
           IN  /\ DiffInv(t, new, old_row, row, y, h, w)
               /\ new.next = After(row, x)
<1> DEFINE x == st.next
           cell == row[x]
           style == cell.style
           changed == old_row[x] # cell
           restyle == st.pen # style
           at == IF restyle THEN x ELSE st.pos
           cup == Cup(y, x)
           op == Text(cell)
           a == IF restyle THEN <<cup, ResetStyle>> \o StyleOn(style) ELSE <<>>
           b == IF changed /\ at # x THEN <<cup>> ELSE <<>>
           c == IF changed THEN <<op>> ELSE <<>>
           out == st.out \o a \o b \o c
           new == DiffCell(y, old_row, row, st, x)
           next == After(row, x)
           pos == IF ~changed THEN 0 ELSE next
           u == Executed(t, st.out)
           ua == Executed(u, a)
           ub == Executed(ua, b)
           uc == Executed(ub, c)
<1>x. x \in 1 .. w
  OBVIOUS
<1>1. /\ Grid(u, h, w) /\ u.pen = st.pen /\ Done(u, y, row, x, w)
      /\ Rest(u, y, old_row, x, w) /\ OtherRows(t, u, y, h) /\ Clear(row, x)
      /\ st.pos # 0 => st.pos = x /\ At(u, y, x)
  <2>1. x <= w
    OBVIOUS
  <2> HIDE DEF u
  <2> QED
    BY <2>1 DEF DiffInv, u
<1>2. /\ w \in Nat /\ h \in Nat /\ x \in Nat /\ y \in Nat /\ cell \in Cells
      /\ style \in SUBSET Strings /\ st.pos \in Nat /\ st.pen \in SUBSET Strings
      /\ st.out \in Seq(Ops)
  <2>1. w \in Nat /\ h \in Nat
    BY <1>1 DEF Grid
  <2>2. st.pos \in Nat /\ st.pen \in SUBSET Strings /\ st.out \in Seq(Drawing)
    BY DEF DiffState
  <2>3. st.out \in Seq(Ops)
    BY <2>2 DEF Ops
  <2>4. cell \in Cells /\ style \in SUBSET Strings
    BY <2>1, RowFacts
  <2> QED
    BY <2>1, <2>2, <2>3, <2>4
<1>3. new = [next |-> next, pen |-> style, pos |-> pos, out |-> out]
  <2>1. OwnsNext(row, x) <=> cell.wide
    <3> HIDE DEF x
    <3>1. Len(row) = w /\ (row[x].wide => x < w)
      BY <1>x, Zenon DEF ProperRow
    <3> QED
      BY <1>2, <3>1 DEF OwnsNext
  <2>2. cell.wide => row[x + 1].style = style
    BY <1>2, RowFacts
  <2> DEFINE n1 == IF OwnsNext(row, x) THEN x + 2 ELSE x + 1
             p1 == IF OwnsNext(row, x) THEN row[x + 1].style ELSE cell.style
             o1 == IF ~changed THEN 0 ELSE IF cell.wide THEN x + 2 ELSE x + 1
  <2>3. new = [next |-> n1, pen |-> p1, pos |-> o1, out |-> out]
    BY Zenon DEF DiffCell
  <2>4. n1 = next /\ o1 = pos
    BY <2>1 DEF After
  <2>5. p1 = style
    BY <2>1, <2>2
  <2> HIDE DEF n1, p1, o1, out, new, next, pos
  <2> QED
    BY <2>3, <2>4, <2>5
<1>4. cup \in Ops /\ op \in Ops
  BY <1>2, DrawingOps DEF Ops
<1>5. /\ a \in Seq(Ops) /\ Grid(ua, h, w) /\ ua.rows = u.rows /\ ua.region = u.region
      /\ ua.pen = style /\ (at = x => At(ua, y, x))
  <2>1. CASE restyle
    <3> DEFINE ops == <<Cup(y, x), ResetStyle>> \o StyleOn(style)
               v == Executed(u, ops)
    <3>1. ua = v /\ a = ops
      BY <2>1
    <3> HIDE DEF u, ua, a, style
    <3>2. /\ ops \in Seq(Ops)
          /\ Grid(v, h, w) /\ v.rows = u.rows /\ v.region = u.region
          /\ v.pen = style /\ At(v, y, x)
      BY <1>1, <1>2, <1>x, RestyledAt
    <3> HIDE DEF ops, v
    <3> QED
      BY <3>1, <3>2
  <2>2. CASE ~restyle
    <3>1. ua = u /\ a = <<>> /\ at = st.pos /\ st.pen = style
      BY <2>2, ExecutedOne
    <3>2. at = x => st.pos # 0
      BY <1>2, <3>1
    <3> HIDE DEF u, ua, a, at
    <3> QED
      BY <1>1, <3>1, <3>2
  <2> QED
    BY <2>1, <2>2
<1>6. b \in Seq(Ops) /\ c \in Seq(Ops)
  <2> HIDE DEF cup, op, changed, at
  <2> QED
    BY <1>4
<1>7. Executed(t, out) = uc
  <2> DEFINE s == st.out
  <2>1. s \in Seq(Ops) /\ u = Executed(t, s)
    BY <1>2
  <2> HIDE DEF s, a, b, c, u, ua, ub, uc
  <2>2. s \o a \in Seq(Ops) /\ Executed(t, s \o a) = ua
    BY <1>5, <2>1, ExecutedChain DEF ua
  <2> DEFINE sa == s \o a
  <2>3. sa \in Seq(Ops) /\ Executed(t, sa) = ua
    BY <2>2
  <2> HIDE DEF sa
  <2>4. sa \o b \in Seq(Ops) /\ Executed(t, sa \o b) = ub
    BY <1>6, <2>3, ExecutedChain DEF ub
  <2> DEFINE sb == sa \o b
  <2>5. sb \in Seq(Ops) /\ Executed(t, sb) = ub
    BY <2>4
  <2> HIDE DEF sb
  <2>6. Executed(t, sb \o c) = uc
    BY <1>6, <2>5, ExecutedChain DEF uc
  <2> QED
    BY <2>6 DEF sb, sa, s
<1>8. /\ Done(ua, y, row, x, w) /\ Rest(ua, y, old_row, x, w) /\ OtherRows(t, ua, y, h)
  BY <1>1, <1>5 DEF Done, Rest, OtherRows
<1>9. /\ Grid(uc, h, w) /\ uc.pen = style /\ Done(uc, y, row, next, w)
      /\ Rest(uc, y, old_row, next, w) /\ OtherRows(t, uc, y, h)
      /\ pos # 0 /\ next <= w => pos = next /\ At(uc, y, next)
  <2>1. CASE ~changed
    <3>1. b = <<>> /\ c = <<>> /\ pos = 0 /\ old_row[x] = row[x]
      BY <2>1
    <3>2. ub = ua /\ uc = ub
      BY <3>1, ExecutedOne
    <3> HIDE DEF ua, ub, uc, b, c, pos, next
    <3>3. Done(ua, y, row, next, w) /\ Rest(ua, y, old_row, next, w)
      BY <1>1, <1>2, <1>x, <1>8, <3>1, UnchangedColumn DEF next
    <3> QED
      BY <1>5, <1>8, <3>1, <3>2, <3>3
  <2>2. CASE changed
    <3>1. c = <<op>> /\ pos = next
      BY <2>2
    <3>2. Moved(ua, ub, h, w) /\ At(ub, y, x)
      <4>1. CASE at # x
        <5>1. b = <<cup>>
          BY <2>2, <4>1
        <5>2. ub = Execute(ua, cup)
          BY <5>1, ExecutedOne
        <5> HIDE DEF ua, ub
        <5> DEFINE v == Execute(ua, Cup(y, x))
        <5>3. Moved(ua, v, h, w) /\ At(v, y, x)
          BY <1>2, <1>5, <1>x, CupIs
        <5> QED
          BY <5>2, <5>3
      <4>2. CASE at = x
        <5>1. b = <<>>
          BY <4>2
        <5>2. ub = ua
          BY <5>1, ExecutedOne
        <5> HIDE DEF ua, ub
        <5> QED
          BY <1>5, <4>2, <5>2 DEF Moved
      <4> QED
        BY <4>1, <4>2
    <3>3. uc = Execute(ub, Text(row[x]))
      BY <3>1, ExecutedOne
    <3> HIDE DEF ua, ub, uc, c, pos, style
    <3>4. /\ Ready(ub, h, w, y, x, style) /\ Done(ub, y, row, x, w)
          /\ Rest(ub, y, old_row, x, w) /\ OtherRows(t, ub, y, h)
      BY <1>5, <1>8, <3>2 DEF Moved, Ready, Done, Rest, OtherRows
    <3> HIDE DEF next
    <3> DEFINE v == Execute(ub, Text(row[x]))
    <3>5. /\ Ready(v, h, w, y, After(row, x), row[x].style)
          /\ Done(v, y, row, After(row, x), w)
          /\ OtherRows(ub, v, y, h) /\ Rest(v, y, old_row, After(row, x), w)
      BY <1>1, <1>x, <3>4, ChangedColumn DEF style
    <3>6. uc = v
      BY <3>3
    <3> HIDE DEF v
    <3>7. /\ Ready(uc, h, w, y, next, style) /\ Done(uc, y, row, next, w)
          /\ OtherRows(ub, uc, y, h) /\ Rest(uc, y, old_row, next, w)
      BY <3>5, <3>6 DEF next, style
    <3>8. OtherRows(t, uc, y, h)
      BY <3>4, <3>7 DEF OtherRows
    <3> QED
      BY <3>1, <3>7, <3>8 DEF Ready
  <2> QED
    BY <2>1, <2>2
<1>10. next \in 1 .. w + 1 /\ Clear(row, next)
  BY <1>2, <1>x, AfterFacts
<1> HIDE DEF new, next, pos, style, out, uc, x
<1>11. /\ new.next = next /\ new.pen = style /\ new.pos = pos
       /\ Executed(t, new.out) = uc
  BY <1>3, <1>7
<1>12. DiffInv(t, new, old_row, row, y, h, w)
  BY <1>9, <1>10, <1>11 DEF DiffInv
<1> QED
  BY <1>11, <1>12 DEF new, next, x

\* A row that was the old frame's is the new one's.
LEMMA DiffRowShows ==
    ASSUME NEW t, NEW h, NEW w, Grid(t, h, w),
           NEW rows \in Seq(Seq(Cells)), NEW y \in DOMAIN rows, y \in 1 .. h, NEW old_rows,
           ProperRow(rows[y], w), ProperRow(old_rows[y], w), RowDone(t, y, old_rows[y], w)
    PROVE  LET u == Executed(t, DiffRow(old_rows, rows, y))
           IN  Grid(u, h, w) /\ RowDone(u, y, rows[y], w) /\ OtherRows(t, u, y, h)
<1> DEFINE row == rows[y]
           old_row == old_rows[y]
<1>0. Len(row) = w /\ w \in Nat \ {0} /\ h \in Nat /\ DOMAIN t = Fields /\ y \in Nat
  <2>1. Len(row) = w /\ w \in Nat \ {0} /\ h \in Nat /\ DOMAIN t = Fields
    BY Zenon DEF ProperRow, Grid
  <2> QED
    BY <2>1
<1>1. ProperRow(row, w) /\ ProperRow(old_row, w) /\ RowDone(t, y, old_row, w)
  OBVIOUS
<1> HIDE DEF row, old_row
<1>e. PICK st : DiffPass(st, y, old_row, row, DiffRow(old_rows, rows, y))
  BY DiffPasses DEF row, old_row
<1>2. /\ st[0] = [next |-> 1, pen |-> {}, pos |-> 0, out |-> <<ResetStyle>>]
      /\ \A x \in 1 .. Len(row) : st[x] = DiffCell(y, old_row, row, st[x - 1], x)
      /\ \A x \in 0 .. Len(row) : st[x] \in DiffState
      /\ DiffRow(old_rows, rows, y) = IF old_row = row THEN <<>> ELSE st[Len(row)].out
  BY <1>e DEF DiffPass
<1>3. CASE old_row = row
  <2>1. Executed(t, DiffRow(old_rows, rows, y)) = t
    BY <1>2, <1>3, ExecutedOne
  <2>2. OtherRows(t, t, y, h)
    BY DEF OtherRows
  <2> QED
    BY <1>1, <1>3, <2>1, <2>2 DEF row
<1>4. CASE old_row # row
  <2> DEFINE P == {k \in Nat : k <= w => /\ DiffInv(t, st[k], old_row, row, y, h, w)
                                         /\ st[k].next \in {k + 1, k + 2}}
  <2>1. 0 \in P
    <3> DEFINE s == st[0]
               u == Execute(t, ResetStyle)
    <3>1. s.next = 1 /\ s.pen = {} /\ s.pos = 0 /\ s.out = <<ResetStyle>>
      BY <1>2
    <3>2. Executed(t, s.out) = u
      BY <3>1, ExecutedOne
    <3>3. Dips(t, ResetStyle, {})
      BY DEF Dips
    <3>4. DOMAIN u = Fields /\ u.rows = t.rows /\ u.region = t.region /\ u.pen = {}
      BY <1>0, <3>3, PenIs
    <3> HIDE DEF u, s
    <3>5. Grid(u, h, w) /\ Done(u, y, row, 1, w) /\ OtherRows(t, u, y, h)
      BY <3>4 DEF Grid, Done, OtherRows
    <3>6. Clear(row, 1) /\ Clear(old_row, 1) /\ 1 \in 1 .. w + 1
      BY <1>0 DEF Clear
    <3>7. Rest(u, y, old_row, 1, w)
      BY <1>1, <3>4, <3>6 DEF Rest, RowDone, Found
    <3>8. DiffInv(t, s, old_row, row, y, h, w)
      BY <3>1, <3>2, <3>4, <3>5, <3>6, <3>7 DEF DiffInv
    <3> QED
      BY <3>1, <3>8 DEF s
  <2>2. ASSUME NEW k \in P PROVE k + 1 \in P
    <3> DEFINE x == k + 1
               s == st[k]
               new == st[x]
    <3> SUFFICES ASSUME x <= w
                 PROVE  DiffInv(t, new, old_row, row, y, h, w) /\ new.next \in {x + 1, x + 2}
      OBVIOUS
    <3>1. /\ k \in Nat /\ x \in 1 .. w /\ x - 1 = k /\ k \in 0 .. w
          /\ DiffInv(t, s, old_row, row, y, h, w) /\ (s.next = x \/ s.next = x + 1)
      BY <1>0
    <3>2. new = DiffCell(y, old_row, row, s, x) /\ s \in DiffState
      <4> HIDE DEF x
      <4>1. st[x] = DiffCell(y, old_row, row, st[x - 1], x) /\ st[k] \in DiffState
        BY <1>0, <1>2, <3>1
      <4> QED
        BY <3>1, <4>1
    <3> HIDE DEF x, s, new, P
    <3>3. CASE s.next = x
      <4> DEFINE z == DiffCell(y, old_row, row, s, s.next)
      <4>1. DiffInv(t, z, old_row, row, y, h, w) /\ z.next = After(row, s.next)
        <5>1. s.next \in 1 .. w
          BY <3>1, <3>3
        <5>2. s \in DiffState /\ DiffInv(t, s, old_row, row, y, h, w)
          BY <3>1, <3>2
        <5> QED
          BY <1>1, <5>1, <5>2, DiffCellShows
      <4> HIDE DEF z
      <4>2. new = z
        BY <3>2, <3>3 DEF z
      <4> QED
        BY <3>3, <4>1, <4>2 DEF After
    <3>4. CASE s.next # x
      <4>1. new = s
        BY <3>2, <3>4 DEF DiffCell
      <4> QED
        BY <3>1, <3>4, <4>1
    <3> QED
      BY <3>3, <3>4
  <2> HIDE DEF P
  <2>3. P = Nat
    BY <2>1, <2>2, SetInduction DEF P
  <2> DEFINE end == st[w]
             u == Executed(t, end.out)
  <2>4. DiffInv(t, end, old_row, row, y, h, w) /\ (end.next = w + 1 \/ end.next = w + 2)
    BY <1>0, <2>3 DEF P
  <2> HIDE DEF end
  <2>5. end.next \in 1 .. w + 1
    BY <2>4 DEF DiffInv
  <2>6. end.next = w + 1
    BY <1>0, <2>4, <2>5
  <2>7. Grid(u, h, w) /\ Done(u, y, row, w + 1, w) /\ OtherRows(t, u, y, h)
    BY <2>4, <2>6 DEF DiffInv
  <2>8. Executed(t, DiffRow(old_rows, rows, y)) = u
    BY <1>0, <1>2, <1>4 DEF end
  <2> HIDE DEF u
  <2>9. RowDone(u, y, row, w)
    <3>1. \A k \in 1 .. w : k < w + 1
      BY <1>0
    <3> QED
      BY <2>7, <3>1 DEF Done, RowDone
  <2> QED
    BY <2>7, <2>8, <2>9 DEF row
<1> QED
  BY <1>3, <1>4

-----------------------------------------------------------------------------
(* Whole screens. *)

\* Sequences joined are executed one after the other.
Pieces(g, t, seqs) ==
    g[0] = t /\ \A i \in 1 .. Len(seqs) : g[i] = Executed(g[i - 1], seqs[i])

LEMMA PiecesRun ==
    ASSUME NEW t, NEW S, NEW seqs \in Seq(Seq(S))
    PROVE  \E g : Pieces(g, t, seqs) /\ g[Len(seqs)] = Executed(t, FlattenSeq(seqs))
<1> DEFINE n == Len(seqs)
           front(k) == SubSeq(seqs, 1, k)
           g == [k \in 0 .. n |-> Executed(t, FlattenSeq(front(k)))]
<1>0. n \in Nat
  OBVIOUS
<1>1. ASSUME NEW k \in 0 .. n
      PROVE  /\ front(k) \in Seq(Seq(S)) /\ Len(front(k)) = k
             /\ \A i \in 1 .. k : front(k)[i] = seqs[i]
  OBVIOUS
<1> HIDE DEF front
<1>2. g[0] = t
  <2>1. front(0) \in Seq(Seq(S)) /\ front(0) = <<>>
    <3>1. front(0) \in Seq(Seq(S)) /\ Len(front(0)) = 0
      BY <1>0, <1>1
    <3> QED
      BY <3>1
  <2>2. FlattenSeq(front(0)) = <<>>
    BY <2>1, FlattenFacts
  <2> QED
    BY <1>0, <2>2, ExecutedEmpty
<1>3. ASSUME NEW i \in 1 .. n
      PROVE  g[i] = Executed(g[i - 1], seqs[i])
  <2> DEFINE k == i - 1
             a == front(k)
             b == front(i)
  <2>0. k \in 0 .. n /\ i \in 0 .. n /\ k + 1 = i
    BY <1>0
  <2>2. g[i] = Executed(t, FlattenSeq(b)) /\ g[i - 1] = Executed(t, FlattenSeq(a))
    BY <2>0
  <2> HIDE DEF k, g
  <2>1. /\ a \in Seq(Seq(S)) /\ Len(a) = k /\ \A j \in 1 .. k : a[j] = seqs[j]
        /\ b \in Seq(Seq(S)) /\ Len(b) = i /\ \A j \in 1 .. i : b[j] = seqs[j]
    BY <1>1, <2>0
  <2> HIDE DEF a, b
  <2>3. Len(b) = Len(a) + 1 /\ \A j \in 1 .. Len(a) : b[j] = a[j]
    <3>1. \A j \in 1 .. k : j \in 1 .. i
      BY <2>0
    <3> QED
      BY <2>0, <2>1, <3>1
  <2>4. FlattenSeq(b) = FlattenSeq(a) \o b[Len(b)]
    BY <2>1, <2>3, FlattenOneMore
  <2>5. b[Len(b)] = seqs[i] /\ seqs[i] \in Seq(S)
    BY <1>0, <2>1
  <2>6. FlattenSeq(a) \in Seq(S)
    BY <2>1, FlattenFacts
  <2> QED
    BY <2>2, <2>4, <2>5, <2>6, ExecutedConcat
<1>4. g[n] = Executed(t, FlattenSeq(seqs))
  <2>1. n \in 0 .. n
    BY <1>0
  <2>2. front(n) \in Seq(Seq(S)) /\ Len(front(n)) = n /\ \A i \in 1 .. n : front(n)[i] = seqs[i]
    BY <1>1, <2>1
  <2>3. front(n) = seqs
    BY <2>2
  <2> QED
    BY <2>1, <2>3
<1> HIDE DEF g
<1>5. Pieces(g, t, seqs)
  BY <1>2, <1>3 DEF Pieces
<1> QED
  BY <1>4, <1>5

\* Every row of the terminal is a frame's.
Screen(t, rows, h, w) == Grid(t, h, w) /\ \A y \in 1 .. h : RowDone(t, y, rows[y], w)

\* Proper rows for the whole window.
ProperRows(rows, h, w) ==
    rows \in Seq(Seq(Cells)) /\ Len(rows) = h /\ \A y \in 1 .. h : ProperRow(rows[y], w)

LEMMA RedrawRowsShow ==
    ASSUME NEW t, NEW h, NEW w, Grid(t, h, w), t.pen = {}, NEW rows, ProperRows(rows, h, w)
    PROVE  Screen(Executed(t, FlattenSeq([y \in DOMAIN rows |-> RedrawRow(rows, y)])), rows, h, w)
<1> DEFINE pieces == [y \in DOMAIN rows |-> RedrawRow(rows, y)]
<1>0. /\ rows \in Seq(Seq(Cells)) /\ DOMAIN rows = 1 .. h /\ h \in Nat
      /\ \A y \in 1 .. h : ProperRow(rows[y], w)
  BY DEF ProperRows, Grid
<1>1. \A y \in 1 .. h : RedrawRow(rows, y) \in Seq(Drawing)
  BY <1>0, RedrawRowDraws
<1>2. /\ pieces \in Seq(Seq(Drawing)) /\ Len(pieces) = h
      /\ \A y \in 1 .. h : pieces[y] = RedrawRow(rows, y)
  BY <1>0, <1>1
<1> HIDE DEF pieces
<1>3. PICK g : Pieces(g, t, pieces) /\ g[Len(pieces)] = Executed(t, FlattenSeq(pieces))
  BY <1>2, PiecesRun
<1> DEFINE I(u, k) == /\ Grid(u, h, w) /\ u.pen = {}
                      /\ \A y \in 1 .. h : y <= k => RowDone(u, y, rows[y], w)
           P == {k \in Nat : k <= h => I(g[k], k)}
<1>4. 0 \in P
  BY <1>3 DEF Pieces
<1>5. ASSUME NEW k \in P PROVE k + 1 \in P
  <2> SUFFICES ASSUME k + 1 <= h PROVE I(g[k + 1], k + 1)
    OBVIOUS
  <2> DEFINE y == k + 1
             before == g[k]
             u == Executed(before, RedrawRow(rows, y))
  <2>1. k \in Nat /\ y \in 1 .. h /\ y - 1 = k /\ I(before, k)
    BY <1>0
  <2>2. g[y] = u
    <3>1. y \in 1 .. Len(pieces)
      BY <1>2, <2>1
    <3>2. g[y] = Executed(g[y - 1], pieces[y])
      BY <1>3, <3>1 DEF Pieces
    <3> QED
      BY <1>2, <2>1, <3>2
  <2> HIDE DEF P, y, before
  <2>3. /\ Grid(u, h, w) /\ u.pen = {} /\ RowDone(u, y, rows[y], w)
        /\ OtherRows(before, u, y, h)
    <3>1. Grid(before, h, w) /\ before.pen = {} /\ y \in DOMAIN rows /\ ProperRow(rows[y], w)
      BY <1>0, <2>1
    <3> HIDE DEF I, u
    <3> QED
      BY <1>0, <2>1, <3>1, RedrawRowShows DEF u
  <2> HIDE DEF u
  <2>4. ASSUME NEW z \in 1 .. h, z <= y PROVE RowDone(u, z, rows[z], w)
    <3>1. CASE z = y
      BY <2>3, <3>1
    <3>2. CASE z # y
      <4>1. z <= k
        BY <2>1, <2>4, <3>2 DEF y
      <4>2. RowDone(before, z, rows[z], w)
        BY <2>1, <4>1
      <4>3. u.rows[z] = before.rows[z]
        BY <2>3, <3>2 DEF OtherRows
      <4> QED
        BY <4>2, <4>3 DEF RowDone
    <3> QED
      BY <3>1, <3>2
  <2> QED
    BY <2>2, <2>3, <2>4 DEF y
<1>6. P = Nat
  <2> HIDE DEF I
  <2>1. P \in SUBSET Nat
    OBVIOUS
  <2> HIDE DEF P
  <2> QED
    BY <1>4, <1>5, <2>1, SetInduction
<1>7. I(g[h], h)
  <2> HIDE DEF I
  <2> QED
    BY <1>0, <1>6
<1>8. Screen(g[h], rows, h, w)
  BY <1>0, <1>7 DEF Screen
<1> QED
  BY <1>2, <1>3, <1>8 DEF pieces

LEMMA DiffRowsShow ==
    ASSUME NEW t, NEW h, NEW w, NEW old_rows, Screen(t, old_rows, h, w),
           \A y \in 1 .. h : ProperRow(old_rows[y], w),
           NEW new, ProperRows(new.rows, h, w), NEW height \in Nat,
           \A y \in 1 .. h : y <= height => old_rows[y] = new.rows[y]
    PROVE  Screen(Executed(t, DiffRows(old_rows, new, height)), new.rows, h, w)
<1> DEFINE rows == new.rows
           piece(y) == IF y <= height THEN <<>> ELSE DiffRow(old_rows, rows, y)
           pieces == [y \in DOMAIN rows |-> piece(y)]
<1>0. /\ rows \in Seq(Seq(Cells)) /\ DOMAIN rows = 1 .. h /\ h \in Nat
      /\ \A y \in 1 .. h : ProperRow(rows[y], w)
  BY DEF ProperRows, Screen, Grid
<1>1. \A y \in 1 .. h : piece(y) \in Seq(Drawing)
  <2> TAKE y \in 1 .. h
  <2>1. DiffRow(old_rows, rows, y) \in Seq(Drawing)
    BY <1>0, DiffRowDraws
  <2> QED
    BY <2>1
<1>r. DiffRows(old_rows, new, height) = FlattenSeq(pieces)
  BY DEF DiffRows
<1>p. \A y \in 1 .. h : /\ y <= height => piece(y) = <<>>
                        /\ ~(y <= height) => piece(y) = DiffRow(old_rows, rows, y)
  OBVIOUS
<1> HIDE DEF rows, piece
<1>2. /\ pieces \in Seq(Seq(Drawing)) /\ Len(pieces) = h
      /\ \A y \in 1 .. h : pieces[y] = piece(y)
  BY <1>0, <1>1
<1> HIDE DEF pieces
<1>3. PICK g : Pieces(g, t, pieces) /\ g[Len(pieces)] = Executed(t, FlattenSeq(pieces))
  BY <1>2, PiecesRun
<1> DEFINE I(u, k) == /\ Grid(u, h, w)
                      /\ \A y \in 1 .. h :
                            RowDone(u, y, IF y <= k THEN rows[y] ELSE old_rows[y], w)
           P == {k \in Nat : k <= h => I(g[k], k)}
<1>4. 0 \in P
  <2>1. g[0] = t
    BY <1>3 DEF Pieces
  <2>2. Grid(t, h, w) /\ \A y \in 1 .. h : ~(y <= 0) /\ RowDone(t, y, old_rows[y], w)
    BY DEF Screen
  <2> QED
    BY <2>1, <2>2
<1>5. ASSUME NEW k \in P PROVE k + 1 \in P
  <2> SUFFICES ASSUME k + 1 <= h PROVE I(g[k + 1], k + 1)
    OBVIOUS
  <2> DEFINE y == k + 1
             before == g[k]
             u == Executed(before, piece(y))
  <2>1. k \in Nat /\ y \in 1 .. h /\ y - 1 = k /\ I(before, k) /\ ~(y <= k)
    BY <1>0
  <2>2. g[y] = u
    <3>1. y \in 1 .. Len(pieces)
      BY <1>2, <2>1
    <3>2. g[y] = Executed(g[y - 1], pieces[y])
      BY <1>3, <3>1 DEF Pieces
    <3> QED
      BY <1>2, <2>1, <3>2
  <2> HIDE DEF P, y, before
  <2>3. Grid(u, h, w) /\ RowDone(u, y, rows[y], w) /\ OtherRows(before, u, y, h)
    <3>1. Grid(before, h, w) /\ RowDone(before, y, old_rows[y], w)
      BY <2>1
    <3>2. ProperRow(rows[y], w) /\ ProperRow(old_rows[y], w) /\ y \in DOMAIN rows
      BY <1>0, <2>1
    <3>3. CASE y <= height
      <4>1. u = before
        BY <1>p, <2>1, <3>3, ExecutedEmpty
      <4>2. old_rows[y] = rows[y]
        BY <2>1, <3>3 DEF rows
      <4>3. OtherRows(before, before, y, h)
        BY DEF OtherRows
      <4> QED
        BY <3>1, <4>1, <4>2, <4>3
    <3>4. CASE ~(y <= height)
      <4>1. piece(y) = DiffRow(old_rows, rows, y)
        BY <1>p, <2>1, <3>4
      <4> HIDE DEF I
      <4> QED
        BY <1>0, <2>1, <3>1, <3>2, <4>1, DiffRowShows
    <3> QED
      BY <3>3, <3>4
  <2> HIDE DEF u
  <2>4. ASSUME NEW z \in 1 .. h
        PROVE  RowDone(u, z, IF z <= y THEN rows[z] ELSE old_rows[z], w)
    <3>1. CASE z = y
      <4>1. z <= y
        BY <3>1
      <4> QED
        BY <2>3, <3>1, <4>1
    <3>2. CASE z # y
      <4>1. z <= k <=> z <= y
        BY <2>1, <3>2 DEF y
      <4>2. RowDone(before, z, IF z <= k THEN rows[z] ELSE old_rows[z], w)
        BY <2>1
      <4>3. u.rows[z] = before.rows[z]
        BY <2>3, <3>2 DEF OtherRows
      <4> QED
        BY <4>1, <4>2, <4>3 DEF RowDone
    <3> QED
      BY <3>1, <3>2
  <2> QED
    BY <2>2, <2>3, <2>4 DEF y
<1>6. P = Nat
  <2> HIDE DEF I
  <2>1. P \in SUBSET Nat
    OBVIOUS
  <2> HIDE DEF P
  <2> QED
    BY <1>4, <1>5, <2>1, SetInduction
<1>7. I(g[h], h)
  <2> HIDE DEF I
  <2> QED
    BY <1>0, <1>6
<1>8. Screen(g[h], rows, h, w)
  <2>1. \A y \in 1 .. h : y <= h
    BY <1>0
  <2> QED
    BY <1>7, <2>1 DEF Screen
<1> QED
  BY <1>2, <1>3, <1>8, <1>r DEF rows

-----------------------------------------------------------------------------
(* Scrolling. *)

\* u is t with its rows up to the last moved up by n lines.
Shifted(t, u, h, w, last, n) ==
    /\ Grid(u, h, w)
    /\ \A y \in 1 .. h :
          /\ y > last => u.rows[y] = t.rows[y]
          /\ y <= last /\ y + n <= last => u.rows[y] = t.rows[y + n]
          /\ y <= last /\ ~(y + n <= last) => u.rows[y] = BlankRow(w)

Scrolled(t, u, h, w, last, n) ==
    Shifted(t, u, h, w, last, n) /\ u.pen = t.pen /\ u.region = t.region

\* The cursor is on the last line of the scrolling region, and erased cells are blank.
AtBottom(t, h, w) == Grid(t, h, w) /\ t.pen = {} /\ t.cursor[1] = t.region /\ t.region \in 1 .. h

LEMMA ErasedBlank ==
    ASSUME NEW t, NEW h, NEW w, Grid(t, h, w), t.pen = {}
    PROVE  ErasedRow(t) = BlankRow(w)
<1>1. Erased(t) = EmptyCell
  <2>1. t.pen \cap {"background"} = {}
    OBVIOUS
  <2> QED
    BY <2>1, Zenon DEF Erased, EmptyCell
<1>2. DOMAIN t.rows[1] = 1 .. w
  BY DEF Grid
<1> HIDE DEF EmptyCell
<1> QED
  BY <1>1, <1>2 DEF ErasedRow, BlankRow

LEMMA LineFeedsScroll ==
    ASSUME NEW t, NEW h, NEW w, AtBottom(t, h, w), NEW n \in Nat
    PROVE  Scrolled(t, Executed(t, LineFeeds(n)), h, w, t.region, n)
<1> DEFINE last == t.region
           lf == <<"lf">>
           I(u, k) == u.cursor = t.cursor /\ Scrolled(t, u, h, w, last, k)
           P == {k \in Nat : I(Executed(t, LineFeeds(k)), k)}
<1>0. /\ Grid(t, h, w) /\ t.pen = {} /\ t.cursor[1] = last /\ last \in 1 .. h /\ h \in Nat
      /\ last \in Nat
  BY DEF AtBottom, Grid
<1>1. 0 \in P
  <2>1. LineFeeds(0) = <<>>
    BY DEF LineFeeds
  <2>2. Executed(t, LineFeeds(0)) = t
    BY <2>1, ExecutedEmpty
  <2>3. Scrolled(t, t, h, w, last, 0)
    <3>1. \A y \in 1 .. h : y + 0 = y
      OBVIOUS
    <3> HIDE DEF last
    <3> QED
      BY <1>0, <3>1 DEF Scrolled, Shifted
  <2> QED
    BY <2>2, <2>3
<1>2. ASSUME NEW k \in P PROVE k + 1 \in P
  <2> DEFINE before == Executed(t, LineFeeds(k))
             u == LineFeed(before)
  <2>1. k \in Nat /\ I(before, k)
    OBVIOUS
  <2>2. Executed(t, LineFeeds(k + 1)) = u
    <3> HIDE DEF lf
    <3> DEFINE S == {lf}
               a == [i \in 1 .. k |-> lf]
               b == [i \in 1 .. k + 1 |-> lf]
    <3>1. a \in Seq(S) /\ lf \in S
      BY <2>1
    <3>2. Append(a, lf) = b
      BY <2>1
    <3>3. Executed(t, Append(a, lf)) = Execute(Executed(t, a), lf)
      BY <3>1, ExecutedAppend
    <3>4. a = LineFeeds(k) /\ b = LineFeeds(k + 1)
      BY DEF LineFeeds, lf
    <3>5. Executed(t, LineFeeds(k + 1)) = Execute(before, lf)
      BY <3>2, <3>3, <3>4
    <3>6. Execute(before, lf) = LineFeed(before)
      BY <2>1, MarksAre DEF Scrolled, Shifted, lf
    <3> QED
      BY <3>5, <3>6
  <2> HIDE DEF P, before
  <2>3. /\ Grid(before, h, w) /\ before.pen = {} /\ before.region = last
        /\ before.cursor = t.cursor /\ before.cursor[1] = before.region
    BY <1>0, <2>1 DEF Scrolled, Shifted
  <2>4. /\ Grid(u, h, w) /\ u.pen = before.pen /\ u.region = before.region
        /\ u.cursor = before.cursor
        /\ \A y \in 1 .. h :
              u.rows[y] = IF y > before.region THEN before.rows[y]
                          ELSE IF y = before.region THEN ErasedRow(before)
                          ELSE before.rows[y + 1]
    BY <2>3, LineFeedIs
  <2> HIDE DEF u
  <2>5. ErasedRow(before) = BlankRow(w)
    BY <2>3, ErasedBlank
  <2>6. ASSUME NEW y \in 1 .. h
        PROVE  /\ y > last => u.rows[y] = t.rows[y]
               /\ y <= last /\ y + (k + 1) <= last => u.rows[y] = t.rows[y + (k + 1)]
               /\ y <= last /\ ~(y + (k + 1) <= last) => u.rows[y] = BlankRow(w)
    <3> HIDE DEF last
    <3>1. CASE y > last
      <4>1. ~(y <= last)
        BY <1>0, <3>1
      <4>2. u.rows[y] = before.rows[y] /\ before.rows[y] = t.rows[y]
        BY <2>1, <2>3, <2>4, <3>1 DEF Scrolled, Shifted
      <4> QED
        BY <4>1, <4>2
    <3>2. CASE y = last
      <4>1. ~(y > last) /\ ~(y + (k + 1) <= last)
        BY <1>0, <2>1, <3>2
      <4> QED
        BY <2>3, <2>4, <2>5, <3>2, <4>1
    <3>3. CASE y < last
      <4> DEFINE z == y + 1
      <4>1. /\ z \in 1 .. h /\ z <= last /\ ~(z > last) /\ ~(y > last) /\ y # last
            /\ y + (k + 1) = z + k
        BY <1>0, <2>1, <3>3
      <4>2. u.rows[y] = before.rows[z]
        BY <2>3, <2>4, <4>1
      <4> HIDE DEF z
      <4>3. /\ z + k <= last => before.rows[z] = t.rows[z + k]
            /\ ~(z + k <= last) => before.rows[z] = BlankRow(w)
        BY <2>1, <4>1 DEF Scrolled, Shifted
      <4> QED
        BY <4>1, <4>2, <4>3
    <3> QED
      BY <1>0, <3>1, <3>2, <3>3
  <2>7. Scrolled(t, u, h, w, last, k + 1)
    BY <1>0, <2>3, <2>4, <2>6 DEF Scrolled, Shifted
  <2> QED
    BY <2>1, <2>2, <2>3, <2>4, <2>7 DEF P
<1>3. P = Nat
  <2> HIDE DEF I
  <2>1. P \in SUBSET Nat
    OBVIOUS
  <2> HIDE DEF P
  <2> QED
    BY <1>1, <1>2, <2>1, SetInduction
<1> QED
  BY <1>3

\* The cursor is on line y.
OnLine(t, y) == \E x : t.cursor = <<y, x>>

LEMMA LineHead ==
    ASSUME NEW t, NEW h, NEW w, Grid(t, h, w), NEW y, OnLine(t, y)
    PROVE  LET u == Execute(t, <<"cr">>)
           IN  /\ Grid(u, h, w) /\ u.rows = t.rows /\ u.pen = t.pen /\ u.region = t.region
               /\ OnLine(u, y)
<1>1. PICK x : t.cursor = <<y, x>>
  BY DEF OnLine
<1> QED
  BY <1>1, MarksAre DEF OnLine

\* The style reset.
LEMMA StyleReset ==
    ASSUME NEW t, NEW h, NEW w, Grid(t, h, w)
    PROVE  LET u == Execute(t, ResetStyle)
           IN  /\ Grid(u, h, w) /\ u.rows = t.rows /\ u.cursor = t.cursor
               /\ u.region = t.region /\ u.pen = {}
<1> DEFINE u == Execute(t, ResetStyle)
<1>1. Dips(t, ResetStyle, {}) /\ DOMAIN t = Fields
  BY DEF Dips, Grid
<1>2. /\ DOMAIN u = Fields /\ u.rows = t.rows /\ u.cursor = t.cursor
      /\ u.region = t.region /\ u.pen = {}
  BY <1>1, PenIs
<1> HIDE DEF u
<1> QED
  BY <1>2 DEF Grid, u

LEMMA ScrollShifts ==
    ASSUME NEW t, NEW h, NEW w, Grid(t, h, w), t.region = h,
           NEW scroll, scroll.lines \in Nat, scroll.height \in Nat,
           scroll.lines + scroll.height \in 1 .. h,
           NEW new, Len(new.rows) = h, NEW y, OnLine(t, y)
    PROVE  Shifted(t, Executed(t, EmitScroll(scroll, new, y)), h, w,
                   scroll.lines + scroll.height, scroll.lines)
<1> DEFINE n == scroll.lines
           bottom == n + scroll.height
           feeds == LineFeeds(n)
           ops == EmitScroll(scroll, new, y)
           reset == ResetStyle
<1>0. /\ n \in Nat /\ bottom \in 1 .. h /\ bottom \in Nat /\ h \in 1 .. h
      /\ h \in Nat /\ 1 \in 1 .. w
  BY DEF Grid
<1>1. feeds \in Seq(Drawing) /\ reset \in Ops /\ Drawing \subseteq Ops
  <2> HIDE DEF bottom, ops
  <2>1. feeds \in Seq(Drawing)
    BY <1>0, LineFeedsDraw
  <2>2. Drawing \subseteq Ops
    BY DEF Ops
  <2>3. reset \in Drawing
    BY DEF Drawing, Marks
  <2> QED
    BY <2>1, <2>2, <2>3
<1>2. CASE bottom = h /\ y = h
  <2> DEFINE cr == <<"cr">>
             ta == Execute(t, reset)
             tb == Execute(ta, cr)
             head == <<reset, cr>>
             u == Executed(tb, feeds)
  <2>1. ops = head \o feeds
    BY <1>2 DEF EmitScroll
  <2>2. Grid(ta, h, w) /\ ta.rows = t.rows /\ ta.cursor = t.cursor /\ ta.region = h /\ ta.pen = {}
    BY StyleReset
  <2>3. cr \in Ops
    BY DEF Ops, Drawing, Marks
  <2>4. head \in Seq(Ops) /\ Executed(t, head) = tb
    BY <1>1, <2>3, ExecutedTwo
  <2> HIDE DEF ta, reset
  <2>5. OnLine(ta, y)
    BY <2>2 DEF OnLine
  <2>6. /\ Grid(tb, h, w) /\ tb.rows = ta.rows /\ tb.pen = ta.pen
        /\ tb.region = ta.region /\ OnLine(tb, y)
    BY <2>2, <2>5, LineHead
  <2> HIDE DEF tb, cr
  <2>7. tb.cursor[1] = y
    BY <2>6 DEF OnLine
  <2>8. AtBottom(tb, h, w)
    BY <1>0, <1>2, <2>2, <2>6, <2>7 DEF AtBottom
  <2>9. Scrolled(tb, u, h, w, tb.region, n)
    BY <1>0, <2>8, LineFeedsScroll
  <2> HIDE DEF head, feeds
  <2>10. feeds \in Seq(Ops)
    BY <1>1
  <2>11. Executed(t, ops) = u
    BY <2>1, <2>4, <2>10, ExecutedChain
  <2> HIDE DEF u, ops, bottom, n
  <2>12. Shifted(t, u, h, w, bottom, n)
    BY <1>2, <2>2, <2>6, <2>9 DEF Scrolled, Shifted
  <2> QED
    BY <2>11, <2>12 DEF ops, n, bottom
<1>3. CASE ~(bottom = h /\ y = h)
  <2> DEFINE region == <<"region", bottom>>
             cup == Cup(bottom, 1)
             last == WholeRegion
             tail == <<last>>
             ta == Execute(t, reset)
             tb == Execute(ta, region)
             tc == Execute(tb, cup)
             td == Executed(tc, feeds)
             u == Execute(td, last)
             head == <<reset, region, cup>>
             front == head \o feeds
  <2>1. ops = front \o tail
    BY <1>3 DEF EmitScroll, WholeRegion
  <2>2. Grid(ta, h, w) /\ ta.rows = t.rows /\ ta.pen = {}
    BY StyleReset
  <2>3. region \in Ops /\ cup \in Ops /\ last \in Ops
    <3>1. region \in Ops
      BY <1>0 DEF Ops
    <3>2. cup \in Ops
      BY <1>0, <1>1, DrawingOps
    <3>3. last \in Ops
      BY DEF Ops, WholeRegion
    <3> QED
      BY <3>1, <3>2, <3>3
  <2> HIDE DEF reset, region, cup
  <2>4. head \in Seq(Ops) /\ Executed(t, head) = tc
    BY <1>1, <2>3, ExecutedThree
  <2> HIDE DEF ta
  <2>5. Grid(tb, h, w) /\ tb.rows = ta.rows /\ tb.pen = ta.pen /\ tb.region = bottom
    <3> DEFINE r == Least(bottom, h)
    <3>1. r = bottom
      BY <1>0 DEF Least
    <3> HIDE DEF bottom, tb
    <3>2. LET v == Execute(ta, region)
          IN  Grid(v, h, w) /\ v.rows = ta.rows /\ v.pen = ta.pen /\ v.region = r
      BY <1>0, <2>2, RegionIs DEF region
    <3> QED
      BY <3>1, <3>2 DEF tb
  <2> HIDE DEF tb, region
  <2>6. Moved(tb, tc, h, w) /\ At(tc, bottom, 1)
    <3> HIDE DEF bottom
    <3>1. 1 \in Nat
      OBVIOUS
    <3> QED
      BY <1>0, <2>5, <3>1, CupIs DEF cup
  <2> HIDE DEF tc, cup
  <2>7. AtBottom(tc, h, w)
    BY <1>0, <2>2, <2>5, <2>6 DEF AtBottom, Moved, At
  <2>8. Scrolled(tc, td, h, w, tc.region, n)
    BY <1>0, <2>7, LineFeedsScroll
  <2> HIDE DEF head, feeds
  <2>9. feeds \in Seq(Ops)
    BY <1>1
  <2>10. front \in Seq(Ops) /\ Executed(t, front) = td
    BY <2>4, <2>9, ExecutedChain
  <2> HIDE DEF td, front, last
  <2>11. tail \in Seq(Ops) /\ Executed(td, tail) = u
    BY <2>3, ExecutedOne
  <2>12. Grid(u, h, w) /\ u.rows = td.rows
    <3>1. Grid(td, h, w)
      BY <2>8 DEF Scrolled, Shifted
    <3> DEFINE r == h
    <3>2. 0 \in Nat /\ last = WholeRegion /\ r = h
      BY DEF last
    <3> HIDE DEF r
    <3> QED
      BY <3>1, <3>2, RegionIs
  <2> HIDE DEF u, tail
  <2>13. Executed(t, ops) = u
    BY <2>1, <2>10, <2>11, ExecutedChain
  <2> HIDE DEF ops, bottom, n
  <2>14. Shifted(t, u, h, w, bottom, n)
    BY <2>2, <2>5, <2>6, <2>8, <2>12 DEF Scrolled, Shifted, Moved
  <2> QED
    BY <2>13, <2>14 DEF ops, n, bottom
<1> QED
  BY <1>2, <1>3

LEMMA BlankShown ==
    ASSUME NEW w \in Nat
    PROVE  /\ ProperRow(BlankRow(w), w)
           /\ \A k \in 1 .. w : Rendered(BlankRow(w)[k], BlankRow(w), k)
<1> DEFINE row == BlankRow(w)
           none == ""
<1>1. none # "W"
  OBVIOUS
<1>2. none \in Strings
  BY Zenon DEF Strings
<1>3. /\ DOMAIN EmptyCell = {"text", "wide", "spacer", "style"}
      /\ EmptyCell.text = none /\ EmptyCell.wide = FALSE /\ EmptyCell.spacer = FALSE
      /\ EmptyCell.style = {}
  BY DEF EmptyCell, Cell
<1>4. EmptyCell \in Cells
  <2>1. Cell(none, FALSE, FALSE, {}) \in Cells
    <3> HIDE DEF none
    <3> QED
      BY <1>2 DEF Cell, Cells
  <2> QED
    BY <2>1, Zenon DEF EmptyCell, none
<1>5. row = [x \in 1 .. w |-> EmptyCell]
  BY DEF BlankRow
<1>6. row \in Seq(Cells) /\ Len(row) = w /\ \A x \in 1 .. w : row[x] = EmptyCell
  BY <1>4, <1>5
<1> HIDE DEF row
<1>7. ProperRow(row, w)
  <2>1. \A x \in 1 .. w : /\ row[x].wide = FALSE /\ row[x].spacer = FALSE
                          /\ row[x].text = none
    BY <1>3, <1>6
  <2> HIDE DEF none
  <2> QED
    BY <1>1, <1>6, <2>1 DEF ProperRow
<1>8. ASSUME NEW k \in 1 .. w PROVE Rendered(row[k], row, k)
  <2>1. row[k] = EmptyCell
    BY <1>6
  <2>2. EmptyCell.spacer = (row[k].spacer /\ ~LeftFree(row, k))
    BY <1>3, <2>1
  <2> QED
    BY <1>3, <2>1, <2>2 DEF Rendered
<1> QED
  BY <1>7, <1>8 DEF row

\* A screen that is moved up shows the rows of the old frame, moved.
LEMMA ShiftShows ==
    ASSUME NEW t, NEW u, NEW h, NEW w, NEW old_rows,
           Screen(t, old_rows, h, w), ProperRows(old_rows, h, w),
           NEW scroll, scroll.lines \in Nat, scroll.height \in Nat,
           scroll.lines + scroll.height \in 1 .. h,
           Shifted(t, u, h, w, scroll.lines + scroll.height, scroll.lines)
    PROVE  LET rows == ShiftRows(old_rows, scroll)
           IN  /\ Screen(u, rows, h, w) /\ \A y \in 1 .. h : ProperRow(rows[y], w)
               /\ \A y \in 1 .. h : y <= scroll.height => rows[y] = old_rows[scroll.lines + y]
<1> DEFINE rows == ShiftRows(old_rows, scroll)
           n == scroll.lines
           last == n + scroll.height
<1>0. /\ h \in Nat /\ w \in Nat /\ n \in Nat /\ last \in 1 .. h /\ DOMAIN old_rows = 1 .. h
      /\ \A y \in 1 .. h : Len(old_rows[y]) = w /\ ProperRow(old_rows[y], w)
      /\ \A y \in 1 .. h : RowDone(t, y, old_rows[y], w)
      /\ Grid(u, h, w)
  <2>1. h \in Nat /\ w \in Nat /\ \A y \in 1 .. h : RowDone(t, y, old_rows[y], w)
    BY DEF Screen, Grid
  <2>2. Grid(u, h, w)
    BY DEF Shifted
  <2>3. /\ old_rows \in Seq(Seq(Cells)) /\ Len(old_rows) = h
        /\ \A y \in 1 .. h : ProperRow(old_rows[y], w)
    BY DEF ProperRows
  <2>4. \A y \in 1 .. h : Len(old_rows[y]) = w
    BY <2>3 DEF ProperRow
  <2>5. DOMAIN old_rows = 1 .. h
    BY <2>3
  <2>6. n \in Nat /\ last \in 1 .. h
    OBVIOUS
  <2> QED
    BY <2>1, <2>2, <2>3, <2>4, <2>5, <2>6
<1>1. ASSUME NEW y \in 1 .. h
      PROVE  /\ y > last => rows[y] = old_rows[y]
             /\ y <= last /\ y + n <= last => rows[y] = old_rows[y + n]
             /\ y <= last /\ ~(y + n <= last) => rows[y] = BlankRow(w)
  <2>1. rows[y] = CASE y > last -> old_rows[y]
                    [] y + n <= last -> old_rows[y + n]
                    [] OTHER -> BlankRow(Len(old_rows[y]))
    BY <1>0, Zenon DEF ShiftRows
  <2>2. Len(old_rows[y]) = w
    BY <1>0
  <2> HIDE DEF rows, last, n
  <2>3. y > last => ~(y + n <= last) /\ ~(y <= last)
    BY <1>0
  <2>4. y <= last => ~(y > last)
    BY <1>0
  <2> QED
    BY <2>1, <2>2, <2>3, <2>4
<1>2. ASSUME NEW y \in 1 .. h
      PROVE  /\ y > last => u.rows[y] = t.rows[y]
             /\ y <= last /\ y + n <= last => u.rows[y] = t.rows[y + n]
             /\ y <= last /\ ~(y + n <= last) => u.rows[y] = BlankRow(w)
  BY DEF Shifted
<1>3. \A y \in 1 .. h : y <= scroll.height => rows[y] = old_rows[n + y]
  <2> TAKE y \in 1 .. h
  <2> HAVE y <= scroll.height
  <2> HIDE DEF rows
  <2>1. y <= last /\ y + n <= last /\ y + n = n + y
    BY <1>0
  <2> HIDE DEF last, n
  <2> QED
    BY <1>1, <2>1
<1> HIDE DEF rows, last, n
<1>4. ASSUME NEW y \in 1 .. h PROVE RowDone(u, y, rows[y], w) /\ ProperRow(rows[y], w)
  <2>1. CASE y > last
    BY <1>0, <1>1, <1>2, <2>1 DEF RowDone
  <2>2. CASE y <= last /\ y + n <= last
    <3> DEFINE z == y + n
    <3>1. z \in 1 .. h
      BY <1>0, <2>2
    <3>2. rows[y] = old_rows[z] /\ u.rows[y] = t.rows[z]
      BY <1>1, <1>2, <2>2
    <3> HIDE DEF z
    <3> QED
      BY <1>0, <3>1, <3>2 DEF RowDone
  <2>3. CASE y <= last /\ ~(y + n <= last)
    <3>1. rows[y] = BlankRow(w) /\ u.rows[y] = BlankRow(w)
      BY <1>1, <1>2, <2>3
    <3> QED
      BY <1>0, <3>1, BlankShown DEF RowDone
  <2> QED
    BY <1>0, <2>1, <2>2, <2>3
<1>5. Screen(u, rows, h, w)
  BY <1>0, <1>4 DEF Screen
<1> QED
  BY <1>3, <1>4, <1>5 DEF rows, n

-----------------------------------------------------------------------------
(* Frames on the screen. *)

\* A cursor in the window.
Inside(cursor, h, w) == \E y \in 1 .. h, x \in 1 .. w : cursor = <<y, x>>

\* A frame for a window of h rows and w columns, without a torn glyph.
Fits(f, h, w) == Typed(f) /\ ProperRows(f.rows, h, w) /\ Inside(f.cursor, h, w)

\* The terminal shows the frame.
Displays(t, f, h, w) == Screen(t, f.rows, h, w) /\ t.cursor = f.cursor

LEMMA CursorPut ==
    ASSUME NEW t, NEW rows, NEW h, NEW w, Screen(t, rows, h, w),
           NEW f, Inside(f.cursor, h, w), f.rows = rows
    PROVE  LET cup == <<Cup(f.cursor[1], f.cursor[2])>>
           IN  cup \in Seq(Ops) /\ Displays(Executed(t, cup), f, h, w)
<1>1. PICK y \in 1 .. h, x \in 1 .. w : f.cursor = <<y, x>>
  BY DEF Inside
<1>2. f.cursor[1] = y /\ f.cursor[2] = x
  BY <1>1
<1> DEFINE op == Cup(y, x)
           u == Execute(t, op)
<1>3. y \in Nat /\ x \in Nat /\ Grid(t, h, w)
  BY DEF Screen
<1>4. op \in Ops
  BY <1>3, DrawingOps DEF Ops
<1>5. Moved(t, u, h, w) /\ At(u, y, x)
  BY <1>3, CupIs
<1> HIDE DEF u
<1>6. Displays(u, f, h, w)
  <2>1. u.cursor = f.cursor
    BY <1>1, <1>5 DEF At
  <2>2. Grid(u, h, w) /\ u.rows = t.rows
    BY <1>5 DEF Moved
  <2>3. Screen(u, rows, h, w)
    BY <2>2 DEF Screen, RowDone
  <2> QED
    BY <2>1, <2>3 DEF Displays
<1> HIDE DEF op
<1>7. <<op>> \in Seq(Ops) /\ Executed(t, <<op>>) = Execute(t, op)
  BY <1>4, ExecutedOne
<1> QED
  BY <1>2, <1>6, <1>7 DEF op, u

LEMMA ModeSwitches ==
    ASSUME NEW n \in Nat, NEW on \in BOOLEAN
    PROVE  Mode(n, on) \in Switches
BY DEF Switches, Mode

\* Modes do not change what is displayed.
LEMMA SwitchesShow ==
    ASSUME NEW t, NEW f, NEW h, NEW w, Displays(t, f, h, w), NEW ops \in Seq(Switches)
    PROVE  Displays(Executed(t, ops), f, h, w)
<1> DEFINE u == Executed(t, ops)
<1>1. SameScreen(t, u)
  <2>1. DOMAIN t = Fields
    BY DEF Displays, Screen, Grid
  <2> QED
    BY <2>1, SwitchRun
<1> HIDE DEF u
<1>2. Grid(u, h, w) /\ u.rows = t.rows /\ u.cursor = t.cursor
  BY <1>1 DEF SameScreen, Displays, Screen, Grid
<1> QED
  BY <1>2 DEF Displays, Screen, RowDone, u

\* Of a frame that is displayed only the cursor need be put in its place.
LEMMA RepositionShows ==
    ASSUME NEW t, NEW old, NEW new, NEW h, NEW w, Screen(t, new.rows, h, w),
           Inside(new.cursor, h, w), NEW drawing, drawing = <<>> => t.cursor = old.cursor
    PROVE  LET ops == Reposition(drawing, old, new)
           IN  ops \in Seq(Ops) /\ Displays(Executed(t, ops), new, h, w)
<1>1. CASE drawing # <<>> \/ old.cursor # new.cursor
  <2>1. Reposition(drawing, old, new) = <<Cup(new.cursor[1], new.cursor[2])>>
    BY <1>1 DEF Reposition
  <2> QED
    BY <2>1, CursorPut
<1>2. CASE ~(drawing # <<>> \/ old.cursor # new.cursor)
  <2>1. Reposition(drawing, old, new) = <<>>
    BY <1>2 DEF Reposition
  <2>2. <<>> \in Seq(Ops) /\ Executed(t, <<>>) = t
    BY ExecutedEmpty
  <2>3. Displays(t, new, h, w)
    BY <1>2 DEF Displays
  <2> QED
    BY <2>1, <2>2, <2>3
<1> QED
  BY <1>1, <1>2

\* How a diff of two frames scrolls, and the rows it then has to change.
Scrolling(old, new) ==
    LET scroll == DetectScroll(old.rows, new)
    IN  IF scroll.lines = 0 THEN <<>> ELSE EmitScroll(scroll, new, old.cursor[1])

RowsLeft(old, new) ==
    LET scroll == DetectScroll(old.rows, new)
    IN  IF scroll.lines = 0 THEN old.rows ELSE ShiftRows(old.rows, scroll)

LEMMA ScrollShows ==
    ASSUME NEW t, NEW old, NEW new, NEW h, NEW w, Displays(t, old, h, w), t.region = h,
           Fits(old, h, w), Fits(new, h, w)
    PROVE  /\ Screen(Executed(t, Scrolling(old, new)), RowsLeft(old, new), h, w)
           /\ \A y \in 1 .. h : ProperRow(RowsLeft(old, new)[y], w)
           /\ \A y \in 1 .. h : y <= DetectScroll(old.rows, new).height =>
                                    RowsLeft(old, new)[y] = new.rows[y]
<1> DEFINE scroll == DetectScroll(old.rows, new)
           shifted == ShiftRows(old.rows, scroll)
           scrolling == EmitScroll(scroll, new, old.cursor[1])
           u == Executed(t, scrolling)
<1>1. /\ scroll.lines \in Nat /\ scroll.height \in Nat
      /\ scroll.lines = 0 => scroll.height = 0
      /\ scroll.lines # 0 => ScrollFound(scroll, old.rows, new.rows)
  BY ScrollFacts DEF Fits
<1>2. Screen(t, old.rows, h, w) /\ ProperRows(old.rows, h, w) /\ ProperRows(new.rows, h, w)
  BY DEF Displays, Fits
<1> HIDE DEF scroll
<1>3. CASE scroll.lines = 0
  <2>1. \A y \in 1 .. h : ProperRow(old.rows[y], w) /\ ~(y <= scroll.height)
    BY <1>1, <1>2, <1>3 DEF ProperRows
  <2>2. Executed(t, <<>>) = t
    BY ExecutedEmpty
  <2>3. Scrolling(old, new) = <<>> /\ RowsLeft(old, new) = old.rows
    BY <1>3, Zenon DEF scroll, Scrolling, RowsLeft
  <2> QED
    BY <1>2, <2>1, <2>2, <2>3 DEF scroll
<1>4. CASE scroll.lines # 0
  <2>0. Len(new.rows) = h
    BY <1>2 DEF ProperRows
  <2>1. /\ scroll.lines + scroll.height \in 1 .. h
        /\ \A i \in 1 .. scroll.height : new.rows[i] = old.rows[scroll.lines + i]
    BY <1>1, <1>4, <2>0 DEF ScrollFound
  <2>2. OnLine(t, old.cursor[1])
    <3>1. PICK y \in 1 .. h, x \in 1 .. w : old.cursor = <<y, x>>
      BY DEF Fits, Inside
    <3>2. t.cursor = old.cursor
      BY DEF Displays
    <3> QED
      BY <3>1, <3>2 DEF OnLine
  <2>3. Grid(t, h, w)
    BY <1>2 DEF Screen
  <2>4. Shifted(t, u, h, w, scroll.lines + scroll.height, scroll.lines)
    BY <1>1, <2>0, <2>1, <2>2, <2>3, ScrollShifts
  <2> HIDE DEF u
  <2>5. /\ Screen(u, shifted, h, w) /\ \A y \in 1 .. h : ProperRow(shifted[y], w)
        /\ \A y \in 1 .. h : y <= scroll.height => shifted[y] = old.rows[scroll.lines + y]
    BY <1>1, <1>2, <2>1, <2>4, ShiftShows
  <2> HIDE DEF shifted
  <2>6. \A y \in 1 .. h : y <= scroll.height => shifted[y] = new.rows[y]
    <3> TAKE y \in 1 .. h
    <3> HAVE y <= scroll.height
    <3>1. y \in 1 .. scroll.height
      BY <1>1
    <3> QED
      BY <2>1, <2>5, <3>1
  <2>7. Scrolling(old, new) = scrolling /\ RowsLeft(old, new) = shifted
    BY <1>4, Zenon DEF scroll, Scrolling, RowsLeft, scrolling, shifted
  <2> HIDE DEF scrolling
  <2> QED
    BY <2>5, <2>6, <2>7 DEF scroll, u
<1> QED
  BY <1>3, <1>4

\* The diff of two frames takes the terminal from the one to the other.
LEMMA SameSizeShows ==
    ASSUME NEW t, NEW old, NEW new, NEW h, NEW w, Displays(t, old, h, w), t.region = h,
           Fits(old, h, w), Fits(new, h, w), Size(old) = Size(new)
    PROVE  Displays(Executed(t, Diff(old, new)), new, h, w)
<1> DEFINE scroll == DetectScroll(old.rows, new)
           old_rows == RowsLeft(old, new)
           changes == StateChanges(FALSE, old, new)
           scrolling == Scrolling(old, new)
           rows == DiffRows(old_rows, new, scroll.height)
           a1 == changes \o scrolling
           drawing == a1 \o rows
           cursor == Reposition(drawing, old, new)
           a2 == drawing \o cursor
           show == IF old.visible # new.visible THEN <<Mode(25, new.visible)>> ELSE <<>>
           a3 == a2 \o show
           t1 == Executed(t, changes)
           t2 == Executed(t1, scrolling)
           t3 == Executed(t2, rows)
           t4 == Executed(t3, cursor)
           t5 == Executed(t4, show)
<1>1. Diff(old, new) = a3
  BY Zenon DEF Diff, DiffRows, Scrolling, RowsLeft
<1>2. /\ scroll.lines \in Nat /\ scroll.height \in Nat
      /\ scroll.lines # 0 => ScrollFound(scroll, old.rows, new.rows)
  BY ScrollFacts DEF Fits
<1>3. Switches \subseteq Ops
  BY DEF Switches, Ops
<1>4. changes \in Seq(Switches) /\ changes \in Seq(Ops)
  <2>1. changes \in Seq(Switches)
    BY StateChangesSwitch DEF Fits
  <2> HIDE DEF changes
  <2> QED
    BY <1>3, <2>1
<1>5. Displays(t1, old, h, w) /\ t1.region = h /\ DOMAIN t1 = Fields
  <2>1. DOMAIN t = Fields
    BY DEF Displays, Screen, Grid
  <2>2. SameScreen(t, t1)
    BY <1>4, <2>1, SwitchRun
  <2>3. Displays(t1, old, h, w)
    BY <1>4, SwitchesShow
  <2> HIDE DEF t1
  <2> QED
    BY <2>2, <2>3 DEF SameScreen
<1> HIDE DEF changes, t1
<1>6. scrolling \in Seq(Ops)
  <2>1. CASE scroll.lines = 0
    BY <2>1 DEF Scrolling
  <2>2. CASE scroll.lines # 0
    <3>1. Terminal(t1, h)
      BY <1>5 DEF Displays, Screen, Grid, Terminal
    <3>2. EmitScroll(scroll, new, old.cursor[1]) \in Seq(Ops)
      <4> HIDE DEF scroll
      <4> QED
        BY <1>2, <1>5, <3>1, ScrollEffect
    <3> QED
      BY <2>2, <3>2 DEF Scrolling
  <2> QED
    BY <2>1, <2>2
<1>7. /\ Screen(t2, old_rows, h, w)
      /\ \A y \in 1 .. h : ProperRow(old_rows[y], w)
      /\ \A y \in 1 .. h : y <= scroll.height => old_rows[y] = new.rows[y]
  BY <1>5, ScrollShows
<1>8. scrolling = <<>> => t2 = t1
  BY ExecutedEmpty
<1> HIDE DEF scroll, old_rows, scrolling, t2
<1>9. rows \in Seq(Ops) /\ (rows = <<>> => t3 = t2)
  <2>1. rows \in Seq(Drawing)
    BY <1>2, DiffRowsDraw DEF Fits
  <2>2. Drawing \subseteq Ops
    BY DEF Ops
  <2>3. rows = <<>> => t3 = t2
    BY ExecutedEmpty
  <2> HIDE DEF rows
  <2> QED
    BY <2>1, <2>2, <2>3
<1>10. Screen(t3, new.rows, h, w)
  BY <1>2, <1>7, DiffRowsShow DEF Fits
<1> HIDE DEF rows, t3
<1>11. drawing = <<>> => t3.cursor = old.cursor
  <2> SUFFICES ASSUME drawing = <<>> PROVE t3.cursor = old.cursor
    OBVIOUS
  <2>1. a1 \in Seq(Ops)
    BY <1>4, <1>6
  <2>2. a1 = <<>> /\ rows = <<>>
    BY <1>9, <2>1, ConcatNotEmpty
  <2>3. scrolling = <<>>
    BY <1>4, <1>6, <2>2, ConcatNotEmpty
  <2> QED
    BY <1>5, <1>8, <1>9, <2>2, <2>3 DEF Displays
<1>12. drawing \in Seq(Ops) /\ a1 \in Seq(Ops)
  BY <1>4, <1>6, <1>9
<1> HIDE DEF drawing
<1>13. cursor \in Seq(Ops) /\ Displays(t4, new, h, w)
  BY <1>10, <1>11, RepositionShows DEF Fits
<1> HIDE DEF cursor, t4
<1>14. show \in Seq(Switches)
  <2>1. new.visible \in BOOLEAN
    BY DEF Fits, Typed
  <2>2. Mode(25, new.visible) \in Switches
    BY <2>1 DEF Switches, Mode
  <2> QED
    BY <2>2
<1>15. show \in Seq(Ops)
  BY <1>3, <1>14
<1>16. Displays(t5, new, h, w)
  BY <1>13, <1>14, SwitchesShow
<1> HIDE DEF show, t5
<1>17. Executed(t, a3) = t5
  <2> HIDE DEF a1, a2, a3
  <2>1. Executed(t, a1) = t2
    BY <1>4, <1>6, ExecutedChain DEF a1, t1, t2
  <2>2. Executed(t, drawing) = t3
    BY <1>9, <1>12, <2>1, ExecutedChain DEF drawing, t3
  <2>3. a2 \in Seq(Ops) /\ Executed(t, a2) = t4
    BY <1>12, <1>13, <2>2, ExecutedChain DEF a2, t4
  <2> QED
    BY <1>15, <2>3, ExecutedChain DEF a3, t5
<1> QED
  BY <1>1, <1>16, <1>17

\* The head of a full redraw leaves no style behind.
LEMMA HeadShows ==
    ASSUME NEW t, NEW h, NEW w, Grid(t, h, w)
    PROVE  LET head == <<Hide, WholeRegion, ResetStyle, Cup(1, 1), Erase>>
               u == Executed(t, head)
           IN  head \in Seq(Ops) /\ Grid(u, h, w) /\ u.pen = {}
<1> DEFINE a == Hide
           b == WholeRegion
           c == ResetStyle
           d == Cup(1, 1)
           e == Erase
           ta == Execute(t, a)
           tb == Execute(ta, b)
           tc == Execute(tb, c)
           td == Execute(tc, d)
           te == Execute(td, e)
<1>1. a \in Ops /\ b \in Ops /\ c \in Ops /\ d \in Ops /\ e \in Ops
  <2>1. a \in Ops
    BY UpdateFlags
  <2>2. b \in Ops
    BY DEF Ops, WholeRegion
  <2>3. c \in Drawing /\ e \in Drawing
    BY DEF Drawing, Marks, Erase
  <2>4. d \in Drawing
    BY DrawingOps
  <2>5. Drawing \subseteq Ops
    BY DEF Ops
  <2> QED
    BY <2>1, <2>2, <2>3, <2>4, <2>5
<1> HIDE DEF a, b
<1>2. Grid(ta, h, w)
  BY <1>1, GridStep
<1> HIDE DEF ta
<1>3. Grid(tb, h, w)
  BY <1>1, <1>2, GridStep
<1> HIDE DEF tb
<1>4. Grid(tc, h, w) /\ tc.pen = {}
  BY <1>3, StyleReset
<1> HIDE DEF tc
<1>5. Moved(tc, td, h, w)
  <2>1. 1 \in Nat
    OBVIOUS
  <2> QED
    BY <1>4, <2>1, CupIs
<1> HIDE DEF td
<1>6. Grid(te, h, w) /\ te.pen = td.pen
  BY <1>5, MarksAre DEF Moved
<1>7. te.pen = {}
  BY <1>4, <1>5, <1>6 DEF Moved
<1> HIDE DEF te, c, d, e
<1>8. <<a, b, c, d, e>> \in Seq(Ops) /\ Executed(t, <<a, b, c, d, e>>) = te
  BY <1>1, ExecutedFive DEF ta, tb, tc, td, te
<1> QED
  BY <1>6, <1>7, <1>8 DEF a, b, c, d, e

\* A full redraw shows the frame, whatever was on the screen.
LEMMA FullRedrawShows ==
    ASSUME NEW t, NEW new, NEW h, NEW w, Grid(t, h, w), Fits(new, h, w)
    PROVE  Displays(Executed(t, FullRedraw(new)), new, h, w)
<1> DEFINE head == <<Hide, WholeRegion, ResetStyle, Cup(1, 1), Erase>>
           changes == StateChanges(TRUE, new, new)
           rows == FlattenSeq([y \in DOMAIN new.rows |-> RedrawRow(new.rows, y)])
           cup == <<Cup(new.cursor[1], new.cursor[2])>>
           show == IF new.visible THEN <<Mode(25, TRUE)>> ELSE <<>>
           a3 == head \o changes
           a4 == a3 \o rows
           a5 == a4 \o cup
           a6 == a5 \o show
           t2 == Executed(t, head)
           t3 == Executed(t2, changes)
           t4 == Executed(t3, rows)
           t5 == Executed(t4, cup)
           t6 == Executed(t5, show)
<1>1. FullRedraw(new) = a6
  BY Zenon DEF FullRedraw, Hide, WholeRegion, Erase
<1>2. head \in Seq(Ops) /\ Grid(t2, h, w) /\ t2.pen = {}
  BY HeadShows
<1>3. Switches \subseteq Ops
  BY DEF Switches, Ops
<1> HIDE DEF head, t2
<1>4. changes \in Seq(Switches)
  BY StateChangesSwitch DEF Fits
<1> HIDE DEF changes
<1>5. changes \in Seq(Ops) /\ SameScreen(t2, t3)
  BY <1>2, <1>3, <1>4, SwitchRun DEF Grid
<1> HIDE DEF t3
<1>6. Grid(t3, h, w) /\ t3.pen = {}
  BY <1>2, <1>5 DEF SameScreen, Grid
<1>7. Screen(t4, new.rows, h, w)
  <2>1. ProperRows(new.rows, h, w)
    BY DEF Fits
  <2> QED
    BY <1>6, <2>1, RedrawRowsShow
<1>8. rows \in Seq(Ops)
  <2> DEFINE pieces == [y \in DOMAIN new.rows |-> RedrawRow(new.rows, y)]
  <2>1. new.rows \in Seq(Seq(Cells))
    BY DEF Fits, Typed
  <2>2. PICK n \in Nat : DOMAIN new.rows = 1 .. n
    BY <2>1
  <2>3. \A y \in 1 .. n : RedrawRow(new.rows, y) \in Seq(Drawing)
    BY <2>1, <2>2, RedrawRowDraws
  <2>4. pieces \in [1 .. n -> Seq(Drawing)]
    BY <2>2, <2>3
  <2> HIDE DEF pieces
  <2>5. FlattenSeq(pieces) \in Seq(Drawing)
    BY <2>4, RowsDraw
  <2>6. Drawing \subseteq Ops
    BY DEF Ops
  <2> QED
    BY <2>5, <2>6 DEF pieces
<1> HIDE DEF rows, t4
<1>9. cup \in Seq(Ops) /\ Displays(t5, new, h, w)
  BY <1>7, CursorPut DEF Fits
<1> HIDE DEF cup, t5
<1>10. show \in Seq(Switches)
  <2> DEFINE op == Mode(25, TRUE)
  <2>1. op \in Switches
    BY ModeSwitches
  <2> HIDE DEF op
  <2>2. <<op>> \in Seq(Switches) /\ <<>> \in Seq(Switches)
    BY <2>1
  <2>3. show = <<op>> \/ show = <<>>
    BY Zenon DEF op
  <2> HIDE DEF show
  <2> QED
    BY <2>2, <2>3, Zenon
<1>11. show \in Seq(Ops)
  <2> HIDE DEF show
  <2> QED
    BY <1>3, <1>10
<1>12. Displays(t6, new, h, w)
  BY <1>9, <1>10, SwitchesShow
<1> HIDE DEF show, t6
<1>13. Executed(t, a6) = t6
  <2> HIDE DEF a3, a4, a5, a6
  <2>1. a3 \in Seq(Ops) /\ Executed(t, a3) = t3
    BY <1>2, <1>5, ExecutedChain DEF a3, t2, t3
  <2>2. a4 \in Seq(Ops) /\ Executed(t, a4) = t4
    BY <1>8, <2>1, ExecutedChain DEF a4, t4
  <2>3. a5 \in Seq(Ops) /\ Executed(t, a5) = t5
    BY <1>9, <2>2, ExecutedChain DEF a5, t5
  <2> QED
    BY <1>11, <2>3, ExecutedChain DEF a6, t6
<1> QED
  BY <1>1, <1>12, <1>13

LEMMA OutputOps ==
    ASSUME NEW old, NEW new, Diff(old, new) \in Seq(Ops)
    PROVE  Output(old, new) \in Seq(Ops)
<1> DEFINE diff == Diff(old, new)
           open == <<Begin, Hide>>
           shows == ShowAgain(new)
           close == <<End>>
           update == ((open \o diff) \o shows) \o close
<1>1. open \in Seq(Ops) /\ close \in Seq(Ops)
  BY UpdateFlags
<1>2. shows \in Seq(Ops)
  <2> DEFINE op == Mode(25, TRUE)
  <2>1. op \in Ops
    BY ModeIsOp
  <2>2. shows = <<op>> \/ shows = <<>>
    BY Zenon DEF ShowAgain
  <2> HIDE DEF op, shows
  <2>3. <<op>> \in Seq(Ops) /\ <<>> \in Seq(Ops)
    BY <2>1
  <2> QED
    BY <2>2, <2>3, Zenon
<1>3. Output(old, new) = diff \/ Output(old, new) = update
  BY Zenon DEF Output, Begin, Hide, End
<1> HIDE DEF diff, open, shows, close
<1>4. update \in Seq(Ops)
  BY <1>1, <1>2 DEF diff
<1> HIDE DEF update
<1> QED
  BY <1>3, <1>4, Zenon DEF diff

\* What is written for a frame shows it, if the terminal shows the one before or
\* the frame has another size.
LEMMA OutputShows ==
    ASSUME NEW t, NEW old, NEW new, NEW h, NEW w, Grid(t, h, w), t.region = h,
           Fits(new, h, w), Typed(old), Diff(old, new) \in Seq(Ops),
           Size(old) = Size(new) => Displays(t, old, h, w) /\ Fits(old, h, w)
    PROVE  Displays(Executed(t, Output(old, new)), new, h, w)
<1> DEFINE diff == Diff(old, new)
<1>1. ASSUME NEW v, Grid(v, h, w), v.region = h,
             Size(old) = Size(new) => Displays(v, old, h, w)
      PROVE  Displays(Executed(v, diff), new, h, w)
  <2>1. CASE Size(old) = Size(new)
    BY <1>1, <2>1, SameSizeShows
  <2>2. CASE Size(old) # Size(new)
    <3>1. diff = FullRedraw(new)
      BY <2>2, Zenon DEF Diff
    <3> QED
      BY <1>1, <3>1, FullRedrawShows
  <2> QED
    BY <2>1, <2>2
<1> HIDE DEF diff
<1>2. CASE diff = <<>> \/ old.rows = new.rows
  <2>1. Output(old, new) = diff
    BY <1>2, Zenon DEF Output, diff
  <2> QED
    BY <1>1, <2>1
<1>3. CASE ~(diff = <<>> \/ old.rows = new.rows)
  <2> DEFINE open == <<Begin, Hide>>
             shows == ShowAgain(new)
             close == <<End>>
             a2 == open \o diff
             a3 == a2 \o shows
             a4 == a3 \o close
             t1 == Executed(t, open)
             t2 == Executed(t1, diff)
             t3 == Executed(t2, shows)
             t4 == Executed(t3, close)
  <2>1. Output(old, new) = a4
    BY <1>3, Zenon DEF Output, diff, Begin, Hide, End
  <2>2. open \in Seq(Switches) /\ shows \in Seq(Switches) /\ close \in Seq(Switches)
    <3> DEFINE op == Mode(25, TRUE)
    <3>0. Synchronized \in Nat
      BY DEF Synchronized
    <3>1. Begin \in Switches /\ End \in Switches
      BY <3>0, ModeSwitches DEF Begin, End
    <3>2. Hide \in Switches /\ op \in Switches
      BY ModeSwitches DEF Hide
    <3> HIDE DEF op
    <3>3. open \in Seq(Switches) /\ close \in Seq(Switches) /\ <<op>> \in Seq(Switches)
      BY <3>1, <3>2
    <3>4. shows = <<op>> \/ shows = <<>>
      BY Zenon DEF shows, op, ShowAgain
    <3>5. <<>> \in Seq(Switches)
      OBVIOUS
    <3> HIDE DEF shows
    <3>6. shows \in Seq(Switches)
      BY <3>3, <3>4, <3>5, Zenon
    <3> QED
      BY <3>3, <3>6
  <2> HIDE DEF open, shows, close
  <2>3. Switches \subseteq Ops
    BY DEF Switches, Ops
  <2>4. open \in Seq(Ops) /\ shows \in Seq(Ops) /\ close \in Seq(Ops) /\ diff \in Seq(Ops)
    BY <2>2, <2>3 DEF diff
  <2>5. SameScreen(t, t1)
    BY <2>2, SwitchRun DEF Grid
  <2>6. Size(old) = Size(new) => Displays(t1, old, h, w)
    BY <2>2, SwitchesShow
  <2> HIDE DEF t1
  <2>7. Grid(t1, h, w) /\ t1.region = h
    BY <2>5 DEF SameScreen, Grid
  <2>8. Displays(t2, new, h, w)
    BY <1>1, <2>6, <2>7
  <2> HIDE DEF t2
  <2>9. Displays(t3, new, h, w)
    BY <2>2, <2>8, SwitchesShow
  <2> HIDE DEF t3
  <2>10. Displays(t4, new, h, w)
    BY <2>2, <2>9, SwitchesShow
  <2> HIDE DEF t4
  <2>11. Executed(t, a4) = t4
    <3> HIDE DEF a2, a3, a4
    <3>1. a2 \in Seq(Ops) /\ Executed(t, a2) = t2
      BY <2>4, ExecutedChain DEF a2, t1, t2
    <3>2. a3 \in Seq(Ops) /\ Executed(t, a3) = t3
      BY <2>4, <3>1, ExecutedChain DEF a3, t3
    <3> QED
      BY <2>4, <3>2, ExecutedChain DEF a4, t4
  <2> QED
    BY <2>1, <2>10, <2>11
<1> QED
  BY <1>2, <1>3

-----------------------------------------------------------------------------
(* What the terminal reads back as. *)

LEMMA CanonicalIs ==
    ASSUME NEW cell, DOMAIN cell = {"text", "wide", "spacer", "style"}
    PROVE  LET c == Canonical(cell)
           IN  /\ c = [z \in {"text", "wide", "spacer", "style"} |-> c[z]]
               /\ c.text = IF cell.spacer THEN "" ELSE Blanked(cell.text)
               /\ c.wide = cell.wide /\ c.spacer = cell.spacer /\ c.style = cell.style
<1> DEFINE c == Canonical(cell)
           none == ""
           text == IF cell.spacer \/ cell.text = " " THEN none ELSE cell.text
<1>1. c = [cell EXCEPT !.text = text]
  BY Zenon DEF Canonical
<1>2. text = IF cell.spacer THEN none ELSE Blanked(cell.text)
  BY Zenon DEF Blanked
<1> HIDE DEF c, text, none
<1>3. c = [z \in {"text", "wide", "spacer", "style"} |-> c[z]]
  BY <1>1
<1>4. c.text = text /\ c.wide = cell.wide /\ c.spacer = cell.spacer /\ c.style = cell.style
  BY <1>1
<1> QED
  BY <1>2, <1>3, <1>4, Zenon DEF c, none

\* A cell that renders one of the frame reads back as it.
LEMMA RenderedShows ==
    ASSUME NEW row, NEW w, ProperRow(row, w), NEW x \in 1 .. w, NEW cell, Rendered(cell, row, x)
    PROVE  Shows(Canonical(cell), row, x)
<1> DEFINE c == Canonical(cell)
           d == Canonical(row[x])
           none == ""
           names == {"text", "wide", "spacer", "style"}
<1>0. row[x] \in Cells /\ DOMAIN row[x] = names /\ row[x].spacer \in BOOLEAN
  <2>1. row \in Seq(Cells) /\ Len(row) = w
    BY DEF ProperRow
  <2>2. row[x] \in Cells
    BY <2>1
  <2> QED
    BY <2>2 DEF Cells
<1>1. DOMAIN cell = names
  BY DEF Rendered
<1>2. /\ c = [z \in names |-> c[z]]
      /\ c.text = IF cell.spacer THEN none ELSE Blanked(cell.text)
      /\ c.wide = cell.wide /\ c.spacer = cell.spacer /\ c.style = cell.style
  BY <1>1, CanonicalIs
<1>3. /\ d = [z \in names |-> d[z]]
      /\ d.text = IF row[x].spacer THEN none ELSE Blanked(row[x].text)
      /\ d.wide = row[x].wide /\ d.spacer = row[x].spacer /\ d.style = row[x].style
  BY <1>0, CanonicalIs
<1> HIDE DEF c, d
<1>4. /\ Blanked(cell.text) = Blanked(row[x].text) /\ cell.wide = row[x].wide
      /\ cell.spacer = (row[x].spacer /\ ~LeftFree(row, x))
      /\ cell.style = row[x].style \/ (LeftFree(row, x) /\ cell.style \subseteq {"background"})
  BY Zenon DEF Rendered
<1>5. CASE ~LeftFree(row, x)
  <2>1. cell.spacer = row[x].spacer /\ cell.style = row[x].style
    BY <1>0, <1>4, <1>5
  <2>2. c.text = d.text /\ c.wide = d.wide /\ c.spacer = d.spacer /\ c.style = d.style
    BY <1>2, <1>3, <1>4, <2>1, Zenon
  <2>3. \A z \in names : c[z] = d[z]
    BY <2>2
  <2>4. c = d
    BY <1>2, <1>3, <2>3
  <2> QED
    BY <1>5, <2>4 DEF Shows, c, d
<1>6. CASE LeftFree(row, x)
  <2> DEFINE style == cell.style
             e == [row[x] EXCEPT !.spacer = FALSE, !.style = style]
  <2>1. row[x].spacer
    BY <1>6 DEF LeftFree
  <2>2. row[x].text = none
    BY <2>1 DEF ProperRow
  <2>3. c.spacer = FALSE
    BY <1>2, <1>4, <1>6
  <2>4. c.text = none
    <3>1. Blanked(none) = none
      BY Zenon DEF Blanked
    <3>2. Blanked(cell.text) = none
      BY <1>4, <2>2, <3>1, Zenon
    <3> QED
      BY <1>2, <3>2, Zenon
  <2> HIDE DEF none
  <2>5. /\ e = [z \in names |-> e[z]] /\ e.text = none /\ e.wide = row[x].wide
        /\ e.spacer = FALSE /\ e.style = style
    BY <1>0, <2>2
  <2> HIDE DEF e
  <2>6. \A z \in names : c[z] = e[z]
    BY <1>2, <1>4, <2>3, <2>4, <2>5
  <2>7. c = e
    BY <1>2, <2>5, <2>6
  <2>8. style \in {row[x].style} \cup SUBSET {"background"}
    BY <1>4, <1>6
  <2> HIDE DEF style
  <2>9. \E s \in {row[x].style} \cup SUBSET {"background"} :
            c = [row[x] EXCEPT !.spacer = FALSE, !.style = s]
    BY <2>7, <2>8, Zenon DEF e
  <2> QED
    BY <1>6, <2>9, Zenon DEF Shows, c
<1> QED
  BY <1>5, <1>6

\* A terminal that shows a frame reads back as it.
LEMMA DisplayedReads ==
    ASSUME NEW t, NEW f, NEW h, NEW w, Displays(t, f, h, w), Fits(f, h, w)
    PROVE  LET rows == Snapshot(t).rows
           IN  /\ DOMAIN rows = DOMAIN f.rows
               /\ \A y \in DOMAIN rows :
                     /\ DOMAIN rows[y] = DOMAIN f.rows[y]
                     /\ \A x \in DOMAIN rows[y] : Shows(rows[y][x], f.rows[y], x)
               /\ Snapshot(t).cursor = f.cursor
<1> DEFINE rows == Snapshot(t).rows
           cells(y) == [x \in DOMAIN t.rows[y] |-> Canonical(t.rows[y][x])]
<1>0. rows = [y \in DOMAIN t.rows |-> cells(y)] /\ Snapshot(t).cursor = t.cursor
  BY DEF Snapshot
<1>1. /\ DOMAIN t.rows = 1 .. h /\ \A y \in 1 .. h : DOMAIN t.rows[y] = 1 .. w
      /\ \A y \in 1 .. h, x \in 1 .. w : Rendered(t.rows[y][x], f.rows[y], x)
      /\ t.cursor = f.cursor /\ h \in Nat /\ w \in Nat
  BY DEF Displays, Screen, Grid, RowDone
<1>2. DOMAIN f.rows = 1 .. h /\ \A y \in 1 .. h : ProperRow(f.rows[y], w)
  BY <1>1 DEF Fits, ProperRows
<1> HIDE DEF rows
<1>3. ASSUME NEW y \in 1 .. h
      PROVE  /\ DOMAIN rows[y] = 1 .. w /\ DOMAIN f.rows[y] = 1 .. w
             /\ \A x \in 1 .. w : Shows(rows[y][x], f.rows[y], x)
  <2>1. rows[y] = cells(y)
    BY <1>0, <1>1
  <2>2. DOMAIN cells(y) = 1 .. w /\ \A x \in 1 .. w : cells(y)[x] = Canonical(t.rows[y][x])
    BY <1>1
  <2> HIDE DEF cells
  <2>3. DOMAIN f.rows[y] = 1 .. w
    <3>1. ProperRow(f.rows[y], w)
      BY <1>2
    <3>2. f.rows[y] \in Seq(Cells) /\ Len(f.rows[y]) = w
      BY <3>1 DEF ProperRow
    <3> QED
      BY <3>2
  <2>4. \A x \in 1 .. w : Shows(Canonical(t.rows[y][x]), f.rows[y], x)
    BY <1>1, <1>2, RenderedShows
  <2> QED
    BY <2>1, <2>2, <2>3, <2>4
<1>4. DOMAIN rows = 1 .. h
  BY <1>0, <1>1
<1> QED
  BY <1>0, <1>1, <1>2, <1>3, <1>4 DEF rows

-----------------------------------------------------------------------------
(* The frames that are painted, row by row. *)

\* A frame of h rows and w columns, with nothing in the half of a glyph.
Framed(f, h, w) ==
    /\ Typed(f) /\ h \in Nat \ {0} /\ w \in Nat \ {0} /\ Inside(f.cursor, h, w)
    /\ Len(f.rows) = h
    /\ \A y \in 1 .. h : Len(f.rows[y]) = w
    /\ \A y \in 1 .. h, x \in 1 .. w : f.rows[y][x].spacer => f.rows[y][x].text = ""

LEMMA RowsOf ==
    ASSUME NEW rows \in Seq(Seq(Cells))
    PROVE  /\ Len(rows) \in Nat /\ DOMAIN rows = 1 .. Len(rows)
           /\ \A y \in 1 .. Len(rows) :
                 /\ rows[y] \in Seq(Cells) /\ Len(rows[y]) \in Nat
                 /\ DOMAIN rows[y] = 1 .. Len(rows[y])
                 /\ \A x \in 1 .. Len(rows[y]) : rows[y][x] \in Cells
OBVIOUS

LEMMA FrameFramed ==
    ASSUME NEW f, IsFrame(f)
    PROVE  \E h, w : Framed(f, h, w)
<1> DEFINE h == Len(f.rows)
           w == Len(f.rows[1])
<1>1. Typed(f)
  BY FrameTyped
<1>2. f.rows \in Seq(Seq(Cells)) /\ f.rows # <<>>
  BY <1>1 DEF Typed
<1>3. h \in Nat \ {0} /\ DOMAIN f.rows = 1 .. h
  BY <1>2
<1>4. f.rows[1] # <<>> /\ f.cursor \in (DOMAIN f.rows) \X (DOMAIN f.rows[1])
      /\ \A y \in DOMAIN f.rows :
            /\ Len(f.rows[y]) = w
            /\ \A x \in DOMAIN f.rows[y] : f.rows[y][x].spacer => f.rows[y][x].text = ""
  BY Zenon DEF IsFrame
<1>5. \A y \in 1 .. h : f.rows[y] \in Seq(Cells) /\ Len(f.rows[y]) = w /\ DOMAIN f.rows[y] = 1 .. w
  <2> HIDE DEF w
  <2> TAKE y \in 1 .. h
  <2>1. Len(f.rows[y]) = w
    BY <1>3, <1>4
  <2>2. f.rows[y] \in Seq(Cells) /\ DOMAIN f.rows[y] = 1 .. Len(f.rows[y])
    BY <1>2, RowsOf
  <2> QED
    BY <2>1, <2>2
<1>6. f.rows[1] \in Seq(Cells) /\ DOMAIN f.rows[1] = 1 .. w
  <2> HIDE DEF w
  <2>1. 1 \in 1 .. h
    BY <1>3
  <2> QED
    BY <1>5, <2>1
<1>7. w \in Nat \ {0}
  <2>1. f.rows[1] # <<>>
    BY <1>4
  <2> QED
    BY <1>6, <2>1
<1>8. Inside(f.cursor, h, w)
  <2>1. f.cursor \in (1 .. h) \X (1 .. w)
    BY <1>3, <1>4, <1>6
  <2> QED
    BY <2>1 DEF Inside
<1>9. \A y \in 1 .. h, x \in 1 .. w : f.rows[y][x].spacer => f.rows[y][x].text = ""
  BY <1>3, <1>4, <1>5
<1> HIDE DEF h, w
<1>10. Framed(f, h, w)
  BY <1>1, <1>3, <1>5, <1>7, <1>8, <1>9 DEF Framed, h
<1> QED
  BY <1>10

LEMMA OverlaidFramed ==
    ASSUME NEW frame \in Frames, NEW overlay \in Overlays, NEW h, NEW w, Framed(frame, h, w)
    PROVE  Framed(ApplyOverlay(frame, overlay), h, w)
<1> DEFINE styled(cell, p) ==
               [cell EXCEPT !.style = IF p.flagged THEN @ \cup {"underline"} ELSE @]
           predicted(cell, p) ==
               IF p.replacement = Unknown THEN styled(cell, p)
               ELSE styled([cell EXCEPT !.text = p.replacement, !.wide = FALSE,
                                        !.spacer = FALSE], p)
           painted(y, x) ==
               IF <<y, x>> \in DOMAIN overlay /\ x < Len(frame.rows[y])
               THEN predicted(frame.rows[y][x], overlay[<<y, x>>]) ELSE frame.rows[y][x]
           rows == [y \in DOMAIN frame.rows |-> [x \in DOMAIN frame.rows[y] |-> painted(y, x)]]
           f == ApplyOverlay(frame, overlay)
           none == ""
<1>1. Typed(f)
  BY OverlaidTyped
<1>2. f = [frame EXCEPT !.rows = rows]
  BY DEF ApplyOverlay
<1>3. /\ Typed(frame) /\ h \in Nat \ {0} /\ w \in Nat \ {0} /\ Inside(frame.cursor, h, w)
      /\ Len(frame.rows) = h
      /\ \A y \in 1 .. h : Len(frame.rows[y]) = w
      /\ \A y \in 1 .. h, x \in 1 .. w : frame.rows[y][x].spacer => frame.rows[y][x].text = none
  BY DEF Framed
<1>4. DOMAIN frame = {"rows", "cursor", "visible", "title", "modes", "mouse", "encoding"}
      /\ frame.rows \in Seq(Seq(Cells))
  BY <1>3 DEF Typed
<1>5. DOMAIN frame.rows = 1 .. h /\ \A y \in 1 .. h : DOMAIN frame.rows[y] = 1 .. w
  <2>1. /\ DOMAIN frame.rows = 1 .. Len(frame.rows)
        /\ \A y \in 1 .. Len(frame.rows) : DOMAIN frame.rows[y] = 1 .. Len(frame.rows[y])
    BY <1>4, RowsOf
  <2> QED
    BY <1>3, <2>1
<1>6. ASSUME NEW y \in 1 .. h, NEW x \in 1 .. w
      PROVE  painted(y, x).spacer => painted(y, x).text = none
  <2> DEFINE cell == frame.rows[y][x]
  <2>1. cell \in Cells
    <3>1. y \in 1 .. Len(frame.rows) /\ x \in 1 .. Len(frame.rows[y])
      BY <1>3
    <3> QED
      BY <1>4, <3>1, RowsOf
  <2>2. cell.spacer => cell.text = none
    BY <1>3
  <2>3. DOMAIN cell = {"text", "wide", "spacer", "style"}
    BY <2>1 DEF Cells
  <2> HIDE DEF none, cell
  <2>4. ASSUME NEW p
        PROVE  predicted(cell, p).spacer => predicted(cell, p).text = none
    <3> DEFINE replaced == [cell EXCEPT !.text = p.replacement, !.wide = FALSE, !.spacer = FALSE]
    <3>1. styled(cell, p).spacer = cell.spacer /\ styled(cell, p).text = cell.text
      BY <2>3
    <3>2. replaced.spacer = FALSE /\ DOMAIN replaced = DOMAIN cell
      BY <2>3
    <3> HIDE DEF replaced
    <3>3. styled(replaced, p).spacer = FALSE
      BY <2>3, <3>2
    <3>4. predicted(cell, p) = styled(cell, p) \/ predicted(cell, p) = styled(replaced, p)
      BY Zenon DEF replaced
    <3> HIDE DEF styled, predicted
    <3> QED
      BY <2>2, <3>1, <3>3, <3>4
  <2> HIDE DEF predicted
  <2>5. painted(y, x) = cell \/ \E p : painted(y, x) = predicted(cell, p)
    BY Zenon DEF cell
  <2> HIDE DEF painted
  <2> QED
    BY <2>2, <2>4, <2>5
<1> HIDE DEF painted
<1>7. DOMAIN rows = 1 .. h /\ \A y \in 1 .. h : rows[y] = [x \in 1 .. w |-> painted(y, x)]
  BY <1>5
<1>8. f.rows = rows /\ f.cursor = frame.cursor
  BY <1>2, <1>4
<1> HIDE DEF rows, f, none
<1>9. Len(f.rows) = h
  BY <1>3, <1>7, <1>8
<1>10. \A y \in 1 .. h : /\ Len(f.rows[y]) = w
                         /\ \A x \in 1 .. w : f.rows[y][x] = painted(y, x)
  BY <1>3, <1>7, <1>8
<1>11. \A y \in 1 .. h, x \in 1 .. w : f.rows[y][x].spacer => f.rows[y][x].text = none
  BY <1>6, <1>10
<1>12. Framed(f, h, w)
  BY <1>1, <1>3, <1>8, <1>9, <1>10, <1>11 DEF Framed, none
<1> QED
  BY <1>12 DEF f

LEMMA FramedSize ==
    ASSUME NEW f, NEW h, NEW w, Framed(f, h, w)
    PROVE  Size(f) = <<h, w>>
<1>1. Len(f.rows) = h /\ h \in Nat \ {0} /\ \A y \in 1 .. h : Len(f.rows[y]) = w
  BY Zenon DEF Framed
<1>2. 1 \in 1 .. h
  BY <1>1
<1> QED
  BY <1>1, <1>2 DEF Size

\* A frame in which no glyph is torn.
LEMMA ShapelyFits ==
    ASSUME NEW f, NEW h, NEW w, Framed(f, h, w), Shapely(f)
    PROVE  Fits(f, h, w)
<1>1. /\ Typed(f) /\ h \in Nat /\ w \in Nat /\ Inside(f.cursor, h, w)
      /\ Len(f.rows) = h /\ \A y \in 1 .. h : Len(f.rows[y]) = w
      /\ \A y \in 1 .. h, x \in 1 .. w : f.rows[y][x].spacer => f.rows[y][x].text = ""
  BY DEF Framed
<1>2. f.rows \in Seq(Seq(Cells)) /\ DOMAIN f.rows = 1 .. h
  <2>1. f.rows \in Seq(Seq(Cells))
    BY <1>1 DEF Typed
  <2>2. DOMAIN f.rows = 1 .. Len(f.rows)
    BY <2>1, RowsOf
  <2> QED
    BY <1>1, <2>1, <2>2
<1>3. ASSUME NEW y \in 1 .. h PROVE ProperRow(f.rows[y], w)
  <2> DEFINE row == f.rows[y]
  <2>1. row \in Seq(Cells) /\ Len(row) = w
    <3>1. y \in 1 .. Len(f.rows)
      BY <1>1
    <3>2. f.rows[y] \in Seq(Cells)
      BY <1>2, <3>1, RowsOf
    <3> QED
      BY <1>1, <3>2
  <2>2. DOMAIN row = 1 .. w
    BY <2>1
  <2>3. ASSUME NEW x \in 1 .. w
        PROVE  /\ row[x].wide <=> row[x].text = "W"
               /\ row[x].wide => x < w /\ row[x + 1].spacer /\ row[x + 1].style = row[x].style
               /\ row[x].spacer => /\ x = w \/ (x > 1 /\ row[x - 1].wide)
                                   /\ row[x].text = ""
    <3>1. /\ row[x].wide <=> Width(row[x].text) = 2
          /\ row[x].wide => x < Len(row) /\ row[x + 1].spacer /\ row[x + 1].style = row[x].style
          /\ row[x].spacer => (x > 1 /\ row[x - 1].wide) \/ x = Len(row)
      BY <1>2, <2>2, Zenon DEF Shapely
    <3>2. Width(row[x].text) = 2 <=> row[x].text = "W"
      BY DEF Width
    <3>3. row[x].spacer => row[x].text = ""
      BY <1>1
    <3> HIDE DEF row
    <3> QED
      BY <2>1, <3>1, <3>2, <3>3
  <2> HIDE DEF row
  <2> QED
    BY <2>1, <2>3 DEF ProperRow, row
<1> QED
  BY <1>1, <1>2, <1>3 DEF Fits, ProperRows

\* The window's size is that of one of the frames.
LEMMA SizesPositive == \A size \in Sizes : size[1] \in Nat \ {0} /\ size[2] \in Nat \ {0}
<1> SUFFICES ASSUME NEW f \in Frames
             PROVE  Size(f)[1] \in Nat \ {0} /\ Size(f)[2] \in Nat \ {0}
  BY DEF Sizes
<1>1. PICK h, w : Framed(f, h, w)
  BY FramesAssumption, FrameFramed
<1>2. Size(f) = <<h, w>>
  BY <1>1, FramedSize
<1>3. h \in Nat \ {0} /\ w \in Nat \ {0}
  BY <1>1 DEF Framed
<1> QED
  BY <1>2, <1>3

-----------------------------------------------------------------------------
(* The invariant: the terminal follows the frame that is shown. *)

Followed(t, f) == \E h \in Nat : Terminal(t, h) /\ t.region = h /\ Follows(t, f)

CursorInv == drawn => (25 \in term.on <=> shown.visible)

Inv ==
    /\ Typed(shown)
    /\ Followed(term, shown)
    /\ Synchronized \notin term.on
    /\ drawn \in BOOLEAN /\ CursorInv

LEMMA InitInv == Init => Inv
<1> SUFFICES ASSUME Init PROVE Inv
  OBVIOUS
<1> DEFINE h == FirstSize[1]
<1>1. shown = BlankFrame(FirstSize) /\ drawn = FALSE
  BY DEF Init
<1>2. Typed(shown) /\ h \in Nat /\ DOMAIN shown.rows = 1 .. h
  BY <1>1, BlankTyped
<1>3. /\ DOMAIN term = Fields /\ term.rows = shown.rows /\ term.region = h
      /\ term.on = {} /\ term.mouse = 0 /\ term.encoding = 0
  <2> DEFINE blank(title) ==
          [rows |-> BlankFrame(FirstSize).rows, cursor |-> <<1, 1>>, wrap |-> FALSE,
           pen |-> {}, region |-> FirstSize[1], on |-> {}, mouse |-> 0,
           encoding |-> 0, title |-> title]
  <2>1. \A title : LET t == blank(title)
                   IN  /\ DOMAIN t = Fields /\ t.rows = BlankFrame(FirstSize).rows
                       /\ t.region = h /\ t.on = {} /\ t.mouse = 0 /\ t.encoding = 0
    BY DEF Fields
  <2>2. term = blank("")
    BY Zenon DEF Init
  <2> HIDE DEF blank
  <2> QED
    BY <1>1, <2>1, <2>2, Zenon
<1>4. shown.modes = {} /\ shown.mouse = 0 /\ shown.encoding = 0
  BY <1>1 DEF BlankFrame
<1>5. shown.title = ""
  <2>1. \A title : [rows |-> [y \in 1 .. FirstSize[1] |-> BlankRow(FirstSize[2])],
                    cursor |-> <<1, 1>>, visible |-> TRUE, title |-> title,
                    modes |-> {}, mouse |-> 0, encoding |-> 0].title = title
    OBVIOUS
  <2> QED
    BY <1>1, <2>1, Zenon DEF BlankFrame
<1>6. Titled(term.title, shown.title)
  BY <1>5, Zenon DEF Titled
<1>7. Terminal(term, h)
  BY <1>2, <1>3 DEF Terminal
<1>8. Follows(term, shown)
  BY <1>3, <1>4, <1>6 DEF Follows
<1>9. Followed(term, shown)
  BY <1>2, <1>3, <1>7, <1>8 DEF Followed
<1> QED
  BY <1>1, <1>2, <1>3, <1>9 DEF Inv, CursorInv

\* A frame is painted.
LEMMA PaintStep ==
    ASSUME Inv, NEW frame \in Frames, NEW overlay \in Overlays,
           OutputNewFrame(frame, overlay)
    PROVE  Inv'
<1> DEFINE target == ApplyOverlay(frame, overlay)
           u == Executed(term, Output(shown, target))
<1>1. Typed(target)
  BY OverlaidTyped
<1> HIDE DEF target
<1>2. term' = u /\ shown' = target /\ drawn' = (drawn \/ target.rows # shown.rows)
  BY DEF OutputNewFrame, target
<1>3. PICK h \in Nat : Terminal(term, h) /\ term.region = h /\ Follows(term, shown)
  BY DEF Inv, Followed
<1>4. Typed(shown) /\ Synchronized \notin term.on /\ drawn \in BOOLEAN /\ CursorInv
  BY DEF Inv
<1>5. /\ Terminal(u, h) /\ u.region = h /\ Follows(u, target) /\ Synchronized \notin u.on
      /\ (25 \in term.on <=> shown.visible) \/ shown.rows # target.rows =>
             (25 \in u.on <=> target.visible)
  BY <1>1, <1>3, <1>4, OutputEffect
<1> HIDE DEF u
<1>6. Followed(u, target)
  BY <1>5 DEF Followed
<1>7. drawn' \in BOOLEAN
  BY <1>2, <1>4
<1>8. CursorInv'
  BY <1>2, <1>4, <1>5 DEF CursorInv
<1>9. Typed(shown)' /\ Followed(term, shown)' /\ (Synchronized \notin term.on)'
  BY <1>1, <1>2, <1>5, <1>6
<1> QED
  BY <1>7, <1>8, <1>9 DEF Inv

LEMMA ResizeStep ==
    ASSUME Inv, NEW size \in Sizes, WindowResizes(size)
    PROVE  Inv'
<1> DEFINE h == size[1]
           rows == [y \in 1 .. h |-> [x \in 1 .. size[2] |-> Debris]]
<1>1. h \in Nat
  BY SizesPositive
<1>2. shown' = shown /\ drawn' = drawn
  BY DEF WindowResizes
<1>3. PICK h0 \in Nat : Terminal(term, h0) /\ Follows(term, shown)
  BY DEF Inv, Followed
<1>4. /\ DOMAIN term' = Fields /\ term'.rows = rows /\ term'.region = h
      /\ term'.on = term.on /\ term'.mouse = term.mouse
      /\ term'.encoding = term.encoding /\ term'.title = term.title
  <2>1. DOMAIN term = Fields
    BY <1>3 DEF Terminal
  <2> DEFINE cursor == <<Least(term.cursor[1], size[1]), Least(term.cursor[2], size[2])>>
  <2>2. term' = [term EXCEPT !.rows = rows, !.cursor = cursor, !.wrap = FALSE, !.region = h]
    BY DEF WindowResizes
  <2> HIDE DEF rows, cursor
  <2> QED
    BY <2>1, <2>2 DEF Fields
<1>5. DOMAIN rows = 1 .. h
  OBVIOUS
<1> HIDE DEF rows
<1>6. Terminal(term', h)
  BY <1>1, <1>4, <1>5 DEF Terminal
<1>7. Follows(term', shown')
  BY <1>2, <1>3, <1>4 DEF Follows
<1>8. Followed(term, shown)'
  BY <1>1, <1>4, <1>6, <1>7 DEF Followed
<1>9. Typed(shown)' /\ (Synchronized \notin term.on)' /\ (drawn \in BOOLEAN)' /\ CursorInv'
  BY <1>2, <1>4 DEF Inv, CursorInv
<1> QED
  BY <1>8, <1>9 DEF Inv

\* The invariant holds whatever frames are painted and however the window is resized.
THEOREM Invariance == Spec => []Inv
<1>1. Inv /\ [Next]_vars => Inv'
  <2> SUFFICES ASSUME Inv, [Next]_vars PROVE Inv'
    OBVIOUS
  <2>1. ASSUME NEW frame \in Frames, NEW overlay \in Overlays,
               OutputNewFrame(frame, overlay)
        PROVE  Inv'
    BY <2>1, PaintStep
  <2>2. ASSUME NEW size \in Sizes, WindowResizes(size)
        PROVE  Inv'
    BY <2>2, ResizeStep
  <2>3. CASE UNCHANGED vars
    BY <2>3 DEF vars, Inv, Followed, CursorInv
  <2> QED
    BY <2>1, <2>2, <2>3 DEF Next
<1> QED
  BY <1>1, InitInv, PTL DEF Spec

\* Whatever frames are painted and however the window is resized, the terminal's
\* modes and title are those of the last frame, no synchronized update is left
\* open and lines scroll in the whole window (state_changes, scroll_ops,
\* output_new_frame).
THEOREM ModesRight == Spec => []ModesFollow
<1>1. Inv => ModesFollow
  <2> SUFFICES ASSUME Inv PROVE ModesFollow
    OBVIOUS
  <2>1. PICK h \in Nat : Terminal(term, h) /\ term.region = h /\ Follows(term, shown)
    BY DEF Inv, Followed
  <2>2. Range(Modes) = Toggled
    BY Groups DEF Toggled
  <2>3. Snapshot(term).modes = shown.modes
    <3>1. Snapshot(term).modes = term.on \cap Toggled
      BY <2>2 DEF Snapshot
    <3>2. shown.modes \subseteq Toggled
      BY DEF Inv, Typed
    <3>3. \A m : m \in term.on \cap Toggled <=> m \in shown.modes
      BY <2>1, <3>2 DEF Follows
    <3> QED
      BY <3>1, <3>3
  <2>4. term.mouse = shown.mouse /\ term.encoding = shown.encoding
    BY <2>1 DEF Follows
  <2>5. shown.title # "" => term.title = shown.title
    BY <2>1, Zenon DEF Follows, Titled
  <2>6. term.region = Len(term.rows)
    BY <2>1 DEF Terminal
  <2>7. Synchronized \notin term.on
    BY DEF Inv
  <2> QED
    BY <2>3, <2>4, <2>5, <2>6, <2>7, Zenon DEF ModesFollow
<1> QED
  BY <1>1, Invariance, PTL

\* From the first frame that draws on, the cursor is visible exactly when the
\* last frame has it so (output_new_frame, DisplayDiff::diff).
THEOREM CursorRight == Spec => []CursorVisibility
<1>1. Inv => CursorVisibility
  <2> SUFFICES ASSUME Inv, drawn PROVE Snapshot(term).visible = shown.visible
    BY DEF CursorVisibility
  <2>1. Snapshot(term).visible = (25 \in term.on)
    BY DEF Snapshot
  <2>2. 25 \in term.on <=> shown.visible
    BY DEF Inv, CursorInv
  <2>3. shown.visible \in BOOLEAN
    BY DEF Inv, Typed
  <2> QED
    BY <2>1, <2>2, <2>3
<1> QED
  BY <1>1, Invariance, PTL

\* Whatever is shown, painting it again writes nothing (DisplayDiff::diff).
THEOREM SilentWhenIdle == Spec => []IdleIsSilent
<1>1. Inv => IdleIsSilent
  BY SilentOutput DEF Inv, IdleIsSilent
<1> QED
  BY <1>1, Invariance, PTL

-----------------------------------------------------------------------------
(* The invariant: the terminal displays the frame that is shown. *)

\* What a terminal of h rows and w columns has of a frame of a rows and b columns,
\* if the window was not resized (stale) and no glyph is torn.
Picture(t, f, stale, torn, h, w, a, b) ==
    /\ Grid(t, h, w) /\ Framed(f, a, b)
    /\ ~stale => a = h /\ b = w
    /\ ~torn => Fits(f, a, b)
    /\ ~stale /\ ~torn => Displays(t, f, a, b)

ScreenInv ==
    /\ resized \in BOOLEAN /\ misshapen \in BOOLEAN
    /\ \E h, w, a, b : Picture(term, shown, resized, misshapen, h, w, a, b)

LEMMA InitScreen == Init => ScreenInv
<1> SUFFICES ASSUME Init PROVE ScreenInv
  OBVIOUS
<1> DEFINE h == FirstSize[1]
           w == FirstSize[2]
           f == BlankFrame(FirstSize)
<1>1. shown = f /\ resized = FALSE /\ misshapen = FALSE
  BY DEF Init
<1>2. h \in Nat \ {0} /\ w \in Nat \ {0}
  BY FramesAssumption
<1>3. Typed(f)
  BY BlankTyped
<1>4. f.rows = [y \in 1 .. h |-> BlankRow(w)] /\ f.cursor = <<1, 1>>
  BY DEF BlankFrame
<1>5. /\ term.rows = f.rows /\ term.cursor = <<1, 1>> /\ term.region = h
      /\ DOMAIN term = Fields
  <2> DEFINE blank(title) ==
          [rows |-> f.rows, cursor |-> <<1, 1>>, wrap |-> FALSE,
           pen |-> {}, region |-> FirstSize[1], on |-> {}, mouse |-> 0,
           encoding |-> 0, title |-> title]
  <2>1. \A title : LET t == blank(title)
                   IN  /\ DOMAIN t = Fields /\ t.rows = f.rows
                       /\ t.region = h /\ t.cursor = <<1, 1>>
    BY DEF Fields
  <2>2. term = blank("")
    BY Zenon DEF Init
  <2> HIDE DEF blank
  <2> QED
    BY <2>1, <2>2, Zenon
<1> HIDE DEF f, h, w
<1>6. /\ ProperRow(BlankRow(w), w)
      /\ \A k \in 1 .. w : Rendered(BlankRow(w)[k], BlankRow(w), k)
  BY <1>2, BlankShown
<1>7. /\ DOMAIN f.rows = 1 .. h /\ \A y \in 1 .. h : f.rows[y] = BlankRow(w)
      /\ Len(f.rows) = h
  BY <1>2, <1>4
<1>8. ProperRows(f.rows, h, w)
  BY <1>3, <1>6, <1>7 DEF ProperRows, Typed
<1>9. Inside(f.cursor, h, w)
  <2>1. 1 \in 1 .. h /\ 1 \in 1 .. w
    BY <1>2
  <2> QED
    BY <1>4, <2>1 DEF Inside
<1>10. Fits(f, h, w)
  BY <1>3, <1>8, <1>9 DEF Fits
<1>11. Framed(f, h, w)
  <2>1. \A y \in 1 .. h : ProperRow(f.rows[y], w)
    BY <1>8 DEF ProperRows
  <2>2. \A y \in 1 .. h : Len(f.rows[y]) = w
    BY <2>1 DEF ProperRow
  <2>3. \A y \in 1 .. h, x \in 1 .. w : f.rows[y][x].spacer => f.rows[y][x].text = ""
    BY <2>1, Zenon DEF ProperRow
  <2> QED
    BY <1>2, <1>3, <1>7, <1>9, <2>2, <2>3, Zenon DEF Framed
<1>12. Displays(term, f, h, w)
  <2>1. \A y \in 1 .. h : DOMAIN BlankRow(w) = 1 .. w /\ term.rows[y] = BlankRow(w)
    BY <1>5, <1>7 DEF BlankRow
  <2>2. Grid(term, h, w)
    BY <1>2, <1>5, <1>7, <2>1 DEF Grid
  <2>3. \A y \in 1 .. h : RowDone(term, y, f.rows[y], w)
    BY <1>6, <1>7, <2>1 DEF RowDone
  <2> QED
    BY <1>4, <1>5, <2>2, <2>3 DEF Displays, Screen
<1>13. Picture(term, shown, resized, misshapen, h, w, h, w)
  BY <1>1, <1>10, <1>11, <1>12 DEF Picture, Displays, Screen
<1> QED
  BY <1>1, <1>13 DEF ScreenInv

\* What becomes of that when a frame is painted over another one.
Stale(t, old, new, stale) ==
    IF Size(new) # Size(old) THEN Size(new) # Size(t) ELSE stale

Torn(old, new, torn) ==
    IF Size(new) # Size(old) THEN ~Shapely(new) ELSE torn \/ ~Shapely(new)

LEMMA PaintPicture ==
    ASSUME NEW t, NEW old, NEW stale \in BOOLEAN, NEW torn \in BOOLEAN,
           NEW h, NEW w, NEW a, NEW b, Picture(t, old, stale, torn, h, w, a, b),
           t.region = h, NEW new, NEW c, NEW d, Framed(new, c, d),
           Diff(old, new) \in Seq(Ops)
    PROVE  Picture(Executed(t, Output(old, new)), new, Stale(t, old, new, stale),
                   Torn(old, new, torn), h, w, c, d)
<1> DEFINE u == Executed(t, Output(old, new))
           whole == Size(new) # Size(old)
           stale2 == IF whole THEN Size(new) # Size(t) ELSE stale
           torn2 == IF whole THEN ~Shapely(new) ELSE torn \/ ~Shapely(new)
<1>1. /\ Grid(t, h, w) /\ Framed(old, a, b) /\ (~stale => a = h /\ b = w)
      /\ (~torn => Fits(old, a, b)) /\ (~stale /\ ~torn => Displays(t, old, a, b))
  BY DEF Picture
<1>2. Size(t) = <<h, w>> /\ Size(old) = <<a, b>> /\ Size(new) = <<c, d>>
  <2>1. Size(old) = <<a, b>> /\ Size(new) = <<c, d>>
    BY <1>1, FramedSize
  <2>2. Len(t.rows) = h /\ Len(t.rows[1]) = w
    BY <1>1, GridSize
  <2> QED
    BY <2>1, <2>2 DEF Size
<1>3. Grid(u, h, w)
  <2>1. Output(old, new) \in Seq(Ops)
    BY OutputOps
  <2> QED
    BY <1>1, <2>1, GridRun
<1>4. ~stale2 => c = h /\ d = w
  <2>1. CASE whole
    BY <1>2, <2>1
  <2>2. CASE ~whole
    BY <1>1, <1>2, <2>2
  <2> QED
    BY <2>1, <2>2
<1>5. ~torn2 => Shapely(new) /\ (whole \/ ~torn)
  OBVIOUS
<1>6. ~torn2 => Fits(new, c, d)
  BY <1>5, ShapelyFits
<1>7. ~stale2 /\ ~whole => ~stale
  OBVIOUS
<1>8. ASSUME ~stale2, ~torn2 PROVE Displays(u, new, c, d)
  <2> HIDE DEF stale2, torn2
  <2>1. c = h /\ d = w /\ Fits(new, h, w)
    BY <1>4, <1>6, <1>8
  <2>2. Size(old) = Size(new) => Displays(t, old, h, w) /\ Fits(old, h, w)
    BY <1>1, <1>5, <1>7, <1>8
  <2>3. Typed(old)
    BY <1>1 DEF Framed
  <2> HIDE DEF u, whole
  <2>4. Displays(u, new, h, w)
    BY <1>1, <2>1, <2>2, <2>3, OutputShows DEF u
  <2> QED
    BY <2>1, <2>4
<1> HIDE DEF stale2, torn2, u
<1> QED
  BY <1>3, <1>4, <1>6, <1>8 DEF Picture, Stale, Torn, u, stale2, torn2

LEMMA PaintScreen ==
    ASSUME Inv, ScreenInv, NEW frame \in Frames, NEW overlay \in Overlays,
           OutputNewFrame(frame, overlay)
    PROVE  ScreenInv'
<1> DEFINE target == ApplyOverlay(frame, overlay)
           u == Executed(term, Output(shown, target))
           stale == Stale(term, shown, target, resized)
           torn == Torn(shown, target, misshapen)
<1>1. resized \in BOOLEAN /\ misshapen \in BOOLEAN
  BY DEF ScreenInv
<1>2. PICK h, w, a, b : Picture(term, shown, resized, misshapen, h, w, a, b)
  BY DEF ScreenInv
<1>3. \E c, d : Framed(target, c, d)
  <2>1. PICK c, d : Framed(frame, c, d)
    BY FramesAssumption, FrameFramed
  <2> QED
    BY <2>1, OverlaidFramed
<1>4. PICK c, d : Framed(target, c, d)
  BY <1>3
<1>5. /\ term' = u /\ shown' = target /\ resized' = stale /\ misshapen' = torn
  BY DEF OutputNewFrame, Stale, Torn
<1> HIDE DEF target
<1>6. term.region = h /\ Diff(shown, target) \in Seq(Ops)
  <2>1. PICK g \in Nat : Terminal(term, g) /\ term.region = g /\ Follows(term, shown)
    BY DEF Inv, Followed
  <2>2. Typed(shown) /\ Typed(target)
    BY <1>4 DEF Inv, Framed
  <2>3. Diff(shown, target) \in Seq(Ops)
    BY <2>1, <2>2, DiffEffect
  <2>4. DOMAIN term.rows = 1 .. h /\ h \in Nat
    BY <1>2 DEF Picture, Grid
  <2>5. DOMAIN term.rows = 1 .. g
    BY <2>1 DEF Terminal
  <2>6. g = h
    BY <2>4, <2>5
  <2> QED
    BY <2>1, <2>3, <2>6
<1>7. Picture(u, target, stale, torn, h, w, c, d)
  BY <1>1, <1>2, <1>4, <1>6, PaintPicture
<1>8. stale \in BOOLEAN /\ torn \in BOOLEAN
  BY <1>1 DEF Stale, Torn
<1> HIDE DEF u, stale, torn
<1> QED
  BY <1>5, <1>7, <1>8 DEF ScreenInv

LEMMA ResizeScreen ==
    ASSUME ScreenInv, NEW size \in Sizes, WindowResizes(size)
    PROVE  ScreenInv'
<1> DEFINE h == size[1]
           w == size[2]
           rows == [y \in 1 .. h |-> [x \in 1 .. w |-> Debris]]
           cursor == <<Least(term.cursor[1], h), Least(term.cursor[2], w)>>
<1>1. h \in Nat \ {0} /\ w \in Nat \ {0}
  BY SizesPositive
<1>2. shown' = shown /\ misshapen' = misshapen /\ resized' = TRUE
  BY DEF WindowResizes
<1>3. PICK h0, w0, a, b : Picture(term, shown, resized, misshapen, h0, w0, a, b)
  BY DEF ScreenInv
<1>4. term' = [term EXCEPT !.rows = rows, !.cursor = cursor, !.wrap = FALSE, !.region = h]
  BY DEF WindowResizes
<1>5. DOMAIN rows = 1 .. h /\ \A y \in 1 .. h : DOMAIN rows[y] = 1 .. w
  OBVIOUS
<1> HIDE DEF rows, cursor, h, w
<1>6. Grid(term', h, w)
  <2>1. DOMAIN term = Fields
    BY <1>3 DEF Picture, Grid
  <2>2. DOMAIN term' = Fields /\ term'.rows = rows /\ term'.region = h
    BY <1>4, <2>1 DEF Fields
  <2> QED
    BY <1>1, <1>5, <2>2 DEF Grid
<1>7. Framed(shown, a, b) /\ (~misshapen => Fits(shown, a, b))
  BY <1>3 DEF Picture
<1>8. Picture(term', shown', resized', misshapen', h, w, a, b)
  BY <1>2, <1>6, <1>7 DEF Picture
<1>9. resized' \in BOOLEAN /\ misshapen' \in BOOLEAN
  BY <1>2 DEF ScreenInv
<1> QED
  BY <1>8, <1>9 DEF ScreenInv

\* Whatever frames are painted and however the window is resized, the terminal is a
\* grid with its cursor on it, of the frame's size unless the window was resized, and
\* displays the frame unless that happened or a glyph was torn (output_new_frame).
THEOREM ScreenInvariance == Spec => []ScreenInv
<1>1. Inv /\ ScreenInv /\ [Next]_vars => ScreenInv'
  <2> SUFFICES ASSUME Inv, ScreenInv, [Next]_vars PROVE ScreenInv'
    OBVIOUS
  <2>1. ASSUME NEW frame \in Frames, NEW overlay \in Overlays,
               OutputNewFrame(frame, overlay)
        PROVE  ScreenInv'
    BY <2>1, PaintScreen
  <2>2. ASSUME NEW size \in Sizes, WindowResizes(size)
        PROVE  ScreenInv'
    BY <2>2, ResizeScreen
  <2>3. CASE UNCHANGED vars
    BY <2>3 DEF vars, ScreenInv
  <2> QED
    BY <2>1, <2>2, <2>3 DEF Next
<1> QED
  BY <1>1, Invariance, InitScreen, PTL DEF Spec

\* Unless the window was resized, or a predicted frame tore a double-width glyph,
\* since the last full redraw, the terminal reads back as the last frame that was
\* painted, whatever frames it went through (DisplayDiff::diff, output_new_frame).
THEOREM ShowsTheFrame == Spec => []FrameShown
<1>1. ScreenInv => FrameShown
  <2> SUFFICES ASSUME ScreenInv, ~resized, ~misshapen
               PROVE  LET rows == Snapshot(term).rows
                      IN  /\ DOMAIN rows = DOMAIN shown.rows
                          /\ \A y \in DOMAIN rows :
                                /\ DOMAIN rows[y] = DOMAIN shown.rows[y]
                                /\ \A x \in DOMAIN rows[y] :
                                      Shows(rows[y][x], shown.rows[y], x)
                          /\ Snapshot(term).cursor = shown.cursor
    BY Zenon DEF FrameShown
  <2>1. PICK h, w, a, b : Picture(term, shown, resized, misshapen, h, w, a, b)
    BY DEF ScreenInv
  <2>2. Displays(term, shown, a, b) /\ Fits(shown, a, b)
    BY <2>1 DEF Picture
  <2> QED
    BY <2>2, DisplayedReads
<1> QED
  BY <1>1, ScreenInvariance, PTL

=============================================================================
