------------------------- MODULE Prediction_proofs -------------------------
(***************************************************************************)
(* Predictions come true: whatever is typed, sent, echoed and received in  *)
(* whatever order, a prediction is what the server will show.              *)
(***************************************************************************)
EXTENDS Prediction, DataFacts

-----------------------------------------------------------------------------
(* Types *)

InputStates == {"Ground", "Escape", "Csi", "Ss3"}
Keys == {"none", "unknown", "right", "left", "backspace", "insert"}

\* Screens of one size, and the applications that draw on them.
ScreensOf(size) ==
    [size : {size}, cells : [Positions(size) -> Printable], cursor : Positions(size)]
AppsOf(size) ==
    [size : {size}, cells : [Positions(size) -> Printable], cursor : Positions(size),
     echo : BOOLEAN, input : InputStates, plain : BOOLEAN, pasted : BOOLEAN]

Screens == UNION {ScreensOf(size) : size \in Sizes}
Apps == UNION {AppsOf(size) : size \in Sizes}

\* A blank is a character, and not the mark of the unknown.
LEMMA BlankFacts == Blank \in Printable /\ Unknown \in Character
  BY Zenon DEF Printable, Character

\* A window has at least one row and one column.
LEMMA SizeFacts ==
    ASSUME NEW size \in Sizes
    PROVE  /\ size \in Nat \X Nat /\ size[1] > 0 /\ size[2] > 0
           /\ size = <<size[1], size[2]>>
           /\ <<0, 0>> \in Positions(size)
  BY PredictionAssumption DEF Positions

\* Positions are the pairs within the window's size.
LEMMA PositionFacts ==
    ASSUME NEW size \in Sizes, NEW at
    PROVE  /\ at \in Positions(size) =>
                 /\ at \in Nat \X Nat /\ at = <<at[1], at[2]>>
                 /\ at[1] < size[1] /\ at[2] < size[2]
           /\ at \in Nat \X Nat /\ at[1] < size[1] /\ at[2] < size[2] =>
                 at \in Positions(size)
  BY SizeFacts DEF Positions

\* The fields of an application.
LEMMA AppFields ==
    ASSUME NEW s \in Apps
    PROVE  /\ s.size \in Sizes /\ s \in AppsOf(s.size)
           /\ s.cells \in [Positions(s.size) -> Printable]
           /\ s.cursor \in Positions(s.size)
           /\ s.echo \in BOOLEAN /\ s.input \in InputStates
           /\ s.plain \in BOOLEAN /\ s.pasted \in BOOLEAN
  BY DEF Apps, AppsOf

\* Decoding yields a state and a key.
LEMMA DecodeType ==
    ASSUME NEW state \in InputStates, NEW ch
    PROVE  /\ Decode(state, ch)[1] \in InputStates
           /\ Decode(state, ch)[2] \in Keys
           /\ Decode(state, ch)[2] = "insert" => ch \in Printable
  BY Zenon DEF Decode, InputStates, Keys

\* A cell of a screen is a character.
LEMMA CellAtType ==
    ASSUME NEW size \in Sizes, NEW s, s.cells \in [Positions(size) -> Printable], NEW at
    PROVE  CellAt(s, at) \in Printable
  BY BlankFacts DEF CellAt

\* Shifting a row leaves a screen of characters.
LEMMA ShiftTypes ==
    ASSUME NEW size \in Sizes, NEW s, s.cells \in [Positions(size) -> Printable],
           NEW row \in Nat, NEW col \in Nat
    PROVE  /\ ShiftRight(s, row, col) \in [Positions(size) -> Printable]
           /\ ShiftLeft(s, row, col) \in [Positions(size) -> Printable]
<1>1. ASSUME NEW at \in Positions(size), at[1] = row, at[2] > col
      PROVE  <<row, at[2] - 1>> \in Positions(size)
  <2>1. at \in Nat \X Nat /\ at[1] < size[1] /\ at[2] < size[2] /\ size \in Nat \X Nat
    BY PositionFacts, SizeFacts
  <2> DEFINE p == <<row, at[2] - 1>>
  <2>2. p \in Nat \X Nat /\ p[1] < size[1] /\ p[2] < size[2]
    BY <1>1, <2>1
  <2> QED
    BY <2>2, PositionFacts
<1>2. DOMAIN s.cells = Positions(size)
  OBVIOUS
<1>3. ShiftRight(s, row, col) \in [Positions(size) -> Printable]
  BY <1>1, <1>2 DEF ShiftRight
<1>4. ShiftLeft(s, row, col) \in [Positions(size) -> Printable]
  BY <1>2, CellAtType DEF ShiftLeft
<1> QED
  BY <1>3, <1>4

\* A new line keeps the application's type, and at most ends its plain history.
LEMMA NextLineType ==
    ASSUME NEW s \in Apps
    PROVE  /\ NextLine(s) \in AppsOf(s.size)
           /\ NextLine(s).echo = s.echo /\ NextLine(s).input = s.input
           /\ NextLine(s).pasted = s.pasted
           /\ NextLine(s).plain => s.plain
<1>0. PICK size \in Sizes : s \in AppsOf(size)
  BY DEF Apps
<1>1. /\ s.size = size /\ s.cursor \in Positions(size)
      /\ s.cells \in [Positions(size) -> Printable] /\ s.plain \in BOOLEAN
  BY <1>0 DEF AppsOf
<1>2. /\ s.cursor \in Nat \X Nat /\ s.cursor[1] < size[1] /\ size \in Nat \X Nat /\ size[2] > 0
  BY <1>1, PositionFacts, SizeFacts
<1>3. \A r \in Nat : r < size[1] => <<r, 0>> \in Positions(size)
  BY <1>2 DEF Positions
<1> DEFINE cells == [at \in DOMAIN s.cells |-> CellAt(s, <<at[1] + 1, at[2]>>)]
<1>4. cells \in [Positions(size) -> Printable]
  BY <1>1, CellAtType
<1> HIDE DEF cells
<1>5. CASE s.cursor[1] + 1 < size[1]
  <2>1. NextLine(s) = [s EXCEPT !.cursor = <<s.cursor[1] + 1, 0>>]
    BY <1>1, <1>5 DEF NextLine
  <2>2. <<s.cursor[1] + 1, 0>> \in Positions(size)
    BY <1>2, <1>3, <1>5
  <2> QED
    BY <1>0, <1>1, <2>1, <2>2 DEF AppsOf
<1>6. CASE ~(s.cursor[1] + 1 < size[1])
  <2>1. NextLine(s) = [s EXCEPT !.cursor = <<s.cursor[1], 0>>,
                                !.plain = s.plain /\ size[1] = 1, !.cells = cells]
    BY <1>1, <1>6 DEF NextLine, cells
  <2>2. <<s.cursor[1], 0>> \in Positions(size)
    BY <1>2, <1>3
  <2> QED
    BY <1>0, <1>1, <1>4, <2>1, <2>2 DEF AppsOf
<1> QED
  BY <1>5, <1>6

\* Characters that are put at the cursor.
Put(s, ch) == [ShiftRight(s, s.cursor[1], s.cursor[2]) EXCEPT ![s.cursor] = ch]

\* Inserting, as one update of cells and cursor.
LEMMA AppInsertIs ==
    ASSUME NEW s \in Apps, NEW ch \in Printable
    PROVE  /\ [s EXCEPT !.cells = Put(s, ch)] \in AppsOf(s.size)
           /\ s.cursor[2] + 1 < s.size[2] =>
                 AppInsert(s, ch) = [s EXCEPT !.cells = Put(s, ch),
                                              !.cursor = <<s.cursor[1], s.cursor[2] + 1>>]
           /\ ~(s.cursor[2] + 1 < s.size[2]) =>
                 AppInsert(s, ch) = NextLine([s EXCEPT !.cells = Put(s, ch)])
<1>0. PICK size \in Sizes : s \in AppsOf(size)
  BY DEF Apps
<1>1. /\ s.size = size /\ s.cursor \in Positions(size)
      /\ s.cells \in [Positions(size) -> Printable]
  BY <1>0 DEF AppsOf
<1>2. Put(s, ch) \in [Positions(size) -> Printable]
  BY <1>1, PositionFacts, ShiftTypes DEF Put
<1> DEFINE put == [s EXCEPT !.cells = Put(s, ch)]
<1>3. put \in AppsOf(size) /\ put.cursor = s.cursor
  BY <1>0, <1>2 DEF AppsOf
<1>4. AppInsert(s, ch) = IF s.cursor[2] + 1 < s.size[2]
                         THEN [put EXCEPT !.cursor = <<put.cursor[1], put.cursor[2] + 1>>]
                         ELSE NextLine(put)
  BY Zenon DEF AppInsert, Put
<1>5. [put EXCEPT !.cursor = <<s.cursor[1], s.cursor[2] + 1>>]
         = [s EXCEPT !.cells = Put(s, ch), !.cursor = <<s.cursor[1], s.cursor[2] + 1>>]
  BY <1>0 DEF AppsOf
<1> HIDE DEF put
<1> QED
  BY <1>1, <1>3, <1>4, <1>5 DEF put

\* What a byte leaves alone.
Kept(s, t) ==
    /\ t \in AppsOf(s.size)
    /\ t.pasted = s.pasted
    /\ t.plain => s.plain

\* Inserting a character keeps the application's type and its mode.
LEMMA AppInsertType ==
    ASSUME NEW s \in Apps, NEW ch \in Printable
    PROVE  Kept(s, AppInsert(s, ch)) /\ AppInsert(s, ch).echo = s.echo
                                     /\ AppInsert(s, ch).input = s.input
<1> DEFINE put == [s EXCEPT !.cells = Put(s, ch)]
<1>1. /\ s \in AppsOf(s.size) /\ s.size \in Sizes /\ s.cursor \in Positions(s.size)
      /\ s.plain \in BOOLEAN
  BY AppFields
<1>2. put \in AppsOf(s.size)
  BY AppInsertIs
<1>3. /\ put \in Apps /\ put.size = s.size /\ put.cursor = s.cursor /\ put.echo = s.echo
      /\ put.input = s.input /\ put.pasted = s.pasted /\ put.plain = s.plain
  BY <1>1, <1>2 DEF Apps, AppsOf
<1>4. CASE s.cursor[2] + 1 < s.size[2]
  <2> DEFINE at == <<s.cursor[1], s.cursor[2] + 1>>
  <2>1. at \in Positions(s.size)
    BY <1>1, <1>4, PositionFacts
  <2>2. AppInsert(s, ch) = [s EXCEPT !.cells = Put(s, ch), !.cursor = at]
    BY <1>4, AppInsertIs
  <2>3. [s EXCEPT !.cells = Put(s, ch), !.cursor = at] = [put EXCEPT !.cursor = at]
    BY <1>1 DEF AppsOf
  <2> HIDE DEF put, at
  <2>4. [put EXCEPT !.cursor = at] \in AppsOf(s.size)
    BY <1>2, <2>1 DEF AppsOf
  <2>5. LET t == [put EXCEPT !.cursor = at]
        IN  /\ t.echo = put.echo /\ t.input = put.input
            /\ t.pasted = put.pasted /\ t.plain = put.plain
    BY <1>2 DEF AppsOf
  <2> QED
    BY <1>3, <2>2, <2>3, <2>4, <2>5 DEF Kept
<1>5. CASE ~(s.cursor[2] + 1 < s.size[2])
  <2>1. AppInsert(s, ch) = NextLine(put)
    BY <1>5, AppInsertIs
  <2> HIDE DEF put
  <2> QED
    BY <1>3, <2>1, NextLineType DEF Kept
<1> QED
  BY <1>4, <1>5

\* The cursor moves and the text changes.
Moved(s, at, cells) == [s EXCEPT !.cursor = at, !.cells = cells]

\* So does moving the cursor and drawing cells.
LEMMA MovedType ==
    ASSUME NEW s \in Apps, NEW at \in Positions(s.size),
           NEW cells \in [Positions(s.size) -> Printable]
    PROVE  /\ Kept(s, Moved(s, at, cells))
           /\ Moved(s, at, cells).echo = s.echo /\ Moved(s, at, cells).input = s.input
           /\ Moved(s, at, cells).cursor = at /\ Moved(s, at, cells).cells = cells
           /\ Moved(s, at, cells).plain = s.plain
<1>1. s \in AppsOf(s.size) /\ s.size \in Sizes
  BY AppFields
<1> QED
  BY <1>1 DEF AppsOf, Kept, Moved

\* So does every key; one the engine cannot predict ends the plain history.
LEMMA AppKeyType ==
    ASSUME NEW s \in Apps, NEW key \in Keys, NEW ch, key = "insert" => ch \in Printable
    PROVE  /\ Kept(s, AppKey(s, key, ch))
           /\ AppKey(s, key, ch).input = s.input
           /\ key = "unknown" => ~AppKey(s, key, ch).plain
           /\ key # "unknown" => AppKey(s, key, ch).echo = s.echo
           /\ key = "none" => AppKey(s, key, ch) = s
<1>1. /\ s \in AppsOf(s.size) /\ s.size \in Sizes /\ s.cursor \in Positions(s.size)
      /\ s.cells \in [Positions(s.size) -> Printable] /\ s.echo \in BOOLEAN
      /\ s.plain \in BOOLEAN
  BY AppFields
<1>2. /\ s.cursor \in Nat \X Nat /\ s.cursor[1] < s.size[1] /\ s.cursor[2] < s.size[2]
      /\ s.size \in Nat \X Nat
  BY <1>1, PositionFacts, SizeFacts
<1>3. Kept(s, s)
  BY <1>1 DEF Kept
<1>4. [s EXCEPT !.cells = s.cells] = s
  BY <1>1 DEF AppsOf
<1>5. CASE key = "unknown"
  <2> DEFINE t == NextLine(s)
             u == [t EXCEPT !.plain = FALSE, !.echo = IF PROMPTS THEN ~t.echo ELSE t.echo]
  <2>1. AppKey(s, key, ch) = u
    BY <1>5 DEF AppKey
  <2>2. t \in AppsOf(s.size) /\ t.echo = s.echo /\ t.input = s.input /\ t.pasted = s.pasted
    BY NextLineType
  <2> HIDE DEF t
  <2>3. /\ u \in AppsOf(s.size) /\ ~u.plain /\ u.pasted = t.pasted /\ u.input = t.input
    BY <1>1, <2>2 DEF AppsOf
  <2> HIDE DEF u
  <2> QED
    BY <1>5, <2>1, <2>2, <2>3 DEF Kept
<1>6. CASE key = "none" \/ (key # "unknown" /\ ~s.echo)
  <2>1. AppKey(s, key, ch) = s
    BY <1>6 DEF AppKey
  <2> QED
    BY <1>3, <1>6, <2>1
<1>7. CASE key = "insert" /\ s.echo
  <2>1. AppKey(s, key, ch) = AppInsert(s, ch)
    BY <1>7 DEF AppKey
  <2> QED
    BY <1>7, <2>1, AppInsertType
<1>8. CASE key \in {"right", "left"} /\ s.echo
  <2>1. PICK at \in Positions(s.size) :
           AppKey(s, key, ch) = [s EXCEPT !.cursor = at] \/ AppKey(s, key, ch) = s
    <3>1. CASE key = "right" /\ s.cursor[2] + 1 < s.size[2]
      <4>1. <<s.cursor[1], s.cursor[2] + 1>> \in Positions(s.size)
        BY <1>1, <1>2, <3>1, PositionFacts
      <4>2. AppKey(s, key, ch) = [s EXCEPT !.cursor = <<s.cursor[1], s.cursor[2] + 1>>]
        BY <1>8, <3>1 DEF AppKey
      <4> QED
        BY <4>1, <4>2
    <3>2. CASE key = "left" /\ s.cursor[2] > 0
      <4>1. <<s.cursor[1], s.cursor[2] - 1>> \in Positions(s.size)
        BY <1>1, <1>2, <3>2, PositionFacts
      <4>2. AppKey(s, key, ch) = [s EXCEPT !.cursor = <<s.cursor[1], s.cursor[2] - 1>>]
        BY <1>8, <3>2 DEF AppKey
      <4> QED
        BY <4>1, <4>2
    <3>3. CASE /\ ~(key = "right" /\ s.cursor[2] + 1 < s.size[2])
               /\ ~(key = "left" /\ s.cursor[2] > 0)
      <4>1. AppKey(s, key, ch) = s
        BY <1>8, <3>3 DEF AppKey
      <4> QED
        BY <1>1, <4>1
    <3> QED
      BY <3>1, <3>2, <3>3
  <2>2. [s EXCEPT !.cursor = at] = Moved(s, at, s.cells)
    BY <1>1 DEF AppsOf, Moved
  <2>3. CASE AppKey(s, key, ch) = [s EXCEPT !.cursor = at]
    <3>1. AppKey(s, key, ch) = Moved(s, at, s.cells)
      BY <2>2, <2>3
    <3> DEFINE t == Moved(s, at, s.cells)
    <3>2. Kept(s, t) /\ t.echo = s.echo /\ t.input = s.input
      BY <1>1, MovedType
    <3> HIDE DEF t
    <3> QED
      BY <1>8, <3>1, <3>2 DEF t
  <2> QED
    BY <1>3, <1>8, <2>1, <2>3
<1>9. CASE key = "backspace" /\ s.echo
  <2>1. CASE s.cursor[2] > 0
    <3> DEFINE at == <<s.cursor[1], s.cursor[2] - 1>>
               cells == ShiftLeft(s, s.cursor[1], s.cursor[2] - 1)
    <3>1. at \in Positions(s.size)
      BY <1>1, <1>2, <2>1, PositionFacts
    <3>2. AppKey(s, key, ch) = [s EXCEPT !.cursor = at, !.cells = cells]
      BY <1>9, <2>1 DEF AppKey
    <3>3. cells \in [Positions(s.size) -> Printable]
      <4>1. s.cursor[1] \in Nat /\ s.cursor[2] - 1 \in Nat
        BY <1>2, <2>1
      <4> QED
        BY <1>1, <4>1, ShiftTypes
    <3> HIDE DEF cells, at
    <3>4. AppKey(s, key, ch) = Moved(s, at, cells)
      BY <3>2 DEF Moved
    <3> DEFINE t == Moved(s, at, cells)
    <3>5. Kept(s, t) /\ t.echo = s.echo /\ t.input = s.input
      BY <3>1, <3>3, MovedType
    <3> HIDE DEF t
    <3> QED
      BY <1>9, <3>4, <3>5 DEF t
  <2>2. CASE ~(s.cursor[2] > 0)
    <3>1. AppKey(s, key, ch) = s
      BY <1>9, <2>2 DEF AppKey
    <3> QED
      BY <1>3, <1>9, <3>1
  <2> QED
    BY <2>1, <2>2
<1> QED
  BY <1>1, <1>5, <1>6, <1>7, <1>8, <1>9 DEF Keys

-----------------------------------------------------------------------------
(* Recursion *)

\* Edited is a recursion over the bytes: it exists, and unfolds.
IsEdited(f, s, bytes, n) ==
    f = [i \in 0 .. n |-> IF i = 0 THEN s ELSE AppByte(f[i - 1], bytes[i])]

\* The recursion of Edited is well defined,
LEMMA EditedExists ==
    ASSUME NEW s, NEW bytes
    PROVE  \A n \in Nat : \E f : IsEdited(f, s, bytes, n)
<1> DEFINE P == {n \in Nat : \E f : IsEdited(f, s, bytes, n)}
<1>1. 0 \in P
  <2> DEFINE f == [i \in 0 .. 0 |-> s]
  <2>1. f = [i \in 0 .. 0 |-> IF i = 0 THEN s ELSE AppByte(f[i - 1], bytes[i])]
    OBVIOUS
  <2> QED
    BY <2>1, Zenon DEF IsEdited
<1>2. ASSUME NEW n \in P PROVE n + 1 \in P
  <2>1. PICK f : IsEdited(f, s, bytes, n)
    OBVIOUS
  <2>2. /\ DOMAIN f = 0 .. n
        /\ \A i \in 0 .. n : f[i] = IF i = 0 THEN s ELSE AppByte(f[i - 1], bytes[i])
    BY <2>1, Zenon DEF IsEdited
  <2> DEFINE g == [i \in 0 .. n + 1 |-> IF i = n + 1 THEN AppByte(f[n], bytes[n + 1]) ELSE f[i]]
  <2>3. ASSUME NEW i \in 0 .. n + 1
        PROVE  g[i] = IF i = 0 THEN s ELSE AppByte(g[i - 1], bytes[i])
    <3>1. CASE i = n + 1
      BY <3>1
    <3>2. CASE i # n + 1
      <4>1. i \in 0 .. n /\ i # n + 1
        BY <3>2
      <4>2. g[i] = f[i]
        BY <4>1
      <4>3. i # 0 => g[i - 1] = f[i - 1]
        BY <4>1
      <4> HIDE DEF g
      <4> QED
        BY <2>2, <4>1, <4>2, <4>3
    <3> QED
      BY <3>1, <3>2
  <2>4. g = [i \in 0 .. n + 1 |-> IF i = 0 THEN s ELSE AppByte(g[i - 1], bytes[i])]
    BY <2>3, Zenon
  <2> HIDE DEF g
  <2>5. IsEdited(g, s, bytes, n + 1)
    BY <2>4, Zenon DEF IsEdited
  <2> QED
    BY <2>5
<1> HIDE DEF P
<1>3. P = Nat
  BY <1>1, <1>2, SetInduction DEF P
<1> QED
  BY <1>3 DEF P

\* determines its values,
LEMMA EditedIs ==
    ASSUME NEW s, NEW bytes, NEW n \in Nat, NEW f, IsEdited(f, s, bytes, n)
    PROVE  \A m \in Nat : m <= n => Edited(s, bytes, m) = f[m]
<1>1. /\ DOMAIN f = 0 .. n
      /\ \A i \in 0 .. n : f[i] = IF i = 0 THEN s ELSE AppByte(f[i - 1], bytes[i])
  BY Zenon DEF IsEdited
<1> SUFFICES ASSUME NEW m \in Nat, m <= n PROVE Edited(s, bytes, m) = f[m]
  OBVIOUS
<1> DEFINE h == CHOOSE g : IsEdited(g, s, bytes, m)
<1>2. IsEdited(h, s, bytes, m)
  BY EditedExists, Zenon
<1>3. Edited(s, bytes, m) = h[m]
  BY Zenon DEF Edited, IsEdited
<1>4. \A i \in 0 .. m : h[i] = IF i = 0 THEN s ELSE AppByte(h[i - 1], bytes[i])
  BY <1>2, Zenon DEF IsEdited
<1> HIDE DEF h
<1> DEFINE Q == {k \in Nat : k <= m => h[k] = f[k]}
<1>5. 0 \in Q
  BY <1>1, <1>4
<1>6. ASSUME NEW k \in Q PROVE k + 1 \in Q
  <2> SUFFICES ASSUME k + 1 <= m PROVE h[k + 1] = f[k + 1]
    OBVIOUS
  <2> DEFINE i == k + 1
  <2>1. i \in 0 .. m /\ i \in 0 .. n /\ i # 0 /\ i - 1 = k /\ h[k] = f[k]
    OBVIOUS
  <2> HIDE DEF i
  <2>2. h[i] = AppByte(h[i - 1], bytes[i]) /\ f[i] = AppByte(f[i - 1], bytes[i])
    BY <1>1, <1>4, <2>1
  <2> QED
    BY <2>1, <2>2 DEF i
<1> HIDE DEF Q
<1>7. Q = Nat
  BY <1>5, <1>6, SetInduction DEF Q
<1> QED
  BY <1>3, <1>7 DEF Q

\* and can be unfolded byte by byte.
LEMMA EditedUnfolds ==
    ASSUME NEW s, NEW bytes
    PROVE  /\ Edited(s, bytes, 0) = s
           /\ \A n \in Nat : Edited(s, bytes, n + 1) = AppByte(Edited(s, bytes, n), bytes[n + 1])
<1>1. Edited(s, bytes, 0) = s
  <2>1. PICK f : IsEdited(f, s, bytes, 0)
    BY EditedExists
  <2>2. \A i \in 0 .. 0 : f[i] = IF i = 0 THEN s ELSE AppByte(f[i - 1], bytes[i])
    BY <2>1, Zenon DEF IsEdited
  <2>3. f[0] = s
    BY <2>2
  <2> QED
    BY <2>1, <2>3, EditedIs
<1>2. ASSUME NEW n \in Nat
      PROVE  Edited(s, bytes, n + 1) = AppByte(Edited(s, bytes, n), bytes[n + 1])
  <2>1. PICK f : IsEdited(f, s, bytes, n + 1)
    BY EditedExists
  <2>2. Edited(s, bytes, n + 1) = f[n + 1] /\ Edited(s, bytes, n) = f[n]
    BY <2>1, EditedIs
  <2>3. \A i \in 0 .. n + 1 : f[i] = IF i = 0 THEN s ELSE AppByte(f[i - 1], bytes[i])
    BY <2>1, Zenon DEF IsEdited
  <2>4. n + 1 \in 0 .. n + 1 /\ n + 1 # 0 /\ (n + 1) - 1 = n
    OBVIOUS
  <2>5. f[n + 1] = AppByte(f[n], bytes[n + 1])
    BY <2>3, <2>4
  <2> QED
    BY <2>2, <2>5
<1> QED
  BY <1>1, <1>2

\* Taking is a recursion over the items: it exists, and unfolds.
IsTaking(f, s, items, n) ==
    f = [i \in 0 .. n |-> IF i = 0 THEN s ELSE AppTakes(f[i - 1], items[i])]

\* Likewise that of Taking:
LEMMA TakingExists ==
    ASSUME NEW s, NEW items
    PROVE  \A n \in Nat : \E f : IsTaking(f, s, items, n)
<1> DEFINE P == {n \in Nat : \E f : IsTaking(f, s, items, n)}
<1>1. 0 \in P
  <2> DEFINE f == [i \in 0 .. 0 |-> s]
  <2>1. f = [i \in 0 .. 0 |-> IF i = 0 THEN s ELSE AppTakes(f[i - 1], items[i])]
    OBVIOUS
  <2> QED
    BY <2>1, Zenon DEF IsTaking
<1>2. ASSUME NEW n \in P PROVE n + 1 \in P
  <2>1. PICK f : IsTaking(f, s, items, n)
    OBVIOUS
  <2>2. /\ DOMAIN f = 0 .. n
        /\ \A i \in 0 .. n : f[i] = IF i = 0 THEN s ELSE AppTakes(f[i - 1], items[i])
    BY <2>1, Zenon DEF IsTaking
  <2> DEFINE g == [i \in 0 .. n + 1 |-> IF i = n + 1 THEN AppTakes(f[n], items[n + 1]) ELSE f[i]]
  <2>3. ASSUME NEW i \in 0 .. n + 1
        PROVE  g[i] = IF i = 0 THEN s ELSE AppTakes(g[i - 1], items[i])
    <3>1. CASE i = n + 1
      BY <3>1
    <3>2. CASE i # n + 1
      <4>1. i \in 0 .. n /\ i # n + 1
        BY <3>2
      <4>2. g[i] = f[i]
        BY <4>1
      <4>3. i # 0 => g[i - 1] = f[i - 1]
        BY <4>1
      <4> HIDE DEF g
      <4> QED
        BY <2>2, <4>1, <4>2, <4>3
    <3> QED
      BY <3>1, <3>2
  <2>4. g = [i \in 0 .. n + 1 |-> IF i = 0 THEN s ELSE AppTakes(g[i - 1], items[i])]
    BY <2>3, Zenon
  <2> HIDE DEF g
  <2>5. IsTaking(g, s, items, n + 1)
    BY <2>4, Zenon DEF IsTaking
  <2> QED
    BY <2>5
<1> HIDE DEF P
<1>3. P = Nat
  BY <1>1, <1>2, SetInduction DEF P
<1> QED
  BY <1>3 DEF P

\* its values are determined,
LEMMA TakingIs ==
    ASSUME NEW s, NEW items, NEW n \in Nat, NEW f, IsTaking(f, s, items, n)
    PROVE  \A m \in Nat : m <= n => Taking(s, items, m) = f[m]
<1>1. /\ DOMAIN f = 0 .. n
      /\ \A i \in 0 .. n : f[i] = IF i = 0 THEN s ELSE AppTakes(f[i - 1], items[i])
  BY Zenon DEF IsTaking
<1> SUFFICES ASSUME NEW m \in Nat, m <= n PROVE Taking(s, items, m) = f[m]
  OBVIOUS
<1> DEFINE h == CHOOSE g : IsTaking(g, s, items, m)
<1>2. IsTaking(h, s, items, m)
  BY TakingExists, Zenon
<1>3. Taking(s, items, m) = h[m]
  BY Zenon DEF Taking, IsTaking
<1>4. \A i \in 0 .. m : h[i] = IF i = 0 THEN s ELSE AppTakes(h[i - 1], items[i])
  BY <1>2, Zenon DEF IsTaking
<1> HIDE DEF h
<1> DEFINE Q == {k \in Nat : k <= m => h[k] = f[k]}
<1>5. 0 \in Q
  BY <1>1, <1>4
<1>6. ASSUME NEW k \in Q PROVE k + 1 \in Q
  <2> SUFFICES ASSUME k + 1 <= m PROVE h[k + 1] = f[k + 1]
    OBVIOUS
  <2> DEFINE i == k + 1
  <2>1. i \in 0 .. m /\ i \in 0 .. n /\ i # 0 /\ i - 1 = k /\ h[k] = f[k]
    OBVIOUS
  <2> HIDE DEF i
  <2>2. h[i] = AppTakes(h[i - 1], items[i]) /\ f[i] = AppTakes(f[i - 1], items[i])
    BY <1>1, <1>4, <2>1
  <2> QED
    BY <2>1, <2>2 DEF i
<1> HIDE DEF Q
<1>7. Q = Nat
  BY <1>5, <1>6, SetInduction DEF Q
<1> QED
  BY <1>3, <1>7 DEF Q

\* and it unfolds item by item.
LEMMA TakingUnfolds ==
    ASSUME NEW s, NEW items
    PROVE  /\ Taking(s, items, 0) = s
           /\ \A n \in Nat : Taking(s, items, n + 1) = AppTakes(Taking(s, items, n), items[n + 1])
<1>1. Taking(s, items, 0) = s
  <2>1. PICK f : IsTaking(f, s, items, 0)
    BY TakingExists
  <2>2. \A i \in 0 .. 0 : f[i] = IF i = 0 THEN s ELSE AppTakes(f[i - 1], items[i])
    BY <2>1, Zenon DEF IsTaking
  <2>3. f[0] = s
    BY <2>2
  <2> QED
    BY <2>1, <2>3, TakingIs
<1>2. ASSUME NEW n \in Nat
      PROVE  Taking(s, items, n + 1) = AppTakes(Taking(s, items, n), items[n + 1])
  <2>1. PICK f : IsTaking(f, s, items, n + 1)
    BY TakingExists
  <2>2. Taking(s, items, n + 1) = f[n + 1] /\ Taking(s, items, n) = f[n]
    BY <2>1, TakingIs
  <2>3. \A i \in 0 .. n + 1 : f[i] = IF i = 0 THEN s ELSE AppTakes(f[i - 1], items[i])
    BY <2>1, Zenon DEF IsTaking
  <2>4. n + 1 \in 0 .. n + 1 /\ n + 1 # 0 /\ (n + 1) - 1 = n
    OBVIOUS
  <2>5. f[n + 1] = AppTakes(f[n], items[n + 1])
    BY <2>3, <2>4
  <2> QED
    BY <2>2, <2>5
<1> QED
  BY <1>1, <1>2

-----------------------------------------------------------------------------
(* The application, byte by byte and item by item *)

\* As long as the application is plain it echoes, in the first window.
PlainOK(s) == s.plain => s.size = Window /\ s.echo

\* A byte keeps the application's type; while it is plain so is its echo.
LEMMA AppByteType ==
    ASSUME NEW s \in Apps, NEW ch
    PROVE  LET t == AppByte(s, ch)
               d == Decode(s.input, ch)
           IN  /\ Kept(s, t)
               /\ t.input = d[1]
               /\ t.plain => d[2] # "unknown"
               /\ d[2] # "unknown" => t.echo = s.echo
<1> DEFINE d == Decode(s.input, ch)
           u == [s EXCEPT !.input = d[1]]
<1>1. s \in AppsOf(s.size) /\ s.size \in Sizes /\ s.input \in InputStates
  BY AppFields
<1>2. d[1] \in InputStates /\ d[2] \in Keys /\ (d[2] = "insert" => ch \in Printable)
  BY <1>1, DecodeType
<1>3. AppByte(s, ch) = AppKey(u, d[2], ch)
  BY DEF AppByte
<1> HIDE DEF d
<1>4. /\ u \in AppsOf(s.size) /\ u.size = s.size /\ u.pasted = s.pasted /\ u.plain = s.plain
      /\ u.echo = s.echo /\ u.input = d[1]
  BY <1>1, <1>2 DEF AppsOf
<1>5. u \in Apps
  BY <1>1, <1>4 DEF Apps
<1> HIDE DEF u
<1>6. /\ Kept(u, AppKey(u, d[2], ch))
      /\ AppKey(u, d[2], ch).input = u.input
      /\ d[2] = "unknown" => ~AppKey(u, d[2], ch).plain
      /\ d[2] # "unknown" => AppKey(u, d[2], ch).echo = u.echo
  BY <1>2, <1>5, AppKeyType
<1>7. Kept(s, AppKey(u, d[2], ch))
  BY <1>4, <1>6, Zenon DEF Kept
<1> QED
  BY <1>3, <1>4, <1>6, <1>7, Zenon DEF d

\* Any number of bytes keep the application's type.
LEMMA EditedType ==
    ASSUME NEW s \in Apps, NEW bytes
    PROVE  \A n \in Nat : Kept(s, Edited(s, bytes, n)) /\ Edited(s, bytes, n) \in Apps
<1> DEFINE e(n) == Edited(s, bytes, n)
           P == {n \in Nat : Kept(s, e(n)) /\ e(n) \in Apps}
<1>1. s.size \in Sizes /\ s \in AppsOf(s.size)
  BY AppFields
<1>2. e(0) = s /\ \A n \in Nat : e(n + 1) = AppByte(e(n), bytes[n + 1])
  BY EditedUnfolds
<1> HIDE DEF e
<1>3. 0 \in P
  BY <1>1, <1>2 DEF Kept
<1>4. ASSUME NEW n \in P PROVE n + 1 \in P
  <2>1. n \in Nat /\ Kept(s, e(n)) /\ e(n) \in Apps
    OBVIOUS
  <2>2. Kept(e(n), AppByte(e(n), bytes[n + 1]))
    BY <2>1, AppByteType
  <2>3. Kept(e(n), e(n + 1))
    BY <1>2, <2>1, <2>2
  <2>4. e(n).size = s.size
    BY <2>1 DEF Kept, AppsOf
  <2>5. Kept(s, e(n + 1))
    BY <2>1, <2>3, <2>4, Zenon DEF Kept
  <2>6. e(n + 1) \in Apps
    BY <1>1, <2>5 DEF Kept, Apps
  <2> QED
    BY <2>1, <2>5, <2>6
<1> HIDE DEF P
<1>5. P = Nat
  BY <1>3, <1>4, SetInduction DEF P
<1> QED
  BY <1>5 DEF P, e

\* An application that is plain after some bytes was so before.
LEMMA EditedPlain ==
    ASSUME NEW s \in Apps, NEW bytes, NEW n \in Nat, Edited(s, bytes, n).plain
    PROVE  /\ \A k \in Nat : k <= n => Edited(s, bytes, k).plain
           /\ \A k \in Nat : k < n =>
                 /\ Decode(Edited(s, bytes, k).input, bytes[k + 1])[2] # "unknown"
                 /\ Edited(s, bytes, k + 1).echo = Edited(s, bytes, k).echo
           /\ \A k \in Nat : k <= n => Edited(s, bytes, k).echo = s.echo
<1> DEFINE e(k) == Edited(s, bytes, k)
           P == {k \in Nat : k <= n => e(n - k).plain}
           Q == {k \in Nat : k <= n => e(k).echo = s.echo}
<1>1. \A k \in Nat : e(k) \in Apps
  BY EditedType
<1>2. e(0) = s /\ \A k \in Nat : e(k + 1) = AppByte(e(k), bytes[k + 1])
  BY EditedUnfolds
<1>3. e(n).plain
  OBVIOUS
<1>4. ASSUME NEW k \in Nat, e(k + 1).plain
      PROVE  /\ e(k).plain
             /\ Decode(e(k).input, bytes[k + 1])[2] # "unknown"
             /\ e(k + 1).echo = e(k).echo
  <2>1. e(k) \in Apps /\ e(k + 1) = AppByte(e(k), bytes[k + 1])
    BY <1>1, <1>2
  <2> HIDE DEF e
  <2>2. AppByte(e(k), bytes[k + 1]).plain
    BY <1>4, <2>1, Zenon
  <2>3. /\ Kept(e(k), AppByte(e(k), bytes[k + 1]))
        /\ Decode(e(k).input, bytes[k + 1])[2] # "unknown"
        /\ AppByte(e(k), bytes[k + 1]).echo = e(k).echo
    BY <2>1, <2>2, AppByteType, Zenon
  <2> QED
    BY <2>1, <2>2, <2>3, Zenon DEF Kept
<1> HIDE DEF e
<1>5. 0 \in P
  BY <1>3
<1>6. ASSUME NEW k \in P PROVE k + 1 \in P
  <2> SUFFICES ASSUME k + 1 <= n PROVE e(n - (k + 1)).plain
    OBVIOUS
  <2> DEFINE j == n - (k + 1)
  <2>1. j \in Nat /\ j + 1 = n - k
    OBVIOUS
  <2>2. e(n - k).plain
    OBVIOUS
  <2>3. e(j + 1).plain
    BY <2>1, <2>2
  <2> HIDE DEF j
  <2>4. e(j).plain
    BY <1>4, <2>1, <2>3
  <2> QED
    BY <2>4 DEF j
<1> HIDE DEF P
<1>7. P = Nat
  BY <1>5, <1>6, SetInduction DEF P
<1>8. \A k \in Nat : k <= n => e(k).plain
  <2> SUFFICES ASSUME NEW k \in Nat, k <= n PROVE e(k).plain
    OBVIOUS
  <2>1. n - k \in P /\ n - (n - k) = k
    BY <1>7
  <2> QED
    BY <2>1 DEF P
<1>9. \A k \in Nat : k < n => /\ Decode(e(k).input, bytes[k + 1])[2] # "unknown"
                              /\ e(k + 1).echo = e(k).echo
  BY <1>4, <1>8
<1>10. 0 \in Q
  BY <1>2
<1>11. ASSUME NEW k \in Q PROVE k + 1 \in Q
  BY <1>9
<1> HIDE DEF Q
<1>12. Q = Nat
  BY <1>10, <1>11, SetInduction DEF Q
<1> QED
  BY <1>8, <1>9, <1>12 DEF e, Q

\* What the user causes.
Items == {item \in [frame : Nat, bytes : Seq(STRING), size : Sizes \cup {<<>>}] :
             item.bytes # <<>> \/ item.size \in Sizes}

IsPaste(item) == Len(item.bytes) > PASTE_THRESHOLD

\* The smaller of two numbers.
LEMMA MinOfTwo ==
    ASSUME NEW a \in Nat, NEW b \in Nat
    PROVE  Min({a, b}) \in Nat /\ Min({a, b}) <= a /\ Min({a, b}) <= b
  BY MinProperties

\* A resize is no plain input and changes nothing but the screen.
LEMMA AppResizeType ==
    ASSUME NEW s \in Apps, NEW size \in Sizes
    PROVE  LET t == AppResize(s, size)
           IN  /\ t \in AppsOf(size)
               /\ ~t.plain /\ t.pasted = s.pasted /\ t.echo = s.echo /\ t.input = s.input
<1> DEFINE cells == [at \in Positions(size) |-> CellAt(s, at)]
           cursor == <<Min({s.cursor[1], size[1] - 1}), Min({s.cursor[2], size[2] - 1})>>
<1>1. /\ s \in AppsOf(s.size) /\ s.size \in Sizes /\ s.cursor \in Positions(s.size)
      /\ s.cells \in [Positions(s.size) -> Printable]
  BY AppFields
<1>2. cells \in [Positions(size) -> Printable]
  BY <1>1, CellAtType
<1>3. cursor \in Positions(size)
  <2>1. s.cursor[1] \in Nat /\ s.cursor[2] \in Nat
    BY <1>1, PositionFacts
  <2>2. size[1] - 1 \in Nat /\ size[2] - 1 \in Nat
    BY SizeFacts
  <2>3. /\ Min({s.cursor[1], size[1] - 1}) \in 0 .. size[1] - 1
        /\ Min({s.cursor[2], size[2] - 1}) \in 0 .. size[2] - 1
    BY <2>1, <2>2, MinOfTwo
  <2> QED
    BY <2>3, Zenon DEF Positions
<1>4. AppResize(s, size) = [s EXCEPT !.size = size, !.plain = FALSE, !.cells = cells,
                                     !.cursor = cursor]
  BY Zenon DEF AppResize
<1> HIDE DEF cells, cursor
<1> QED
  BY <1>1, <1>2, <1>3, <1>4 DEF AppsOf

\* What an item of input does: a resize, a paste or typing.
LEMMA AppTakesType ==
    ASSUME NEW s \in Apps, NEW item \in Items
    PROVE  LET t == AppTakes(s, item)
           IN  /\ t \in Apps
               /\ t.plain => s.plain /\ item.bytes # <<>> /\ ~IsPaste(item)
               /\ t.plain => t.size = s.size /\ t.echo = s.echo
               /\ s.pasted => t.pasted
               /\ item.bytes = <<>> =>
                     ~t.plain /\ t.pasted = s.pasted /\ t.input = s.input /\ t.echo = s.echo
               /\ item.bytes # <<>> /\ ~IsPaste(item) =>
                     t = Edited(s, item.bytes, Len(item.bytes)) /\ t.pasted = s.pasted
               /\ item.bytes # <<>> /\ IsPaste(item) => t.pasted /\ ~t.plain
<1>0. /\ s \in AppsOf(s.size) /\ s.size \in Sizes /\ s.plain \in BOOLEAN
      /\ s.pasted \in BOOLEAN
  BY AppFields
<1>1. item.bytes \in Seq(STRING) /\ (item.bytes # <<>> \/ item.size \in Sizes)
  BY DEF Items
<1>2. CASE item.bytes = <<>>
  <2>1. AppTakes(s, item) = AppResize(s, item.size)
    BY <1>2, Zenon DEF AppTakes
  <2>2. item.size \in Sizes
    BY <1>1, <1>2
  <2> DEFINE t == AppResize(s, item.size)
  <2>3. /\ t \in AppsOf(item.size)
        /\ ~t.plain /\ t.pasted = s.pasted /\ t.echo = s.echo /\ t.input = s.input
    BY <2>2, AppResizeType
  <2>4. t \in Apps
    BY <2>2, <2>3 DEF Apps
  <2> HIDE DEF t
  <2> QED
    BY <1>2, <2>1, <2>3, <2>4, Zenon DEF t
<1>3. CASE item.bytes # <<>>
  <2> DEFINE n == Len(item.bytes)
             paste == n > PASTE_THRESHOLD
             u == [s EXCEPT !.plain = s.plain /\ ~paste, !.pasted = s.pasted \/ paste]
             t == Edited(u, item.bytes, n)
  <2>1. AppTakes(s, item) = t
    BY <1>3, Zenon DEF AppTakes
  <2>2. n \in Nat
    BY <1>1
  <2> HIDE DEF n
  <2>3. /\ u \in AppsOf(s.size) /\ u.plain = (s.plain /\ ~paste) /\ u.echo = s.echo
        /\ u.pasted = (s.pasted \/ paste)
    BY <1>0 DEF AppsOf
  <2>4. ~paste => u = s
    BY <1>0 DEF AppsOf
  <2> HIDE DEF u
  <2>5. u \in Apps /\ u.size = s.size
    BY <1>0, <2>3 DEF Apps, AppsOf
  <2>6. Kept(u, t) /\ t \in Apps
    BY <2>2, <2>5, EditedType
  <2>7. t.plain => t.echo = u.echo
    BY <2>2, <2>5, EditedPlain
  <2>8. t.size = s.size
    BY <2>5, <2>6 DEF Kept, AppsOf
  <2>9. t.pasted = u.pasted /\ (t.plain => u.plain)
    BY <2>6, Zenon DEF Kept
  <2>10. ~paste => t = Edited(s, item.bytes, n)
    BY <2>4
  <2>11. IsPaste(item) <=> paste
    BY DEF IsPaste, n
  <2> HIDE DEF t, paste
  <2>12. (t.plain => s.plain /\ ~paste) /\ (s.pasted => t.pasted) /\ (paste => t.pasted)
    BY <2>3, <2>9, Zenon
  <2>13. ~paste => t.pasted = s.pasted
    BY <1>0, <2>3, <2>9
  <2>14. paste => ~t.plain
    BY <2>12
  <2> QED
    BY <1>3, <2>1, <2>3, <2>6, <2>7, <2>8, <2>10, <2>11, <2>12, <2>13, <2>14, Zenon DEF n
<1> QED
  BY <1>2, <1>3, Zenon

\* Any number of items keep the application's type; plain input keeps its size.
LEMMA TakingType ==
    ASSUME NEW s \in Apps, NEW items \in Seq(Items)
    PROVE  \A n \in 0 .. Len(items) :
              LET t == Taking(s, items, n)
              IN  /\ t \in Apps
                  /\ t.plain => s.plain
                  /\ s.pasted => t.pasted
                  /\ PlainOK(s) => PlainOK(t)
<1> DEFINE e(n) == Taking(s, items, n)
           G(n) == /\ e(n) \in Apps
                   /\ e(n).plain => s.plain
                   /\ s.pasted => e(n).pasted
                   /\ PlainOK(s) => PlainOK(e(n))
           P == {n \in Nat : n <= Len(items) => G(n)}
<1>1. e(0) = s /\ \A n \in Nat : e(n + 1) = AppTakes(e(n), items[n + 1])
  BY TakingUnfolds
<1> HIDE DEF e
<1>2. 0 \in P
  BY <1>1
<1>3. ASSUME NEW n \in P PROVE n + 1 \in P
  <2> SUFFICES ASSUME n + 1 <= Len(items) PROVE G(n + 1)
    OBVIOUS
  <2>1. n \in Nat /\ G(n) /\ e(n) \in Apps
    BY <1>3
  <2> DEFINE item == items[n + 1]
  <2>2. item \in Items
    <3>1. n + 1 \in 1 .. Len(items)
      BY <2>1
    <3> QED
      BY <3>1
  <2> HIDE DEF item, G
  <2>3. e(n + 1) = AppTakes(e(n), item)
    BY <1>1, <2>1 DEF item
  <2>4. /\ e(n + 1) \in Apps
        /\ e(n + 1).plain => e(n).plain
        /\ e(n + 1).plain => e(n + 1).size = e(n).size /\ e(n + 1).echo = e(n).echo
        /\ e(n).pasted => e(n + 1).pasted
    BY <2>1, <2>2, <2>3, AppTakesType
  <2>5. PlainOK(e(n)) => PlainOK(e(n + 1))
    BY <2>4 DEF PlainOK
  <2> QED
    BY <2>1, <2>4, <2>5, Zenon DEF G
<1> HIDE DEF P
<1>4. P = Nat
  BY <1>2, <1>3, SetInduction DEF P
<1>5. \A n \in 0 .. Len(items) : G(n)
  BY <1>4 DEF P
<1> QED
  BY <1>5 DEF e

\* What is left is taken from where the application stands.
LEMMA TakingShift ==
    ASSUME NEW s, NEW items \in Seq(Items), NEW k \in 0 .. Len(items)
    PROVE  LET rest == SubSeq(items, k + 1, Len(items))
           IN  /\ rest \in Seq(Items) /\ Len(rest) = Len(items) - k
               /\ \A j \in 1 .. Len(rest) : rest[j] = items[k + j]
               /\ \A n \in 0 .. Len(rest) :
                     Taking(Taking(s, items, k), rest, n) = Taking(s, items, k + n)
<1> DEFINE rest == SubSeq(items, k + 1, Len(items))
           u == Taking(s, items, k)
           P == {n \in Nat : n <= Len(rest) => Taking(u, rest, n) = Taking(s, items, k + n)}
<1>1. /\ rest \in Seq(Items) /\ Len(rest) = Len(items) - k
      /\ \A j \in 1 .. Len(rest) : rest[j] = items[k + j]
  OBVIOUS
<1> HIDE DEF rest
<1>0. /\ \A n \in Nat : Taking(u, rest, n + 1) = AppTakes(Taking(u, rest, n), rest[n + 1])
      /\ \A n \in Nat : Taking(s, items, n + 1) = AppTakes(Taking(s, items, n), items[n + 1])
  BY TakingUnfolds
<1> HIDE DEF u
<1>2. 0 \in P
  <2>1. Taking(u, rest, 0) = u
    BY TakingUnfolds
  <2> QED
    BY <2>1 DEF u
<1>3. ASSUME NEW n \in P PROVE n + 1 \in P
  <2> SUFFICES ASSUME n + 1 <= Len(rest)
               PROVE  Taking(u, rest, n + 1) = Taking(s, items, k + (n + 1))
    OBVIOUS
  <2>1. Taking(u, rest, n) = Taking(s, items, k + n)
    BY <1>1
  <2>0. n \in Nat /\ k + n \in Nat
    OBVIOUS
  <2>2. Taking(u, rest, n + 1) = AppTakes(Taking(u, rest, n), rest[n + 1])
    BY <1>0, <2>0
  <2>3. Taking(s, items, (k + n) + 1) = AppTakes(Taking(s, items, k + n), items[(k + n) + 1])
    BY <1>0, <2>0
  <2>4. rest[n + 1] = items[k + (n + 1)] /\ k + (n + 1) = (k + n) + 1
    BY <1>1
  <2> QED
    BY <2>1, <2>2, <2>3, <2>4
<1> HIDE DEF P
<1>4. P = Nat
  BY <1>2, <1>3, SetInduction DEF P
<1>5. \A n \in 0 .. Len(rest) : Taking(u, rest, n) = Taking(s, items, k + n)
  <2> SUFFICES ASSUME NEW n \in 0 .. Len(rest)
               PROVE  Taking(u, rest, n) = Taking(s, items, k + n)
    OBVIOUS
  <2>1. n \in P /\ n <= Len(rest)
    BY <1>1, <1>4
  <2> QED
    BY <2>1, Zenon DEF P
<1> QED
  BY <1>1, <1>5 DEF rest, u

\* An item appended to the queue is taken last.
LEMMA TakingAppend ==
    ASSUME NEW s, NEW items \in Seq(Items), NEW item \in Items
    PROVE  LET more == Append(items, item)
               k == Len(items)
           IN  /\ \A n \in 0 .. k : Taking(s, more, n) = Taking(s, items, n)
               /\ Taking(s, more, k + 1) = AppTakes(Taking(s, items, k), item)
<1> DEFINE more == Append(items, item)
           k == Len(items)
           P == {n \in Nat : n <= k => Taking(s, more, n) = Taking(s, items, n)}
<1>1. k \in Nat /\ more[k + 1] = item /\ \A j \in 1 .. k : more[j] = items[j]
  OBVIOUS
<1> HIDE DEF more, k
<1>0. /\ \A n \in Nat : Taking(s, more, n + 1) = AppTakes(Taking(s, more, n), more[n + 1])
      /\ \A n \in Nat : Taking(s, items, n + 1) = AppTakes(Taking(s, items, n), items[n + 1])
  BY TakingUnfolds
<1>2. 0 \in P
  BY TakingUnfolds
<1>3. ASSUME NEW n \in P PROVE n + 1 \in P
  <2>0. n \in Nat
    OBVIOUS
  <2>1. /\ Taking(s, more, n + 1) = AppTakes(Taking(s, more, n), more[n + 1])
        /\ Taking(s, items, n + 1) = AppTakes(Taking(s, items, n), items[n + 1])
    BY <1>0, <2>0
  <2>2. n + 1 <= k => more[n + 1] = items[n + 1] /\ n <= k
    BY <1>1
  <2> QED
    BY <2>1, <2>2
<1> HIDE DEF P
<1>4. P = Nat
  BY <1>2, <1>3, SetInduction DEF P
<1>5. \A n \in 0 .. k : Taking(s, more, n) = Taking(s, items, n)
  BY <1>1, <1>4 DEF P
<1>6. Taking(s, more, k + 1) = AppTakes(Taking(s, more, k), more[k + 1])
  BY <1>1, TakingUnfolds
<1> QED
  BY <1>1, <1>5, <1>6 DEF more, k

-----------------------------------------------------------------------------
(* The prediction engine *)

Cells == [replacement : Character, original : SUBSET Printable, epoch : Nat, frame : Nat,
          blind : BOOLEAN]
Cursors == [at : Nat \X Nat, epoch : Nat, frame : Nat]
Overlays == UNION {[S -> Cells] : S \in SUBSET (Nat \X Nat)}

Engines ==
    [overlay : Overlays, cursors : Seq(Cursors), prediction_epoch : Nat,
     confirmed_epoch : Nat, late_acked : Nat, last_size : Sizes \cup {<<0, 0>>},
     input_state : InputStates, panicked : BOOLEAN, blind : BOOLEAN, fooled : BOOLEAN]

\* Every prediction is for an input the server has not answered, and what was
\* predicted later is for a later input.
SoundOverlay(e, last) ==
    /\ \A at \in DOMAIN e.overlay :
          /\ e.overlay[at].epoch <= e.prediction_epoch
          /\ e.overlay[at].frame > e.late_acked
          /\ e.overlay[at].frame <= last + 1
    /\ \A a, b \in DOMAIN e.overlay :
          e.overlay[a].epoch < e.overlay[b].epoch => e.overlay[a].frame <= e.overlay[b].frame

SoundCursors(e, last) ==
    /\ \A i \in DOMAIN e.cursors :
          e.cursors[i].frame > e.late_acked /\ e.cursors[i].frame <= last + 1
    /\ \A i, j \in DOMAIN e.cursors : i <= j => e.cursors[i].frame <= e.cursors[j].frame

Sound(e, last) ==
    /\ e \in Engines
    /\ e.late_acked <= last
    /\ e.confirmed_epoch <= e.prediction_epoch
    /\ SoundOverlay(e, last)
    /\ SoundCursors(e, last)

\* The predictions of an epoch were all made while the application did not echo,
\* or none of them; blind says so of the current one.  Unless the engine has been
\* fooled, no epoch of the former kind is confirmed.
Hidden(e, blind) ==
    /\ \A a, b \in DOMAIN e.overlay :
          e.overlay[a].epoch = e.overlay[b].epoch => e.overlay[a].blind = e.overlay[b].blind
    /\ \A at \in DOMAIN e.overlay :
          e.overlay[at].epoch = e.prediction_epoch => e.overlay[at].blind = blind
    /\ ~e.fooled =>
          /\ \A at \in DOMAIN e.overlay :
                e.overlay[at].blind => e.overlay[at].epoch > e.confirmed_epoch
          /\ blind => e.prediction_epoch > e.confirmed_epoch

\* What a step of the engine leaves alone.
Settled(e, f) ==
    /\ f.confirmed_epoch = e.confirmed_epoch /\ f.late_acked = e.late_acked
    /\ f.fooled = e.fooled /\ f.blind = e.blind /\ f.input_state = e.input_state

\* The fields of the cells of an overlay,
LEMMA OverlayFacts ==
    ASSUME NEW o \in Overlays
    PROVE  /\ DOMAIN o \in SUBSET (Nat \X Nat) /\ o \in [DOMAIN o -> Cells]
           /\ \A at \in DOMAIN o : /\ o[at] \in Cells /\ o[at].epoch \in Nat /\ o[at].frame \in Nat
                                   /\ o[at].blind \in BOOLEAN /\ o[at].replacement \in Character
                                   /\ o[at].original \in SUBSET Printable
  BY DEF Overlays, Cells

\* of the engine,
LEMMA EngineFields ==
    ASSUME NEW e \in Engines
    PROVE  /\ e.overlay \in Overlays /\ e.cursors \in Seq(Cursors)
           /\ e.prediction_epoch \in Nat /\ e.confirmed_epoch \in Nat /\ e.late_acked \in Nat
           /\ e.last_size \in Sizes \cup {<<0, 0>>} /\ e.input_state \in InputStates
           /\ e.panicked \in BOOLEAN /\ e.blind \in BOOLEAN /\ e.fooled \in BOOLEAN
  BY DEF Engines

\* and of its cursors.
LEMMA CursorFields ==
    ASSUME NEW c \in Seq(Cursors), NEW i \in DOMAIN c
    PROVE  /\ c[i] \in Cursors /\ c[i].frame \in Nat /\ c[i].epoch \in Nat
           /\ c[i].at \in Nat \X Nat
<1>1. c[i] \in Cursors
  OBVIOUS
<1> QED
  BY <1>1 DEF Cursors

MovedCursor(old, at, frame) == [old EXCEPT !.at = at, !.frame = frame]

\* A cursor moved for a later state.
LEMMA MovedCursorIs ==
    ASSUME NEW old \in Cursors, NEW at \in Nat \X Nat, NEW frame \in Nat
    PROVE  /\ MovedCursor(old, at, frame) \in Cursors
           /\ MovedCursor(old, at, frame).frame = frame
           /\ MovedCursor(old, at, frame).at = at
  BY DEF Cursors, MovedCursor

\* A new epoch has no predictions yet.
LEMMA TentativeSound ==
    ASSUME NEW last \in Nat, NEW e, Sound(e, last)
    PROVE  /\ Sound(BecomeTentative(e), last) /\ Settled(e, BecomeTentative(e))
           /\ BecomeTentative(e).overlay = e.overlay /\ BecomeTentative(e).cursors = e.cursors
           /\ BecomeTentative(e).last_size = e.last_size
           /\ BecomeTentative(e).panicked = e.panicked
           /\ \A b, c \in BOOLEAN : Hidden(e, b) => Hidden(BecomeTentative(e), c)
<1> DEFINE f == BecomeTentative(e)
<1>1. e \in Engines /\ e.prediction_epoch \in Nat /\ e.confirmed_epoch \in Nat
      /\ e.confirmed_epoch <= e.prediction_epoch /\ e.late_acked <= last
  BY EngineFields DEF Sound
<1>2. /\ f \in Engines /\ f.prediction_epoch = e.prediction_epoch + 1 /\ Settled(e, f)
      /\ f.overlay = e.overlay /\ f.cursors = e.cursors
      /\ f.last_size = e.last_size /\ f.panicked = e.panicked
  BY <1>1 DEF BecomeTentative, Engines, Settled
<1>3. \A at \in DOMAIN e.overlay : e.overlay[at].epoch \in Nat
  BY <1>1, EngineFields, OverlayFacts
<1> HIDE DEF f
<1>4. SoundOverlay(f, last)
  BY <1>1, <1>2, <1>3 DEF Sound, SoundOverlay, Settled
<1>5. SoundCursors(f, last)
  BY <1>1, <1>2 DEF Sound, SoundCursors, Settled
<1>6. Sound(f, last)
  BY <1>1, <1>2, <1>4, <1>5 DEF Sound, Settled
<1>7. ASSUME NEW b \in BOOLEAN, NEW c \in BOOLEAN, Hidden(e, b) PROVE Hidden(f, c)
  <2>1. \A at \in DOMAIN f.overlay : f.overlay[at].epoch # f.prediction_epoch
    BY <1>1, <1>2, <1>3 DEF Sound, SoundOverlay
  <2>2. f.prediction_epoch > f.confirmed_epoch
    BY <1>1, <1>2 DEF Settled
  <2> QED
    BY <1>2, <1>7, <2>1, <2>2 DEF Hidden, Settled
<1> QED
  BY <1>2, <1>6, <1>7 DEF f

\* A step that only touches the cursors.
CursorsOnly(e, f) ==
    /\ Settled(e, f) /\ f.overlay = e.overlay /\ f.prediction_epoch = e.prediction_epoch
    /\ f.last_size = e.last_size /\ f.panicked = e.panicked

\* Changing the cursors disturbs none of the cells.
LEMMA CursorsOnlySound ==
    ASSUME NEW last \in Nat, NEW e, Sound(e, last), NEW c \in Seq(Cursors),
           \A i \in DOMAIN c : c[i].frame > e.late_acked /\ c[i].frame <= last + 1,
           \A i, j \in DOMAIN c : i <= j => c[i].frame <= c[j].frame
    PROVE  LET f == [e EXCEPT !.cursors = c]
           IN  /\ Sound(f, last) /\ CursorsOnly(e, f) /\ f.cursors = c
               /\ \A b \in BOOLEAN : Hidden(e, b) => Hidden(f, b)
<1> DEFINE f == [e EXCEPT !.cursors = c]
<1>1. e \in Engines /\ e.late_acked <= last /\ e.confirmed_epoch <= e.prediction_epoch
  BY DEF Sound
<1>2. f \in Engines /\ CursorsOnly(e, f) /\ f.cursors = c
  BY <1>1 DEF Engines, CursorsOnly, Settled
<1> HIDE DEF f
<1>3. SoundOverlay(f, last)
  BY <1>2 DEF Sound, SoundOverlay, CursorsOnly, Settled
<1>4. SoundCursors(f, last)
  BY <1>2 DEF SoundCursors, CursorsOnly, Settled
<1>5. Sound(f, last)
  BY <1>1, <1>2, <1>3, <1>4 DEF Sound, CursorsOnly, Settled
<1>6. \A b \in BOOLEAN : Hidden(e, b) => Hidden(f, b)
  BY <1>2 DEF Hidden, CursorsOnly, Settled
<1> QED
  BY <1>2, <1>5, <1>6 DEF f

\* The last cursor is where the next byte goes.
LEMMA InitCursorSound ==
    ASSUME NEW last \in Nat, NEW e, Sound(e, last), NEW at \in Nat \X Nat
    PROVE  LET f == InitCursor(e, at, last)
           IN  /\ Sound(f, last) /\ CursorsOnly(e, f) /\ f.cursors # <<>>
               /\ f = e \/ (Last(f.cursors).at = at /\ Last(f.cursors).frame = last + 1)
               /\ f = e => e.cursors # <<>>
               /\ \A b \in BOOLEAN : Hidden(e, b) => Hidden(f, b)
<1>1. /\ e \in Engines /\ e.cursors \in Seq(Cursors) /\ e.prediction_epoch \in Nat
      /\ e.late_acked \in Nat /\ e.late_acked <= last
  BY EngineFields DEF Sound
<1>2. CASE e.cursors # <<>> /\ Last(e.cursors).epoch = e.prediction_epoch
  <2> DEFINE f == InitCursor(e, at, last)
  <2>1. f = e
    BY <1>2 DEF InitCursor
  <2>2. CursorsOnly(e, e)
    BY DEF CursorsOnly, Settled
  <2> HIDE DEF f
  <2>3. Sound(f, last) /\ CursorsOnly(e, f) /\ \A b \in BOOLEAN : Hidden(e, b) => Hidden(f, b)
    BY <2>1, <2>2
  <2>4. f.cursors # <<>> /\ f = e /\ e.cursors # <<>>
    BY <1>2, <2>1
  <2> QED
    BY <2>3, <2>4, Zenon DEF f
<1>3. CASE ~(e.cursors # <<>> /\ Last(e.cursors).epoch = e.prediction_epoch)
  <2> DEFINE new == [at |-> at, epoch |-> e.prediction_epoch, frame |-> last + 1]
             c == Append(e.cursors, new)
             f == [e EXCEPT !.cursors = c]
  <2>1. new \in Cursors
    BY <1>1 DEF Cursors
  <2>2. c \in Seq(Cursors)
    BY <1>1, <2>1
  <2>3. /\ DOMAIN c = 1 .. Len(e.cursors) + 1 /\ DOMAIN e.cursors = 1 .. Len(e.cursors)
        /\ Len(e.cursors) \in Nat
        /\ c[Len(e.cursors) + 1] = new /\ \A i \in DOMAIN e.cursors : c[i] = e.cursors[i]
    BY <1>1
  <2>4. \A i \in DOMAIN e.cursors : /\ e.cursors[i].frame \in Nat /\ e.cursors[i].frame > e.late_acked
                                    /\ e.cursors[i].frame <= last + 1
    BY <1>1, CursorFields DEF Sound, SoundCursors
  <2>5. \A i, j \in DOMAIN e.cursors : i <= j => e.cursors[i].frame <= e.cursors[j].frame
    BY DEF Sound, SoundCursors
  <2>6. new.frame = last + 1 /\ new.at = at
    OBVIOUS
  <2>7. InitCursor(e, at, last) = f
    BY <1>3 DEF InitCursor, InputFrame
  <2>8. Last(c) = new /\ c # <<>>
    BY <1>1, <2>2, <2>3 DEF Last
  <2> HIDE DEF new, c
  <2>9. \A i \in DOMAIN c : c[i].frame > e.late_acked /\ c[i].frame <= last + 1
    BY <1>1, <2>3, <2>4, <2>6
  <2>10. \A i, j \in DOMAIN c : i <= j => c[i].frame <= c[j].frame
    <3> SUFFICES ASSUME NEW i \in DOMAIN c, NEW j \in DOMAIN c, i <= j
                 PROVE  c[i].frame <= c[j].frame
      OBVIOUS
    <3>1. CASE j = Len(e.cursors) + 1
      BY <2>3, <2>6, <2>9, <3>1
    <3>2. CASE j # Len(e.cursors) + 1
      <4>1. i \in DOMAIN e.cursors /\ j \in DOMAIN e.cursors
        BY <2>3, <3>2
      <4> QED
        BY <2>3, <2>5, <4>1
    <3> QED
      BY <3>1, <3>2
  <2>11. /\ Sound(f, last) /\ CursorsOnly(e, f) /\ f.cursors = c
         /\ \A b \in BOOLEAN : Hidden(e, b) => Hidden(f, b)
    BY <2>2, <2>9, <2>10, CursorsOnlySound
  <2>12. f # e
    <3>1. Len(c) # Len(e.cursors)
      BY <1>1 DEF c
    <3> QED
      BY <2>11, <3>1
  <2> HIDE DEF f
  <2> QED
    BY <2>6, <2>7, <2>8, <2>11, <2>12
<1> QED
  BY <1>2, <1>3

\* Moving the newest cursor keeps the engine sound.
LEMMA MoveCursorSound ==
    ASSUME NEW last \in Nat, NEW e, Sound(e, last), NEW at \in Nat \X Nat
    PROVE  LET f == MoveCursor(e, at, last)
           IN  /\ Sound(f, last) /\ CursorsOnly(e, f)
               /\ e.cursors = <<>> <=> f.cursors = <<>>
               /\ e.cursors # <<>> =>
                     Last(f.cursors).at = at /\ Last(f.cursors).frame = last + 1
               /\ \A b \in BOOLEAN : Hidden(e, b) => Hidden(f, b)
<1>1. /\ e \in Engines /\ e.cursors \in Seq(Cursors) /\ e.prediction_epoch \in Nat
      /\ e.late_acked \in Nat /\ e.late_acked <= last
  BY EngineFields DEF Sound
<1>2. CASE e.cursors = <<>>
  <2>1. MoveCursor(e, at, last) = e
    BY <1>2 DEF MoveCursor
  <2>2. CursorsOnly(e, e)
    BY DEF CursorsOnly, Settled
  <2> QED
    BY <1>2, <2>1, <2>2
<1>3. CASE e.cursors # <<>>
  <2> DEFINE n == Len(e.cursors)
             new == MovedCursor(Last(e.cursors), at, last + 1)
             c == [e.cursors EXCEPT ![n] = new]
             f == [e EXCEPT !.cursors = c]
  <2>1. n \in DOMAIN e.cursors /\ Last(e.cursors) \in Cursors /\ n \in Nat
    BY <1>1, <1>3 DEF Last
  <2>2. new \in Cursors /\ new.frame = last + 1 /\ new.at = at
    <3>1. last + 1 \in Nat
      OBVIOUS
    <3> DEFINE old == Last(e.cursors)
               frame == last + 1
    <3>2. old \in Cursors /\ frame \in Nat
      BY <2>1, <3>1
    <3> HIDE DEF old, frame
    <3>3. /\ MovedCursor(old, at, frame) \in Cursors
          /\ MovedCursor(old, at, frame).frame = frame
          /\ MovedCursor(old, at, frame).at = at
      BY <3>2, MovedCursorIs
    <3> QED
      BY <3>3 DEF old, frame
  <2> HIDE DEF new
  <2>3. c \in Seq(Cursors) /\ Len(c) = n
    BY <1>1, <2>1, <2>2
  <2>4. /\ DOMAIN c = 1 .. n /\ DOMAIN e.cursors = 1 .. n
        /\ c[n] = new /\ \A i \in DOMAIN e.cursors : i # n => c[i] = e.cursors[i]
    BY <1>1, <2>1
  <2>5. \A i \in DOMAIN e.cursors : /\ e.cursors[i].frame \in Nat /\ e.cursors[i].frame > e.late_acked
                                    /\ e.cursors[i].frame <= last + 1
    BY <1>1, CursorFields DEF Sound, SoundCursors
  <2>6. \A i, j \in DOMAIN e.cursors : i <= j => e.cursors[i].frame <= e.cursors[j].frame
    BY DEF Sound, SoundCursors
  <2>7. MoveCursor(e, at, last) = f
    BY <1>3 DEF MoveCursor, InputFrame, ReplaceAt, MovedCursor, new, c, n
  <2>8. Last(c) = new /\ c # <<>>
    BY <2>1, <2>3, <2>4 DEF Last
  <2> HIDE DEF c, n
  <2>9. \A i \in DOMAIN c : c[i].frame > e.late_acked /\ c[i].frame <= last + 1
    BY <1>1, <2>2, <2>4, <2>5
  <2>10. \A i, j \in DOMAIN c : i <= j => c[i].frame <= c[j].frame
    <3> SUFFICES ASSUME NEW i \in DOMAIN c, NEW j \in DOMAIN c, i <= j
                 PROVE  c[i].frame <= c[j].frame
      OBVIOUS
    <3>1. CASE j = n
      BY <2>2, <2>4, <2>9, <3>1
    <3>2. CASE j # n
      <4>1. i # n
        BY <2>1, <2>4, <3>2
      <4> QED
        BY <2>4, <2>6, <3>2, <4>1
    <3> QED
      BY <3>1, <3>2
  <2>11. /\ Sound(f, last) /\ CursorsOnly(e, f) /\ f.cursors = c
         /\ \A b \in BOOLEAN : Hidden(e, b) => Hidden(f, b)
    BY <2>3, <2>9, <2>10, CursorsOnlySound
  <2> HIDE DEF f
  <2> QED
    BY <1>3, <2>2, <2>7, <2>8, <2>11
<1> QED
  BY <1>2, <1>3

\* Two overlays, the first above the second.
LEMMA OverlaysMerge ==
    ASSUME NEW o \in Overlays, NEW p \in Overlays
    PROVE  /\ Over(o, p) \in Overlays
           /\ DOMAIN Over(o, p) = DOMAIN o \cup DOMAIN p
           /\ \A at \in DOMAIN o : Over(o, p)[at] = o[at]
           /\ \A at \in DOMAIN p \ DOMAIN o : Over(o, p)[at] = p[at]
<1>1. /\ DOMAIN o \in SUBSET (Nat \X Nat) /\ DOMAIN p \in SUBSET (Nat \X Nat)
      /\ \A at \in DOMAIN o : o[at] \in Cells
      /\ \A at \in DOMAIN p : p[at] \in Cells
  BY OverlayFacts
<1> DEFINE S == DOMAIN o \cup DOMAIN p
           q == [at \in S |-> IF at \in DOMAIN o THEN o[at] ELSE p[at]]
<1>2. Over(o, p) = q
  BY DEF Over
<1>3. q \in [S -> Cells] /\ S \in SUBSET (Nat \X Nat)
  BY <1>1
<1>4. q \in Overlays
  BY <1>3 DEF Overlays
<1>5. /\ DOMAIN q = S /\ \A at \in DOMAIN o : q[at] = o[at]
      /\ \A at \in DOMAIN p \ DOMAIN o : q[at] = p[at]
  OBVIOUS
<1> HIDE DEF q
<1> QED
  BY <1>2, <1>4, <1>5

\* A step that only touches the overlay.
OverlayOnly(e, f) ==
    /\ Settled(e, f) /\ f.cursors = e.cursors /\ f.prediction_epoch = e.prediction_epoch
    /\ f.last_size = e.last_size /\ f.panicked = e.panicked

\* New predictions belong to the current epoch and to the next frame.
IsNew(e, new, last) ==
    /\ new \in Overlays
    /\ \A at \in DOMAIN new : /\ new[at].epoch = e.prediction_epoch
                              /\ new[at].frame = last + 1 /\ new[at].blind = e.blind

\* So does predicting cells in the current epoch for the coming state,
LEMMA WithSound ==
    ASSUME NEW last \in Nat, NEW e, Sound(e, last), NEW new, IsNew(e, new, last)
    PROVE  /\ Sound(With(e, new), last) /\ OverlayOnly(e, With(e, new))
           /\ With(e, new).overlay = Over(new, e.overlay)
           /\ Hidden(e, e.blind) => Hidden(With(e, new), e.blind)
<1> DEFINE o == Over(new, e.overlay)
           f == With(e, new)
<1>1. /\ e \in Engines /\ e.overlay \in Overlays /\ e.prediction_epoch \in Nat
      /\ e.confirmed_epoch \in Nat /\ e.late_acked \in Nat /\ new \in Overlays
      /\ e.late_acked <= last /\ e.confirmed_epoch <= e.prediction_epoch /\ e.blind \in BOOLEAN
  BY EngineFields DEF Sound, IsNew
<1>2. /\ o \in Overlays /\ DOMAIN o = DOMAIN new \cup DOMAIN e.overlay
      /\ \A at \in DOMAIN new : o[at] = new[at]
      /\ \A at \in DOMAIN e.overlay \ DOMAIN new : o[at] = e.overlay[at]
  BY <1>1, OverlaysMerge
<1> HIDE DEF o
<1>3. f = [e EXCEPT !.overlay = o]
  BY DEF With, o
<1>4. f \in Engines /\ OverlayOnly(e, f) /\ f.overlay = o
  BY <1>1, <1>2, <1>3 DEF Engines, OverlayOnly, Settled
<1>5. \A at \in DOMAIN o : /\ o[at].epoch \in Nat /\ o[at].frame \in Nat /\ o[at].blind \in BOOLEAN
  BY <1>2, OverlayFacts
<1>6. \A at \in DOMAIN new : /\ o[at].epoch = e.prediction_epoch
                             /\ o[at].frame = last + 1 /\ o[at].blind = e.blind
  BY <1>2 DEF IsNew
<1>7. \A at \in DOMAIN e.overlay \ DOMAIN new :
         /\ o[at] = e.overlay[at]
         /\ o[at].epoch <= e.prediction_epoch
         /\ o[at].frame > e.late_acked /\ o[at].frame <= last + 1
  BY <1>2 DEF Sound, SoundOverlay
<1> HIDE DEF f
<1>8. SoundOverlay(f, last)
  <2>1. \A at \in DOMAIN o : /\ o[at].epoch <= e.prediction_epoch
                             /\ o[at].frame > e.late_acked /\ o[at].frame <= last + 1
    BY <1>1, <1>2, <1>6, <1>7
  <2>2. ASSUME NEW a \in DOMAIN o, NEW b \in DOMAIN o, o[a].epoch < o[b].epoch
        PROVE  o[a].frame <= o[b].frame
    <3>1. CASE b \in DOMAIN new
      BY <1>5, <1>6, <2>1, <3>1
    <3>2. CASE b \notin DOMAIN new
      <4>1. a \notin DOMAIN new
        BY <1>1, <1>2, <1>5, <1>6, <1>7, <2>2, <3>2
      <4>2. o[a] = e.overlay[a] /\ o[b] = e.overlay[b] /\ a \in DOMAIN e.overlay
            /\ b \in DOMAIN e.overlay
        BY <1>2, <3>2, <4>1
      <4> QED
        BY <2>2, <4>2 DEF Sound, SoundOverlay
    <3> QED
      BY <3>1, <3>2
  <2> QED
    BY <1>4, <2>1, <2>2 DEF SoundOverlay, OverlayOnly, Settled
<1>9. SoundCursors(f, last)
  BY <1>4 DEF Sound, SoundCursors, OverlayOnly, Settled
<1>10. Sound(f, last)
  BY <1>1, <1>4, <1>8, <1>9 DEF Sound, OverlayOnly, Settled
<1>11. ASSUME Hidden(e, e.blind) PROVE Hidden(f, e.blind)
  <2>1. \A a, b \in DOMAIN o : o[a].epoch = o[b].epoch => o[a].blind = o[b].blind
    <3> SUFFICES ASSUME NEW a \in DOMAIN o, NEW b \in DOMAIN o, o[a].epoch = o[b].epoch
                 PROVE  o[a].blind = o[b].blind
      OBVIOUS
    <3>1. CASE a \in DOMAIN new /\ b \in DOMAIN new
      BY <1>6, <3>1
    <3>2. CASE a \notin DOMAIN new /\ b \notin DOMAIN new
      BY <1>2, <1>7, <1>11, <3>2 DEF Hidden
    <3>3. CASE a \in DOMAIN new /\ b \notin DOMAIN new
      BY <1>2, <1>6, <1>7, <1>11, <3>3 DEF Hidden
    <3>4. CASE a \notin DOMAIN new /\ b \in DOMAIN new
      BY <1>2, <1>6, <1>7, <1>11, <3>4 DEF Hidden
    <3> QED
      BY <3>1, <3>2, <3>3, <3>4
  <2>2. \A at \in DOMAIN o : o[at].epoch = e.prediction_epoch => o[at].blind = e.blind
    BY <1>2, <1>6, <1>7, <1>11 DEF Hidden
  <2>3. ASSUME ~e.fooled
        PROVE  \A at \in DOMAIN o : o[at].blind => o[at].epoch > e.confirmed_epoch
    BY <1>2, <1>6, <1>7, <1>11, <2>3 DEF Hidden
  <2> QED
    BY <1>4, <1>11, <2>1, <2>2, <2>3 DEF Hidden, OverlayOnly, Settled
<1> QED
  BY <1>4, <1>10, <1>11 DEF f, o

\* Some of the predictions are dropped.
Narrowed(e, S) == [e EXCEPT !.overlay = Restrict(@, S)]

\* forgetting some of the cells,
LEMMA NarrowedSound ==
    ASSUME NEW last \in Nat, NEW e, Sound(e, last), NEW S \in SUBSET DOMAIN e.overlay
    PROVE  /\ Sound(Narrowed(e, S), last) /\ OverlayOnly(e, Narrowed(e, S))
           /\ DOMAIN Narrowed(e, S).overlay = S
           /\ \A at \in S : Narrowed(e, S).overlay[at] = e.overlay[at]
           /\ \A b \in BOOLEAN : Hidden(e, b) => Hidden(Narrowed(e, S), b)
<1> DEFINE o == [at \in S |-> e.overlay[at]]
           f == Narrowed(e, S)
<1>1. /\ e \in Engines /\ e.overlay \in Overlays
      /\ e.late_acked <= last /\ e.confirmed_epoch <= e.prediction_epoch
  BY EngineFields DEF Sound
<1>2. o \in Overlays
  <2>1. S \in SUBSET (Nat \X Nat) /\ \A at \in S : e.overlay[at] \in Cells
    BY <1>1, OverlayFacts
  <2>2. o \in [S -> Cells]
    BY <2>1
  <2> QED
    BY <2>1, <2>2 DEF Overlays
<1>3. f = [e EXCEPT !.overlay = o]
  BY DEF Narrowed, Restrict
<1>4. DOMAIN o = S /\ \A at \in S : o[at] = e.overlay[at]
  OBVIOUS
<1> HIDE DEF o
<1>5. f \in Engines /\ OverlayOnly(e, f) /\ f.overlay = o
  BY <1>1, <1>2, <1>3 DEF Engines, OverlayOnly, Settled
<1> HIDE DEF f
<1>6. SoundOverlay(f, last)
  BY <1>4, <1>5 DEF Sound, SoundOverlay, OverlayOnly, Settled
<1>7. SoundCursors(f, last)
  BY <1>5 DEF Sound, SoundCursors, OverlayOnly, Settled
<1>8. Sound(f, last)
  BY <1>1, <1>5, <1>6, <1>7 DEF Sound, OverlayOnly, Settled
<1>9. \A b \in BOOLEAN : Hidden(e, b) => Hidden(f, b)
  BY <1>4, <1>5 DEF Hidden, OverlayOnly, Settled
<1> QED
  BY <1>4, <1>5, <1>8, <1>9 DEF f

\* input of unknown effect, after which either kind of epoch may begin,
LEMMA UnknownInputSound ==
    ASSUME NEW last \in Nat, NEW e, Sound(e, last)
    PROVE  LET f == UnknownInput(e)
           IN  /\ Sound(f, last) /\ Settled(e, f) /\ f.overlay = e.overlay
               /\ f.cursors = <<>> /\ f.last_size = e.last_size /\ f.panicked = e.panicked
               /\ \A b, c \in BOOLEAN : Hidden(e, b) => Hidden(f, c)
<1> DEFINE g == [e EXCEPT !.cursors = <<>>]
<1>1. <<>> \in Seq(Cursors) /\ DOMAIN <<>> = {}
  OBVIOUS
<1>2. /\ Sound(g, last) /\ CursorsOnly(e, g) /\ g.cursors = <<>>
      /\ \A b \in BOOLEAN : Hidden(e, b) => Hidden(g, b)
  BY <1>1, CursorsOnlySound
<1>3. UnknownInput(e) = BecomeTentative(g)
  BY DEF UnknownInput
<1> HIDE DEF g
<1>4. /\ Sound(BecomeTentative(g), last) /\ Settled(g, BecomeTentative(g))
      /\ BecomeTentative(g).overlay = g.overlay /\ BecomeTentative(g).cursors = g.cursors
      /\ BecomeTentative(g).last_size = g.last_size
      /\ BecomeTentative(g).panicked = g.panicked
      /\ \A b, c \in BOOLEAN : Hidden(g, b) => Hidden(BecomeTentative(g), c)
  BY <1>2, TentativeSound
<1> QED
  BY <1>2, <1>3, <1>4 DEF CursorsOnly, Settled

\* and a reset.
LEMMA ResetSound ==
    ASSUME NEW last \in Nat, NEW e, Sound(e, last)
    PROVE  LET f == Reset(e)
           IN  /\ Sound(f, last) /\ Settled(e, f) /\ DOMAIN f.overlay = {}
               /\ f.cursors = <<>> /\ f.last_size = e.last_size /\ f.panicked = e.panicked
               /\ \A b, c \in BOOLEAN : Hidden(e, b) => Hidden(f, c)
<1> DEFINE g == Narrowed(e, {})
<1>1. e \in Engines
  BY DEF Sound
<1>2. Reset(e) = UnknownInput(g)
  <2>1. Restrict(e.overlay, {}) = NoCells
    BY DEF Restrict, NoCells
  <2>2. [e EXCEPT !.cursors = <<>>, !.overlay = NoCells] = [g EXCEPT !.cursors = <<>>]
    BY <1>1, <2>1 DEF Narrowed, Engines
  <2> QED
    BY <2>2, Zenon DEF Reset, UnknownInput
<1>3. /\ Sound(g, last) /\ OverlayOnly(e, g) /\ DOMAIN g.overlay = {}
      /\ \A b \in BOOLEAN : Hidden(e, b) => Hidden(g, b)
  BY NarrowedSound
<1> HIDE DEF g
<1>4. LET f == UnknownInput(g)
      IN  /\ Sound(f, last) /\ Settled(g, f) /\ f.overlay = g.overlay
          /\ f.cursors = <<>> /\ f.last_size = g.last_size /\ f.panicked = g.panicked
          /\ \A b, c \in BOOLEAN : Hidden(g, b) => Hidden(f, c)
  BY <1>3, UnknownInputSound
<1> QED
  BY <1>2, <1>3, <1>4 DEF OverlayOnly, Settled

\* Predictions of the engine, by the character.
LEMMA PredictType ==
    ASSUME NEW last \in Nat, NEW e \in Engines, NEW what \in Character,
           NEW original \in SUBSET Printable
    PROVE  LET cell == Predict(e, what, original, last)
           IN  /\ cell \in Cells /\ cell.epoch = e.prediction_epoch /\ cell.frame = last + 1
               /\ cell.blind = e.blind /\ cell.replacement = what
  BY EngineFields DEF Predict, InputFrame, Cells

\* A cell remembers characters, never an unknown one.
LEMMA OriginalType ==
    ASSUME NEW e \in Engines, NEW at
    PROVE  Original(e, at) \in SUBSET Printable
<1>1. e.overlay \in Overlays
  BY EngineFields
<1>2. at \in DOMAIN e.overlay => /\ e.overlay[at].replacement \in Character
                                 /\ e.overlay[at].original \in SUBSET Printable
  BY <1>1, OverlayFacts
<1> QED
  BY <1>2, Zenon DEF Original, Character

\* What is seen at a position is a character or unknown.
LEMMA SeenType ==
    ASSUME NEW e \in Engines, NEW screen \in Screens, NEW at
    PROVE  Seen(e, screen, at) \in Character /\ CellAt(screen, at) \in Printable
<1>1. e.overlay \in Overlays
  BY EngineFields
<1>2. at \in DOMAIN e.overlay => e.overlay[at].replacement \in Character
  BY <1>1, OverlayFacts
<1>3. PICK size \in Sizes : screen.cells \in [Positions(size) -> Printable]
  BY DEF Screens, ScreensOf
<1>4. CellAt(screen, at) \in Printable
  BY <1>3, CellAtType
<1> QED
  BY <1>2, <1>4, Zenon DEF Seen, Character

-----------------------------------------------------------------------------
(* What a key predicts *)

\* What a step of the engine does whatever the key.
Stepped(e, f, last) ==
    /\ Sound(f, last) /\ Settled(e, f) /\ f.last_size = e.last_size
    /\ Hidden(e, e.blind) => Hidden(f, e.blind)

\* Two steps of the engine for one byte make one.
LEMMA SteppedTwice ==
    ASSUME NEW last, NEW e, NEW f, NEW g, Stepped(e, f, last), Stepped(f, g, last)
    PROVE  Stepped(e, g, last)
  BY DEF Stepped, Settled

\* Predicting cells is such a step,
LEMMA WithStepped ==
    ASSUME NEW last \in Nat, NEW e, Sound(e, last), NEW new, IsNew(e, new, last)
    PROVE  Stepped(e, With(e, new), last)
  BY WithSound DEF Stepped, OverlayOnly

\* and so is whatever changes the cursors or begins an epoch.
LEMMA CursorsStepped ==
    ASSUME NEW last \in Nat, NEW e, Sound(e, last), NEW at \in Nat \X Nat
    PROVE  /\ Stepped(e, MoveCursor(e, at, last), last)
           /\ Stepped(e, InitCursor(e, at, last), last)
           /\ Stepped(e, BecomeTentative(e), last)
           /\ Stepped(e, UnknownInput(e), last)
<1>0. e.blind \in BOOLEAN
  BY EngineFields DEF Sound
<1>1. Stepped(e, MoveCursor(e, at, last), last)
  BY <1>0, MoveCursorSound DEF Stepped, CursorsOnly
<1>2. Stepped(e, InitCursor(e, at, last), last)
  BY <1>0, InitCursorSound DEF Stepped, CursorsOnly
<1>3. Stepped(e, BecomeTentative(e), last)
  BY <1>0, TentativeSound DEF Stepped
<1>4. Stepped(e, UnknownInput(e), last)
  BY <1>0, UnknownInputSound DEF Stepped
<1> QED
  BY <1>1, <1>2, <1>3, <1>4

\* The cells of a row that an insertion, a deletion or a new line predicts.
RowFrom(row, from, columns) == {row} \X (from .. columns - 1)

\* What predict_insert predicts: the row from the cursor on,
LEMMA InsertedNew ==
    ASSUME NEW last \in Nat, NEW e \in Engines, NEW ch \in Printable, NEW at \in Nat \X Nat,
           NEW painted \in Screens
    PROVE  LET new == Inserted(e, ch, at, painted, last)
           IN  /\ IsNew(e, new, last)
               /\ DOMAIN new = RowFrom(at[1], at[2], e.last_size[2])
               /\ \A p \in DOMAIN new : new[p].replacement = InsertedAt(e, ch, at, painted, p)
<1> DEFINE S == RowFrom(at[1], at[2], e.last_size[2])
           new == Inserted(e, ch, at, painted, last)
<1>1. e.last_size \in Nat \X Nat
  BY EngineFields, SizeFacts
<1>2. S \in SUBSET (Nat \X Nat)
  BY <1>1 DEF RowFrom
<1>3. ASSUME NEW p \in S PROVE InsertedAt(e, ch, at, painted, p) \in Character
  BY SeenType, Zenon DEF InsertedAt, Character
<1>4. \A p \in S : Original(e, p) \in SUBSET Printable
  BY OriginalType
<1> DEFINE cell(p) == Predict(e, InsertedAt(e, ch, at, painted, p), Original(e, p), last)
<1>5. \A p \in S : /\ cell(p) \in Cells /\ cell(p).epoch = e.prediction_epoch
                   /\ cell(p).frame = last + 1 /\ cell(p).blind = e.blind
                   /\ cell(p).replacement = InsertedAt(e, ch, at, painted, p)
  BY <1>3, <1>4, PredictType
<1>6. new = [p \in S |-> cell(p)]
  BY Zenon DEF Inserted, RowFrom
<1> HIDE DEF cell, S, new
<1>7. new \in [S -> Cells] /\ DOMAIN new = S /\ \A p \in S : new[p] = cell(p)
  BY <1>5, <1>6
<1>8. new \in Overlays
  BY <1>2, <1>7 DEF Overlays
<1>9. IsNew(e, new, last) /\ \A p \in S : new[p].replacement = InsertedAt(e, ch, at, painted, p)
  BY <1>5, <1>7, <1>8 DEF IsNew
<1> QED
  BY <1>7, <1>9 DEF S, new

\* predict_backspace: the row from the column before it,
LEMMA DeletedNew ==
    ASSUME NEW last \in Nat, NEW e \in Engines, NEW at \in Nat \X Nat, at[2] > 0,
           NEW painted \in Screens
    PROVE  LET new == Deleted(e, at, painted, last)
           IN  /\ IsNew(e, new, last)
               /\ DOMAIN new = RowFrom(at[1], at[2] - 1, e.last_size[2])
               /\ \A p \in DOMAIN new : new[p].replacement = DeletedAt(e, at, painted, p)
<1> DEFINE S == RowFrom(at[1], at[2] - 1, e.last_size[2])
           new == Deleted(e, at, painted, last)
<1>1. e.last_size \in Nat \X Nat
  BY EngineFields, SizeFacts
<1>2. S \in SUBSET (Nat \X Nat)
  BY <1>1 DEF RowFrom
<1>3. ASSUME NEW p \in S PROVE DeletedAt(e, at, painted, p) \in Character
  BY SeenType, BlankFacts, Zenon DEF DeletedAt
<1>4. \A p \in S : Original(e, p) \in SUBSET Printable
  BY OriginalType
<1> DEFINE cell(p) == Predict(e, DeletedAt(e, at, painted, p), Original(e, p), last)
<1>5. \A p \in S : /\ cell(p) \in Cells /\ cell(p).epoch = e.prediction_epoch
                   /\ cell(p).frame = last + 1 /\ cell(p).blind = e.blind
                   /\ cell(p).replacement = DeletedAt(e, at, painted, p)
  <2> SUFFICES ASSUME NEW p \in S
               PROVE  /\ cell(p) \in Cells /\ cell(p).epoch = e.prediction_epoch
                      /\ cell(p).frame = last + 1 /\ cell(p).blind = e.blind
                      /\ cell(p).replacement = DeletedAt(e, at, painted, p)
    OBVIOUS
  <2>1. DeletedAt(e, at, painted, p) \in Character /\ Original(e, p) \in SUBSET Printable
    BY <1>3, <1>4
  <2> QED
    BY <2>1, PredictType
<1>6. new = [p \in S |-> cell(p)]
  BY Zenon DEF Deleted, RowFrom
<1> HIDE DEF cell, S, new
<1>7. new \in [S -> Cells] /\ DOMAIN new = S /\ \A p \in S : new[p] = cell(p)
  BY <1>5, <1>6
<1>8. new \in Overlays
  BY <1>2, <1>7 DEF Overlays
<1>9. IsNew(e, new, last) /\ \A p \in S : new[p].replacement = DeletedAt(e, at, painted, p)
  BY <1>5, <1>7, <1>8 DEF IsNew
<1> QED
  BY <1>7, <1>9 DEF S, new

\* newline_carriage_return: the whole of the last row.
LEMMA BlankLineNew ==
    ASSUME NEW last \in Nat, NEW e \in Engines, NEW row \in Nat
    PROVE  LET new == BlankLine(e, row, last)
           IN  /\ IsNew(e, new, last)
               /\ DOMAIN new = RowFrom(row, 0, e.last_size[2])
               /\ \A p \in DOMAIN new : new[p].replacement = Blank
<1> DEFINE S == RowFrom(row, 0, e.last_size[2])
           new == BlankLine(e, row, last)
<1>1. e.last_size \in Nat \X Nat /\ e.overlay \in Overlays
  BY EngineFields, SizeFacts
<1>2. S \in SUBSET (Nat \X Nat)
  BY <1>1 DEF RowFrom
<1>3. Blank \in Character
  BY BlankFacts, Zenon DEF Character
<1>4. \A p \in S : BlankOriginal(e, p) \in SUBSET Printable
  BY <1>1, OverlayFacts DEF BlankOriginal
<1> DEFINE cell(p) == Predict(e, Blank, BlankOriginal(e, p), last)
<1>5. \A p \in S : /\ cell(p) \in Cells /\ cell(p).epoch = e.prediction_epoch
                   /\ cell(p).frame = last + 1 /\ cell(p).blind = e.blind
                   /\ cell(p).replacement = Blank
  <2> SUFFICES ASSUME NEW p \in S
               PROVE  /\ cell(p) \in Cells /\ cell(p).epoch = e.prediction_epoch
                      /\ cell(p).frame = last + 1 /\ cell(p).blind = e.blind
                      /\ cell(p).replacement = Blank
    OBVIOUS
  <2>1. BlankOriginal(e, p) \in SUBSET Printable
    BY <1>4
  <2> QED
    BY <1>3, <2>1, PredictType
<1>6. new = [p \in S |-> cell(p)]
  BY Zenon DEF BlankLine, RowFrom
<1> HIDE DEF cell, S, new
<1>7. new \in [S -> Cells] /\ DOMAIN new = S /\ \A p \in S : new[p] = cell(p)
  BY <1>5, <1>6
<1>8. new \in Overlays
  BY <1>2, <1>7 DEF Overlays
<1>9. IsNew(e, new, last) /\ \A p \in S : new[p].replacement = Blank
  BY <1>5, <1>7, <1>8 DEF IsNew
<1> QED
  BY <1>7, <1>9 DEF S, new

\* New predictions stay new when only the cursor moves.
LEMMA IsNewKept ==
    ASSUME NEW last, NEW e, NEW f, NEW new, CursorsOnly(e, f), IsNew(e, new, last)
    PROVE  IsNew(f, new, last)
  BY DEF CursorsOnly, Settled, IsNew

\* The cursor goes to the start of the next row, or of the last.
LEMMA CursorDownStepped ==
    ASSUME NEW last \in Nat, NEW e, Sound(e, last)
    PROVE  /\ Stepped(e, CursorDown(e, last), last) /\ CursorsOnly(e, CursorDown(e, last))
           /\ e.cursors = <<>> <=> CursorDown(e, last).cursors = <<>>
           /\ e.cursors # <<>> =>
                 /\ Last(CursorDown(e, last).cursors).frame = last + 1
                 /\ LET r == Last(e.cursors).at[1]
                    IN  Last(CursorDown(e, last).cursors).at =
                           <<IF r + 1 < e.last_size[1] THEN r + 1 ELSE r, 0>>
<1>1. e \in Engines /\ e.blind \in BOOLEAN /\ e.cursors \in Seq(Cursors)
  BY EngineFields DEF Sound
<1>2. CASE e.cursors = <<>>
  <2>1. CursorDown(e, last) = e
    BY <1>2 DEF CursorDown
  <2>2. Stepped(e, e, last) /\ CursorsOnly(e, e)
    BY DEF Stepped, CursorsOnly, Settled
  <2> QED
    BY <1>2, <2>1, <2>2
<1>3. CASE e.cursors # <<>>
  <2> DEFINE r == Last(e.cursors).at[1]
             at == <<IF r + 1 < e.last_size[1] THEN r + 1 ELSE r, 0>>
  <2>1. CursorDown(e, last) = MoveCursor(e, at, last)
    BY <1>3 DEF CursorDown
  <2>2. r \in Nat
    <3>1. Len(e.cursors) \in DOMAIN e.cursors
      BY <1>1, <1>3
    <3> QED
      BY <1>1, <3>1, CursorFields DEF Last
  <2> HIDE DEF r
  <2>3. at \in Nat \X Nat
    BY <2>2
  <2> HIDE DEF at
  <2>4. /\ CursorsOnly(e, MoveCursor(e, at, last))
        /\ e.cursors = <<>> <=> MoveCursor(e, at, last).cursors = <<>>
        /\ Last(MoveCursor(e, at, last).cursors).at = at
        /\ Last(MoveCursor(e, at, last).cursors).frame = last + 1
    BY <1>3, <2>3, MoveCursorSound
  <2>5. Stepped(e, MoveCursor(e, at, last), last)
    BY <2>3, CursorsStepped
  <2>6. /\ Stepped(e, CursorDown(e, last), last) /\ CursorsOnly(e, CursorDown(e, last))
        /\ e.cursors = <<>> <=> CursorDown(e, last).cursors = <<>>
        /\ Last(CursorDown(e, last).cursors).frame = last + 1
        /\ Last(CursorDown(e, last).cursors).at = at
    BY <2>1, <2>4, <2>5
  <2> QED
    BY <1>3, <2>6, Zenon DEF at, r
<1> QED
  BY <1>2, <1>3

\* newline_carriage_return is a step of the engine,
LEMMA NewlineStepped ==
    ASSUME NEW last \in Nat, NEW e, Sound(e, last), NEW row \in Nat
    PROVE  LET f == NewlineCarriageReturn(e, row, last)
           IN  /\ Stepped(e, f, last) /\ f.panicked = e.panicked
               /\ f.cursors = CursorDown(e, last).cursors
               /\ row + 1 < e.last_size[1] => f.overlay = e.overlay
               /\ ~(row + 1 < e.last_size[1]) =>
                     f.overlay = Over(BlankLine(e, row, last), e.overlay)
<1> DEFINE m == CursorDown(e, last)
           new == BlankLine(e, row, last)
<1>1. Stepped(e, m, last) /\ CursorsOnly(e, m) /\ Sound(m, last)
  BY CursorDownStepped DEF Stepped
<1>2. IsNew(e, new, last)
  BY BlankLineNew DEF Sound
<1>3. IsNew(m, new, last)
  BY <1>1, <1>2, IsNewKept
<1>4. NewlineCarriageReturn(e, row, last)
         = IF row + 1 < e.last_size[1] THEN m ELSE With(m, new)
  BY DEF NewlineCarriageReturn
<1> HIDE DEF m, new
<1>5. /\ Stepped(m, With(m, new), last) /\ OverlayOnly(m, With(m, new))
      /\ With(m, new).overlay = Over(new, m.overlay)
  BY <1>1, <1>3, WithStepped, WithSound
<1>6. Stepped(e, With(m, new), last)
  BY <1>1, <1>5, SteppedTwice
<1> QED
  BY <1>1, <1>4, <1>5, <1>6 DEF m, new, CursorsOnly, OverlayOnly

\* and so are predict_insert,
LEMMA InsertStepped ==
    ASSUME NEW last \in Nat, NEW e, Sound(e, last), e.cursors # <<>>, NEW ch \in Printable,
           NEW at \in Nat \X Nat, NEW painted \in Screens
    PROVE  Stepped(e, PredictInsert(e, ch, at, painted, last), last)
<1> DEFINE b == BecomeTentative(e)
<1>1. e \in Engines /\ e.cursors \in Seq(Cursors)
  BY EngineFields DEF Sound
<1>2. Stepped(e, b, last) /\ Sound(b, last) /\ b \in Engines
  BY CursorsStepped DEF Stepped, Sound
<1> HIDE DEF b
<1>3. CASE at[2] >= e.last_size[2]
  <2> DEFINE f == [b EXCEPT !.panicked = TRUE]
  <2>1. f \in Engines /\ f.overlay = b.overlay /\ f.cursors = b.cursors /\ Settled(b, f)
        /\ f.prediction_epoch = b.prediction_epoch /\ f.last_size = b.last_size
    BY <1>2 DEF Engines, Settled
  <2>2. PredictInsert(e, ch, at, painted, last) = f
    BY <1>3 DEF PredictInsert, b
  <2> HIDE DEF f
  <2>3. SoundOverlay(f, last) /\ SoundCursors(f, last)
    BY <1>2, <2>1 DEF Sound, SoundOverlay, SoundCursors, Settled
  <2>4. Sound(f, last)
    BY <1>2, <2>1, <2>3 DEF Sound, Settled
  <2>5. Hidden(b, b.blind) => Hidden(f, b.blind)
    BY <2>1 DEF Hidden, Settled
  <2>6. Stepped(b, f, last)
    BY <2>1, <2>4, <2>5 DEF Stepped
  <2> QED
    BY <1>2, <2>2, <2>6, SteppedTwice
<1>4. CASE ~(at[2] >= e.last_size[2]) /\ at[2] + 1 < e.last_size[2]
  <2> DEFINE new == Inserted(e, ch, at, painted, last)
             w == With(e, new)
             to == <<Last(e.cursors).at[1], at[2] + 1>>
  <2>1. PredictInsert(e, ch, at, painted, last) = MoveCursor(w, to, last)
    BY <1>4 DEF PredictInsert
  <2>2. IsNew(e, new, last)
    BY <1>1, InsertedNew
  <2>3. to \in Nat \X Nat
    <3>1. Len(e.cursors) \in DOMAIN e.cursors
      BY <1>1
    <3>2. Last(e.cursors).at \in Nat \X Nat
      BY <1>1, <3>1, CursorFields DEF Last
    <3> QED
      BY <3>2
  <2> HIDE DEF new, to
  <2>4. Stepped(e, w, last) /\ Sound(w, last)
    BY <2>2, WithStepped DEF Stepped
  <2> HIDE DEF w
  <2>5. Stepped(w, MoveCursor(w, to, last), last)
    BY <2>3, <2>4, CursorsStepped
  <2> QED
    BY <2>1, <2>4, <2>5, SteppedTwice
<1>5. CASE ~(at[2] >= e.last_size[2]) /\ ~(at[2] + 1 < e.last_size[2])
  <2> DEFINE new == Inserted(b, ch, at, painted, last)
             w == With(b, new)
             c == BecomeTentative(w)
  <2>1. PredictInsert(e, ch, at, painted, last) = NewlineCarriageReturn(c, at[1], last)
    BY <1>5 DEF PredictInsert, InsertAndWrap, b
  <2>2. IsNew(b, new, last)
    BY <1>2, InsertedNew
  <2> HIDE DEF new
  <2>3. Stepped(b, w, last) /\ Sound(w, last)
    BY <1>2, <2>2, WithStepped DEF Stepped
  <2> HIDE DEF w
  <2>4. Stepped(w, c, last) /\ Sound(c, last)
    BY <2>3, CursorsStepped DEF Stepped
  <2> HIDE DEF c
  <2>5. Stepped(c, NewlineCarriageReturn(c, at[1], last), last)
    BY <2>4, NewlineStepped
  <2> QED
    BY <1>2, <2>1, <2>3, <2>4, <2>5, SteppedTwice
<1> QED
  BY <1>3, <1>4, <1>5

\* predict_backspace
LEMMA BackspaceStepped ==
    ASSUME NEW last \in Nat, NEW e, Sound(e, last), e.cursors # <<>>,
           NEW at \in Nat \X Nat, NEW painted \in Screens
    PROVE  Stepped(e, PredictBackspace(e, at, painted, last), last)
<1>1. e \in Engines /\ e.cursors \in Seq(Cursors)
  BY EngineFields DEF Sound
<1>2. CASE ~(at[2] > 0)
  BY <1>2 DEF PredictBackspace, CanGoLeft, Stepped, Settled
<1>3. CASE at[2] > 0
  <2> DEFINE to == <<Last(e.cursors).at[1], at[2] - 1>>
             m == MoveCursor(e, to, last)
             new == Deleted(e, at, painted, last)
  <2>1. PredictBackspace(e, at, painted, last) = With(m, new)
    BY <1>3 DEF PredictBackspace, CanGoLeft
  <2>2. to \in Nat \X Nat
    <3>1. Len(e.cursors) \in DOMAIN e.cursors
      BY <1>1
    <3>2. Last(e.cursors).at \in Nat \X Nat
      BY <1>1, <3>1, CursorFields DEF Last
    <3> QED
      BY <1>3, <3>2
  <2>3. IsNew(e, new, last)
    BY <1>1, <1>3, DeletedNew
  <2> HIDE DEF to, new
  <2>4. Stepped(e, m, last) /\ CursorsOnly(e, m) /\ Sound(m, last)
    BY <2>2, MoveCursorSound, CursorsStepped
  <2> HIDE DEF m
  <2>5. IsNew(m, new, last)
    BY <2>3, <2>4, IsNewKept
  <2>6. Stepped(m, With(m, new), last)
    BY <2>4, <2>5, WithStepped
  <2> QED
    BY <2>1, <2>4, <2>6, SteppedTwice
<1> QED
  BY <1>2, <1>3

\* and predict_cursor_key.
LEMMA CursorKeyStepped ==
    ASSUME NEW last \in Nat, NEW e, Sound(e, last), NEW key
    PROVE  Stepped(e, PredictCursorKey(e, key, last), last)
<1>1. e \in Engines /\ e.cursors \in Seq(Cursors) /\ <<0, 0>> \in Nat \X Nat
  BY EngineFields DEF Sound
<1>2. CASE key = "unknown" \/ e.cursors = <<>>
  <2>1. PredictCursorKey(e, key, last) = UnknownInput(e)
    BY <1>2 DEF PredictCursorKey
  <2> QED
    BY <1>1, <2>1, CursorsStepped
<1>3. CASE key # "unknown" /\ e.cursors # <<>>
  <2> DEFINE at == Last(e.cursors).at
  <2>1. at \in Nat \X Nat
    <3>1. Len(e.cursors) \in DOMAIN e.cursors
      BY <1>1, <1>3
    <3> QED
      BY <1>1, <3>1, CursorFields DEF Last
  <2>2. PredictCursorKey(e, key, last) =
           CASE key = "right" /\ at[2] + 1 < e.last_size[2] ->
                   MoveCursor(e, <<at[1], at[2] + 1>>, last)
             [] key = "left" /\ CanGoLeft(at) -> MoveCursor(e, <<at[1], at[2] - 1>>, last)
             [] OTHER -> e
    BY <1>3 DEF PredictCursorKey
  <2> HIDE DEF at
  <2>3. CASE key = "right" /\ at[2] + 1 < e.last_size[2]
    <3>1. <<at[1], at[2] + 1>> \in Nat \X Nat
      BY <2>1
    <3> QED
      BY <2>2, <2>3, <3>1, CursorsStepped
  <2>4. CASE key = "left" /\ CanGoLeft(at)
    <3>1. <<at[1], at[2] - 1>> \in Nat \X Nat
      BY <2>1, <2>4 DEF CanGoLeft
    <3> QED
      BY <2>2, <2>4, <3>1, CursorsStepped
  <2>5. CASE /\ ~(key = "right" /\ at[2] + 1 < e.last_size[2])
             /\ ~(key = "left" /\ CanGoLeft(at))
    <3>1. PredictCursorKey(e, key, last) = e
      BY <2>2, <2>5
    <3>2. Stepped(e, e, last)
      BY DEF Stepped, Settled
    <3> QED
      BY <3>1, <3>2
  <2> QED
    BY <2>3, <2>4, <2>5
<1> QED
  BY <1>2, <1>3

-----------------------------------------------------------------------------
(* A byte *)

\* What a byte may change.
Bytewise(e, f) ==
    f.confirmed_epoch = e.confirmed_epoch /\ f.late_acked = e.late_acked
    /\ f.fooled = e.fooled /\ f.blind = e.blind

\* A new size resets the engine,
LEMMA SizedSound ==
    ASSUME NEW last \in Nat, NEW e, Sound(e, last), NEW size \in Sizes
    PROVE  LET f == Sized(e, size)
           IN  /\ Sound(f, last) /\ Settled(e, f) /\ f.last_size = size
               /\ f.panicked = e.panicked
               /\ e.last_size = size => f = e
               /\ e.last_size # size => DOMAIN f.overlay = {} /\ f.cursors = <<>>
               /\ \A b \in BOOLEAN : Hidden(e, b) => Hidden(f, b)
<1>1. e \in Engines
  BY DEF Sound
<1>2. CASE e.last_size = size
  <2>1. Sized(e, size) = e
    BY <1>2 DEF Sized
  <2> QED
    BY <1>2, <2>1 DEF Settled
<1>3. CASE e.last_size # size
  <2> DEFINE g == [e EXCEPT !.last_size = size]
  <2>1. /\ g \in Engines /\ g.overlay = e.overlay /\ g.cursors = e.cursors /\ Settled(e, g)
        /\ g.prediction_epoch = e.prediction_epoch /\ g.last_size = size
        /\ g.panicked = e.panicked
    BY <1>1 DEF Engines, Settled
  <2>2. Sized(e, size) = Reset(g)
    BY <1>3 DEF Sized
  <2> HIDE DEF g
  <2>3. SoundOverlay(g, last) /\ SoundCursors(g, last)
    BY <2>1 DEF Sound, SoundOverlay, SoundCursors, Settled
  <2>4. Sound(g, last)
    BY <2>1, <2>3 DEF Sound, Settled
  <2>5. \A b \in BOOLEAN : Hidden(e, b) => Hidden(g, b)
    BY <2>1 DEF Hidden, Settled
  <2>6. /\ Sound(Reset(g), last) /\ Settled(g, Reset(g)) /\ DOMAIN Reset(g).overlay = {}
        /\ Reset(g).cursors = <<>> /\ Reset(g).last_size = g.last_size
        /\ Reset(g).panicked = g.panicked
        /\ \A b, c \in BOOLEAN : Hidden(g, b) => Hidden(Reset(g), c)
    BY <2>4, ResetSound
  <2> QED
    BY <1>3, <2>1, <2>2, <2>5, <2>6 DEF Settled
<1> QED
  BY <1>2, <1>3

\* What is left of the predictions of z, and the cursor at a position.
Carried(z, f, at, rows, last) ==
    /\ DOMAIN f.overlay = {p \in DOMAIN z.overlay : p[1] < rows}
    /\ \A p \in DOMAIN f.overlay : f.overlay[p] = z.overlay[p]
    /\ \/ z.cursors # <<>> /\ f.cursors = z.cursors
       \/ Last(f.cursors).at = at /\ Last(f.cursors).frame = last + 1

\* and then rows off the screen are culled and a cursor is there.
LEMMA PreparedSound ==
    ASSUME NEW last \in Nat, NEW e, Sound(e, last), NEW ch, NEW at \in Nat \X Nat,
           NEW size \in Sizes
    PROVE  LET f == Prepared(e, ch, at, size, last)
           IN  /\ Sound(f, last) /\ Bytewise(e, f) /\ f.last_size = size
               /\ f.input_state = Decode(e.input_state, ch)[1]
               /\ f.panicked = e.panicked /\ f.cursors # <<>>
               /\ Carried(Sized(e, size), f, at, size[1], last)
               /\ Hidden(e, e.blind) => Hidden(f, f.blind)
<1> DEFINE z == Sized(e, size)
           S == {p \in DOMAIN z.overlay : p[1] < size[1]}
           c == Narrowed(z, S)
           i == InitCursor(c, at, last)
           f == [i EXCEPT !.input_state = Decode(e.input_state, ch)[1]]
<1>0. e.blind \in BOOLEAN /\ e.input_state \in InputStates
  BY EngineFields DEF Sound
<1>1. /\ Sound(z, last) /\ Settled(e, z) /\ z.last_size = size /\ z.panicked = e.panicked
      /\ Hidden(e, e.blind) => Hidden(z, e.blind)
  BY <1>0, SizedSound
<1>2. Prepared(e, ch, at, size, last) = f
  BY DEF Prepared, Cull, Narrowed
<1>3. S \in SUBSET DOMAIN z.overlay
  OBVIOUS
<1> HIDE DEF z, S
<1>4. /\ Sound(c, last) /\ OverlayOnly(z, c)
      /\ DOMAIN c.overlay = S /\ \A p \in S : c.overlay[p] = z.overlay[p]
      /\ Hidden(z, e.blind) => Hidden(c, e.blind)
  BY <1>0, <1>1, <1>3, NarrowedSound
<1> HIDE DEF c
<1>5. /\ Sound(i, last) /\ CursorsOnly(c, i) /\ i.cursors # <<>>
      /\ i = c \/ (Last(i.cursors).at = at /\ Last(i.cursors).frame = last + 1)
      /\ i = c => c.cursors # <<>>
      /\ Hidden(c, e.blind) => Hidden(i, e.blind)
  BY <1>0, <1>4, InitCursorSound
<1> HIDE DEF i
<1>6. Decode(e.input_state, ch)[1] \in InputStates
  BY <1>0, DecodeType
<1>7. /\ f \in Engines /\ f.overlay = i.overlay /\ f.cursors = i.cursors
      /\ f.prediction_epoch = i.prediction_epoch /\ f.last_size = i.last_size
      /\ f.panicked = i.panicked /\ Bytewise(i, f)
      /\ f.input_state = Decode(e.input_state, ch)[1]
  BY <1>5, <1>6 DEF Sound, Engines, Bytewise
<1> HIDE DEF f
<1>8. SoundOverlay(f, last) /\ SoundCursors(f, last)
  BY <1>5, <1>7 DEF Sound, SoundOverlay, SoundCursors, Bytewise
<1>9. Sound(f, last)
  BY <1>5, <1>7, <1>8 DEF Sound, Bytewise
<1>10. Bytewise(e, f) /\ f.last_size = size /\ f.panicked = e.panicked
  BY <1>1, <1>4, <1>5, <1>7 DEF Bytewise, Settled, OverlayOnly, CursorsOnly
<1>11. f.overlay = c.overlay
  BY <1>5, <1>7 DEF CursorsOnly
<1>12. Hidden(i, e.blind) => Hidden(f, e.blind)
  BY <1>7 DEF Hidden, Bytewise
<1>13. Hidden(e, e.blind) => Hidden(f, f.blind)
  BY <1>1, <1>4, <1>5, <1>10, <1>12 DEF Bytewise
<1>14. DOMAIN f.overlay = S /\ \A p \in S : f.overlay[p] = z.overlay[p]
  BY <1>4, <1>11
<1>15. \/ z.cursors # <<>> /\ f.cursors = z.cursors
       \/ Last(f.cursors).at = at /\ Last(f.cursors).frame = last + 1
  BY <1>4, <1>5, <1>7 DEF OverlayOnly
<1>16. Carried(z, f, at, size[1], last)
  BY <1>14, <1>15 DEF Carried, S
<1> QED
  BY <1>2, <1>5, <1>7, <1>9, <1>10, <1>13, <1>16 DEF z

\* Whatever the byte, the engine stays sound; a byte that ends an epoch leaves
\* nothing predicted in the next.
LEMMA NewUserByteSound ==
    ASSUME NEW last \in Nat, NEW e, Sound(e, last), NEW ch, NEW at \in Nat \X Nat,
           NEW painted \in Screens
    PROVE  LET f == NewUserByte(e, ch, at, painted, last)
               d == Decode(e.input_state, ch)
           IN  /\ Sound(f, last) /\ Bytewise(e, f) /\ f.input_state = d[1]
               /\ Hidden(e, e.blind) => Hidden(f, f.blind)
               /\ d[2] = "unknown" /\ Hidden(e, e.blind) => \A b \in BOOLEAN : Hidden(f, b)
<1> DEFINE d == Decode(e.input_state, ch)
           size == painted.size
           p == Prepared(e, ch, at, size, last)
           f == NewUserByte(e, ch, at, painted, last)
<1>1. e.input_state \in InputStates /\ e.blind \in BOOLEAN
  BY EngineFields DEF Sound
<1>2. d[2] \in Keys /\ (d[2] = "insert" => ch \in Printable)
  BY <1>1, DecodeType
<1>3. size \in Sizes
  BY DEF Screens, ScreensOf
<1> HIDE DEF size
<1>4. /\ Sound(p, last) /\ Bytewise(e, p) /\ p.input_state = d[1] /\ p.cursors # <<>>
      /\ Hidden(e, e.blind) => Hidden(p, p.blind)
  <2>1. Sound(p, last)
    BY <1>3, PreparedSound
  <2>2. Bytewise(e, p)
    BY <1>3, PreparedSound
  <2>3. p.input_state = d[1]
    BY <1>3, PreparedSound
  <2>4. p.cursors # <<>>
    BY <1>3, PreparedSound
  <2>5. Hidden(e, e.blind) => Hidden(p, p.blind)
    BY <1>3, PreparedSound
  <2> QED
    BY <2>1, <2>2, <2>3, <2>4, <2>5
<1>5. f = CASE d[2] = "none" -> p
            [] d[2] = "insert" -> PredictInsert(p, ch, at, painted, last)
            [] d[2] = "backspace" -> PredictBackspace(p, at, painted, last)
            [] d[2] \in {"left", "right"} -> PredictCursorKey(p, d[2], last)
            [] d[2] = "unknown" -> UnknownInput(p)
  BY Zenon DEF NewUserByte, size
<1> HIDE DEF d, p, f
<1>6. Stepped(p, f, last)
  <2>1. CASE d[2] = "none"
    <3>1. f = p
      BY <1>5, <2>1
    <3> QED
      BY <1>4, <3>1 DEF Stepped, Settled
  <2>2. CASE d[2] = "insert"
    <3>1. f = PredictInsert(p, ch, at, painted, last)
      BY <1>5, <2>2
    <3> QED
      BY <1>2, <1>4, <2>2, <3>1, InsertStepped
  <2>3. CASE d[2] = "backspace"
    <3>1. f = PredictBackspace(p, at, painted, last)
      BY <1>5, <2>3
    <3> QED
      BY <1>4, <3>1, BackspaceStepped
  <2>4. CASE d[2] \in {"left", "right"}
    <3>1. f = PredictCursorKey(p, d[2], last)
      BY <1>5, <2>4
    <3> QED
      BY <1>4, <3>1, CursorKeyStepped
  <2>5. CASE d[2] = "unknown"
    <3>1. f = UnknownInput(p)
      BY <1>5, <2>5
    <3> QED
      BY <1>4, <3>1, CursorsStepped
  <2> QED
    BY <1>2, <2>1, <2>2, <2>3, <2>4, <2>5 DEF Keys
<1>7. Sound(f, last) /\ Bytewise(e, f) /\ f.input_state = d[1]
  BY <1>4, <1>6 DEF Stepped, Settled, Bytewise
<1>8. Hidden(e, e.blind) => Hidden(f, f.blind)
  BY <1>4, <1>6 DEF Stepped, Settled
<1>9. ASSUME d[2] = "unknown", Hidden(e, e.blind), NEW b \in BOOLEAN
      PROVE  Hidden(f, b)
  <2>1. f = UnknownInput(p)
    BY <1>5, <1>9
  <2>2. Hidden(p, p.blind) /\ p.blind \in BOOLEAN
    BY <1>1, <1>4, <1>9 DEF Bytewise
  <2> QED
    BY <1>4, <2>1, <2>2, UnknownInputSound
<1> QED
  BY <1>7, <1>8, <1>9 DEF d, f

\* Painting shows known characters only, and moves the cursor within the screen.
LEMMA PaintedType ==
    ASSUME engine \in Engines, remote \in Screens
    PROVE  /\ Painted \in Screens /\ Painted.size = remote.size
           /\ \A at \in DOMAIN remote.cells \ DOMAIN engine.overlay :
                 Painted.cells[at] = remote.cells[at]
           /\ engine.cursors = <<>> => Painted.cursor = remote.cursor
<1>1. PICK size \in Sizes : remote \in ScreensOf(size)
  BY DEF Screens
<1>2. /\ remote.size = size /\ remote.cells \in [Positions(size) -> Printable]
      /\ remote.cursor \in Positions(size)
  BY <1>1 DEF ScreensOf
<1>3. engine.overlay \in Overlays
  BY EngineFields
<1>4. ASSUME NEW at \in Shown(engine) PROVE engine.overlay[at].replacement \in Printable
  <2>1. /\ engine.overlay[at].replacement \in Character
        /\ engine.overlay[at].replacement # Unknown
    BY <1>3, OverlayFacts DEF Shown
  <2> QED
    BY <2>1, Zenon DEF Character
<1> DEFINE cells == [at \in DOMAIN remote.cells |->
                       IF at \in Shown(engine) /\ at[2] + 1 < remote.size[2]
                       THEN engine.overlay[at].replacement ELSE remote.cells[at]]
           c == IF engine.cursors = <<>> THEN [epoch |-> 0, at |-> remote.cursor]
                                         ELSE Last(engine.cursors)
           cursor == IF /\ c.epoch <= engine.confirmed_epoch
                        /\ c.at \in Positions(remote.size)
                     THEN c.at ELSE remote.cursor
<1>5. Painted = [size |-> remote.size, cells |-> cells, cursor |-> cursor]
  BY Zenon DEF Painted
<1>6. cells \in [Positions(size) -> Printable]
  BY <1>2, <1>4
<1>7. \A at \in DOMAIN remote.cells \ DOMAIN engine.overlay : cells[at] = remote.cells[at]
  BY DEF Shown
<1>8. cursor \in Positions(size)
  BY <1>2
<1>9. engine.cursors = <<>> => cursor = remote.cursor
  <2> SUFFICES ASSUME engine.cursors = <<>> PROVE c.at = remote.cursor
    OBVIOUS
  <2> QED
    OBVIOUS
<1> HIDE DEF cells, cursor, c
<1>10. Painted \in ScreensOf(size)
  BY <1>2, <1>5, <1>6, <1>8 DEF ScreensOf
<1> QED
  BY <1>2, <1>5, <1>7, <1>9, <1>10 DEF Screens

\* Predicted is a recursion over the bytes: it exists, and unfolds.
IsPredicted(f, bytes, n) ==
    f = [i \in 0 .. n |-> IF i = 0 THEN engine ELSE UserByte(f[i - 1], bytes[i], Blind(bytes, i))]

\* The recursion of Predicted is well defined,
LEMMA PredictedExists ==
    ASSUME NEW bytes
    PROVE  \A n \in Nat : \E f : IsPredicted(f, bytes, n)
<1> DEFINE P == {n \in Nat : \E f : IsPredicted(f, bytes, n)}
<1>1. 0 \in P
  <2> DEFINE f == [i \in 0 .. 0 |-> engine]
  <2>1. f = [i \in 0 .. 0 |-> IF i = 0 THEN engine ELSE UserByte(f[i - 1], bytes[i], Blind(bytes, i))]
    OBVIOUS
  <2> QED
    BY <2>1, Zenon DEF IsPredicted
<1>2. ASSUME NEW n \in P PROVE n + 1 \in P
  <2>1. PICK f : IsPredicted(f, bytes, n)
    OBVIOUS
  <2>2. /\ DOMAIN f = 0 .. n
        /\ \A i \in 0 .. n : f[i] = IF i = 0 THEN engine ELSE UserByte(f[i - 1], bytes[i], Blind(bytes, i))
    BY <2>1, Zenon DEF IsPredicted
  <2> DEFINE g == [i \in 0 .. n + 1 |-> IF i = n + 1 THEN UserByte(f[n], bytes[n + 1], Blind(bytes, n + 1)) ELSE f[i]]
  <2>3. ASSUME NEW i \in 0 .. n + 1
        PROVE  g[i] = IF i = 0 THEN engine ELSE UserByte(g[i - 1], bytes[i], Blind(bytes, i))
    <3>1. CASE i = n + 1
      BY <3>1
    <3>2. CASE i # n + 1
      <4>1. i \in 0 .. n /\ i # n + 1
        BY <3>2
      <4>2. g[i] = f[i]
        BY <4>1
      <4>3. i # 0 => g[i - 1] = f[i - 1]
        BY <4>1
      <4> HIDE DEF g
      <4> QED
        BY <2>2, <4>1, <4>2, <4>3
    <3> QED
      BY <3>1, <3>2
  <2>4. g = [i \in 0 .. n + 1 |-> IF i = 0 THEN engine ELSE UserByte(g[i - 1], bytes[i], Blind(bytes, i))]
    BY <2>3, Zenon
  <2> HIDE DEF g
  <2>5. IsPredicted(g, bytes, n + 1)
    BY <2>4, Zenon DEF IsPredicted
  <2> QED
    BY <2>5
<1> HIDE DEF P
<1>3. P = Nat
  BY <1>1, <1>2, SetInduction DEF P
<1> QED
  BY <1>3 DEF P

\* determines its values,
LEMMA PredictedIs ==
    ASSUME NEW bytes, NEW n \in Nat, NEW f, IsPredicted(f, bytes, n)
    PROVE  \A m \in Nat : m <= n => Predicted(bytes, m) = f[m]
<1>1. /\ DOMAIN f = 0 .. n
      /\ \A i \in 0 .. n : f[i] = IF i = 0 THEN engine ELSE UserByte(f[i - 1], bytes[i], Blind(bytes, i))
  BY Zenon DEF IsPredicted
<1> SUFFICES ASSUME NEW m \in Nat, m <= n PROVE Predicted(bytes, m) = f[m]
  OBVIOUS
<1> DEFINE h == CHOOSE g : IsPredicted(g, bytes, m)
<1>2. IsPredicted(h, bytes, m)
  BY PredictedExists, Zenon
<1>3. Predicted(bytes, m) = h[m]
  BY Zenon DEF Predicted, IsPredicted
<1>4. \A i \in 0 .. m : h[i] = IF i = 0 THEN engine ELSE UserByte(h[i - 1], bytes[i], Blind(bytes, i))
  BY <1>2, Zenon DEF IsPredicted
<1> HIDE DEF h
<1> DEFINE Q == {k \in Nat : k <= m => h[k] = f[k]}
<1>5. 0 \in Q
  BY <1>1, <1>4
<1>6. ASSUME NEW k \in Q PROVE k + 1 \in Q
  <2> SUFFICES ASSUME k + 1 <= m PROVE h[k + 1] = f[k + 1]
    OBVIOUS
  <2> DEFINE i == k + 1
  <2>1. i \in 0 .. m /\ i \in 0 .. n /\ i # 0 /\ i - 1 = k /\ h[k] = f[k]
    OBVIOUS
  <2> HIDE DEF i
  <2>2. h[i] = UserByte(h[i - 1], bytes[i], Blind(bytes, i)) /\ f[i] = UserByte(f[i - 1], bytes[i], Blind(bytes, i))
    BY <1>1, <1>4, <2>1
  <2> QED
    BY <2>1, <2>2 DEF i
<1> HIDE DEF Q
<1>7. Q = Nat
  BY <1>5, <1>6, SetInduction DEF Q
<1> QED
  BY <1>3, <1>7 DEF Q

\* and can be unfolded byte by byte.
LEMMA PredictedUnfolds ==
    ASSUME NEW bytes
    PROVE  /\ Predicted(bytes, 0) = engine
           /\ \A n \in Nat : Predicted(bytes, n + 1) = UserByte(Predicted(bytes, n), bytes[n + 1], Blind(bytes, n + 1))
<1>1. Predicted(bytes, 0) = engine
  <2>1. PICK f : IsPredicted(f, bytes, 0)
    BY PredictedExists
  <2>2. \A i \in 0 .. 0 : f[i] = IF i = 0 THEN engine ELSE UserByte(f[i - 1], bytes[i], Blind(bytes, i))
    BY <2>1, Zenon DEF IsPredicted
  <2>3. f[0] = engine
    BY <2>2
  <2> QED
    BY <2>1, <2>3, PredictedIs
<1>2. ASSUME NEW n \in Nat
      PROVE  Predicted(bytes, n + 1) = UserByte(Predicted(bytes, n), bytes[n + 1], Blind(bytes, n + 1))
  <2>1. PICK f : IsPredicted(f, bytes, n + 1)
    BY PredictedExists
  <2>2. Predicted(bytes, n + 1) = f[n + 1] /\ Predicted(bytes, n) = f[n]
    BY <2>1, PredictedIs
  <2>3. \A i \in 0 .. n + 1 : f[i] = IF i = 0 THEN engine ELSE UserByte(f[i - 1], bytes[i], Blind(bytes, i))
    BY <2>1, Zenon DEF IsPredicted
  <2>4. n + 1 \in 0 .. n + 1 /\ n + 1 # 0 /\ (n + 1) - 1 = n
    OBVIOUS
  <2>5. f[n + 1] = UserByte(f[n], bytes[n + 1], Blind(bytes, n + 1))
    BY <2>3, <2>4
  <2> QED
    BY <2>2, <2>5
<1> QED
  BY <1>1, <1>2

\* The position of a byte, and the engine that is told whether it will be echoed.
ByteAt(e) == IF e.cursors = <<>> THEN Painted.cursor ELSE Last(e.cursors).at

Told(e, blind) == [e EXCEPT !.blind = blind]

\* Whether the application echoes is history: nothing of the engine depends on it.
LEMMA ToldSound ==
    ASSUME NEW last \in Nat, NEW e, Sound(e, last), NEW blind \in BOOLEAN
    PROVE  LET f == Told(e, blind)
           IN  /\ Sound(f, last) /\ f.blind = blind
               /\ f.confirmed_epoch = e.confirmed_epoch /\ f.late_acked = e.late_acked
               /\ f.fooled = e.fooled /\ f.overlay = e.overlay /\ f.cursors = e.cursors
               /\ f.input_state = e.input_state /\ f.panicked = e.panicked
               /\ f.last_size = e.last_size
               /\ Hidden(e, blind) => Hidden(f, blind)
<1> DEFINE f == Told(e, blind)
<1>1. e \in Engines
  BY DEF Sound
<1>2. /\ f \in Engines /\ f.blind = blind
      /\ f.confirmed_epoch = e.confirmed_epoch /\ f.late_acked = e.late_acked
      /\ f.fooled = e.fooled /\ f.overlay = e.overlay /\ f.cursors = e.cursors
      /\ f.input_state = e.input_state /\ f.panicked = e.panicked
      /\ f.last_size = e.last_size /\ f.prediction_epoch = e.prediction_epoch
  BY <1>1 DEF Told, Engines
<1> HIDE DEF f
<1>3. SoundOverlay(f, last) /\ SoundCursors(f, last)
  BY <1>2 DEF Sound, SoundOverlay, SoundCursors
<1>4. Sound(f, last)
  BY <1>2, <1>3 DEF Sound
<1>5. Hidden(e, blind) => Hidden(f, blind)
  BY <1>2 DEF Hidden
<1> QED
  BY <1>2, <1>4, <1>5 DEF f

\* A byte is predicted at a position.
LEMMA ByteAtType ==
    ASSUME NEW last, NEW e, Sound(e, last), Painted \in Screens
    PROVE  ByteAt(e) \in Nat \X Nat
<1>1. PICK size \in Sizes : Painted.cursor \in Positions(size)
  BY DEF Screens, ScreensOf
<1>2. Painted.cursor \in Nat \X Nat
  BY <1>1, PositionFacts
<1>3. e.cursors \in Seq(Cursors)
  BY EngineFields DEF Sound
<1>4. CASE e.cursors # <<>>
  <2>1. Len(e.cursors) \in DOMAIN e.cursors
    BY <1>3, <1>4
  <2> QED
    BY <1>3, <1>4, <2>1, CursorFields DEF ByteAt, Last
<1> QED
  BY <1>2, <1>4 DEF ByteAt

\* The engine has decoded what the application has, and nothing that is not
\* echoed is confirmed.
Together(e, s) ==
    /\ ~e.panicked => e.input_state = s.input /\ Hidden(e, ~s.echo)
    /\ e.panicked => \E b \in BOOLEAN : Hidden(e, b)

\* A byte keeps the engine sound.
LEMMA UserByteSound ==
    ASSUME sent \in Nat, NEW e, Sound(e, sent), Painted \in Screens, NEW ch,
           NEW blind \in BOOLEAN
    PROVE  LET f == UserByte(e, ch, blind)
           IN  /\ Sound(f, sent) /\ f.late_acked = e.late_acked
               /\ ~e.panicked =>
                     f = NewUserByte(Told(e, blind), ch, ByteAt(e), Painted, sent)
<1> DEFINE g == Told(e, blind)
           f == NewUserByte(g, ch, ByteAt(e), Painted, sent)
<1>1. CASE e.panicked
  <2>1. UserByte(e, ch, blind) = e
    BY <1>1 DEF UserByte
  <2> QED
    BY <1>1, <2>1
<1>2. CASE ~e.panicked
  <2>1. UserByte(e, ch, blind) = f
    BY <1>2 DEF UserByte, ByteAt, Told
  <2>2. Sound(g, sent) /\ g.late_acked = e.late_acked
    BY ToldSound
  <2> HIDE DEF g
  <2>3. Sound(f, sent) /\ Bytewise(g, f)
    BY <2>2, ByteAtType, NewUserByteSound
  <2> QED
    BY <2>1, <2>2, <2>3 DEF Bytewise, g
<1> QED
  BY <1>1, <1>2

\* A byte is decoded alike by engine and application.
LEMMA UserByteTogether ==
    ASSUME sent \in Nat, NEW e, Sound(e, sent), Painted \in Screens, NEW ch,
           NEW s \in Apps, Together(e, s)
    PROVE  Together(UserByte(e, ch, ~s.echo), AppByte(s, ch))
<1> DEFINE blind == ~s.echo
           g == Told(e, blind)
           f == UserByte(e, ch, blind)
           t == AppByte(s, ch)
           d == Decode(s.input, ch)
<1>0. blind \in BOOLEAN /\ s.echo \in BOOLEAN /\ t.echo \in BOOLEAN
  <2>1. t \in Apps
    <3>1. Kept(s, t) /\ s.size \in Sizes
      BY AppByteType, AppFields
    <3> HIDE DEF t
    <3> QED
      BY <3>1 DEF Kept, Apps
  <2> QED
    BY <2>1, AppFields
<1>1. CASE e.panicked
  <2>1. f = e
    BY <1>1 DEF UserByte
  <2> QED
    BY <1>1, <2>1 DEF Together
<1>2. CASE ~e.panicked
  <2>1. e.input_state = s.input /\ Hidden(e, blind)
    BY <1>2 DEF Together
  <2>2. /\ t.input = d[1]
        /\ d[2] # "unknown" => t.echo = s.echo
    BY AppByteType
  <2>3. Sound(g, sent) /\ g.blind = blind /\ g.input_state = s.input /\ Hidden(g, blind)
    BY <1>0, <2>1, ToldSound
  <2>4. f = NewUserByte(g, ch, ByteAt(e), Painted, sent)
    BY <1>0, <1>2, UserByteSound
  <2>5. ByteAt(e) \in Nat \X Nat
    BY ByteAtType
  <2> HIDE DEF g, f, blind, t, d
  <2>6. /\ f.input_state = d[1] /\ Bytewise(g, f)
        /\ Hidden(g, g.blind) => Hidden(f, f.blind)
        /\ d[2] = "unknown" /\ Hidden(g, g.blind) => \A b \in BOOLEAN : Hidden(f, b)
    BY <2>3, <2>4, <2>5, NewUserByteSound DEF d
  <2>7. Hidden(f, blind)
    BY <2>3, <2>6 DEF Bytewise
  <2>8. Hidden(f, ~t.echo)
    <3>1. CASE d[2] = "unknown"
      <4>1. \A b \in BOOLEAN : Hidden(f, b)
        BY <2>3, <2>6, <3>1
      <4> QED
        BY <1>0, <4>1
    <3>2. CASE d[2] # "unknown"
      <4>1. t.echo = s.echo
        BY <2>2, <3>2
      <4> QED
        BY <2>7, <4>1 DEF blind
    <3> QED
      BY <3>1, <3>2
  <2>9. f.input_state = t.input
    BY <2>2, <2>6
  <2>10. Together(f, t)
    BY <1>0, <2>7, <2>8, <2>9, Zenon DEF Together
  <2> QED
    BY <2>10 DEF f, t, blind
<1> QED
  BY <1>1, <1>2

\* The same of a whole chunk.
LEMMA PredictedSound ==
    ASSUME sent \in Nat, Sound(engine, sent), Painted \in Screens, Intended \in Apps,
           NEW bytes
    PROVE  \A n \in Nat :
              LET f == Predicted(bytes, n)
              IN  /\ Sound(f, sent) /\ f.late_acked = engine.late_acked
                  /\ Together(engine, Intended) => Together(f, Edited(Intended, bytes, n))
<1> DEFINE s(n) == Edited(Intended, bytes, n)
           f(n) == Predicted(bytes, n)
           G(n) == /\ Sound(f(n), sent) /\ f(n).late_acked = engine.late_acked
                   /\ Together(engine, Intended) => Together(f(n), s(n))
           P == {n \in Nat : G(n)}
<1>1. s(0) = Intended /\ \A n \in Nat : s(n) \in Apps /\ s(n + 1) = AppByte(s(n), bytes[n + 1])
  BY EditedUnfolds, EditedType
<1>2. /\ f(0) = engine
      /\ \A n \in Nat : f(n + 1) = UserByte(f(n), bytes[n + 1], Blind(bytes, n + 1))
  BY PredictedUnfolds
<1>3. \A n \in Nat : Blind(bytes, n + 1) = ~s(n).echo
  <2> SUFFICES ASSUME NEW n \in Nat PROVE Blind(bytes, n + 1) = ~s(n).echo
    OBVIOUS
  <2>1. (n + 1) - 1 = n
    OBVIOUS
  <2> QED
    BY <2>1 DEF Blind
<1> HIDE DEF f, s
<1>4. 0 \in P
  BY <1>1, <1>2
<1>5. ASSUME NEW n \in P PROVE n + 1 \in P
  <2> DEFINE e == f(n)
             t == s(n)
             ch == bytes[n + 1]
             blind == Blind(bytes, n + 1)
             g == UserByte(e, ch, blind)
  <2>0. n \in Nat /\ t \in Apps /\ t.echo \in BOOLEAN
    BY <1>1, AppFields
  <2>1. /\ Sound(e, sent) /\ e.late_acked = engine.late_acked
        /\ Together(engine, Intended) => Together(e, t)
    BY <1>5 DEF P
  <2>2. f(n + 1) = g /\ s(n + 1) = AppByte(t, ch) /\ blind = ~t.echo
    BY <1>1, <1>2, <1>3, <2>0
  <2>3. blind \in BOOLEAN
    BY DEF Blind
  <2> HIDE DEF e, t, ch, blind
  <2>4. Sound(g, sent) /\ g.late_acked = e.late_acked
    BY <2>1, <2>3, UserByteSound
  <2>5. Together(e, t) => Together(UserByte(e, ch, ~t.echo), AppByte(t, ch))
    BY <2>0, <2>1, UserByteTogether
  <2>6. Together(e, t) => Together(g, AppByte(t, ch))
    BY <2>2, <2>5, Zenon
  <2> HIDE DEF g
  <2>7. Together(engine, Intended) => Together(g, AppByte(t, ch))
    BY <2>1, <2>6
  <2>8. G(n + 1)
    BY <2>1, <2>2, <2>4, <2>7
  <2> QED
    BY <2>0, <2>8
<1> HIDE DEF P
<1>6. P = Nat
  BY <1>4, <1>5, SetInduction DEF P
<1> QED
  BY <1>6 DEF P, f, s

-----------------------------------------------------------------------------
(* Validation *)

\* Awaited is a recursion over the cursors: it exists, and unfolds.
IsAwaited(f, e, screen, n) ==
    f = [i \in 0 .. n |-> IF i = 0 THEN <<>> ELSE AndIfAwaited(e, screen, f[i - 1], e.cursors[i])]

\* The recursion of Awaited is well defined,
LEMMA AwaitedExists ==
    ASSUME NEW e, NEW screen
    PROVE  \A n \in Nat : \E f : IsAwaited(f, e, screen, n)
<1> DEFINE P == {n \in Nat : \E f : IsAwaited(f, e, screen, n)}
<1>1. 0 \in P
  <2> DEFINE f == [i \in 0 .. 0 |-> <<>>]
  <2>1. f = [i \in 0 .. 0 |-> IF i = 0 THEN <<>> ELSE AndIfAwaited(e, screen, f[i - 1], e.cursors[i])]
    OBVIOUS
  <2> QED
    BY <2>1, Zenon DEF IsAwaited
<1>2. ASSUME NEW n \in P PROVE n + 1 \in P
  <2>1. PICK f : IsAwaited(f, e, screen, n)
    OBVIOUS
  <2>2. /\ DOMAIN f = 0 .. n
        /\ \A i \in 0 .. n : f[i] = IF i = 0 THEN <<>> ELSE AndIfAwaited(e, screen, f[i - 1], e.cursors[i])
    BY <2>1, Zenon DEF IsAwaited
  <2> DEFINE g == [i \in 0 .. n + 1 |-> IF i = n + 1 THEN AndIfAwaited(e, screen, f[n], e.cursors[n + 1]) ELSE f[i]]
  <2>3. ASSUME NEW i \in 0 .. n + 1
        PROVE  g[i] = IF i = 0 THEN <<>> ELSE AndIfAwaited(e, screen, g[i - 1], e.cursors[i])
    <3>1. CASE i = n + 1
      BY <3>1
    <3>2. CASE i # n + 1
      <4>1. i \in 0 .. n /\ i # n + 1
        BY <3>2
      <4>2. g[i] = f[i]
        BY <4>1
      <4>3. i # 0 => g[i - 1] = f[i - 1]
        BY <4>1
      <4> HIDE DEF g
      <4> QED
        BY <2>2, <4>1, <4>2, <4>3
    <3> QED
      BY <3>1, <3>2
  <2>4. g = [i \in 0 .. n + 1 |-> IF i = 0 THEN <<>> ELSE AndIfAwaited(e, screen, g[i - 1], e.cursors[i])]
    BY <2>3, Zenon
  <2> HIDE DEF g
  <2>5. IsAwaited(g, e, screen, n + 1)
    BY <2>4, Zenon DEF IsAwaited
  <2> QED
    BY <2>5
<1> HIDE DEF P
<1>3. P = Nat
  BY <1>1, <1>2, SetInduction DEF P
<1> QED
  BY <1>3 DEF P

\* determines its values,
LEMMA AwaitedIs ==
    ASSUME NEW e, NEW screen, NEW n \in Nat, NEW f, IsAwaited(f, e, screen, n)
    PROVE  \A m \in Nat : m <= n => Awaited(e, screen, m) = f[m]
<1>1. /\ DOMAIN f = 0 .. n
      /\ \A i \in 0 .. n : f[i] = IF i = 0 THEN <<>> ELSE AndIfAwaited(e, screen, f[i - 1], e.cursors[i])
  BY Zenon DEF IsAwaited
<1> SUFFICES ASSUME NEW m \in Nat, m <= n PROVE Awaited(e, screen, m) = f[m]
  OBVIOUS
<1> DEFINE h == CHOOSE g : IsAwaited(g, e, screen, m)
<1>2. IsAwaited(h, e, screen, m)
  BY AwaitedExists, Zenon
<1>3. Awaited(e, screen, m) = h[m]
  BY Zenon DEF Awaited, IsAwaited
<1>4. \A i \in 0 .. m : h[i] = IF i = 0 THEN <<>> ELSE AndIfAwaited(e, screen, h[i - 1], e.cursors[i])
  BY <1>2, Zenon DEF IsAwaited
<1> HIDE DEF h
<1> DEFINE Q == {k \in Nat : k <= m => h[k] = f[k]}
<1>5. 0 \in Q
  BY <1>1, <1>4
<1>6. ASSUME NEW k \in Q PROVE k + 1 \in Q
  <2> SUFFICES ASSUME k + 1 <= m PROVE h[k + 1] = f[k + 1]
    OBVIOUS
  <2> DEFINE i == k + 1
  <2>1. i \in 0 .. m /\ i \in 0 .. n /\ i # 0 /\ i - 1 = k /\ h[k] = f[k]
    OBVIOUS
  <2> HIDE DEF i
  <2>2. h[i] = AndIfAwaited(e, screen, h[i - 1], e.cursors[i]) /\ f[i] = AndIfAwaited(e, screen, f[i - 1], e.cursors[i])
    BY <1>1, <1>4, <2>1
  <2> QED
    BY <2>1, <2>2 DEF i
<1> HIDE DEF Q
<1>7. Q = Nat
  BY <1>5, <1>6, SetInduction DEF Q
<1> QED
  BY <1>3, <1>7 DEF Q

\* and can be unfolded cursor by cursor.
LEMMA AwaitedUnfolds ==
    ASSUME NEW e, NEW screen
    PROVE  /\ Awaited(e, screen, 0) = <<>>
           /\ \A n \in Nat : Awaited(e, screen, n + 1) = AndIfAwaited(e, screen, Awaited(e, screen, n), e.cursors[n + 1])
<1>1. Awaited(e, screen, 0) = <<>>
  <2>1. PICK f : IsAwaited(f, e, screen, 0)
    BY AwaitedExists
  <2>2. \A i \in 0 .. 0 : f[i] = IF i = 0 THEN <<>> ELSE AndIfAwaited(e, screen, f[i - 1], e.cursors[i])
    BY <2>1, Zenon DEF IsAwaited
  <2>3. f[0] = <<>>
    BY <2>2
  <2> QED
    BY <2>1, <2>3, AwaitedIs
<1>2. ASSUME NEW n \in Nat
      PROVE  Awaited(e, screen, n + 1) = AndIfAwaited(e, screen, Awaited(e, screen, n), e.cursors[n + 1])
  <2>1. PICK f : IsAwaited(f, e, screen, n + 1)
    BY AwaitedExists
  <2>2. Awaited(e, screen, n + 1) = f[n + 1] /\ Awaited(e, screen, n) = f[n]
    BY <2>1, AwaitedIs
  <2>3. \A i \in 0 .. n + 1 : f[i] = IF i = 0 THEN <<>> ELSE AndIfAwaited(e, screen, f[i - 1], e.cursors[i])
    BY <2>1, Zenon DEF IsAwaited
  <2>4. n + 1 \in 0 .. n + 1 /\ n + 1 # 0 /\ (n + 1) - 1 = n
    OBVIOUS
  <2>5. f[n + 1] = AndIfAwaited(e, screen, f[n], e.cursors[n + 1])
    BY <2>3, <2>4
  <2> QED
    BY <2>2, <2>5
<1> QED
  BY <1>1, <1>2

\* The engine that hears of an echo ack.
Heard(e, ack) == [e EXCEPT !.late_acked = ack]

\* The engine that has heard of an echo ack.
LEMMA HeardIs ==
    ASSUME NEW last \in Nat, NEW e, Sound(e, last), NEW ack \in Nat
    PROVE  LET h == Heard(e, ack)
           IN  /\ h \in Engines /\ h.late_acked = ack
               /\ h.overlay = e.overlay /\ h.cursors = e.cursors
               /\ h.prediction_epoch = e.prediction_epoch
               /\ h.confirmed_epoch = e.confirmed_epoch /\ h.last_size = e.last_size
               /\ h.input_state = e.input_state /\ h.panicked = e.panicked
               /\ h.blind = e.blind /\ h.fooled = e.fooled
               /\ \A b \in BOOLEAN : Hidden(e, b) => Hidden(h, b)
<1>1. e \in Engines
  BY DEF Sound
<1> DEFINE h == Heard(e, ack)
<1>2. /\ h \in Engines /\ h.late_acked = ack
      /\ h.overlay = e.overlay /\ h.cursors = e.cursors
      /\ h.prediction_epoch = e.prediction_epoch
      /\ h.confirmed_epoch = e.confirmed_epoch /\ h.last_size = e.last_size
      /\ h.input_state = e.input_state /\ h.panicked = e.panicked
      /\ h.blind = e.blind /\ h.fooled = e.fooled
  BY <1>1 DEF Heard, Engines
<1> HIDE DEF h
<1>3. \A b \in BOOLEAN : Hidden(e, b) => Hidden(h, b)
  BY <1>2 DEF Hidden
<1> QED
  BY <1>2, <1>3 DEF h

\* A prediction is pending until its input is answered.
LEMMA PendingFacts ==
    ASSUME NEW h \in Engines, NEW screen
    PROVE  /\ \A at \in DOMAIN h.overlay :
                 Verdict(h, screen, at) = "Pending" => h.overlay[at].frame > h.late_acked
           /\ \A at \in DOMAIN h.overlay :
                 Verdict(h, screen, at) = "Correct" => h.overlay[at].frame <= h.late_acked
           /\ \A i \in DOMAIN h.cursors :
                 CursorValidity(h, h.cursors[i], screen.cursor) = "Pending" =>
                    h.cursors[i].frame > h.late_acked
<1>1. h.overlay \in Overlays /\ h.cursors \in Seq(Cursors) /\ h.late_acked \in Nat
  BY EngineFields
<1>2. \A at \in DOMAIN h.overlay : h.overlay[at].frame \in Nat
  BY <1>1, OverlayFacts
<1>3. \A i \in DOMAIN h.cursors : h.cursors[i].frame \in Nat
  BY <1>1, CursorFields
<1>4. ASSUME NEW at \in DOMAIN h.overlay
      PROVE  /\ Verdict(h, screen, at) = "Pending" => h.overlay[at].frame > h.late_acked
             /\ Verdict(h, screen, at) = "Correct" => h.overlay[at].frame <= h.late_acked
  BY <1>1, <1>2 DEF Verdict, CellValidity, Answered
<1>5. ASSUME NEW i \in DOMAIN h.cursors
      PROVE  CursorValidity(h, h.cursors[i], screen.cursor) = "Pending" =>
                h.cursors[i].frame > h.late_acked
  BY <1>1, <1>3 DEF CursorValidity, Answered
<1> QED
  BY <1>4, <1>5

\* The cursors kept are awaited ones, in their order, up to the last.
LEMMA AwaitedFacts ==
    ASSUME NEW h \in Engines, NEW screen,
           \A i, j \in DOMAIN h.cursors : i <= j => h.cursors[i].frame <= h.cursors[j].frame
    PROVE  LET c == Awaited(h, screen, Len(h.cursors))
           IN  /\ c \in Seq(Cursors)
               /\ \A i \in DOMAIN c : \E j \in DOMAIN h.cursors :
                     /\ c[i] = h.cursors[j]
                     /\ CursorValidity(h, h.cursors[j], screen.cursor) = "Pending"
               /\ \A i, j \in DOMAIN c : i <= j => c[i].frame <= c[j].frame
               /\ /\ h.cursors # <<>>
                  /\ CursorValidity(h, Last(h.cursors), screen.cursor) = "Pending"
                  => c # <<>> /\ Last(c) = Last(h.cursors)
<1> DEFINE old == h.cursors
           pending(x) == CursorValidity(h, x, screen.cursor) = "Pending"
           c(n) == Awaited(h, screen, n)
           G(n) == /\ c(n) \in Seq(Cursors)
                   /\ \A i \in 1 .. Len(c(n)) :
                         \E j \in 1 .. n : c(n)[i] = old[j] /\ pending(old[j])
                   /\ \A i, j \in 1 .. Len(c(n)) : i <= j => c(n)[i].frame <= c(n)[j].frame
                   /\ n > 0 /\ pending(old[n]) => c(n) # <<>> /\ c(n)[Len(c(n))] = old[n]
           P == {n \in Nat : n <= Len(old) => G(n)}
<1>1. /\ c(0) = <<>>
      /\ \A n \in Nat :
            c(n + 1) = IF pending(old[n + 1]) THEN Append(c(n), old[n + 1]) ELSE c(n)
  BY AwaitedUnfolds DEF AndIfAwaited
<1>2. old \in Seq(Cursors) /\ Len(old) \in Nat /\ DOMAIN old = 1 .. Len(old)
  BY EngineFields
<1>3. \A i \in 1 .. Len(old) : old[i] \in Cursors /\ old[i].frame \in Nat
  BY <1>2, CursorFields
<1>4. \A i, j \in 1 .. Len(old) : i <= j => old[i].frame <= old[j].frame
  BY <1>2
<1> HIDE DEF old, c, pending
<1>5. 0 \in P
  <2>1. <<>> \in Seq(Cursors) /\ 1 .. Len(<<>>) = {}
    OBVIOUS
  <2>2. c(0) \in Seq(Cursors) /\ 1 .. Len(c(0)) = {}
    BY <1>1, <2>1
  <2>3. G(0)
    BY <2>2
  <2> QED
    BY <2>3
<1>6. ASSUME NEW n \in P PROVE n + 1 \in P
  <2> SUFFICES ASSUME n + 1 <= Len(old) PROVE G(n + 1)
    OBVIOUS
  <2>1. n \in Nat /\ G(n) /\ n + 1 \in 1 .. Len(old)
    BY <1>2
  <2> DEFINE a == c(n)
             b == c(n + 1)
             new == old[n + 1]
             k == Len(a)
  <2>2. /\ a \in Seq(Cursors)
        /\ \A i \in 1 .. k : \E j \in 1 .. n : a[i] = old[j] /\ pending(old[j])
        /\ \A i, j \in 1 .. k : i <= j => a[i].frame <= a[j].frame
    BY <2>1
  <2>3. new \in Cursors /\ new.frame \in Nat
    BY <1>3, <2>1
  <2>4. CASE ~pending(new)
    <3>1. b = a
      BY <1>1, <2>1, <2>4
    <3> HIDE DEF a, b
    <3>2. \A i \in 1 .. Len(b) : \E j \in 1 .. n + 1 : b[i] = old[j] /\ pending(old[j])
      <4>1. \A j \in 1 .. n : j \in 1 .. n + 1
        BY <2>1
      <4> QED
        BY <2>2, <3>1, <4>1
    <3>3. \A i, j \in 1 .. Len(b) : i <= j => b[i].frame <= b[j].frame
      BY <2>2, <3>1
    <3> QED
      BY <2>2, <2>4, <3>1, <3>2, <3>3 DEF b
  <2>5. CASE pending(new)
    <3>1. b = Append(a, new)
      BY <1>1, <2>1, <2>5
    <3>2. k \in Nat
      BY <2>2
    <3> HIDE DEF a, b, new
    <3>3. /\ b \in Seq(Cursors) /\ Len(b) = k + 1 /\ b[k + 1] = new
          /\ \A i \in 1 .. k : b[i] = a[i]
      BY <2>2, <2>3, <3>1
    <3> HIDE DEF k
    <3>4. \A i \in 1 .. k : \E j \in 1 .. n : b[i] = old[j] /\ pending(old[j])
      BY <2>2, <3>3
    <3>5. \A i \in 1 .. k : b[i].frame <= new.frame
      <4> SUFFICES ASSUME NEW i \in 1 .. k PROVE b[i].frame <= new.frame
        OBVIOUS
      <4>1. PICK j \in 1 .. n : b[i] = old[j]
        BY <3>4
      <4>2. j \in 1 .. Len(old) /\ j <= n + 1
        BY <2>1, <1>2
      <4> QED
        BY <1>4, <2>1, <4>1, <4>2 DEF new
    <3>6. \A i \in 1 .. k + 1 : \E j \in 1 .. n + 1 : b[i] = old[j] /\ pending(old[j])
      <4> SUFFICES ASSUME NEW i \in 1 .. k + 1
                   PROVE  \E j \in 1 .. n + 1 : b[i] = old[j] /\ pending(old[j])
        OBVIOUS
      <4>1. CASE i = k + 1
        <5>1. n + 1 \in 1 .. n + 1 /\ b[i] = old[n + 1] /\ pending(old[n + 1])
          BY <2>1, <2>5, <3>3, <4>1 DEF new
        <5> QED
          BY <5>1
      <4>2. CASE i # k + 1
        <5>1. i \in 1 .. k
          BY <3>2, <4>2
        <5>2. PICK j \in 1 .. n : b[i] = old[j] /\ pending(old[j])
          BY <3>4, <5>1
        <5>3. j \in 1 .. n + 1
          BY <2>1
        <5> QED
          BY <5>2, <5>3
      <4> QED
        BY <4>1, <4>2
    <3>7. \A i, j \in 1 .. k + 1 : i <= j => b[i].frame <= b[j].frame
      <4> SUFFICES ASSUME NEW i \in 1 .. k + 1, NEW j \in 1 .. k + 1, i <= j
                   PROVE  b[i].frame <= b[j].frame
        OBVIOUS
      <4>1. CASE j = k + 1
        <5>1. CASE i = k + 1
          BY <2>3, <3>3, <4>1, <5>1
        <5>2. CASE i # k + 1
          <6>1. i \in 1 .. k
            BY <3>2, <5>2
          <6> QED
            BY <3>3, <3>5, <4>1, <6>1
        <5> QED
          BY <5>1, <5>2
      <4>2. CASE j # k + 1
        <5>1. i \in 1 .. k /\ j \in 1 .. k
          BY <3>2, <4>2
        <5> QED
          BY <2>2, <3>3, <5>1
      <4> QED
        BY <4>1, <4>2
    <3>8. b # <<>> /\ b[Len(b)] = old[n + 1]
      BY <3>2, <3>3 DEF new
    <3> QED
      BY <3>3, <3>6, <3>7, <3>8 DEF b
  <2> QED
    BY <2>4, <2>5
<1> HIDE DEF P
<1>7. P = Nat
  BY <1>5, <1>6, SetInduction DEF P
<1> DEFINE m == Len(old)
           d == c(m)
<1>8. G(m)
  BY <1>2, <1>7 DEF P
<1>9. d \in Seq(Cursors) /\ DOMAIN d = 1 .. Len(d)
  BY <1>8
<1>10. \A i \in DOMAIN d : \E j \in DOMAIN old : d[i] = old[j] /\ pending(old[j])
  BY <1>2, <1>8, <1>9
<1>11. old # <<>> /\ pending(Last(old)) => d # <<>> /\ Last(d) = Last(old)
  BY <1>2, <1>8 DEF Last
<1> QED
  BY <1>8, <1>9, <1>10, <1>11 DEF old, pending, c

\* What an answer keeps.
Survives(e, f, last, ack) ==
    /\ Sound(f, last) /\ f.late_acked = ack
    /\ f.input_state = e.input_state /\ f.panicked = e.panicked
    /\ \A b \in BOOLEAN : Hidden(e, b) => Hidden(f, b)

\* What is left after an answer is unanswered, in order; and an epoch of what is
\* not echoed is confirmed only by a coincidence.
LEMMA ValidatedSound ==
    ASSUME NEW last \in Nat, NEW e, Sound(e, last), NEW ack \in Nat, e.late_acked <= ack,
           ack <= last, NEW screen
    PROVE  LET h == Heard(e, ack)
               f == Validated(h, screen)
           IN  /\ Survives(e, f, last, ack) /\ f.last_size = e.last_size
               /\ f.overlay = [at \in Judged(h, screen, "Pending") |-> e.overlay[at]]
               /\ f.cursors = Awaited(h, screen, Len(e.cursors))
<1> DEFINE h == Heard(e, ack)
           f == Validated(h, screen)
           K == Judged(h, screen, "Correct")
           S == Judged(h, screen, "Pending")
           o == [at \in S |-> e.overlay[at]]
           c == Awaited(h, screen, Len(e.cursors))
           m == Max({e.confirmed_epoch} \cup {e.overlay[at].epoch : at \in K})
           fooled == e.fooled \/ \E at \in K : e.overlay[at].blind
<1>1. /\ e \in Engines /\ e.overlay \in Overlays /\ e.prediction_epoch \in Nat
      /\ e.confirmed_epoch \in Nat /\ e.confirmed_epoch <= e.prediction_epoch
      /\ e.late_acked \in Nat /\ e.fooled \in BOOLEAN /\ e.cursors \in Seq(Cursors)
  BY EngineFields DEF Sound
<1>2. /\ h \in Engines /\ h.late_acked = ack
      /\ h.overlay = e.overlay /\ h.cursors = e.cursors
      /\ h.prediction_epoch = e.prediction_epoch
      /\ h.confirmed_epoch = e.confirmed_epoch /\ h.last_size = e.last_size
      /\ h.input_state = e.input_state /\ h.panicked = e.panicked
      /\ h.blind = e.blind /\ h.fooled = e.fooled
  BY HeardIs
<1> HIDE DEF h
<1>3. /\ K \in SUBSET DOMAIN e.overlay /\ S \in SUBSET DOMAIN e.overlay
      /\ \A at \in S : e.overlay[at].frame > ack
      /\ \A at \in K : e.overlay[at].frame <= ack
  BY <1>2, PendingFacts DEF Judged
<1>4. \A at \in DOMAIN e.overlay :
         /\ e.overlay[at] \in Cells /\ e.overlay[at].epoch \in Nat
         /\ e.overlay[at].frame \in Nat /\ e.overlay[at].blind \in BOOLEAN
         /\ e.overlay[at].epoch <= e.prediction_epoch /\ e.overlay[at].frame <= last + 1
  BY <1>1, OverlayFacts DEF Sound, SoundOverlay
<1>5. f = [h EXCEPT !.confirmed_epoch = m, !.overlay = o, !.cursors = c, !.fooled = fooled]
  <2>1. Restrict(h.overlay, S) = o
    BY <1>2 DEF Restrict
  <2>2. Max({h.confirmed_epoch} \cup {h.overlay[at].epoch : at \in K}) = m
    BY <1>2
  <2>3. (h.fooled \/ \E at \in K : h.overlay[at].blind) = fooled
    BY <1>2
  <2>4. Awaited(h, screen, Len(h.cursors)) = c
    BY <1>2
  <2> HIDE DEF o, m, fooled, c, K, S
  <2>5. f = [h EXCEPT !.confirmed_epoch =
                         Max({h.confirmed_epoch} \cup {h.overlay[at].epoch : at \in K}),
                      !.overlay = Restrict(h.overlay, S),
                      !.cursors = Awaited(h, screen, Len(h.cursors)),
                      !.fooled = h.fooled \/ \E at \in K : h.overlay[at].blind]
    BY Zenon DEF Validated, K, S
  <2> QED
    BY <2>1, <2>2, <2>3, <2>4, <2>5, Zenon
<1> HIDE DEF K, S
<1>6. /\ m \in Nat /\ m <= e.prediction_epoch /\ m >= e.confirmed_epoch
      /\ m = e.confirmed_epoch \/ \E at \in K : m = e.overlay[at].epoch
  <2> DEFINE T == {e.confirmed_epoch} \cup {e.overlay[at].epoch : at \in K}
  <2>1. T \in SUBSET (0 .. e.prediction_epoch) /\ T # {} /\ e.confirmed_epoch \in T
    BY <1>1, <1>3, <1>4
  <2>2. \A t \in T : t = e.confirmed_epoch \/ \E at \in K : t = e.overlay[at].epoch
    OBVIOUS
  <2> HIDE DEF T
  <2> DEFINE x == Max(T)
  <2>3. x \in T /\ \A n \in T : x >= n
    BY <1>1, <2>1, MaxProperties
  <2> HIDE DEF x
  <2>4. x \in Nat /\ x <= e.prediction_epoch /\ x >= e.confirmed_epoch
    BY <1>1, <2>1, <2>3
  <2>5. x = e.confirmed_epoch \/ \E at \in K : x = e.overlay[at].epoch
    BY <2>2, <2>3, Zenon
  <2> QED
    BY <2>4, <2>5, Zenon DEF T, x
<1>7. o \in Overlays
  <2>1. S \in SUBSET (Nat \X Nat)
    BY <1>1, <1>3, OverlayFacts
  <2>2. o \in [S -> Cells]
    BY <1>3, <1>4
  <2> QED
    BY <2>1, <2>2 DEF Overlays
<1>8. DOMAIN o = S /\ \A at \in S : o[at] = e.overlay[at]
  OBVIOUS
<1>9. \A i, j \in DOMAIN e.cursors : i <= j => e.cursors[i].frame <= e.cursors[j].frame
  BY DEF Sound, SoundCursors
<1>10. /\ c \in Seq(Cursors)
       /\ \A i \in DOMAIN c : \E j \in DOMAIN e.cursors :
             /\ c[i] = e.cursors[j]
             /\ CursorValidity(h, e.cursors[j], screen.cursor) = "Pending"
       /\ \A i, j \in DOMAIN c : i <= j => c[i].frame <= c[j].frame
  <2>1. \A i, j \in DOMAIN h.cursors : i <= j => h.cursors[i].frame <= h.cursors[j].frame
    BY <1>2, <1>9
  <2>2. c = Awaited(h, screen, Len(h.cursors))
    BY <1>2
  <2> HIDE DEF c
  <2>3. /\ c \in Seq(Cursors)
        /\ \A i \in DOMAIN c : \E j \in DOMAIN h.cursors :
              /\ c[i] = h.cursors[j]
              /\ CursorValidity(h, h.cursors[j], screen.cursor) = "Pending"
        /\ \A i, j \in DOMAIN c : i <= j => c[i].frame <= c[j].frame
    BY <1>2, <2>1, <2>2, AwaitedFacts
  <2> QED
    BY <1>2, <2>3
<1>11. \A i \in DOMAIN c : c[i].frame > ack /\ c[i].frame <= last + 1
  <2> SUFFICES ASSUME NEW i \in DOMAIN c PROVE c[i].frame > ack /\ c[i].frame <= last + 1
    OBVIOUS
  <2>1. PICK j \in DOMAIN e.cursors :
           /\ c[i] = e.cursors[j]
           /\ CursorValidity(h, e.cursors[j], screen.cursor) = "Pending"
    BY <1>10
  <2>2. e.cursors[j].frame > ack
    BY <1>2, <2>1, PendingFacts
  <2>3. e.cursors[j].frame <= last + 1
    BY DEF Sound, SoundCursors
  <2> QED
    BY <2>1, <2>2, <2>3
<1>12. fooled \in BOOLEAN
  OBVIOUS
<1>13. (e.fooled => fooled) /\ (~fooled => ~e.fooled /\ \A at \in K : ~e.overlay[at].blind)
  OBVIOUS
<1> HIDE DEF o, c, m, fooled
<1>14. /\ f \in Engines /\ f.late_acked = ack /\ f.confirmed_epoch = m /\ f.overlay = o
       /\ f.cursors = c /\ f.fooled = fooled /\ f.prediction_epoch = e.prediction_epoch
       /\ f.last_size = e.last_size /\ f.input_state = e.input_state
       /\ f.panicked = e.panicked /\ f.blind = e.blind
  BY <1>2, <1>5, <1>6, <1>7, <1>10, <1>12 DEF Engines
<1> HIDE DEF f
<1>15. SoundOverlay(f, last)
  BY <1>3, <1>4, <1>8, <1>14 DEF Sound, SoundOverlay
<1>16. SoundCursors(f, last)
  BY <1>10, <1>11, <1>14 DEF SoundCursors
<1>17. Sound(f, last)
  BY <1>6, <1>14, <1>15, <1>16 DEF Sound
<1>18. ASSUME NEW b \in BOOLEAN, Hidden(e, b)
       PROVE  Hidden(f, b)
  <2>1. /\ \A x, y \in DOMAIN o : o[x].epoch = o[y].epoch => o[x].blind = o[y].blind
        /\ \A at \in DOMAIN o : o[at].epoch = e.prediction_epoch => o[at].blind = b
    BY <1>3, <1>8, <1>18 DEF Hidden
  <2>2. ASSUME ~fooled, NEW at \in DOMAIN o, o[at].blind
        PROVE  o[at].epoch > m
    <3>1. /\ at \in DOMAIN e.overlay /\ e.overlay[at].blind /\ o[at] = e.overlay[at]
          /\ e.overlay[at].epoch > e.confirmed_epoch /\ e.overlay[at].frame > ack
      BY <1>3, <1>8, <1>13, <1>18, <2>2 DEF Hidden
    <3>2. CASE m = e.confirmed_epoch
      BY <3>1, <3>2
    <3>3. CASE \E p \in K : m = e.overlay[p].epoch
      <4>1. PICK p \in K : m = e.overlay[p].epoch
        BY <3>3
      <4>2. /\ p \in DOMAIN e.overlay /\ ~e.overlay[p].blind /\ e.overlay[p].frame <= ack
            /\ e.overlay[p].frame \in Nat /\ e.overlay[p].epoch \in Nat
        BY <1>3, <1>4, <1>13, <2>2
      <4>3. e.overlay[at].epoch # e.overlay[p].epoch
        BY <1>18, <3>1, <4>2 DEF Hidden
      <4>4. ~(e.overlay[at].epoch < e.overlay[p].epoch)
        <5>1. e.overlay[at].epoch < e.overlay[p].epoch =>
                 e.overlay[at].frame <= e.overlay[p].frame
          BY <3>1, <4>2 DEF Sound, SoundOverlay
        <5>2. e.overlay[at].frame \in Nat
          BY <1>4, <3>1
        <5> QED
          BY <3>1, <4>2, <5>1, <5>2
      <4>5. e.overlay[at].epoch \in Nat
        BY <1>4, <3>1
      <4> QED
        BY <3>1, <4>1, <4>2, <4>3, <4>4, <4>5
    <3> QED
      BY <1>6, <3>2, <3>3
  <2>3. ASSUME ~fooled, b
        PROVE  e.prediction_epoch > m
    <3>1. e.prediction_epoch > e.confirmed_epoch
      BY <1>13, <1>18, <2>3 DEF Hidden
    <3>2. ASSUME NEW p \in K, m = e.overlay[p].epoch PROVE m # e.prediction_epoch
      <4>1. p \in DOMAIN e.overlay /\ ~e.overlay[p].blind
        BY <1>3, <1>13, <2>3
      <4>2. e.overlay[p].epoch = e.prediction_epoch => e.overlay[p].blind = b
        BY <1>18, <4>1 DEF Hidden
      <4> QED
        BY <2>3, <3>2, <4>1, <4>2
    <3> QED
      BY <1>1, <1>6, <3>1, <3>2
  <2> QED
    BY <1>14, <2>1, <2>2, <2>3 DEF Hidden
<1>19. Survives(e, f, last, ack)
  BY <1>14, <1>17, <1>18 DEF Survives
<1> QED
  BY <1>14, <1>19 DEF f, h, o, c, S

\* A validation leaves only predictions for input past the echo ack.
LEMMA ValidateSound ==
    ASSUME NEW last \in Nat, NEW e, Sound(e, last), NEW ack \in Nat, e.late_acked <= ack,
           ack <= last, NEW screen
    PROVE  Survives(e, ValidatePredictions(Heard(e, ack), screen), last, ack)
<1> DEFINE h == Heard(e, ack)
           v == Validated(h, screen)
           r == Reset(v)
<1>1. Survives(e, v, last, ack)
  BY ValidatedSound
<1>2. ValidatePredictions(h, screen) = IF Wrong(h, screen) THEN r ELSE v
  BY DEF ValidatePredictions
<1> HIDE DEF h, v
<1>3. /\ Sound(r, last) /\ Settled(v, r) /\ r.panicked = v.panicked
      /\ \A b, c \in BOOLEAN : Hidden(v, b) => Hidden(r, c)
  BY <1>1, ResetSound DEF Survives
<1> HIDE DEF r
<1>4. Survives(e, r, last, ack)
  BY <1>1, <1>3 DEF Settled, Survives
<1>5. CASE Wrong(h, screen)
  BY <1>2, <1>4, <1>5 DEF h
<1>6. CASE ~Wrong(h, screen)
  BY <1>1, <1>2, <1>6 DEF h
<1> QED
  BY <1>5, <1>6

\* The next state's number leaves more room.
LEMMA SoundLater ==
    ASSUME NEW last \in Nat, NEW e, Sound(e, last)
    PROVE  Sound(e, last + 1)
<1>1. e \in Engines /\ e.overlay \in Overlays /\ e.cursors \in Seq(Cursors) /\ e.late_acked \in Nat
  BY EngineFields DEF Sound
<1>2. /\ \A at \in DOMAIN e.overlay : e.overlay[at].frame \in Nat
      /\ \A i \in DOMAIN e.cursors : e.cursors[i].frame \in Nat
  BY <1>1, OverlayFacts, CursorFields
<1>3. SoundOverlay(e, last + 1)
  BY <1>2 DEF Sound, SoundOverlay
<1>4. SoundCursors(e, last + 1)
  BY <1>2 DEF Sound, SoundCursors
<1> QED
  BY <1>1, <1>3, <1>4 DEF Sound

-----------------------------------------------------------------------------
(* The invariant *)

\* The types, and the predictions of the input the server has not answered.
TypeInv ==
    /\ sent \in Nat /\ remote \in Screens /\ server \in Apps /\ queue \in Seq(Items)
    /\ taken \in SUBSET (0 .. sent) /\ echoAck \in taken
    /\ Sound(engine, sent) /\ engine.late_acked <= echoAck

\* The input the server has not taken is that of later states, in their order.
QueueInv ==
    /\ \A i \in 1 .. Len(queue) :
          queue[i].frame <= sent + 1 /\ \A t \in taken : t < queue[i].frame
    /\ \A i, j \in 1 .. Len(queue) : i <= j => queue[i].frame <= queue[j].frame

\* Engine and application stay together as long as nothing has been pasted.
HiddenInv == ~Intended.pasted => Together(engine, Intended)

\* The application that has taken all input has its type.
LEMMA IntendedType ==
    ASSUME TypeInv
    PROVE  Intended \in Apps /\ Len(queue) \in Nat
<1>1. server \in Apps /\ queue \in Seq(Items)
  BY DEF TypeInv
<1>2. Len(queue) \in 0 .. Len(queue) /\ Len(queue) \in Nat
  BY <1>1
<1> QED
  BY <1>1, <1>2, TakingType DEF Intended

\* Chunks and resizes are items of the queue.
LEMMA ItemType ==
    ASSUME sent \in Nat
    PROVE  /\ \A bytes \in Chunks : Item(bytes, <<>>) \in Items
           /\ \A size \in Sizes : Item(<<>>, size) \in Items
<1>1. \A bytes \in Chunks : bytes \in Seq(STRING) /\ bytes # <<>>
  BY PredictionAssumption
<1>2. <<>> \in Seq(STRING)
  OBVIOUS
<1>3. sent + 1 \in Nat
  OBVIOUS
<1>4. ASSUME NEW bytes \in Chunks PROVE Item(bytes, <<>>) \in Items
  <2>1. bytes \in Seq(STRING) /\ bytes # <<>>
    BY <1>1
  <2> QED
    BY <1>3, <2>1 DEF Item, Items
<1>5. ASSUME NEW size \in Sizes PROVE Item(<<>>, size) \in Items
  BY <1>2, <1>3 DEF Item, Items
<1> QED
  BY <1>4, <1>5

\* Input that the user adds is taken last.
LEMMA Added ==
    ASSUME TypeInv, NEW item \in Items, queue' = Append(queue, item), server' = server
    PROVE  /\ Intended' = AppTakes(Intended, item) /\ queue' \in Seq(Items)
           /\ Len(queue') = Len(queue) + 1 /\ queue'[Len(queue) + 1] = item
           /\ \A i \in 1 .. Len(queue) : queue'[i] = queue[i]
           /\ \A n \in 0 .. Len(queue) : Taking(server', queue', n) = Taking(server, queue, n)
<1>1. queue \in Seq(Items) /\ Len(queue) \in Nat
  BY DEF TypeInv
<1>2. /\ queue' \in Seq(Items) /\ Len(queue') = Len(queue) + 1
      /\ queue'[Len(queue) + 1] = item /\ \A i \in 1 .. Len(queue) : queue'[i] = queue[i]
  BY <1>1
<1>3. /\ \A n \in 0 .. Len(queue) : Taking(server, queue', n) = Taking(server, queue, n)
      /\ Taking(server, queue', Len(queue) + 1) = AppTakes(Taking(server, queue, Len(queue)), item)
  BY <1>1, TakingAppend
<1>4. Intended' = AppTakes(Intended, item)
  BY <1>2, <1>3 DEF Intended
<1> QED
  BY <1>2, <1>3, <1>4

\* Input that the server takes is taken first.
LEMMA Taken ==
    ASSUME TypeInv, QueueInv, NEW num \in 1 .. sent, ServerTakes(num)
    PROVE  /\ Intended' = Intended /\ server' \in Apps /\ queue' \in Seq(Items)
           /\ \E k \in 0 .. Len(queue) :
                 /\ Len(queue') = Len(queue) - k
                 /\ \A j \in 1 .. Len(queue') : queue'[j] = queue[k + j]
                 /\ \A n \in 0 .. Len(queue') :
                       Taking(server', queue', n) = Taking(server, queue, k + n)
                 /\ \A i \in DOMAIN queue : i <= k <=> queue[i].frame <= num
<1>1. queue \in Seq(Items) /\ Len(queue) \in Nat /\ server \in Apps
  BY DEF TypeInv
<1>2. PICK k \in 0 .. Len(queue) :
         /\ \A i \in DOMAIN queue : i <= k <=> queue[i].frame <= num
         /\ server' = Taking(server, queue, k)
         /\ queue' = SubSeq(queue, k + 1, Len(queue))
  BY DEF ServerTakes
<1>3. server' \in Apps
  BY <1>1, <1>2, TakingType
<1>4. /\ queue' \in Seq(Items) /\ Len(queue') = Len(queue) - k
      /\ \A j \in 1 .. Len(queue') : queue'[j] = queue[k + j]
      /\ \A n \in 0 .. Len(queue') : Taking(server', queue', n) = Taking(server, queue, k + n)
  BY <1>1, <1>2, TakingShift
<1>5. Intended' = Intended
  <2>1. Len(queue') \in 0 .. Len(queue') /\ k + Len(queue') = Len(queue)
    BY <1>1, <1>4
  <2> QED
    BY <1>4, <2>1 DEF Intended
<1> QED
  BY <1>2, <1>3, <1>4, <1>5

\* Typing keeps types, order and epochs,
LEMMA TypeChunkKeeps ==
    ASSUME TypeInv, QueueInv, HiddenInv, NEW bytes \in Chunks, TypeChunk(bytes)
    PROVE  TypeInv' /\ QueueInv' /\ HiddenInv'
<1> DEFINE item == Item(bytes, <<>>)
           n == Len(bytes)
<1>1. /\ sent \in Nat /\ remote \in Screens /\ server \in Apps /\ queue \in Seq(Items)
      /\ Sound(engine, sent) /\ engine \in Engines /\ Intended \in Apps
      /\ taken \in SUBSET (0 .. sent) /\ echoAck \in taken /\ engine.late_acked <= echoAck
  BY IntendedType DEF TypeInv, Sound
<1>2. /\ bytes \in Seq(STRING) /\ bytes # <<>> /\ n \in Nat
  BY PredictionAssumption
<1>3. /\ item \in Items /\ item.bytes = bytes /\ item.frame = sent + 1
      /\ IsPaste(item) <=> n > PASTE_THRESHOLD
  BY <1>1, ItemType DEF Item, IsPaste
<1>4. /\ engine' = IF n > PASTE_THRESHOLD THEN Reset(engine) ELSE Predicted(bytes, n)
      /\ queue' = Append(queue, item)
      /\ sent' = sent /\ remote' = remote /\ server' = server /\ taken' = taken
      /\ echoAck' = echoAck
  BY DEF TypeChunk
<1> HIDE DEF item, n
<1>5. /\ Intended' = AppTakes(Intended, item) /\ queue' \in Seq(Items)
      /\ Len(queue') = Len(queue) + 1 /\ queue'[Len(queue) + 1] = item
      /\ \A i \in 1 .. Len(queue) : queue'[i] = queue[i]
  BY <1>3, <1>4, Added
<1>6. Painted \in Screens
  BY <1>1, PaintedType
<1>7. /\ Sound(Predicted(bytes, n), sent) /\ Predicted(bytes, n).late_acked = engine.late_acked
      /\ Together(engine, Intended) => Together(Predicted(bytes, n), Edited(Intended, bytes, n))
  BY <1>1, <1>2, <1>6, PredictedSound
<1>8. Sound(Reset(engine), sent) /\ Reset(engine).late_acked = engine.late_acked
  BY <1>1, ResetSound DEF Settled
<1>9. TypeInv'
  BY <1>1, <1>4, <1>5, <1>7, <1>8 DEF TypeInv
<1>10. QueueInv'
  <2>1. Len(queue) \in Nat /\ taken \in SUBSET Nat /\ \A t \in taken : t < sent + 1
    BY <1>1
  <2>2. \A i \in 1 .. Len(queue) + 1 : i \in 1 .. Len(queue) \/ i = Len(queue) + 1
    BY <2>1
  <2>3. \A i \in 1 .. Len(queue) : queue[i].frame \in Nat
    BY <1>1 DEF Items
  <2>4. \A i \in 1 .. Len(queue) + 1 :
           queue'[i].frame <= sent + 1 /\ \A t \in taken : t < queue'[i].frame
    BY <1>1, <1>3, <1>5, <2>1, <2>2 DEF QueueInv
  <2>5. \A i, j \in 1 .. Len(queue) + 1 : i <= j => queue'[i].frame <= queue'[j].frame
    <3> SUFFICES ASSUME NEW i \in 1 .. Len(queue) + 1, NEW j \in 1 .. Len(queue) + 1, i <= j
                 PROVE  queue'[i].frame <= queue'[j].frame
      OBVIOUS
    <3>1. CASE j = Len(queue) + 1
      BY <1>3, <1>5, <2>4, <3>1
    <3>2. CASE j # Len(queue) + 1
      <4>1. i \in 1 .. Len(queue) /\ j \in 1 .. Len(queue)
        BY <2>1, <3>2
      <4> QED
        BY <1>5, <4>1 DEF QueueInv
    <3> QED
      BY <3>1, <3>2
  <2> QED
    BY <1>4, <1>5, <2>4, <2>5 DEF QueueInv
<1>11. HiddenInv'
  <2> SUFFICES ASSUME ~Intended'.pasted PROVE Together(engine', Intended')
    BY DEF HiddenInv
  <2>1. ~IsPaste(item)
    <3>1. IsPaste(item) => AppTakes(Intended, item).pasted
      BY <1>1, <1>2, <1>3, AppTakesType
    <3> QED
      BY <1>5, <3>1
  <2>2. /\ AppTakes(Intended, item) = Edited(Intended, bytes, n)
        /\ AppTakes(Intended, item).pasted = Intended.pasted
    BY <1>1, <1>2, <1>3, <2>1, AppTakesType DEF n
  <2>3. Together(engine, Intended)
    BY <1>5, <2>2 DEF HiddenInv
  <2>4. engine' = Predicted(bytes, n)
    BY <1>3, <1>4, <2>1
  <2> QED
    BY <1>5, <1>7, <2>2, <2>3, <2>4
<1> QED
  BY <1>9, <1>10, <1>11

\* a resize does,
LEMMA ResizeWindowKeeps ==
    ASSUME TypeInv, QueueInv, HiddenInv, NEW size \in Sizes, ResizeWindow(size)
    PROVE  TypeInv' /\ QueueInv' /\ HiddenInv'
<1> DEFINE item == Item(<<>>, size)
           f == Reset(engine)
<1>1. /\ sent \in Nat /\ remote \in Screens /\ server \in Apps /\ queue \in Seq(Items)
      /\ Sound(engine, sent) /\ engine \in Engines /\ Intended \in Apps
      /\ taken \in SUBSET (0 .. sent) /\ echoAck \in taken /\ engine.late_acked <= echoAck
  BY IntendedType DEF TypeInv, Sound
<1>2. item \in Items /\ item.bytes = <<>> /\ item.frame = sent + 1
  BY <1>1, ItemType DEF Item
<1>3. /\ engine' = f /\ queue' = Append(queue, item) /\ ~engine.panicked
      /\ sent' = sent /\ remote' = remote /\ server' = server /\ taken' = taken
      /\ echoAck' = echoAck
  BY DEF ResizeWindow
<1>4. /\ Sound(f, sent) /\ Settled(engine, f) /\ f.panicked = engine.panicked
      /\ \A b, c \in BOOLEAN : Hidden(engine, b) => Hidden(f, c)
  BY <1>1, ResetSound
<1> HIDE DEF item, f
<1>5. /\ Intended' = AppTakes(Intended, item) /\ queue' \in Seq(Items)
      /\ Len(queue') = Len(queue) + 1 /\ queue'[Len(queue) + 1] = item
      /\ \A i \in 1 .. Len(queue) : queue'[i] = queue[i]
  BY <1>2, <1>3, Added
<1>6. TypeInv'
  BY <1>1, <1>3, <1>4, <1>5 DEF TypeInv, Settled
<1>7. QueueInv'
  <2>1. Len(queue) \in Nat /\ taken \in SUBSET Nat /\ \A t \in taken : t < sent + 1
    BY <1>1
  <2>2. \A i \in 1 .. Len(queue) + 1 : i \in 1 .. Len(queue) \/ i = Len(queue) + 1
    BY <2>1
  <2>3. \A i \in 1 .. Len(queue) : queue[i].frame \in Nat
    BY <1>1 DEF Items
  <2>4. \A i \in 1 .. Len(queue) + 1 :
           queue'[i].frame <= sent + 1 /\ \A t \in taken : t < queue'[i].frame
    BY <1>1, <1>2, <1>5, <2>1, <2>2 DEF QueueInv
  <2>5. \A i, j \in 1 .. Len(queue) + 1 : i <= j => queue'[i].frame <= queue'[j].frame
    <3> SUFFICES ASSUME NEW i \in 1 .. Len(queue) + 1, NEW j \in 1 .. Len(queue) + 1, i <= j
                 PROVE  queue'[i].frame <= queue'[j].frame
      OBVIOUS
    <3>1. CASE j = Len(queue) + 1
      BY <1>2, <1>5, <2>4, <3>1
    <3>2. CASE j # Len(queue) + 1
      <4>1. i \in 1 .. Len(queue) /\ j \in 1 .. Len(queue)
        BY <2>1, <3>2
      <4> QED
        BY <1>5, <4>1 DEF QueueInv
    <3> QED
      BY <3>1, <3>2
  <2> QED
    BY <1>3, <1>5, <2>4, <2>5 DEF QueueInv
<1>8. HiddenInv'
  <2> SUFFICES ASSUME ~Intended'.pasted PROVE Together(engine', Intended')
    BY DEF HiddenInv
  <2> DEFINE t == AppTakes(Intended, item)
  <2>1. /\ t.pasted = Intended.pasted /\ t.input = Intended.input /\ t.echo = Intended.echo
    BY <1>1, <1>2, AppTakesType
  <2>2. Intended' = t
    BY <1>5
  <2> HIDE DEF t
  <2>3. Together(engine, Intended)
    BY <2>1, <2>2 DEF HiddenInv
  <2>4. engine.input_state = Intended.input /\ Hidden(engine, ~Intended.echo)
    BY <1>3, <2>3 DEF Together
  <2>5. Intended.echo \in BOOLEAN
    BY <1>1, AppFields
  <2>6. Hidden(f, ~Intended.echo)
    BY <1>4, <2>4
  <2>7. Hidden(f, ~t.echo)
    BY <2>1, <2>6
  <2>8. f.input_state = t.input /\ ~f.panicked
    BY <1>3, <1>4, <2>1, <2>4 DEF Settled
  <2> QED
    BY <1>3, <2>2, <2>7, <2>8 DEF Together
<1> QED
  BY <1>6, <1>7, <1>8

\* sending does,
LEMMA TickKeeps ==
    ASSUME TypeInv, QueueInv, HiddenInv, Tick
    PROVE  TypeInv' /\ QueueInv' /\ HiddenInv'
<1>1. /\ engine' = engine /\ queue' = queue /\ sent' = sent + 1 /\ remote' = remote
      /\ server' = server /\ taken' = taken /\ echoAck' = echoAck
  BY DEF Tick
<1>2. sent \in Nat /\ Sound(engine, sent + 1)
  BY SoundLater DEF TypeInv
<1>3. TypeInv'
  BY <1>1, <1>2 DEF TypeInv
<1>4. \A i \in 1 .. Len(queue) : queue[i].frame \in Nat
  BY DEF TypeInv, Items
<1>5. QueueInv'
  BY <1>1, <1>2, <1>4 DEF QueueInv
<1>6. HiddenInv'
  BY <1>1 DEF HiddenInv, Intended
<1> QED
  BY <1>3, <1>5, <1>6

\* receiving a frame does,
LEMMA ReceiveKeeps ==
    ASSUME TypeInv, QueueInv, HiddenInv, Receive
    PROVE  TypeInv' /\ QueueInv' /\ HiddenInv'
<1>1. /\ queue' = queue /\ sent' = sent /\ server' = server /\ taken' = taken
      /\ echoAck' = echoAck
      /\ remote' = [size |-> server.size, cells |-> server.cells, cursor |-> server.cursor]
      /\ engine' = ValidatePredictions(Heard(engine, echoAck), remote')
  BY DEF Receive, Heard
<1>2. /\ sent \in Nat /\ server \in Apps /\ queue \in Seq(Items) /\ Sound(engine, sent)
      /\ taken \in SUBSET (0 .. sent) /\ echoAck \in taken /\ engine.late_acked <= echoAck
  BY DEF TypeInv
<1>3. Survives(engine, engine', sent, echoAck)
  BY <1>1, <1>2, ValidateSound
<1>4. remote' \in Screens
  BY <1>1, <1>2, AppFields DEF Screens, ScreensOf
<1>5. TypeInv'
  BY <1>1, <1>2, <1>3, <1>4 DEF TypeInv, Survives
<1>6. QueueInv'
  BY <1>1 DEF QueueInv
<1>7. HiddenInv'
  <2>1. Intended' = Intended
    BY <1>1 DEF Intended
  <2>2. Intended.echo \in BOOLEAN
    BY IntendedType, AppFields
  <2>3. Together(engine, Intended) => Together(engine', Intended)
    BY <1>3, <2>2 DEF Together, Survives
  <2> QED
    BY <2>1, <2>3 DEF HiddenInv
<1> QED
  BY <1>5, <1>6, <1>7

\* and so do the server's steps: what it takes was on its way before.
LEMMA ServerKeeps ==
    ASSUME TypeInv, QueueInv, HiddenInv,
           \/ \E num \in 1 .. sent : ServerTakes(num)
           \/ \E num \in taken : SetEchoAck(num)
    PROVE  TypeInv' /\ QueueInv' /\ HiddenInv'
<1>1. /\ sent \in Nat /\ server \in Apps /\ queue \in Seq(Items) /\ Sound(engine, sent)
      /\ taken \in SUBSET (0 .. sent) /\ echoAck \in taken /\ engine.late_acked <= echoAck
      /\ remote \in Screens /\ engine.late_acked \in Nat
  BY EngineFields DEF TypeInv, Sound
<1>2. CASE \E num \in 1 .. sent : ServerTakes(num)
  <2>1. PICK num \in 1 .. sent : ServerTakes(num)
    BY <1>2
  <2>2. /\ Intended' = Intended /\ server' \in Apps /\ queue' \in Seq(Items)
    BY <2>1, Taken
  <2>3. PICK k \in 0 .. Len(queue) :
           /\ Len(queue') = Len(queue) - k
           /\ \A j \in 1 .. Len(queue') : queue'[j] = queue[k + j]
           /\ \A i \in DOMAIN queue : i <= k <=> queue[i].frame <= num
    BY <2>1, Taken
  <2>4. /\ taken' = taken \cup {num} /\ engine' = engine /\ remote' = remote /\ sent' = sent
        /\ echoAck' = echoAck
    BY <2>1 DEF ServerTakes
  <2>5. TypeInv'
    BY <1>1, <2>2, <2>4 DEF TypeInv
  <2>6. \A j \in 1 .. Len(queue') :
           /\ k + j \in 1 .. Len(queue) /\ queue'[j] = queue[k + j] /\ queue[k + j].frame > num
    <3> SUFFICES ASSUME NEW j \in 1 .. Len(queue')
                 PROVE  /\ k + j \in 1 .. Len(queue) /\ queue'[j] = queue[k + j]
                        /\ queue[k + j].frame > num
      OBVIOUS
    <3>1. Len(queue) \in Nat /\ DOMAIN queue = 1 .. Len(queue)
      BY <1>1
    <3>2. k + j \in 1 .. Len(queue) /\ ~(k + j <= k) /\ k + j \in DOMAIN queue
      BY <2>3, <3>1
    <3>3. queue[k + j] \in Items
      BY <1>1, <3>2
    <3>4. queue[k + j].frame \in Nat
      BY <3>3 DEF Items
    <3>5. ~(queue[k + j].frame <= num)
      BY <2>3, <3>2
    <3> QED
      BY <2>3, <3>2, <3>4, <3>5
  <2>7. QueueInv'
    <3>1. \A i \in 1 .. Len(queue') :
             queue'[i].frame <= sent + 1 /\ \A t \in taken \cup {num} : t < queue'[i].frame
      BY <2>6 DEF QueueInv
    <3>2. \A i, j \in 1 .. Len(queue') : i <= j => queue'[i].frame <= queue'[j].frame
      <4> SUFFICES ASSUME NEW i \in 1 .. Len(queue'), NEW j \in 1 .. Len(queue'), i <= j
                   PROVE  queue'[i].frame <= queue'[j].frame
        OBVIOUS
      <4>1. k + i \in 1 .. Len(queue) /\ k + j \in 1 .. Len(queue) /\ k + i <= k + j
        BY <2>6
      <4> QED
        BY <2>6, <4>1 DEF QueueInv
    <3> QED
      BY <2>4, <3>1, <3>2 DEF QueueInv
  <2>8. HiddenInv'
    BY <2>2, <2>4 DEF HiddenInv
  <2> QED
    BY <2>5, <2>7, <2>8
<1>3. CASE \E num \in taken : SetEchoAck(num)
  <2>1. PICK num \in taken : SetEchoAck(num)
    BY <1>3
  <2>2. /\ echoAck' = num /\ num > echoAck /\ taken' = {t \in taken : t >= num}
        /\ engine' = engine /\ remote' = remote /\ sent' = sent /\ queue' = queue
        /\ server' = server
    BY <2>1 DEF SetEchoAck
  <2>3. /\ engine.late_acked <= num /\ num \in taken'
        /\ taken' \in SUBSET (0 .. sent)
    <3>1. num \in 0 .. sent /\ echoAck \in 0 .. sent
      BY <1>1
    <3>2. engine.late_acked <= num /\ num >= num
      BY <1>1, <2>2, <3>1
    <3> QED
      BY <1>1, <2>2, <3>2
  <2>4. TypeInv'
    BY <1>1, <2>2, <2>3 DEF TypeInv
  <2>6. QueueInv'
    BY <2>2 DEF QueueInv
  <2>5. HiddenInv'
    BY <2>2 DEF HiddenInv, Intended
  <2> QED
    BY <2>4, <2>5, <2>6
<1> QED
  BY <1>2, <1>3

\* They hold in the beginning.
LEMMA StartInv ==
    ASSUME Init
    PROVE  TypeInv /\ QueueInv /\ HiddenInv
<1>1. /\ engine = NewEngine /\ remote = BlankScreen(Window) /\ sent = 0 /\ queue = <<>>
      /\ server = [size |-> Window, cells |-> BlankScreen(Window).cells, cursor |-> <<0, 0>>,
                   echo |-> TRUE, input |-> "Ground", plain |-> TRUE, pasted |-> FALSE]
      /\ taken = {0} /\ echoAck = 0
  BY DEF Init
<1>2. Window \in Sizes /\ <<0, 0>> \in Positions(Window)
  BY PredictionAssumption, SizeFacts
<1>3. BlankScreen(Window).cells \in [Positions(Window) -> Printable]
  BY BlankFacts DEF BlankScreen
<1>4. remote \in Screens
  <2>1. BlankScreen(Window) \in ScreensOf(Window)
    BY <1>2, <1>3 DEF BlankScreen, ScreensOf
  <2> QED
    BY <1>1, <1>2, <2>1 DEF Screens
<1>5. server \in Apps
  <2> DEFINE cells == BlankScreen(Window).cells
  <2> HIDE DEF cells
  <2>1. server = [size |-> Window, cells |-> cells, cursor |-> <<0, 0>>,
                  echo |-> TRUE, input |-> "Ground", plain |-> TRUE, pasted |-> FALSE]
    BY <1>1 DEF cells
  <2>2. cells \in [Positions(Window) -> Printable]
    BY <1>3 DEF cells
  <2>3. server \in AppsOf(Window)
    BY <1>2, <2>1, <2>2 DEF AppsOf, InputStates
  <2> QED
    BY <1>2, <2>3 DEF Apps
<1>6. /\ engine.cursors = <<>> /\ DOMAIN engine.overlay = {} /\ engine.late_acked = 0
      /\ engine.confirmed_epoch = 0 /\ engine.prediction_epoch = 1
      /\ engine.input_state = "Ground" /\ engine.panicked = FALSE
  BY <1>1 DEF NewEngine, NoCells
<1>7. engine \in Engines
  <2>1. NoCells \in Overlays
    <3>1. NoCells \in [{} -> Cells]
      BY DEF NoCells
    <3> QED
      BY <3>1 DEF Overlays
  <2>2. <<>> \in Seq(Cursors)
    OBVIOUS
  <2> QED
    BY <1>1, <2>1, <2>2 DEF NewEngine, Engines, InputStates
<1>8. Sound(engine, 0)
  BY <1>6, <1>7 DEF Sound, SoundOverlay, SoundCursors
<1>9. queue \in Seq(Items) /\ Len(queue) = 0 /\ 1 .. Len(queue) = {}
  BY <1>1
<1>10. TypeInv
  BY <1>1, <1>4, <1>5, <1>6, <1>8, <1>9 DEF TypeInv
<1>11. QueueInv
  BY <1>9 DEF QueueInv
<1>12. Intended = server
  <2>1. Taking(server, queue, 0) = server
    BY TakingUnfolds
  <2> QED
    BY <1>9, <2>1 DEF Intended
<1>13. HiddenInv
  <2>1. server.input = "Ground" /\ server.echo = TRUE
    BY <1>1
  <2>2. Hidden(engine, FALSE)
    BY <1>6 DEF Hidden
  <2>3. engine.input_state = server.input /\ Hidden(engine, ~server.echo)
    BY <1>6, <2>1, <2>2
  <2> QED
    BY <1>6, <1>12, <2>3 DEF HiddenInv, Together
<1> QED
  BY <1>10, <1>11, <1>13

-----------------------------------------------------------------------------
(* What is predicted of plain editing *)

\* Every character that is predicted is on the application's screen, and where
\* nothing is predicted the painted screen is right.
TrueCells(e, s, painted) ==
    /\ DOMAIN e.overlay \subseteq Positions(Window)
    /\ \A at \in Positions(Window) :
          /\ at \in DOMAIN e.overlay => e.overlay[at].replacement \in {Unknown, s.cells[at]}
          /\ at \notin DOMAIN e.overlay => painted.cells[at] = s.cells[at]

TrueCursor(e, s, painted) ==
    /\ e.cursors = <<>> => painted.cursor = s.cursor
    /\ e.cursors # <<>> => Last(e.cursors).at = s.cursor

\* The engine is where the application will be.
Mirrors(e, s, painted) ==
    /\ ~e.panicked /\ e.input_state = s.input
    /\ e.last_size \in {<<0, 0>>, Window}
    /\ e.last_size = <<0, 0>> => DOMAIN e.overlay = {} /\ e.cursors = <<>>
    /\ TrueCells(e, s, painted) /\ TrueCursor(e, s, painted)

\* A step predicts for the given frame whatever it changes, and leaves the rest.
CellsAdvance(e, s, f, t, frame) ==
    \A at \in Positions(Window) :
        \/ at \in DOMAIN f.overlay /\ f.overlay[at].frame = frame
        \/ /\ t.cells[at] = s.cells[at]
           /\ at \in DOMAIN f.overlay <=> at \in DOMAIN e.overlay
           /\ at \in DOMAIN e.overlay => f.overlay[at].frame = e.overlay[at].frame

CursorAdvances(e, s, f, t, frame) ==
    \/ f.cursors # <<>> /\ Last(f.cursors).frame = frame
    \/ /\ t.cursor = s.cursor
       /\ f.cursors = <<>> <=> e.cursors = <<>>
       /\ e.cursors # <<>> => Last(f.cursors).frame = Last(e.cursors).frame

Advances(e, s, f, t, frame) ==
    CellsAdvance(e, s, f, t, frame) /\ CursorAdvances(e, s, f, t, frame)

\* Two steps that predict what they change make one that does.
LEMMA AdvancesTwice ==
    ASSUME NEW e, NEW f, NEW g, NEW s, NEW t, NEW u, NEW frame,
           Advances(e, s, f, t, frame), Advances(f, t, g, u, frame)
    PROVE  Advances(e, s, g, u, frame)
<1>1. CellsAdvance(e, s, g, u, frame)
  <2> SUFFICES ASSUME NEW at \in Positions(Window)
               PROVE  \/ at \in DOMAIN g.overlay /\ g.overlay[at].frame = frame
                      \/ /\ u.cells[at] = s.cells[at]
                         /\ at \in DOMAIN g.overlay <=> at \in DOMAIN e.overlay
                         /\ at \in DOMAIN e.overlay =>
                               g.overlay[at].frame = e.overlay[at].frame
    BY DEF CellsAdvance
  <2>1. \/ at \in DOMAIN f.overlay /\ f.overlay[at].frame = frame
        \/ /\ t.cells[at] = s.cells[at]
           /\ at \in DOMAIN f.overlay <=> at \in DOMAIN e.overlay
           /\ at \in DOMAIN e.overlay => f.overlay[at].frame = e.overlay[at].frame
    BY Zenon DEF Advances, CellsAdvance
  <2>2. \/ at \in DOMAIN g.overlay /\ g.overlay[at].frame = frame
        \/ /\ u.cells[at] = t.cells[at]
           /\ at \in DOMAIN g.overlay <=> at \in DOMAIN f.overlay
           /\ at \in DOMAIN f.overlay => g.overlay[at].frame = f.overlay[at].frame
    BY Zenon DEF Advances, CellsAdvance
  <2> QED
    BY <2>1, <2>2
<1>2. CursorAdvances(e, s, g, u, frame)
  BY DEF Advances, CursorAdvances
<1> QED
  BY <1>1, <1>2 DEF Advances

\* What a key has to predict: the cells of D, and a cursor.
LEMMA KeyMirrors ==
    ASSUME NEW e, NEW s, NEW painted, NEW f, NEW t, NEW D, NEW frame,
           Mirrors(e, s, painted), e.cursors # <<>>,
           ~f.panicked, f.input_state = e.input_state, f.last_size = e.last_size,
           t.input = s.input,
           DOMAIN f.overlay = D \cup DOMAIN e.overlay, D \subseteq Positions(Window),
           \A at \in D : /\ f.overlay[at].frame = frame
                         /\ f.overlay[at].replacement \in {Unknown, t.cells[at]},
           \A at \in DOMAIN e.overlay \ D : f.overlay[at] = e.overlay[at],
           \A at \in Positions(Window) \ D : t.cells[at] = s.cells[at],
           f.cursors # <<>>, Last(f.cursors).at = t.cursor,
           Last(f.cursors).frame = frame \/ (t.cursor = s.cursor /\ f.cursors = e.cursors)
    PROVE  Mirrors(f, t, painted) /\ Advances(e, s, f, t, frame)
<1>1. /\ DOMAIN e.overlay \subseteq Positions(Window)
      /\ \A at \in Positions(Window) :
            /\ at \in DOMAIN e.overlay => e.overlay[at].replacement \in {Unknown, s.cells[at]}
            /\ at \notin DOMAIN e.overlay => painted.cells[at] = s.cells[at]
  BY DEF Mirrors, TrueCells
<1>2. TrueCells(f, t, painted)
  BY <1>1 DEF TrueCells
<1>3. TrueCursor(f, t, painted)
  BY DEF TrueCursor
<1>4. Mirrors(f, t, painted)
  <2>1. e.last_size # <<0, 0>>
    BY DEF Mirrors
  <2>2. ~f.panicked /\ f.input_state = t.input /\ f.last_size \in {<<0, 0>>, Window}
    BY DEF Mirrors
  <2> QED
    BY <1>2, <1>3, <2>1, <2>2 DEF Mirrors
<1>5. CellsAdvance(e, s, f, t, frame)
  BY DEF CellsAdvance
<1>6. CursorAdvances(e, s, f, t, frame)
  BY DEF CursorAdvances
<1> QED
  BY <1>4, <1>5, <1>6 DEF Advances

\* What the client sees is what the application has, where it is known.
LEMMA SeenTrue ==
    ASSUME NEW e, NEW s, NEW painted \in Screens, painted.size = Window,
           TrueCells(e, s, painted), NEW at \in Positions(Window)
    PROVE  Seen(e, painted, at) \in {Unknown, s.cells[at]}
<1>1. painted.cells \in [Positions(Window) -> Printable]
  BY DEF Screens, ScreensOf
<1>2. CASE at \in DOMAIN e.overlay
  <2>1. Seen(e, painted, at) = e.overlay[at].replacement
    BY <1>2 DEF Seen
  <2> QED
    BY <1>2, <2>1 DEF TrueCells
<1>3. CASE at \notin DOMAIN e.overlay
  <2>1. at \in DOMAIN painted.cells
    BY <1>1
  <2>2. Seen(e, painted, at) = painted.cells[at]
    BY <1>3, <2>1 DEF Seen, CellAt
  <2>3. painted.cells[at] = s.cells[at]
    BY <1>3 DEF TrueCells
  <2> QED
    BY <2>2, <2>3
<1> QED
  BY <1>2, <1>3

\* What follows the cursor on its line.
Rest(at, from) == RowFrom(at[1], from, Window[2])

\* The positions of a row from a column on.
LEMMA RestIs ==
    ASSUME NEW at \in Positions(Window), NEW from \in Nat
    PROVE  /\ Rest(at, from) \subseteq Positions(Window)
           /\ \A p \in Positions(Window) :
                 p \in Rest(at, from) <=> p[1] = at[1] /\ p[2] >= from
<1>1. Window \in Sizes
  BY PredictionAssumption
<1>2. at \in Nat \X Nat /\ at[1] < Window[1] /\ Window \in Nat \X Nat /\ Window[2] > 0
  BY <1>1, PositionFacts, SizeFacts
<1>3. Rest(at, from) \subseteq Positions(Window)
  BY <1>2 DEF Rest, RowFrom, Positions
<1>4. ASSUME NEW p \in Positions(Window)
      PROVE  p \in Rest(at, from) <=> p[1] = at[1] /\ p[2] >= from
  <2>1. p \in Nat \X Nat /\ p = <<p[1], p[2]>> /\ p[2] < Window[2]
    BY <1>1, PositionFacts
  <2> QED
    BY <1>2, <2>1 DEF Rest, RowFrom
<1> QED
  BY <1>3, <1>4

\* An insertion predicts the rest of the line, and it alone changes.
LEMMA InsertTrue ==
    ASSUME NEW e, NEW s \in Apps, s.size = Window, NEW ch \in Printable,
           NEW painted \in Screens, painted.size = Window, TrueCells(e, s, painted),
           e.last_size = Window, NEW p \in Positions(Window)
    PROVE  /\ p \in Rest(s.cursor, s.cursor[2]) =>
                 InsertedAt(e, ch, s.cursor, painted, p) \in {Unknown, Put(s, ch)[p]}
           /\ p \notin Rest(s.cursor, s.cursor[2]) => Put(s, ch)[p] = s.cells[p]
<1> DEFINE at == s.cursor
           row == at[1]
           col == at[2]
<1>0. Window \in Sizes
  BY PredictionAssumption
<1>1. /\ at \in Positions(Window) /\ s.cells \in [Positions(Window) -> Printable]
  BY AppFields
<1>2. /\ at \in Nat \X Nat /\ at = <<row, col>> /\ p \in Nat \X Nat /\ p = <<p[1], p[2]>>
      /\ p[1] < Window[1] /\ p[2] < Window[2] /\ Window \in Nat \X Nat
  BY <1>0, <1>1, PositionFacts, SizeFacts
<1>3. p \in Rest(at, col) <=> p[1] = row /\ p[2] >= col
  BY <1>1, <1>2, RestIs
<1>4. Put(s, ch)[p] = IF p = at THEN ch
                      ELSE IF p[1] = row /\ p[2] > col THEN s.cells[<<row, p[2] - 1>>]
                      ELSE s.cells[p]
  BY <1>1 DEF Put, ShiftRight
<1>5. InsertedAt(e, ch, at, painted, p)
         = IF p[2] = col THEN ch
           ELSE IF p[2] = Window[2] - 1 THEN Unknown
           ELSE Seen(e, painted, <<row, p[2] - 1>>)
  BY DEF InsertedAt
<1> HIDE DEF at
<1>6. ASSUME p[1] = row, p[2] > col
      PROVE  Seen(e, painted, <<row, p[2] - 1>>) \in {Unknown, s.cells[<<row, p[2] - 1>>]}
  <2> DEFINE r == <<row, p[2] - 1>>
  <2>1. r \in Nat \X Nat /\ r[1] < Window[1] /\ r[2] < Window[2]
    BY <1>2, <1>6
  <2>2. r \in Positions(Window)
    BY <1>0, <2>1, PositionFacts
  <2> HIDE DEF r
  <2>3. Seen(e, painted, r) \in {Unknown, s.cells[r]}
    BY <2>2, SeenTrue
  <2> QED
    BY <2>3 DEF r
<1>7. ASSUME p[1] = row, p[2] >= col
      PROVE  InsertedAt(e, ch, at, painted, p) \in {Unknown, Put(s, ch)[p]}
  <2>1. CASE p[2] = col
    <3>1. p = at
      BY <1>2, <1>7, <2>1
    <3> QED
      BY <1>4, <1>5, <2>1, <3>1
  <2>2. CASE p[2] # col
    <3>1. p # at /\ p[2] > col
      BY <1>2, <1>7, <2>2
    <3>2. Put(s, ch)[p] = s.cells[<<row, p[2] - 1>>]
      BY <1>4, <1>7, <3>1
    <3>3. InsertedAt(e, ch, at, painted, p) = Unknown
          \/ InsertedAt(e, ch, at, painted, p) = Seen(e, painted, <<row, p[2] - 1>>)
      BY <1>5, <2>2
    <3> QED
      BY <1>6, <1>7, <3>1, <3>2, <3>3
  <2> QED
    BY <2>1, <2>2
<1>8. ASSUME ~(p[1] = row /\ p[2] >= col)
      PROVE  Put(s, ch)[p] = s.cells[p]
  <2>1. p # at /\ ~(p[1] = row /\ p[2] > col)
    BY <1>2, <1>8
  <2> QED
    BY <1>4, <2>1
<1> QED
  BY <1>3, <1>7, <1>8 DEF at

\* So does a deletion.
LEMMA DeleteTrue ==
    ASSUME NEW e, NEW s \in Apps, s.size = Window, s.cursor[2] > 0,
           NEW painted \in Screens, painted.size = Window, TrueCells(e, s, painted),
           e.last_size = Window, NEW p \in Positions(Window)
    PROVE  LET left == ShiftLeft(s, s.cursor[1], s.cursor[2] - 1)
           IN  /\ p \in Rest(s.cursor, s.cursor[2] - 1) =>
                     DeletedAt(e, s.cursor, painted, p) \in {Unknown, left[p]}
               /\ p \notin Rest(s.cursor, s.cursor[2] - 1) => left[p] = s.cells[p]
<1> DEFINE at == s.cursor
           row == at[1]
           col == at[2]
           left == ShiftLeft(s, row, col - 1)
<1>0. Window \in Sizes
  BY PredictionAssumption
<1>1. /\ at \in Positions(Window) /\ s.cells \in [Positions(Window) -> Printable]
  BY AppFields
<1>2. /\ at \in Nat \X Nat /\ p \in Nat \X Nat /\ p = <<p[1], p[2]>> /\ col - 1 \in Nat
      /\ p[1] < Window[1] /\ p[2] < Window[2] /\ Window \in Nat \X Nat
  BY <1>0, <1>1, PositionFacts, SizeFacts
<1>3. p \in Rest(at, col - 1) <=> p[1] = row /\ p[2] >= col - 1
  BY <1>1, <1>2, RestIs
<1>4. left[p] = IF p[1] = row /\ p[2] >= col - 1 THEN CellAt(s, <<row, p[2] + 1>>)
                ELSE s.cells[p]
  BY <1>1 DEF ShiftLeft
<1>5. DeletedAt(e, at, painted, p)
         = IF p[2] + 2 < Window[2] THEN Seen(e, painted, <<row, p[2] + 1>>) ELSE Unknown
  BY DEF DeletedAt
<1> HIDE DEF at, left
<1>6. ASSUME p[1] = row, p[2] >= col - 1
      PROVE  DeletedAt(e, at, painted, p) \in {Unknown, left[p]}
  <2>1. CASE p[2] + 2 < Window[2]
    <3> DEFINE r == <<row, p[2] + 1>>
    <3>1. r \in Nat \X Nat /\ r[1] < Window[1] /\ r[2] < Window[2]
      BY <1>2, <1>6, <2>1
    <3>2. r \in Positions(Window)
      BY <1>0, <3>1, PositionFacts
    <3> HIDE DEF r
    <3>3. Seen(e, painted, r) \in {Unknown, s.cells[r]}
      BY <3>2, SeenTrue
    <3>4. CellAt(s, r) = s.cells[r]
      BY <1>1, <3>2 DEF CellAt
    <3> QED
      BY <1>4, <1>5, <1>6, <2>1, <3>3, <3>4 DEF r
  <2>2. CASE ~(p[2] + 2 < Window[2])
    BY <1>5, <2>2
  <2> QED
    BY <2>1, <2>2
<1>7. ASSUME ~(p[1] = row /\ p[2] >= col - 1)
      PROVE  left[p] = s.cells[p]
  BY <1>4, <1>7
<1> QED
  BY <1>3, <1>6, <1>7 DEF at, left

\* The overlay with new predictions over the old ones.
LEMMA WithIs ==
    ASSUME NEW last \in Nat, NEW e, Sound(e, last), NEW new, IsNew(e, new, last)
    PROVE  LET w == With(e, new)
           IN  /\ Sound(w, last) /\ OverlayOnly(e, w)
               /\ DOMAIN w.overlay = DOMAIN new \cup DOMAIN e.overlay
               /\ \A at \in DOMAIN new : w.overlay[at] = new[at]
               /\ \A at \in DOMAIN e.overlay \ DOMAIN new : w.overlay[at] = e.overlay[at]
<1>1. e.overlay \in Overlays /\ new \in Overlays
  BY EngineFields DEF Sound, IsNew
<1> DEFINE w == With(e, new)
           o == Over(new, e.overlay)
<1>2. Sound(w, last) /\ OverlayOnly(e, w) /\ w.overlay = o
  BY WithSound
<1>3. /\ DOMAIN o = DOMAIN new \cup DOMAIN e.overlay
      /\ \A at \in DOMAIN new : o[at] = new[at]
      /\ \A at \in DOMAIN e.overlay \ DOMAIN new : o[at] = e.overlay[at]
  BY <1>1, OverlaysMerge
<1> HIDE DEF w, o
<1> QED
  BY <1>2, <1>3 DEF w

\* An engine that is where the application is, before a key.
Ready(e, s, painted, last) ==
    /\ Sound(e, last) /\ Mirrors(e, s, painted) /\ e.cursors # <<>> /\ e.last_size = Window
    /\ s \in Apps /\ s.size = Window /\ s.echo
    /\ painted \in Screens /\ painted.size = Window

\* An engine that is ready for a key has its cursor where the application has.
LEMMA ReadyFacts ==
    ASSUME NEW last \in Nat, NEW e, NEW s, NEW painted, Ready(e, s, painted, last)
    PROVE  /\ e \in Engines /\ ~e.panicked /\ e.input_state = s.input
           /\ TrueCells(e, s, painted) /\ Last(e.cursors).at = s.cursor
           /\ s.cursor \in Positions(Window) /\ s.cursor \in Nat \X Nat
           /\ s.cursor[1] < Window[1] /\ s.cursor[2] < Window[2]
           /\ s.cells \in [Positions(Window) -> Printable]
           /\ Window \in Sizes /\ Window \in Nat \X Nat
<1>1. Window \in Sizes /\ Window \in Nat \X Nat
  BY PredictionAssumption, SizeFacts
<1>2. s.cursor \in Positions(Window) /\ s.cells \in [Positions(Window) -> Printable]
  BY AppFields DEF Ready
<1>3. s.cursor \in Nat \X Nat /\ s.cursor[1] < Window[1] /\ s.cursor[2] < Window[2]
  BY <1>1, <1>2, PositionFacts
<1>4. e \in Engines /\ ~e.panicked /\ e.input_state = s.input /\ TrueCells(e, s, painted)
  BY DEF Ready, Sound, Mirrors
<1>5. Last(e.cursors).at = s.cursor
  BY DEF Ready, Mirrors, TrueCursor
<1> QED
  BY <1>1, <1>2, <1>3, <1>4, <1>5

\* A character before the last column is predicted as it is echoed,
LEMMA InsertWithin ==
    ASSUME NEW last \in Nat, NEW e, NEW s, NEW painted, Ready(e, s, painted, last),
           NEW ch \in Printable, s.cursor[2] + 1 < Window[2]
    PROVE  LET f == PredictInsert(e, ch, s.cursor, painted, last)
               t == AppInsert(s, ch)
           IN  Mirrors(f, t, painted) /\ Advances(e, s, f, t, last + 1)
<1> DEFINE at == s.cursor
           new == Inserted(e, ch, at, painted, last)
           w == With(e, new)
           to == <<at[1], at[2] + 1>>
           f == MoveCursor(w, to, last)
           t == AppInsert(s, ch)
           D == Rest(at, at[2])
<1>1. /\ e \in Engines /\ ~e.panicked /\ e.input_state = s.input
      /\ TrueCells(e, s, painted) /\ Last(e.cursors).at = at
      /\ at \in Positions(Window) /\ at \in Nat \X Nat /\ at[2] < Window[2]
      /\ Window \in Nat \X Nat
  BY ReadyFacts
<1>2. /\ Sound(e, last) /\ Mirrors(e, s, painted) /\ e.cursors # <<>> /\ e.last_size = Window
      /\ s \in Apps /\ s.size = Window
      /\ painted \in Screens /\ painted.size = Window
  BY DEF Ready
<1>3. PredictInsert(e, ch, at, painted, last) = f
  BY <1>1, <1>2 DEF PredictInsert
<1>4. /\ t.cells = Put(s, ch) /\ t.cursor = to /\ t.input = s.input
  <2>1. t = [s EXCEPT !.cells = Put(s, ch), !.cursor = <<s.cursor[1], s.cursor[2] + 1>>]
    BY <1>2, AppInsertIs
  <2> HIDE DEF t
  <2>2. s \in AppsOf(Window)
    BY <1>2, AppFields
  <2> QED
    BY <2>1, <2>2 DEF AppsOf
<1>5. /\ IsNew(e, new, last) /\ DOMAIN new = D
      /\ \A p \in DOMAIN new : new[p].replacement = InsertedAt(e, ch, at, painted, p)
  <2> HIDE DEF at
  <2>1. e \in Engines /\ at \in Nat \X Nat /\ painted \in Screens
    BY <1>1, <1>2
  <2>2. IsNew(e, new, last) /\ DOMAIN new = RowFrom(at[1], at[2], e.last_size[2])
    BY <2>1, InsertedNew
  <2>3. \A p \in DOMAIN new : new[p].replacement = InsertedAt(e, ch, at, painted, p)
    BY <2>1, InsertedNew
  <2> QED
    BY <1>2, <2>2, <2>3 DEF Rest
<1> HIDE DEF new, D
<1>6. /\ Sound(w, last) /\ OverlayOnly(e, w)
      /\ DOMAIN w.overlay = D \cup DOMAIN e.overlay
      /\ \A p \in D : w.overlay[p] = new[p]
      /\ \A p \in DOMAIN e.overlay \ D : w.overlay[p] = e.overlay[p]
  BY <1>2, <1>5, WithIs
<1> HIDE DEF w
<1>7. to \in Nat \X Nat
  BY <1>1
<1> HIDE DEF to
<1>8. /\ CursorsOnly(w, f) /\ f.cursors # <<>>
      /\ Last(f.cursors).at = to /\ Last(f.cursors).frame = last + 1
  BY <1>2, <1>6, <1>7, MoveCursorSound DEF OverlayOnly
<1> HIDE DEF f, t, at
<1>9. /\ ~f.panicked /\ f.input_state = e.input_state /\ f.last_size = e.last_size
      /\ f.overlay = w.overlay
  BY <1>1, <1>6, <1>8 DEF OverlayOnly, CursorsOnly, Settled
<1>10. D \subseteq Positions(Window)
  BY <1>1, RestIs DEF D
<1>11. \A p \in D : /\ f.overlay[p].frame = last + 1
                    /\ f.overlay[p].replacement \in {Unknown, t.cells[p]}
  <2> SUFFICES ASSUME NEW p \in D
               PROVE  /\ f.overlay[p].frame = last + 1
                      /\ f.overlay[p].replacement \in {Unknown, t.cells[p]}
    OBVIOUS
  <2>1. InsertedAt(e, ch, at, painted, p) \in {Unknown, Put(s, ch)[p]}
    BY <1>1, <1>2, <1>10, InsertTrue DEF D, at
  <2> QED
    BY <1>4, <1>5, <1>6, <1>9, <2>1 DEF IsNew
<1>12. \A p \in Positions(Window) \ D : t.cells[p] = s.cells[p]
  BY <1>1, <1>2, <1>4, InsertTrue DEF D, at
<1>13. \A p \in DOMAIN e.overlay \ D : f.overlay[p] = e.overlay[p]
  BY <1>6, <1>9
<1>14. DOMAIN f.overlay = D \cup DOMAIN e.overlay
  BY <1>6, <1>9
<1>15. Last(f.cursors).at = t.cursor
  BY <1>4, <1>8
<1>16. Mirrors(f, t, painted) /\ Advances(e, s, f, t, last + 1)
  BY <1>2, <1>4, <1>8, <1>9, <1>10, <1>11, <1>12, <1>13, <1>14, <1>15, KeyMirrors
<1> QED
  BY <1>3, <1>16 DEF at, t

\* a backspace past the first column is,
LEMMA BackspaceWithin ==
    ASSUME NEW last \in Nat, NEW e, NEW s, NEW painted, Ready(e, s, painted, last),
           NEW ch, s.cursor[2] > 0
    PROVE  LET f == PredictBackspace(e, s.cursor, painted, last)
               t == AppKey(s, "backspace", ch)
           IN  Mirrors(f, t, painted) /\ Advances(e, s, f, t, last + 1)
<1> DEFINE at == s.cursor
           new == Deleted(e, at, painted, last)
           to == <<at[1], at[2] - 1>>
           m == MoveCursor(e, to, last)
           f == With(m, new)
           left == ShiftLeft(s, at[1], at[2] - 1)
           t == AppKey(s, "backspace", ch)
           D == Rest(at, at[2] - 1)
<1>1. /\ e \in Engines /\ ~e.panicked /\ e.input_state = s.input
      /\ TrueCells(e, s, painted) /\ Last(e.cursors).at = at
      /\ at \in Positions(Window) /\ at \in Nat \X Nat /\ at[2] < Window[2] /\ at[2] > 0
      /\ Window \in Nat \X Nat
  BY ReadyFacts
<1>2. /\ Sound(e, last) /\ Mirrors(e, s, painted) /\ e.cursors # <<>> /\ e.last_size = Window
      /\ s \in Apps /\ s.size = Window /\ s.echo
      /\ painted \in Screens /\ painted.size = Window
  BY DEF Ready
<1>3. PredictBackspace(e, at, painted, last) = f
  BY <1>1 DEF PredictBackspace, CanGoLeft
<1>4. /\ t.cells = left /\ t.cursor = to /\ t.input = s.input
  <2>1. t = [s EXCEPT !.cursor = to, !.cells = left]
    BY <1>1, <1>2, Zenon DEF AppKey
  <2> HIDE DEF t, to, left
  <2>2. s \in AppsOf(Window)
    BY <1>2, AppFields
  <2> QED
    BY <2>1, <2>2 DEF AppsOf
<1>5. /\ IsNew(e, new, last) /\ DOMAIN new = D
      /\ \A p \in DOMAIN new : new[p].replacement = DeletedAt(e, at, painted, p)
  <2> HIDE DEF at
  <2>1. e \in Engines /\ at \in Nat \X Nat /\ at[2] > 0 /\ painted \in Screens
    BY <1>1, <1>2
  <2>2. IsNew(e, new, last) /\ DOMAIN new = RowFrom(at[1], at[2] - 1, e.last_size[2])
    BY <2>1, DeletedNew
  <2>3. \A p \in DOMAIN new : new[p].replacement = DeletedAt(e, at, painted, p)
    BY <2>1, DeletedNew
  <2> QED
    BY <1>2, <2>2, <2>3 DEF Rest
<1>6. to \in Nat \X Nat
  BY <1>1
<1> HIDE DEF new, D, to
<1>7. /\ Sound(m, last) /\ CursorsOnly(e, m) /\ m.cursors # <<>>
      /\ Last(m.cursors).at = to /\ Last(m.cursors).frame = last + 1
  BY <1>2, <1>6, MoveCursorSound
<1> HIDE DEF m
<1>8. IsNew(m, new, last) /\ m.overlay = e.overlay
  BY <1>5, <1>7, IsNewKept DEF CursorsOnly
<1>9. /\ OverlayOnly(m, f)
      /\ DOMAIN f.overlay = D \cup DOMAIN e.overlay
      /\ \A p \in D : f.overlay[p] = new[p]
      /\ \A p \in DOMAIN e.overlay \ D : f.overlay[p] = e.overlay[p]
  BY <1>5, <1>7, <1>8, WithIs
<1> HIDE DEF f, t, at, left
<1>10. /\ ~f.panicked /\ f.input_state = e.input_state /\ f.last_size = e.last_size
       /\ f.cursors = m.cursors
  BY <1>1, <1>7, <1>9 DEF OverlayOnly, CursorsOnly, Settled
<1>11. D \subseteq Positions(Window)
  BY <1>1, RestIs DEF D
<1>12. \A p \in D : /\ f.overlay[p].frame = last + 1
                    /\ f.overlay[p].replacement \in {Unknown, t.cells[p]}
  <2> SUFFICES ASSUME NEW p \in D
               PROVE  /\ f.overlay[p].frame = last + 1
                      /\ f.overlay[p].replacement \in {Unknown, t.cells[p]}
    OBVIOUS
  <2>1. DeletedAt(e, at, painted, p) \in {Unknown, left[p]}
    BY <1>1, <1>2, <1>11, DeleteTrue DEF D, at, left
  <2> QED
    BY <1>4, <1>5, <1>9, <2>1 DEF IsNew
<1>13. \A p \in Positions(Window) \ D : t.cells[p] = s.cells[p]
  BY <1>1, <1>2, <1>4, DeleteTrue DEF D, at, left
<1>14. Last(f.cursors).at = t.cursor /\ Last(f.cursors).frame = last + 1 /\ f.cursors # <<>>
  BY <1>4, <1>7, <1>10
<1>15. Mirrors(f, t, painted) /\ Advances(e, s, f, t, last + 1)
  BY <1>2, <1>4, <1>9, <1>10, <1>11, <1>12, <1>13, <1>14, KeyMirrors
<1> QED
  BY <1>3, <1>15 DEF at, t

\* A key that changes nothing.
LEMMA MirrorsStill ==
    ASSUME NEW e, NEW s, NEW painted, NEW frame, Mirrors(e, s, painted)
    PROVE  Advances(e, s, e, s, frame)
  BY DEF Advances, CellsAdvance, CursorAdvances

\* an arrow is,
LEMMA CursorWithin ==
    ASSUME NEW last \in Nat, NEW e, NEW s, NEW painted, Ready(e, s, painted, last),
           NEW ch, NEW key \in {"left", "right"}
    PROVE  LET f == PredictCursorKey(e, key, last)
               t == AppKey(s, key, ch)
           IN  Mirrors(f, t, painted) /\ Advances(e, s, f, t, last + 1)
<1> DEFINE at == s.cursor
           f == PredictCursorKey(e, key, last)
           t == AppKey(s, key, ch)
<1>1. /\ e \in Engines /\ ~e.panicked /\ e.input_state = s.input
      /\ TrueCells(e, s, painted) /\ Last(e.cursors).at = at
      /\ at \in Positions(Window) /\ at \in Nat \X Nat /\ at[2] < Window[2]
      /\ Window \in Nat \X Nat
  BY ReadyFacts
<1>2. /\ Sound(e, last) /\ Mirrors(e, s, painted) /\ e.cursors # <<>> /\ e.last_size = Window
      /\ s \in Apps /\ s.size = Window /\ s.echo
  BY DEF Ready
<1>3. s \in AppsOf(Window)
  BY <1>2, AppFields
<1>4. ASSUME NEW to \in Nat \X Nat, f = MoveCursor(e, to, last), t = [s EXCEPT !.cursor = to]
      PROVE  Mirrors(f, t, painted) /\ Advances(e, s, f, t, last + 1)
  <2> HIDE DEF f, t
  <2>1. /\ CursorsOnly(e, f) /\ f.cursors # <<>>
        /\ Last(f.cursors).at = to /\ Last(f.cursors).frame = last + 1
    BY <1>2, <1>4, MoveCursorSound
  <2>2. /\ ~f.panicked /\ f.input_state = e.input_state /\ f.last_size = e.last_size
        /\ f.overlay = e.overlay
    BY <1>1, <2>1 DEF CursorsOnly, Settled
  <2>3. t.cells = s.cells /\ t.cursor = to /\ t.input = s.input
    BY <1>3, <1>4 DEF AppsOf
  <2> DEFINE D == {p \in Positions(Window) : FALSE}
  <2>4. /\ DOMAIN f.overlay = D \cup DOMAIN e.overlay /\ D \subseteq Positions(Window)
        /\ \A p \in D : /\ f.overlay[p].frame = last + 1
                       /\ f.overlay[p].replacement \in {Unknown, t.cells[p]}
        /\ \A p \in DOMAIN e.overlay \ D : f.overlay[p] = e.overlay[p]
        /\ \A p \in Positions(Window) \ D : t.cells[p] = s.cells[p]
    BY <2>2, <2>3
  <2> HIDE DEF D
  <2>5. Last(f.cursors).at = t.cursor
    BY <2>1, <2>3
  <2> QED
    BY <1>2, <2>1, <2>2, <2>3, <2>4, <2>5, KeyMirrors
<1>5. ASSUME key = "right", at[2] + 1 < Window[2]
      PROVE  Mirrors(f, t, painted) /\ Advances(e, s, f, t, last + 1)
  <2> DEFINE to == <<at[1], at[2] + 1>>
  <2>1. f = MoveCursor(e, to, last)
    BY <1>1, <1>2, <1>5, Zenon DEF PredictCursorKey
  <2>2. t = [s EXCEPT !.cursor = to]
    BY <1>2, <1>5 DEF AppKey
  <2>3. to \in Nat \X Nat
    BY <1>1
  <2> HIDE DEF f, t, to
  <2> QED
    BY <1>4, <2>1, <2>2, <2>3
<1>6. ASSUME key = "left", at[2] > 0
      PROVE  Mirrors(f, t, painted) /\ Advances(e, s, f, t, last + 1)
  <2> DEFINE to == <<at[1], at[2] - 1>>
  <2>1. f = MoveCursor(e, to, last)
    BY <1>1, <1>2, <1>6 DEF PredictCursorKey, CanGoLeft
  <2>2. t = [s EXCEPT !.cursor = to]
    BY <1>2, <1>6 DEF AppKey
  <2>3. to \in Nat \X Nat
    BY <1>1, <1>6
  <2> HIDE DEF f, t, to
  <2> QED
    BY <1>4, <2>1, <2>2, <2>3
<1>7. ASSUME ~(key = "right" /\ at[2] + 1 < Window[2]), ~(key = "left" /\ at[2] > 0)
      PROVE  Mirrors(f, t, painted) /\ Advances(e, s, f, t, last + 1)
  <2>1. f = e
    BY <1>1, <1>2, <1>7 DEF PredictCursorKey, CanGoLeft
  <2>2. t = s
    BY <1>2, <1>7 DEF AppKey
  <2> HIDE DEF f, t
  <2> QED
    BY <1>2, <2>1, <2>2, MirrorsStill
<1> HIDE DEF f, t
<1>8. Mirrors(f, t, painted) /\ Advances(e, s, f, t, last + 1)
  BY <1>5, <1>6, <1>7
<1> QED
  BY <1>8 DEF f, t

\* The application goes to the next line from the last column.
LEMMA AppWrapIs ==
    ASSUME NEW s \in Apps, s.size = Window, NEW ch \in Printable,
           ~(s.cursor[2] + 1 < Window[2])
    PROVE  LET t == AppInsert(s, ch)
               row == s.cursor[1]
           IN  /\ t.input = s.input
               /\ row + 1 < Window[1] => t.cells = Put(s, ch) /\ t.cursor = <<row + 1, 0>>
               /\ ~(row + 1 < Window[1]) =>
                     /\ t.cursor = <<row, 0>>
                     /\ t.plain => /\ Window[1] = 1
                                   /\ \A p \in Positions(Window) : t.cells[p] = Blank
<1> DEFINE row == s.cursor[1]
           put == [s EXCEPT !.cells = Put(s, ch)]
           t == AppInsert(s, ch)
<1>1. put \in AppsOf(Window) /\ t = NextLine(put)
  BY AppInsertIs
<1>2. s \in AppsOf(Window) /\ Window \in Sizes
  BY PredictionAssumption, AppFields
<1>3. /\ put.size = Window /\ put.cursor = s.cursor /\ put.cells = Put(s, ch)
      /\ put.input = s.input
  BY <1>2 DEF AppsOf
<1> HIDE DEF put, t
<1>4. CASE row + 1 < Window[1]
  <2>1. NextLine(put) = [put EXCEPT !.cursor = <<row + 1, 0>>]
    BY <1>3, <1>4 DEF NextLine
  <2>2. t.cells = Put(s, ch) /\ t.cursor = <<row + 1, 0>> /\ t.input = s.input
    BY <1>1, <1>3, <2>1 DEF AppsOf
  <2> QED
    BY <1>4, <2>2 DEF t
<1>5. CASE ~(row + 1 < Window[1])
  <2> DEFINE up == [p \in DOMAIN put.cells |-> CellAt(put, <<p[1] + 1, p[2]>>)]
  <2>1. NextLine(put) = [put EXCEPT !.cursor = <<row, 0>>,
                                    !.plain = put.plain /\ Window[1] = 1, !.cells = up]
    BY <1>3, <1>5 DEF NextLine
  <2>2. DOMAIN put.cells = Positions(Window)
    BY <1>1 DEF AppsOf
  <2> DEFINE plain == put.plain /\ Window[1] = 1
  <2> HIDE DEF up, plain
  <2>3. NextLine(put) = [put EXCEPT !.cursor = <<row, 0>>, !.plain = plain, !.cells = up]
    BY <2>1 DEF plain
  <2>4. t.cursor = <<row, 0>> /\ t.input = s.input /\ t.cells = up /\ t.plain = plain
    BY <1>1, <1>3, <2>3 DEF AppsOf
  <2>5. ASSUME Window[1] = 1, NEW p \in Positions(Window)
        PROVE  up[p] = Blank
    <3>1. p \in Nat \X Nat /\ p[1] < 1
      BY <1>2, <2>5, PositionFacts
    <3>2. <<p[1] + 1, p[2]>> \notin Positions(Window)
      BY <2>5, <3>1 DEF Positions
    <3>3. CellAt(put, <<p[1] + 1, p[2]>>) = Blank
      BY <2>2, <3>2, Zenon DEF CellAt
    <3> QED
      BY <2>2, <3>3 DEF up
  <2>6. t.plain => Window[1] = 1 /\ \A p \in Positions(Window) : t.cells[p] = Blank
    BY <2>4, <2>5 DEF plain
  <2> QED
    BY <1>5, <2>4, <2>6 DEF t
<1> QED
  BY <1>4, <1>5

\* The cells of the insertion, and where the next line is.
LEMMA InsertWraps ==
    ASSUME NEW last \in Nat, NEW e, NEW s, NEW painted, Ready(e, s, painted, last),
           NEW ch \in Printable, ~(s.cursor[2] + 1 < Window[2])
    PROVE  LET at == s.cursor
               b == BecomeTentative(e)
               c == BecomeTentative(With(b, Inserted(b, ch, at, painted, last)))
               f == PredictInsert(e, ch, at, painted, last)
           IN  /\ f = NewlineCarriageReturn(c, at[1], last)
               /\ Sound(c, last) /\ c.cursors = e.cursors /\ c.last_size = e.last_size
               /\ c.panicked = e.panicked /\ c.input_state = e.input_state
               /\ DOMAIN c.overlay = Rest(at, at[2]) \cup DOMAIN e.overlay
               /\ \A p \in Rest(at, at[2]) :
                     /\ c.overlay[p].frame = last + 1
                     /\ c.overlay[p].replacement \in {Unknown, Put(s, ch)[p]}
               /\ \A p \in DOMAIN e.overlay \ Rest(at, at[2]) : c.overlay[p] = e.overlay[p]
<1> DEFINE at == s.cursor
           b == BecomeTentative(e)
           new == Inserted(b, ch, at, painted, last)
           w == With(b, new)
           c == BecomeTentative(w)
           f == PredictInsert(e, ch, at, painted, last)
           D == Rest(at, at[2])
<1>1. /\ e \in Engines /\ TrueCells(e, s, painted) /\ Last(e.cursors).at = at
      /\ at \in Positions(Window) /\ at \in Nat \X Nat /\ at[2] < Window[2]
      /\ Window \in Nat \X Nat
  BY ReadyFacts
<1>2. /\ Sound(e, last) /\ Mirrors(e, s, painted) /\ e.cursors # <<>> /\ e.last_size = Window
      /\ s \in Apps /\ s.size = Window
      /\ painted \in Screens /\ painted.size = Window
  BY DEF Ready
<1>3. f = NewlineCarriageReturn(c, at[1], last)
  <2>1. ~(at[2] >= e.last_size[2]) /\ ~(at[2] + 1 < e.last_size[2])
    BY <1>1, <1>2
  <2>2. f = InsertAndWrap(b, ch, at, painted, last)
    BY <2>1 DEF PredictInsert
  <2> QED
    BY <2>2 DEF InsertAndWrap
<1> HIDE DEF f
<1>4. /\ Sound(b, last) /\ Settled(e, b) /\ b.overlay = e.overlay /\ b.cursors = e.cursors
      /\ b.last_size = e.last_size /\ b.panicked = e.panicked /\ b \in Engines
  BY <1>2, TentativeSound DEF Sound
<1> HIDE DEF b, at
<1>5. IsNew(b, new, last) /\ DOMAIN new = RowFrom(at[1], at[2], b.last_size[2])
  BY <1>1, <1>2, <1>4, InsertedNew
<1>6. \A p \in DOMAIN new : new[p].replacement = InsertedAt(b, ch, at, painted, p)
  BY <1>1, <1>2, <1>4, InsertedNew
<1> HIDE DEF new, D
<1>7. DOMAIN new = D
  BY <1>2, <1>4, <1>5 DEF D, Rest
<1>8. /\ Sound(w, last) /\ OverlayOnly(b, w)
      /\ DOMAIN w.overlay = D \cup DOMAIN b.overlay
      /\ \A p \in D : w.overlay[p] = new[p]
      /\ \A p \in DOMAIN b.overlay \ D : w.overlay[p] = b.overlay[p]
  BY <1>4, <1>5, <1>7, WithIs
<1> HIDE DEF w
<1>9. /\ Sound(c, last) /\ Settled(w, c) /\ c.overlay = w.overlay /\ c.cursors = w.cursors
      /\ c.last_size = w.last_size /\ c.panicked = w.panicked
  BY <1>8, TentativeSound
<1> HIDE DEF c
<1>10. /\ c.cursors = e.cursors /\ c.last_size = e.last_size
       /\ c.panicked = e.panicked /\ c.input_state = e.input_state
  BY <1>4, <1>8, <1>9 DEF OverlayOnly, Settled
<1>11. /\ DOMAIN c.overlay = D \cup DOMAIN e.overlay
       /\ \A p \in DOMAIN e.overlay \ D : c.overlay[p] = e.overlay[p]
  BY <1>4, <1>8, <1>9
<1>12. D \subseteq Positions(Window)
  BY <1>1, RestIs DEF D
<1>13. TrueCells(b, s, painted)
  BY <1>1, <1>4 DEF TrueCells
<1>14. ASSUME NEW p \in D
       PROVE  /\ c.overlay[p].frame = last + 1
              /\ c.overlay[p].replacement \in {Unknown, Put(s, ch)[p]}
  <2>1. p \in Positions(Window)
    BY <1>12
  <2>2. InsertedAt(b, ch, at, painted, p) \in {Unknown, Put(s, ch)[p]}
    BY <1>2, <1>4, <1>13, <2>1, InsertTrue DEF D, at
  <2> QED
    BY <1>5, <1>6, <1>7, <1>8, <1>9, <2>2 DEF IsNew
<1>15. \A p \in D : /\ c.overlay[p].frame = last + 1
                    /\ c.overlay[p].replacement \in {Unknown, Put(s, ch)[p]}
  BY <1>14
<1> QED
  BY <1>3, <1>9, <1>10, <1>11, <1>15 DEF at, b, new, w, c, f, D

\* and so is a character in the last column, on the last row or above it.
LEMMA InsertWrapping ==
    ASSUME NEW last \in Nat, NEW e, NEW s, NEW painted, Ready(e, s, painted, last),
           NEW ch \in Printable, ~(s.cursor[2] + 1 < Window[2]), AppInsert(s, ch).plain
    PROVE  LET f == PredictInsert(e, ch, s.cursor, painted, last)
               t == AppInsert(s, ch)
           IN  Mirrors(f, t, painted) /\ Advances(e, s, f, t, last + 1)
<1> DEFINE at == s.cursor
           row == at[1]
           c == BecomeTentative(With(BecomeTentative(e),
                                     Inserted(BecomeTentative(e), ch, at, painted, last)))
           f == PredictInsert(e, ch, s.cursor, painted, last)
           t == AppInsert(s, ch)
           D == Rest(at, at[2])
<1>1. /\ ~e.panicked /\ e.input_state = s.input /\ Last(e.cursors).at = at
      /\ TrueCells(e, s, painted)
      /\ at \in Positions(Window) /\ at \in Nat \X Nat /\ at[1] < Window[1] /\ Window \in Nat \X Nat
      /\ Window \in Sizes
  BY ReadyFacts
<1>2. /\ Mirrors(e, s, painted) /\ e.cursors # <<>> /\ e.last_size = Window
      /\ s \in Apps /\ s.size = Window /\ painted \in Screens /\ painted.size = Window
  BY DEF Ready
<1>3. /\ f = NewlineCarriageReturn(c, row, last)
      /\ Sound(c, last) /\ c.cursors = e.cursors /\ c.last_size = e.last_size
      /\ c.panicked = e.panicked /\ c.input_state = e.input_state
  BY InsertWraps
<1>4. /\ DOMAIN c.overlay = D \cup DOMAIN e.overlay
      /\ \A p \in D : /\ c.overlay[p].frame = last + 1
                      /\ c.overlay[p].replacement \in {Unknown, Put(s, ch)[p]}
      /\ \A p \in DOMAIN e.overlay \ D : c.overlay[p] = e.overlay[p]
  BY InsertWraps
<1>5. /\ t.input = s.input
      /\ row + 1 < Window[1] => t.cells = Put(s, ch) /\ t.cursor = <<row + 1, 0>>
      /\ ~(row + 1 < Window[1]) =>
            /\ t.cursor = <<row, 0>> /\ Window[1] = 1
            /\ \A p \in Positions(Window) : t.cells[p] = Blank
  BY <1>2, AppWrapIs
<1> HIDE DEF c
<1>6. /\ Stepped(c, f, last) /\ f.panicked = c.panicked
      /\ f.cursors = CursorDown(c, last).cursors
      /\ row + 1 < c.last_size[1] => f.overlay = c.overlay
      /\ ~(row + 1 < c.last_size[1]) => f.overlay = Over(BlankLine(c, row, last), c.overlay)
  BY <1>1, <1>3, NewlineStepped
<1> DEFINE to == <<IF row + 1 < Window[1] THEN row + 1 ELSE row, 0>>
<1>7. /\ c.cursors = <<>> <=> CursorDown(c, last).cursors = <<>>
      /\ c.cursors # <<>> => Last(CursorDown(c, last).cursors).frame = last + 1
      /\ c.cursors # <<>> =>
            Last(CursorDown(c, last).cursors).at =
               <<IF Last(c.cursors).at[1] + 1 < c.last_size[1] THEN Last(c.cursors).at[1] + 1
                 ELSE Last(c.cursors).at[1], 0>>
  BY <1>3, CursorDownStepped
<1> HIDE DEF f, t, D
<1>8. f.cursors # <<>> /\ Last(f.cursors).frame = last + 1 /\ Last(f.cursors).at = to
  BY <1>1, <1>2, <1>3, <1>6, <1>7
<1>9. /\ ~f.panicked /\ f.input_state = e.input_state /\ f.last_size = e.last_size
  BY <1>1, <1>3, <1>6 DEF Stepped, Settled
<1>10. D \subseteq Positions(Window)
  BY <1>1, RestIs DEF D
<1>11. ASSUME row + 1 < Window[1]
       PROVE  Mirrors(f, t, painted) /\ Advances(e, s, f, t, last + 1)
  <2>1. f.overlay = c.overlay /\ Last(f.cursors).at = t.cursor
    BY <1>2, <1>3, <1>5, <1>6, <1>8, <1>11
  <2>2. \A p \in D : /\ f.overlay[p].frame = last + 1
                     /\ f.overlay[p].replacement \in {Unknown, t.cells[p]}
    BY <1>4, <1>5, <1>11, <2>1
  <2>3. \A p \in Positions(Window) \ D : t.cells[p] = s.cells[p]
    BY <1>1, <1>2, <1>5, <1>11, InsertTrue DEF D
  <2>4. /\ DOMAIN f.overlay = D \cup DOMAIN e.overlay
        /\ \A p \in DOMAIN e.overlay \ D : f.overlay[p] = e.overlay[p]
    BY <1>4, <2>1
  <2>5. t.input = s.input
    BY <1>5
  <2> QED
    BY <1>2, <1>8, <1>9, <1>10, <2>1, <2>2, <2>3, <2>4, <2>5, KeyMirrors
<1>12. ASSUME ~(row + 1 < Window[1])
       PROVE  Mirrors(f, t, painted) /\ Advances(e, s, f, t, last + 1)
  <2> DEFINE new == BlankLine(c, row, last)
             all == Positions(Window)
  <2>1. c \in Engines /\ row \in Nat /\ c.overlay \in Overlays
    BY <1>1, <1>3, EngineFields DEF Sound
  <2>2. IsNew(c, new, last) /\ DOMAIN new = RowFrom(row, 0, c.last_size[2])
    BY <2>1, BlankLineNew
  <2>3. \A p \in DOMAIN new : new[p].replacement = Blank
    BY <2>1, BlankLineNew
  <2>4. DOMAIN new = Rest(at, 0)
    BY <1>2, <1>3, <2>2 DEF Rest
  <2>5. Window[1] = 1 /\ \A p \in all : t.cells[p] = Blank
    BY <1>5, <1>12
  <2>6. Rest(at, 0) = all
    <3>1. /\ Rest(at, 0) \subseteq all
          /\ \A p \in all : p \in Rest(at, 0) <=> p[1] = at[1] /\ p[2] >= 0
      BY <1>1, RestIs
    <3>2. \A p \in all : p[1] = at[1] /\ p[2] >= 0
      BY <1>1, <2>5, PositionFacts
    <3> QED
      BY <3>1, <3>2
  <2> HIDE DEF new, all
  <2>7. /\ DOMAIN f.overlay = all \cup DOMAIN c.overlay
        /\ \A p \in all : f.overlay[p] = new[p]
    <3>1. f.overlay = Over(new, c.overlay) /\ new \in Overlays
      BY <1>2, <1>3, <1>6, <1>12, <2>2 DEF new, IsNew
    <3>2. /\ DOMAIN Over(new, c.overlay) = DOMAIN new \cup DOMAIN c.overlay
          /\ \A p \in DOMAIN new : Over(new, c.overlay)[p] = new[p]
      BY <2>1, <3>1, OverlaysMerge
    <3>3. DOMAIN new = all
      BY <2>4, <2>6
    <3> QED
      BY <3>1, <3>2, <3>3
  <2>8. D \subseteq all /\ DOMAIN e.overlay \subseteq all
    BY <1>1, <1>10 DEF all, TrueCells
  <2>9. DOMAIN f.overlay = all \cup DOMAIN e.overlay
    BY <1>4, <2>7, <2>8
  <2>10. \A p \in all : /\ f.overlay[p].frame = last + 1
                        /\ f.overlay[p].replacement \in {Unknown, t.cells[p]}
    BY <2>2, <2>3, <2>4, <2>5, <2>6, <2>7 DEF IsNew
  <2>11. /\ \A p \in DOMAIN e.overlay \ all : f.overlay[p] = e.overlay[p]
         /\ \A p \in Positions(Window) \ all : t.cells[p] = s.cells[p]
    BY <2>8 DEF all
  <2>12. t.input = s.input /\ Last(f.cursors).at = t.cursor /\ all \subseteq Positions(Window)
    BY <1>5, <1>8, <1>12 DEF all
  <2> QED
    BY <1>2, <1>8, <1>9, <2>9, <2>10, <2>11, <2>12, KeyMirrors
<1>13. Mirrors(f, t, painted) /\ Advances(e, s, f, t, last + 1)
  BY <1>11, <1>12
<1> QED
  BY <1>13 DEF f, t

\* Hence every character
LEMMA InsertMirrors ==
    ASSUME NEW last \in Nat, NEW e, NEW s, NEW painted, Ready(e, s, painted, last),
           NEW ch \in Printable, AppInsert(s, ch).plain
    PROVE  LET f == PredictInsert(e, ch, s.cursor, painted, last)
               t == AppInsert(s, ch)
           IN  Mirrors(f, t, painted) /\ Advances(e, s, f, t, last + 1)
<1>1. CASE s.cursor[2] + 1 < Window[2]
  BY <1>1, InsertWithin
<1>2. CASE ~(s.cursor[2] + 1 < Window[2])
  BY <1>2, InsertWrapping
<1> QED
  BY <1>1, <1>2

\* and every backspace is.
LEMMA BackspaceMirrors ==
    ASSUME NEW last \in Nat, NEW e, NEW s, NEW painted, Ready(e, s, painted, last), NEW ch
    PROVE  LET f == PredictBackspace(e, s.cursor, painted, last)
               t == AppKey(s, "backspace", ch)
           IN  Mirrors(f, t, painted) /\ Advances(e, s, f, t, last + 1)
<1>1. CASE s.cursor[2] > 0
  BY <1>1, BackspaceWithin
<1>2. CASE ~(s.cursor[2] > 0)
  <2>1. PredictBackspace(e, s.cursor, painted, last) = e
    BY <1>2 DEF PredictBackspace, CanGoLeft
  <2>2. AppKey(s, "backspace", ch) = s
    BY <1>2 DEF AppKey
  <2> QED
    BY <2>1, <2>2, MirrorsStill DEF Ready
<1> QED
  BY <1>1, <1>2

-----------------------------------------------------------------------------
(* What is predicted of a chunk *)

\* The application that has decoded a byte, before the key.
Decoded(s, ch) == [s EXCEPT !.input = Decode(s.input, ch)[1]]

\* The screen that the client draws on, and the application that it echoes.
Echoing(s, painted) ==
    s \in Apps /\ s.size = Window /\ s.echo /\ painted \in Screens /\ painted.size = Window

\* Before the key: the application has decoded the byte, the engine has its cursor.
LEMMA PreparedMirrors ==
    ASSUME NEW last \in Nat, NEW e, Sound(e, last), NEW s, NEW painted, NEW ch,
           Mirrors(e, s, painted), Echoing(s, painted)
    PROVE  LET p == Prepared(e, ch, s.cursor, Window, last)
               u == Decoded(s, ch)
           IN  Ready(p, u, painted, last) /\ Advances(e, s, p, u, last + 1)
<1> DEFINE at == s.cursor
           z == Sized(e, Window)
           p == Prepared(e, ch, at, Window, last)
           u == Decoded(s, ch)
<1>1. s \in Apps /\ s.size = Window /\ s.echo /\ painted \in Screens /\ painted.size = Window
  BY DEF Echoing
<1>2. s \in AppsOf(Window) /\ at \in Positions(Window) /\ s.input \in InputStates
  BY <1>1, AppFields
<1>3. Window \in Sizes /\ Window # <<0, 0>> /\ at \in Nat \X Nat
  BY <1>2, PredictionAssumption, SizeFacts, PositionFacts
<1>4. /\ u \in AppsOf(Window) /\ u.size = Window /\ u.echo = s.echo /\ u.cells = s.cells
      /\ u.cursor = at /\ u.input = Decode(s.input, ch)[1]
  <2>1. Decode(s.input, ch)[1] \in InputStates
    BY <1>2, DecodeType
  <2> QED
    BY <1>2, <2>1 DEF AppsOf, Decoded
<1>5. u \in Apps
  BY <1>3, <1>4 DEF Apps
<1> HIDE DEF at, u
<1>6. /\ Sound(p, last) /\ p.last_size = Window
      /\ p.input_state = Decode(e.input_state, ch)[1]
      /\ p.panicked = e.panicked /\ p.cursors # <<>>
  BY <1>3, PreparedSound
<1>7. Carried(z, p, at, Window[1], last)
  BY <1>3, PreparedSound
<1>8. /\ ~e.panicked /\ e.input_state = s.input
      /\ e.last_size \in {<<0, 0>>, Window}
      /\ e.last_size = <<0, 0>> => DOMAIN e.overlay = {} /\ e.cursors = <<>>
      /\ TrueCells(e, s, painted) /\ TrueCursor(e, s, painted)
  BY DEF Mirrors
<1>9. /\ e.last_size = Window => z = e
      /\ e.last_size # Window => DOMAIN z.overlay = {} /\ z.cursors = <<>>
  BY <1>3, SizedSound
<1> HIDE DEF p, z
<1>10. /\ DOMAIN z.overlay = DOMAIN e.overlay /\ z.cursors = e.cursors
       /\ \A q \in DOMAIN e.overlay : z.overlay[q] = e.overlay[q]
  BY <1>3, <1>8, <1>9
<1>11. \A q \in DOMAIN e.overlay : q[1] < Window[1]
  BY <1>3, <1>8, PositionFacts DEF TrueCells
<1>12. /\ DOMAIN p.overlay = DOMAIN e.overlay
       /\ \A q \in DOMAIN e.overlay : p.overlay[q] = e.overlay[q]
  BY <1>7, <1>10, <1>11 DEF Carried
<1>13. \/ e.cursors # <<>> /\ p.cursors = e.cursors
       \/ Last(p.cursors).at = at /\ Last(p.cursors).frame = last + 1
  BY <1>7, <1>10 DEF Carried
<1>14. TrueCells(p, u, painted)
  BY <1>4, <1>8, <1>12 DEF TrueCells
<1>15. Last(p.cursors).at = at
  BY <1>8, <1>13 DEF TrueCursor, at
<1>16. Mirrors(p, u, painted)
  BY <1>3, <1>4, <1>6, <1>8, <1>14, <1>15 DEF Mirrors, TrueCursor
<1>17. Ready(p, u, painted, last)
  BY <1>1, <1>4, <1>5, <1>6, <1>16 DEF Ready
<1>18. CellsAdvance(e, s, p, u, last + 1)
  BY <1>4, <1>12 DEF CellsAdvance
<1>19. CursorAdvances(e, s, p, u, last + 1)
  BY <1>4, <1>6, <1>13 DEF CursorAdvances, at
<1> QED
  BY <1>17, <1>18, <1>19 DEF Advances, p, u, at

\* A plain byte is predicted as it will be echoed.
LEMMA NewUserByteMirrors ==
    ASSUME NEW last \in Nat, NEW e, Sound(e, last), NEW s, NEW painted, NEW ch,
           Mirrors(e, s, painted), Echoing(s, painted), AppByte(s, ch).plain
    PROVE  LET f == NewUserByte(e, ch, s.cursor, painted, last)
               t == AppByte(s, ch)
           IN  Mirrors(f, t, painted) /\ Advances(e, s, f, t, last + 1)
<1> DEFINE d == Decode(s.input, ch)
           p == Prepared(e, ch, s.cursor, Window, last)
           u == Decoded(s, ch)
           f == NewUserByte(e, ch, s.cursor, painted, last)
           t == AppByte(s, ch)
           at == u.cursor
<1>1. s \in Apps /\ s.size = Window /\ s.echo /\ painted \in Screens /\ painted.size = Window
  BY DEF Echoing
<1>2. Ready(p, u, painted, last) /\ Advances(e, s, p, u, last + 1)
  BY PreparedMirrors
<1>3. e.input_state = s.input
  BY DEF Mirrors
<1>4. at = s.cursor /\ u.echo = s.echo
  <2>1. s \in AppsOf(Window)
    BY <1>1, AppFields
  <2> QED
    BY <2>1 DEF AppsOf, Decoded
<1>5. f = CASE d[2] = "none" -> p
            [] d[2] = "insert" -> PredictInsert(p, ch, at, painted, last)
            [] d[2] = "backspace" -> PredictBackspace(p, at, painted, last)
            [] d[2] \in {"left", "right"} -> PredictCursorKey(p, d[2], last)
            [] d[2] = "unknown" -> UnknownInput(p)
  <2>1. painted.size = Window
    BY <1>1
  <2> QED
    BY <1>3, <1>4, <2>1, Zenon DEF NewUserByte
<1>6. t = AppKey(u, d[2], ch)
  BY DEF AppByte, Decoded
<1>7. /\ d[2] \in Keys /\ d[2] # "unknown" /\ (d[2] = "insert" => ch \in Printable)
  <2>1. s.input \in InputStates
    BY <1>1, AppFields
  <2>2. d[2] # "unknown"
    BY <1>1, AppByteType
  <2> QED
    BY <2>1, <2>2, DecodeType
<1> HIDE DEF d, p, u, f, t
<1>8. Mirrors(p, u, painted) /\ u.echo
  BY <1>2 DEF Ready
<1>9. Mirrors(f, t, painted) /\ Advances(p, u, f, t, last + 1)
  <2>1. ASSUME d[2] = "none"
        PROVE  Mirrors(f, t, painted) /\ Advances(p, u, f, t, last + 1)
    <3>1. f = p
      BY <1>5, <2>1
    <3>2. t = u
      BY <1>6, <1>8, <2>1 DEF AppKey
    <3> QED
      BY <1>8, <3>1, <3>2, MirrorsStill
  <2>2. ASSUME d[2] = "insert"
        PROVE  Mirrors(f, t, painted) /\ Advances(p, u, f, t, last + 1)
    <3>1. f = PredictInsert(p, ch, at, painted, last)
      BY <1>5, <2>2
    <3>2. t = AppInsert(u, ch)
      BY <1>6, <1>8, <2>2 DEF AppKey
    <3>3. AppInsert(u, ch).plain
      BY <3>2 DEF t
    <3> QED
      BY <1>2, <1>7, <2>2, <3>1, <3>2, <3>3, InsertMirrors
  <2>3. ASSUME d[2] = "backspace"
        PROVE  Mirrors(f, t, painted) /\ Advances(p, u, f, t, last + 1)
    <3>1. f = PredictBackspace(p, at, painted, last)
      BY <1>5, <2>3
    <3>2. t = AppKey(u, "backspace", ch)
      BY <1>6, <2>3
    <3> QED
      BY <1>2, <3>1, <3>2, BackspaceMirrors
  <2>4. ASSUME d[2] \in {"left", "right"}
        PROVE  Mirrors(f, t, painted) /\ Advances(p, u, f, t, last + 1)
    <3>1. f = PredictCursorKey(p, d[2], last)
      BY <1>5, <2>4
    <3> QED
      BY <1>2, <1>6, <2>4, <3>1, CursorWithin
  <2> QED
    BY <1>7, <2>1, <2>2, <2>3, <2>4 DEF Keys
<1>10. Advances(e, s, f, t, last + 1)
  BY <1>2, <1>9, AdvancesTwice
<1>11. Mirrors(f, t, painted) /\ Advances(e, s, f, t, last + 1)
  BY <1>9, <1>10
<1> QED
  BY <1>11 DEF f, t

\* The client asks for it at the right position.
LEMMA UserByteMirrors ==
    ASSUME sent \in Nat, NEW e, Sound(e, sent), NEW s, NEW ch, NEW blind \in BOOLEAN,
           Mirrors(e, s, Painted), Echoing(s, Painted), AppByte(s, ch).plain
    PROVE  LET f == UserByte(e, ch, blind)
               t == AppByte(s, ch)
           IN  Mirrors(f, t, Painted) /\ Advances(e, s, f, t, sent + 1)
<1> DEFINE g == Told(e, blind)
           painted == Painted
<1>1. /\ Sound(g, sent) /\ g.overlay = e.overlay /\ g.cursors = e.cursors
      /\ g.input_state = e.input_state /\ g.panicked = e.panicked /\ g.last_size = e.last_size
  BY ToldSound
<1>2. ~e.panicked /\ ByteAt(e) = s.cursor /\ Painted \in Screens
  BY DEF Mirrors, TrueCursor, ByteAt, Echoing
<1>3. UserByte(e, ch, blind) = NewUserByte(g, ch, s.cursor, Painted, sent)
  BY <1>2, UserByteSound
<1> HIDE DEF g, painted
<1>4. Mirrors(g, s, painted)
  <2>1. Mirrors(e, s, painted)
    BY DEF painted
  <2> QED
    BY <1>1, <2>1 DEF Mirrors, TrueCells, TrueCursor
<1>5. LET f == NewUserByte(g, ch, s.cursor, painted, sent)
          t == AppByte(s, ch)
      IN  Mirrors(f, t, painted) /\ Advances(g, s, f, t, sent + 1)
  BY <1>1, <1>4, NewUserByteMirrors DEF painted
<1> DEFINE f == UserByte(e, ch, blind)
           t == AppByte(s, ch)
<1>6. Mirrors(f, t, painted) /\ Advances(g, s, f, t, sent + 1)
  BY <1>3, <1>5 DEF painted
<1> HIDE DEF f, t
<1>7. Advances(e, s, f, t, sent + 1)
  BY <1>1, <1>6 DEF Advances, CellsAdvance, CursorAdvances
<1> QED
  BY <1>6, <1>7 DEF painted, f, t

\* A chunk of plain editing leaves the engine where the application will be.
LEMMA PredictedMirrors ==
    ASSUME sent \in Nat, Sound(engine, sent), Mirrors(engine, Intended, Painted),
           Echoing(Intended, Painted), NEW bytes, NEW n \in Nat,
           Edited(Intended, bytes, n).plain
    PROVE  LET f == Predicted(bytes, n)
               t == Edited(Intended, bytes, n)
           IN  Mirrors(f, t, Painted) /\ Advances(engine, Intended, f, t, sent + 1)
<1> DEFINE s(k) == Edited(Intended, bytes, k)
           f(k) == Predicted(bytes, k)
           G(k) == /\ Mirrors(f(k), s(k), Painted)
                   /\ Advances(engine, Intended, f(k), s(k), sent + 1)
           P == {k \in Nat : k <= n => G(k)}
<1>0. /\ Intended \in Apps /\ Intended.size = Window /\ Intended.echo
      /\ Painted \in Screens /\ Painted.size = Window
  BY DEF Echoing
<1>1. s(0) = Intended /\ \A k \in Nat : s(k + 1) = AppByte(s(k), bytes[k + 1])
  BY EditedUnfolds
<1>2. /\ f(0) = engine
      /\ \A k \in Nat : f(k + 1) = UserByte(f(k), bytes[k + 1], Blind(bytes, k + 1))
  BY PredictedUnfolds
<1>3. \A k \in Nat : Sound(f(k), sent)
  BY <1>0, PredictedSound
<1>4. \A k \in Nat : k <= n => s(k).plain /\ s(k).echo = Intended.echo
  BY <1>0, EditedPlain
<1>5. ASSUME NEW k \in Nat, k <= n PROVE Echoing(s(k), Painted)
  <2>1. Kept(Intended, s(k)) /\ s(k) \in Apps
    BY <1>0, EditedType
  <2>2. s(k).size = Window
    BY <1>0, <2>1 DEF Kept, AppsOf
  <2>3. s(k).echo
    BY <1>0, <1>4, <1>5, Zenon
  <2> QED
    BY <1>0, <2>1, <2>2, <2>3 DEF Echoing
<1> HIDE DEF f, s
<1>6. 0 \in P
  BY <1>1, <1>2, MirrorsStill
<1>7. ASSUME NEW k \in P PROVE k + 1 \in P
  <2> SUFFICES ASSUME k + 1 <= n PROVE G(k + 1)
    OBVIOUS
  <2> DEFINE e == f(k)
             a == s(k)
             ch == bytes[k + 1]
             blind == Blind(bytes, k + 1)
  <2>1. k \in Nat /\ k <= n /\ k + 1 \in Nat
    OBVIOUS
  <2>2. G(k) /\ Sound(e, sent) /\ Echoing(a, Painted)
    BY <1>3, <1>5, <2>1
  <2>3. f(k + 1) = UserByte(e, ch, blind) /\ s(k + 1) = AppByte(a, ch)
    BY <1>1, <1>2, <2>1
  <2>4. blind \in BOOLEAN
    BY DEF Blind
  <2>5. s(k + 1).plain
    BY <1>4, <2>1
  <2>6. Mirrors(e, a, Painted) /\ Advances(engine, Intended, e, a, sent + 1)
    BY <2>2
  <2> HIDE DEF e, a, ch, blind
  <2>7. AppByte(a, ch).plain
    BY <2>3, <2>5, Zenon
  <2>8. /\ Mirrors(UserByte(e, ch, blind), AppByte(a, ch), Painted)
        /\ Advances(e, a, UserByte(e, ch, blind), AppByte(a, ch), sent + 1)
    BY <2>2, <2>4, <2>6, <2>7, UserByteMirrors
  <2>9. Mirrors(f(k + 1), s(k + 1), Painted) /\ Advances(e, a, f(k + 1), s(k + 1), sent + 1)
    BY <2>3, <2>8, Zenon
  <2>10. Advances(engine, Intended, f(k + 1), s(k + 1), sent + 1)
    BY <2>6, <2>9, AdvancesTwice
  <2> QED
    BY <2>9, <2>10
<1> HIDE DEF P
<1>8. P = Nat
  BY <1>6, <1>7, SetInduction DEF P
<1>9. G(n)
  BY <1>8 DEF P
<1> QED
  BY <1>9 DEF f, s

-----------------------------------------------------------------------------
(* Where the application and the predictions may differ *)

\* No input of the frame or of a later one has been predicted for a position.
NotSince(e, at, frame) == at \in DOMAIN e.overlay => e.overlay[at].frame < frame

CursorNotSince(e, frame) == e.cursors # <<>> => Last(e.cursors).frame < frame

\* The input from a frame on changes nothing else than what is predicted for it.
Leaves(e, b, s, frame) ==
    /\ \A at \in Positions(Window) : NotSince(e, at, frame) => b.cells[at] = s.cells[at]
    /\ CursorNotSince(e, frame) => b.cursor = s.cursor

\* What is newly typed is predicted for the newest state.
LEMMA AdvancesLeaves ==
    ASSUME NEW e, NEW f, NEW b, NEW s, NEW t, NEW next \in Nat, NEW frame \in Nat,
           frame <= next, Leaves(e, b, s, frame), Advances(e, s, f, t, next)
    PROVE  Leaves(f, b, t, frame)
<1>1. ASSUME NEW at \in Positions(Window), NotSince(f, at, frame)
      PROVE  b.cells[at] = t.cells[at]
  <2>1. \/ at \in DOMAIN f.overlay /\ f.overlay[at].frame = next
        \/ /\ t.cells[at] = s.cells[at]
           /\ at \in DOMAIN f.overlay <=> at \in DOMAIN e.overlay
           /\ at \in DOMAIN e.overlay => f.overlay[at].frame = e.overlay[at].frame
    BY Zenon DEF Advances, CellsAdvance
  <2>2. t.cells[at] = s.cells[at] /\ NotSince(e, at, frame)
    BY <1>1, <2>1 DEF NotSince
  <2> QED
    BY <2>2 DEF Leaves
<1>2. ASSUME CursorNotSince(f, frame)
      PROVE  b.cursor = t.cursor
  <2>1. t.cursor = s.cursor /\ CursorNotSince(e, frame)
    BY <1>2 DEF Advances, CursorAdvances, CursorNotSince
  <2> QED
    BY <2>1 DEF Leaves
<1> QED
  BY <1>1, <1>2 DEF Leaves

\* Without input on its way nothing differs.
LEMMA LeavesStill ==
    ASSUME NEW e, NEW s, NEW frame
    PROVE  Leaves(e, s, s, frame)
  BY DEF Leaves

\* An answer leaves out only what it is the answer to.
Forgets(e, f, ack) ==
    /\ DOMAIN f.overlay \subseteq DOMAIN e.overlay
    /\ \A at \in DOMAIN f.overlay : f.overlay[at] = e.overlay[at]
    /\ \A at \in DOMAIN e.overlay \ DOMAIN f.overlay : e.overlay[at].frame <= ack
    /\ f.cursors # <<>> => e.cursors # <<>> /\ Last(f.cursors) = Last(e.cursors)
    /\ f.cursors = <<>> /\ e.cursors # <<>> => Last(e.cursors).frame <= ack

\* Predictions for input that was answered are not missed by later input.
LEMMA ForgetsLeaves ==
    ASSUME NEW last, NEW e, Sound(e, last), NEW f, NEW b, NEW s, NEW ack \in Nat,
           NEW frame \in Nat, ack < frame, Forgets(e, f, ack), Leaves(e, b, s, frame)
    PROVE  Leaves(f, b, s, frame)
<1>1. e.overlay \in Overlays /\ e.cursors \in Seq(Cursors)
  BY EngineFields DEF Sound
<1>2. \A at \in DOMAIN e.overlay : e.overlay[at].frame \in Nat
  BY <1>1, OverlayFacts
<1>3. e.cursors # <<>> => Last(e.cursors).frame \in Nat
  <2> SUFFICES ASSUME e.cursors # <<>> PROVE Last(e.cursors).frame \in Nat
    OBVIOUS
  <2>1. Len(e.cursors) \in DOMAIN e.cursors
    BY <1>1
  <2> QED
    BY <1>1, <2>1, CursorFields DEF Last
<1>4. \A at : NotSince(f, at, frame) => NotSince(e, at, frame)
  BY <1>2 DEF Forgets, NotSince
<1>5. CursorNotSince(f, frame) => CursorNotSince(e, frame)
  BY <1>3 DEF Forgets, CursorNotSince
<1> QED
  BY <1>4, <1>5 DEF Leaves

\* Where an answered prediction is dropped the frame shows what it foretold.
LEMMA ForgetsMirrors ==
    ASSUME NEW last, NEW e, Sound(e, last), NEW f, NEW s, NEW painted, NEW screen,
           NEW ack \in Nat, Mirrors(e, s, painted), Forgets(e, f, ack),
           Leaves(e, screen, s, ack + 1),
           f.panicked = e.panicked, f.input_state = e.input_state, f.last_size = e.last_size
    PROVE  Mirrors(f, s, screen)
<1>1. e.overlay \in Overlays /\ e.cursors \in Seq(Cursors)
  BY EngineFields DEF Sound
<1>2. \A at \in DOMAIN e.overlay : e.overlay[at].frame \in Nat
  BY <1>1, OverlayFacts
<1>3. e.cursors # <<>> => Last(e.cursors).frame \in Nat
  <2> SUFFICES ASSUME e.cursors # <<>> PROVE Last(e.cursors).frame \in Nat
    OBVIOUS
  <2>1. Len(e.cursors) \in DOMAIN e.cursors
    BY <1>1
  <2> QED
    BY <1>1, <2>1, CursorFields DEF Last
<1>4. TrueCells(e, s, painted) /\ TrueCursor(e, s, painted)
  BY DEF Mirrors
<1>5. ASSUME NEW at \in Positions(Window), at \notin DOMAIN f.overlay
      PROVE  screen.cells[at] = s.cells[at]
  <2>1. NotSince(e, at, ack + 1)
    BY <1>2, <1>5 DEF NotSince, Forgets
  <2> QED
    BY <2>1 DEF Leaves
<1>6. TrueCells(f, s, screen)
  <2>1. DOMAIN f.overlay \subseteq Positions(Window)
    BY <1>4 DEF Forgets, TrueCells
  <2>2. \A at \in Positions(Window) :
           at \in DOMAIN f.overlay => f.overlay[at].replacement \in {Unknown, s.cells[at]}
    BY <1>4 DEF Forgets, TrueCells
  <2> QED
    BY <1>5, <2>1, <2>2 DEF TrueCells
<1>7. TrueCursor(f, s, screen)
  <2>1. f.cursors # <<>> => Last(f.cursors).at = s.cursor
    BY <1>4 DEF Forgets, TrueCursor
  <2>2. f.cursors = <<>> => CursorNotSince(e, ack + 1)
    BY <1>3 DEF Forgets, CursorNotSince
  <2> QED
    BY <2>1, <2>2 DEF TrueCursor, Leaves
<1>8. f.last_size = <<0, 0>> => DOMAIN f.overlay = {} /\ f.cursors = <<>>
  BY DEF Mirrors, Forgets
<1> QED
  BY <1>6, <1>7, <1>8 DEF Mirrors

\* Where nothing unanswered has been predicted, the server's screen is what was
\* predicted: nothing is wrong.
LEMMA NothingWrong ==
    ASSUME NEW last \in Nat, NEW e, Sound(e, last), NEW ack \in Nat, NEW s, NEW painted,
           NEW screen, Mirrors(e, s, painted), Leaves(e, screen, s, ack + 1),
           screen.cells \in [Positions(Window) -> Printable], s.cursor \in Positions(Window)
    PROVE  LET h == Heard(e, ack)
           IN  /\ ~Wrong(h, screen)
               /\ \A at \in DOMAIN e.overlay :
                     Verdict(h, screen, at) = "Pending" <=> e.overlay[at].frame > ack
               /\ e.cursors # <<>> =>
                     (CursorValidity(h, Last(e.cursors), screen.cursor) = "Pending"
                         <=> Last(e.cursors).frame > ack)
<1> DEFINE h == Heard(e, ack)
<1>1. /\ h \in Engines /\ h.late_acked = ack /\ h.overlay = e.overlay /\ h.cursors = e.cursors
      /\ h.last_size = e.last_size
  BY HeardIs
<1>2. e.overlay \in Overlays /\ e.cursors \in Seq(Cursors)
  BY EngineFields DEF Sound
<1>3. \A at \in DOMAIN e.overlay : e.overlay[at].frame \in Nat
  BY <1>2, OverlayFacts
<1>4. e.cursors # <<>> => Last(e.cursors).frame \in Nat
  <2> SUFFICES ASSUME e.cursors # <<>> PROVE Last(e.cursors).frame \in Nat
    OBVIOUS
  <2>1. Len(e.cursors) \in DOMAIN e.cursors
    BY <1>2
  <2> QED
    BY <1>2, <2>1, CursorFields DEF Last
<1>5. Window \in Sizes /\ Window \in Nat \X Nat /\ Window[1] > 0
  BY PredictionAssumption, SizeFacts
<1>6. TrueCells(e, s, painted) /\ TrueCursor(e, s, painted)
  BY DEF Mirrors
<1> HIDE DEF h
<1>7. ASSUME NEW at \in DOMAIN e.overlay
      PROVE  /\ Verdict(h, screen, at) # "IncorrectOrExpired"
             /\ Verdict(h, screen, at) = "Pending" <=> e.overlay[at].frame > ack
  <2>1. h.last_size = Window
    BY <1>1 DEF Mirrors
  <2>2. at \in Positions(Window) /\ at[2] \in Nat /\ at[2] < Window[2]
    BY <1>5, <1>6, PositionFacts DEF TrueCells
  <2>3. ~(h.last_size[1] = 0 \/ at[2] >= h.last_size[2])
    BY <1>5, <2>1, <2>2
  <2> DEFINE cell == e.overlay[at]
             actual == CellAt(screen, at)
  <2>4. Verdict(h, screen, at)
           = IF ~Answered(h, cell.frame) THEN "Pending"
             ELSE IF cell.replacement = Unknown THEN "CorrectNoCredit"
             ELSE IF actual # cell.replacement THEN "IncorrectOrExpired"
             ELSE IF actual = Blank \/ actual \in cell.original THEN "CorrectNoCredit"
             ELSE "Correct"
    BY <1>1, <2>3, Zenon DEF Verdict, CellValidity
  <2>5. actual = screen.cells[at]
    BY <2>2 DEF CellAt
  <2>6. cell.replacement \in {Unknown, s.cells[at]}
    BY <1>6, <2>2 DEF TrueCells
  <2>7. cell.frame \in Nat /\ (Answered(h, cell.frame) <=> ~(cell.frame > ack))
    BY <1>1, <1>3 DEF Answered
  <2>8. Answered(h, cell.frame) => actual \in {cell.replacement, s.cells[at]}
                                   /\ (cell.replacement = Unknown \/ actual = cell.replacement)
    <3> SUFFICES ASSUME Answered(h, cell.frame)
                 PROVE  actual = s.cells[at]
      BY <2>6
    <3>1. NotSince(e, at, ack + 1)
      BY <2>7 DEF NotSince
    <3> QED
      BY <2>2, <2>5, <3>1 DEF Leaves
  <2> HIDE DEF cell, actual
  <2>9. Verdict(h, screen, at) # "IncorrectOrExpired"
    BY <2>4, <2>8
  <2>10. Verdict(h, screen, at) = "Pending" <=> cell.frame > ack
    BY <2>4, <2>7
  <2> QED
    BY <2>9, <2>10 DEF cell
<1>8. ASSUME e.cursors # <<>>
      PROVE  /\ CursorValidity(h, Last(e.cursors), screen.cursor) # "IncorrectOrExpired"
             /\ CursorValidity(h, Last(e.cursors), screen.cursor) = "Pending"
                   <=> Last(e.cursors).frame > ack
  <2> DEFINE c == Last(e.cursors)
  <2>1. h.last_size = Window /\ c.at = s.cursor /\ c.frame \in Nat
    BY <1>1, <1>4, <1>6, <1>8 DEF Mirrors, TrueCursor
  <2> HIDE DEF c
  <2>2. CursorValidity(h, c, screen.cursor)
           = IF ~Answered(h, c.frame) THEN "Pending"
             ELSE IF screen.cursor = c.at THEN "Correct" ELSE "IncorrectOrExpired"
    BY <2>1 DEF CursorValidity
  <2>3. Answered(h, c.frame) <=> ~(c.frame > ack)
    BY <1>1, <2>1 DEF Answered
  <2>4. Answered(h, c.frame) => screen.cursor = c.at
    <3> SUFFICES ASSUME Answered(h, c.frame) PROVE screen.cursor = c.at
      OBVIOUS
    <3>1. CursorNotSince(e, ack + 1)
      BY <2>1, <2>3 DEF CursorNotSince, c
    <3> QED
      BY <2>1, <3>1 DEF Leaves
  <2>5. /\ CursorValidity(h, c, screen.cursor) # "IncorrectOrExpired"
        /\ CursorValidity(h, c, screen.cursor) = "Pending" <=> c.frame > ack
    BY <2>2, <2>3, <2>4
  <2> QED
    BY <2>5 DEF c
<1>9. ~Wrong(h, screen)
  BY <1>1, <1>7, <1>8 DEF Wrong, Judged
<1> QED
  BY <1>7, <1>8, <1>9 DEF h

\* So an answer only drops what it is the answer to.
LEMMA ValidatedForgets ==
    ASSUME NEW last \in Nat, NEW e, Sound(e, last), NEW ack \in Nat, e.late_acked <= ack,
           ack <= last, NEW s, NEW painted, NEW screen,
           Mirrors(e, s, painted), Leaves(e, screen, s, ack + 1),
           screen.cells \in [Positions(Window) -> Printable], s.cursor \in Positions(Window)
    PROVE  LET f == ValidatePredictions(Heard(e, ack), screen)
           IN  /\ Forgets(e, f, ack) /\ f.panicked = e.panicked
               /\ f.input_state = e.input_state /\ f.last_size = e.last_size
<1> DEFINE h == Heard(e, ack)
           f == ValidatePredictions(h, screen)
           pending == Judged(h, screen, "Pending")
<1>1. /\ h \in Engines /\ h.late_acked = ack /\ h.overlay = e.overlay /\ h.cursors = e.cursors
  BY HeardIs
<1>2. /\ ~Wrong(h, screen)
      /\ \A at \in DOMAIN e.overlay :
            Verdict(h, screen, at) = "Pending" <=> e.overlay[at].frame > ack
      /\ e.cursors # <<>> =>
            (CursorValidity(h, Last(e.cursors), screen.cursor) = "Pending"
                <=> Last(e.cursors).frame > ack)
  BY NothingWrong
<1>3. f = Validated(h, screen)
  BY <1>2 DEF ValidatePredictions
<1>4. /\ Survives(e, Validated(h, screen), last, ack)
      /\ Validated(h, screen).last_size = e.last_size
      /\ Validated(h, screen).overlay = [at \in pending |-> e.overlay[at]]
      /\ Validated(h, screen).cursors = Awaited(h, screen, Len(e.cursors))
  BY ValidatedSound
<1>5. /\ e.overlay \in Overlays /\ e.cursors \in Seq(Cursors)
      /\ \A i, j \in DOMAIN e.cursors : i <= j => e.cursors[i].frame <= e.cursors[j].frame
  BY EngineFields DEF Sound, SoundCursors
<1>6. /\ \A at \in DOMAIN e.overlay : e.overlay[at].frame \in Nat
      /\ \A i \in DOMAIN e.cursors : e.cursors[i].frame \in Nat
  BY <1>5, OverlayFacts, CursorFields
<1>7. pending = {at \in DOMAIN e.overlay : Verdict(h, screen, at) = "Pending"}
  BY <1>1 DEF Judged
<1> HIDE DEF h, f, pending
<1>8. f.overlay = [at \in pending |-> e.overlay[at]] /\ DOMAIN f.overlay = pending
  BY <1>3, <1>4
<1>9. /\ DOMAIN f.overlay \subseteq DOMAIN e.overlay
      /\ \A at \in DOMAIN f.overlay : f.overlay[at] = e.overlay[at]
      /\ \A at \in DOMAIN e.overlay \ DOMAIN f.overlay : e.overlay[at].frame <= ack
  BY <1>2, <1>6, <1>7, <1>8
<1> DEFINE c == Awaited(h, screen, Len(h.cursors))
<1>10. f.cursors = c
  BY <1>1, <1>3, <1>4
<1>11. /\ \A i \in DOMAIN c : \E j \in DOMAIN h.cursors :
             /\ c[i] = h.cursors[j]
             /\ CursorValidity(h, h.cursors[j], screen.cursor) = "Pending"
       /\ h.cursors # <<>> /\ CursorValidity(h, Last(h.cursors), screen.cursor) = "Pending"
             => c # <<>> /\ Last(c) = Last(h.cursors)
       /\ c \in Seq(Cursors)
  BY <1>1, <1>5, AwaitedFacts
<1>12. \A i \in DOMAIN h.cursors :
          CursorValidity(h, h.cursors[i], screen.cursor) = "Pending" =>
             h.cursors[i].frame > h.late_acked
  BY <1>1, PendingFacts
<1> HIDE DEF c
<1>13. ASSUME c # <<>>
       PROVE  e.cursors # <<>> /\ Last(e.cursors).frame > ack
  <2>1. 1 \in DOMAIN c
    BY <1>11, <1>13
  <2>2. PICK j \in DOMAIN e.cursors : e.cursors[j].frame > ack
    BY <1>1, <1>11, <1>12, <2>1
  <2>3. Len(e.cursors) \in DOMAIN e.cursors /\ j <= Len(e.cursors)
    BY <1>5
  <2>4. e.cursors[j].frame <= e.cursors[Len(e.cursors)].frame
    BY <1>5, <2>3
  <2>5. e.cursors # <<>>
    BY <2>3
  <2> QED
    BY <1>6, <2>2, <2>3, <2>4, <2>5 DEF Last
<1>14. c # <<>> => e.cursors # <<>> /\ Last(c) = Last(e.cursors)
  BY <1>1, <1>2, <1>11, <1>13
<1>15. c = <<>> /\ e.cursors # <<>> => Last(e.cursors).frame <= ack
  <2> SUFFICES ASSUME c = <<>>, e.cursors # <<>> PROVE Last(e.cursors).frame <= ack
    OBVIOUS
  <2>1. ~(Last(e.cursors).frame > ack)
    BY <1>1, <1>2, <1>11
  <2>2. Last(e.cursors).frame \in Nat
    <3>1. Len(e.cursors) \in DOMAIN e.cursors
      BY <1>5
    <3> QED
      BY <1>6, <3>1 DEF Last
  <2> QED
    BY <2>1, <2>2
<1>16. Forgets(e, f, ack)
  BY <1>9, <1>10, <1>14, <1>15 DEF Forgets
<1>17. /\ f.panicked = e.panicked /\ f.input_state = e.input_state
       /\ f.last_size = e.last_size
  BY <1>3, <1>4 DEF Survives
<1> QED
  BY <1>16, <1>17 DEF f, h

-----------------------------------------------------------------------------
(* Predictions come true *)

\* Wherever input that is on its way changes the screen there is a prediction for
\* it, or for later input.
Footprint ==
    \A i \in 1 .. Len(queue) :
        Leaves(engine, Taking(server, queue, i - 1), Intended, queue[i].frame)

\* The inductive invariant.
TrueInv ==
    /\ PlainOK(server)
    /\ Intended.plain =>
          remote.size = Window /\ Mirrors(engine, Intended, remote) /\ Footprint

Inv == TypeInv /\ QueueInv /\ HiddenInv /\ TrueInv

\* If all input is plain, so is what the server has taken of it.
LEMMA IntendedPlain ==
    ASSUME TypeInv, PlainOK(server)
    PROVE  /\ PlainOK(Intended)
           /\ Intended.plain => server.plain /\ server.size = Window
           /\ \A i \in 1 .. Len(queue) : Taking(server, queue, i - 1) \in Apps
<1>1. server \in Apps /\ queue \in Seq(Items) /\ Len(queue) \in Nat
  BY DEF TypeInv
<1>2. \A n \in 0 .. Len(queue) :
         LET t == Taking(server, queue, n)
         IN  t \in Apps /\ (t.plain => server.plain) /\ PlainOK(t)
  BY <1>1, TakingType
<1>3. Len(queue) \in 0 .. Len(queue) /\ \A i \in 1 .. Len(queue) : i - 1 \in 0 .. Len(queue)
  BY <1>1
<1>4. PlainOK(Intended) /\ (Intended.plain => server.plain)
  BY <1>2, <1>3 DEF Intended
<1> QED
  BY <1>2, <1>3, <1>4 DEF PlainOK

\* What the server has answered is what was predicted.
LEMMA ServerLeaves ==
    ASSUME TypeInv, QueueInv, Footprint
    PROVE  Leaves(engine, server, Intended, echoAck + 1)
<1>1. /\ Sound(engine, sent) /\ queue \in Seq(Items) /\ Len(queue) \in Nat
      /\ taken \in SUBSET (0 .. sent) /\ sent \in Nat /\ echoAck \in taken
  BY DEF TypeInv
<1>2. Taking(server, queue, 0) = server
  BY TakingUnfolds
<1>3. CASE Len(queue) = 0
  <2>1. Intended = server
    BY <1>2, <1>3 DEF Intended
  <2> QED
    BY <2>1, LeavesStill
<1>4. CASE Len(queue) # 0
  <2>1. 1 \in 1 .. Len(queue) /\ 1 - 1 = 0
    BY <1>1, <1>4
  <2>2. Leaves(engine, server, Intended, queue[1].frame)
    BY <1>2, <2>1 DEF Footprint
  <2>3. echoAck < queue[1].frame
    BY <1>1, <2>1 DEF QueueInv
  <2>4. queue[1].frame \in Nat /\ echoAck \in Nat
    BY <1>1, <2>1 DEF Items
  <2>5. engine.overlay \in Overlays /\ engine.cursors \in Seq(Cursors)
    BY <1>1, EngineFields DEF Sound
  <2>6. \A at \in DOMAIN engine.overlay : engine.overlay[at].frame \in Nat
    BY <2>5, OverlayFacts
  <2>7. engine.cursors # <<>> => Last(engine.cursors).frame \in Nat
    <3> SUFFICES ASSUME engine.cursors # <<>> PROVE Last(engine.cursors).frame \in Nat
      OBVIOUS
    <3>1. Len(engine.cursors) \in DOMAIN engine.cursors
      BY <2>5
    <3> QED
      BY <2>5, <3>1, CursorFields DEF Last
  <2>8. \A at : NotSince(engine, at, echoAck + 1) => NotSince(engine, at, queue[1].frame)
    BY <2>3, <2>4, <2>6 DEF NotSince
  <2>9. CursorNotSince(engine, echoAck + 1) => CursorNotSince(engine, queue[1].frame)
    BY <2>3, <2>4, <2>7 DEF CursorNotSince
  <2> QED
    BY <2>2, <2>8, <2>9 DEF Leaves
<1> QED
  BY <1>3, <1>4

\* The painted screen is the one received wherever nothing is predicted.
LEMMA PaintedMirrors ==
    ASSUME engine \in Engines, remote \in Screens, remote.size = Window, NEW s,
           Mirrors(engine, s, remote)
    PROVE  Mirrors(engine, s, Painted)
<1>1. /\ \A at \in DOMAIN remote.cells \ DOMAIN engine.overlay :
            Painted.cells[at] = remote.cells[at]
      /\ engine.cursors = <<>> => Painted.cursor = remote.cursor
  BY PaintedType
<1>2. DOMAIN remote.cells = Positions(Window)
  BY DEF Screens, ScreensOf
<1> DEFINE painted == Painted
<1> HIDE DEF painted
<1>3. /\ \A at \in Positions(Window) \ DOMAIN engine.overlay :
            painted.cells[at] = remote.cells[at]
      /\ engine.cursors = <<>> => painted.cursor = remote.cursor
  BY <1>1, <1>2 DEF painted
<1>4. Mirrors(engine, s, painted)
  BY <1>3 DEF Mirrors, TrueCells, TrueCursor
<1> QED
  BY <1>4 DEF painted

\* Where nothing is predicted the painted screen is the received one.
LEMMA UnpaintedMirrors ==
    ASSUME engine \in Engines, remote \in Screens, remote.size = Window, NEW s, NEW f, NEW t,
           NEW frame, Mirrors(f, t, Painted), Advances(engine, s, f, t, frame)
    PROVE  Mirrors(f, t, remote)
<1>1. /\ \A at \in DOMAIN remote.cells \ DOMAIN engine.overlay :
            Painted.cells[at] = remote.cells[at]
      /\ engine.cursors = <<>> => Painted.cursor = remote.cursor
  BY PaintedType
<1>2. DOMAIN remote.cells = Positions(Window)
  BY DEF Screens, ScreensOf
<1> DEFINE painted == Painted
<1> HIDE DEF painted
<1>3. /\ \A at \in Positions(Window) \ DOMAIN engine.overlay :
            painted.cells[at] = remote.cells[at]
      /\ engine.cursors = <<>> => painted.cursor = remote.cursor
      /\ Mirrors(f, t, painted)
  BY <1>1, <1>2 DEF painted
<1>4. \A at \in Positions(Window) : at \notin DOMAIN f.overlay => at \notin DOMAIN engine.overlay
  BY DEF Advances, CellsAdvance
<1>5. f.cursors = <<>> => engine.cursors = <<>>
  BY DEF Advances, CursorAdvances
<1>6. TrueCells(f, t, painted) /\ TrueCursor(f, t, painted)
  BY <1>3 DEF Mirrors
<1>7. TrueCells(f, t, remote)
  BY <1>3, <1>4, <1>6 DEF TrueCells
<1>8. TrueCursor(f, t, remote)
  BY <1>3, <1>5, <1>6 DEF TrueCursor
<1> QED
  BY <1>3, <1>7, <1>8 DEF Mirrors

\* Typing keeps predictions true,
LEMMA TypeChunkTrue ==
    ASSUME TypeInv, QueueInv, TrueInv, NEW bytes \in Chunks, TypeChunk(bytes)
    PROVE  TrueInv'
<1> DEFINE item == Item(bytes, <<>>)
           n == Len(bytes)
           f == Predicted(bytes, n)
           t == Edited(Intended, bytes, n)
<1>1. /\ sent \in Nat /\ remote \in Screens /\ queue \in Seq(Items) /\ Len(queue) \in Nat
      /\ Sound(engine, sent) /\ engine \in Engines /\ Intended \in Apps
  BY IntendedType DEF TypeInv, Sound
<1>2. /\ bytes \in Seq(STRING) /\ bytes # <<>> /\ n \in Nat
  BY PredictionAssumption
<1>3. /\ item \in Items /\ item.bytes = bytes /\ item.frame = sent + 1
      /\ IsPaste(item) <=> n > PASTE_THRESHOLD
  BY <1>1, ItemType DEF Item, IsPaste
<1>4. /\ engine' = IF n > PASTE_THRESHOLD THEN Reset(engine) ELSE f
      /\ queue' = Append(queue, item) /\ remote' = remote /\ server' = server
  BY DEF TypeChunk
<1>5. PlainOK(server)'
  BY <1>4 DEF TrueInv, PlainOK
<1> SUFFICES ASSUME Intended'.plain
             PROVE  remote'.size = Window /\ Mirrors(engine', Intended', remote') /\ Footprint'
  BY <1>5 DEF TrueInv
<1> HIDE DEF item, n, f, t
<1>6. /\ Intended' = AppTakes(Intended, item)
      /\ Len(queue') = Len(queue) + 1 /\ queue'[Len(queue) + 1] = item
      /\ \A i \in 1 .. Len(queue) : queue'[i] = queue[i]
      /\ \A k \in 0 .. Len(queue) : Taking(server', queue', k) = Taking(server, queue, k)
  BY <1>3, <1>4, Added
<1>7. AppTakes(Intended, item).plain
  BY <1>6, Zenon
<1>8. ~IsPaste(item) /\ Intended.plain
  BY <1>1, <1>3, <1>7, AppTakesType
<1>9. Intended' = t
  <2>1. AppTakes(Intended, item) = Edited(Intended, item.bytes, Len(item.bytes))
    BY <1>1, <1>2, <1>3, <1>8, AppTakesType
  <2> QED
    BY <1>3, <1>6, <2>1 DEF t, n
<1>10. engine' = f
  BY <1>3, <1>4, <1>8
<1>11. remote.size = Window /\ Mirrors(engine, Intended, remote) /\ Footprint
  BY <1>8 DEF TrueInv
<1>12. Mirrors(engine, Intended, Painted)
  BY <1>1, <1>11, PaintedMirrors
<1>13. Echoing(Intended, Painted)
  <2>1. PlainOK(Intended)
    BY IntendedPlain DEF TrueInv
  <2>2. Painted \in Screens /\ Painted.size = Window
    BY <1>1, <1>11, PaintedType
  <2> QED
    BY <1>1, <1>8, <2>1, <2>2 DEF Echoing, PlainOK
<1>14. t.plain
  BY <1>9, Zenon
<1>15. Mirrors(f, t, Painted) /\ Advances(engine, Intended, f, t, sent + 1)
  BY <1>1, <1>2, <1>12, <1>13, <1>14, PredictedMirrors DEF f, t
<1>16. Mirrors(f, t, remote)
  BY <1>1, <1>11, <1>15, UnpaintedMirrors
<1>17. ASSUME NEW i \in 1 .. Len(queue) + 1
       PROVE  Leaves(f, Taking(server', queue', i - 1), t, queue'[i].frame)
  <2> DEFINE b == Taking(server, queue, i - 1)
             frame == queue'[i].frame
  <2>1. Taking(server', queue', i - 1) = b
    <3>1. i - 1 \in 0 .. Len(queue)
      BY <1>1
    <3> QED
      BY <1>6, <3>1
  <2>2. frame \in Nat /\ frame <= sent + 1 /\ Leaves(engine, b, Intended, frame)
    <3>1. CASE i \in 1 .. Len(queue)
      <4>1. frame = queue[i].frame /\ queue[i].frame \in Nat
        BY <1>1, <1>6, <3>1 DEF Items
      <4>2. Leaves(engine, b, Intended, queue[i].frame)
        BY <1>11, <3>1 DEF Footprint
      <4> HIDE DEF b, frame
      <4> QED
        BY <3>1, <4>1, <4>2 DEF QueueInv
    <3>2. CASE i = Len(queue) + 1
      <4>1. frame = sent + 1 /\ b = Intended
        <5>1. i - 1 = Len(queue)
          BY <1>1, <3>2
        <5> QED
          BY <1>3, <1>6, <3>2, <5>1 DEF Intended
      <4> HIDE DEF b, frame
      <4> QED
        BY <1>1, <4>1, LeavesStill
    <3>3. i \in 1 .. Len(queue) \/ i = Len(queue) + 1
      BY <1>1
    <3> QED
      BY <3>1, <3>2, <3>3
  <2> HIDE DEF b, frame
  <2>3. sent + 1 \in Nat
    BY <1>1
  <2> DEFINE next == sent + 1
  <2> HIDE DEF next
  <2>4. Leaves(f, b, t, frame)
    BY <1>15, <2>2, <2>3, AdvancesLeaves DEF next
  <2> QED
    BY <2>1, <2>4 DEF frame
<1>18. Footprint'
  BY <1>6, <1>9, <1>10, <1>17 DEF Footprint
<1> QED
  BY <1>4, <1>9, <1>10, <1>11, <1>16, <1>18

\* a frame does, however late: it lacks only what predictions stand for,
LEMMA ReceiveTrue ==
    ASSUME TypeInv, QueueInv, TrueInv, Receive
    PROVE  TrueInv'
<1> DEFINE f == ValidatePredictions(Heard(engine, echoAck), remote')
<1>1. /\ queue' = queue /\ sent' = sent /\ server' = server
      /\ remote' = [size |-> server.size, cells |-> server.cells, cursor |-> server.cursor]
      /\ engine' = f
  BY DEF Receive, Heard
<1>2. /\ sent \in Nat /\ server \in Apps /\ queue \in Seq(Items) /\ Sound(engine, sent)
      /\ taken \in SUBSET (0 .. sent) /\ echoAck \in taken /\ engine.late_acked <= echoAck
      /\ Intended \in Apps
  BY IntendedType DEF TypeInv
<1>3. echoAck \in Nat /\ echoAck <= sent
  BY <1>2
<1>4. PlainOK(server)' /\ Intended' = Intended
  BY <1>1 DEF TrueInv, PlainOK, Intended
<1> SUFFICES ASSUME Intended.plain
             PROVE  remote'.size = Window /\ Mirrors(f, Intended, remote') /\ Footprint'
  BY <1>1, <1>4 DEF TrueInv
<1> HIDE DEF f
<1>5. Mirrors(engine, Intended, remote) /\ Footprint
  BY DEF TrueInv
<1>6. server.size = Window /\ PlainOK(Intended)
  BY IntendedPlain DEF TrueInv
<1>7. remote'.size = Window /\ remote'.cells = server.cells /\ remote'.cursor = server.cursor
  BY <1>1, <1>6
<1>8. remote'.cells \in [Positions(Window) -> Printable] /\ Intended.cursor \in Positions(Window)
  BY <1>2, <1>6, <1>7, AppFields DEF PlainOK
<1>9. Leaves(engine, remote', Intended, echoAck + 1)
  <2>1. Leaves(engine, server, Intended, echoAck + 1)
    BY <1>5, ServerLeaves
  <2> QED
    BY <1>7, <2>1 DEF Leaves
<1> DEFINE screen == remote'
<1>10. /\ screen.cells \in [Positions(Window) -> Printable]
       /\ Leaves(engine, screen, Intended, echoAck + 1)
       /\ f = ValidatePredictions(Heard(engine, echoAck), screen)
  BY <1>8, <1>9 DEF f
<1> HIDE DEF screen
<1>11. /\ Forgets(engine, f, echoAck) /\ f.panicked = engine.panicked
       /\ f.input_state = engine.input_state /\ f.last_size = engine.last_size
  <2> DEFINE s == Intended
  <2> HIDE DEF s
  <2>1. /\ sent \in Nat /\ Sound(engine, sent) /\ echoAck \in Nat
        /\ engine.late_acked <= echoAck /\ echoAck <= sent
        /\ Mirrors(engine, s, remote) /\ Leaves(engine, screen, s, echoAck + 1)
        /\ screen.cells \in [Positions(Window) -> Printable] /\ s.cursor \in Positions(Window)
    BY <1>2, <1>3, <1>5, <1>8, <1>10 DEF s
  <2> DEFINE g == ValidatePredictions(Heard(engine, echoAck), screen)
  <2>2. /\ Forgets(engine, g, echoAck) /\ g.panicked = engine.panicked
        /\ g.input_state = engine.input_state /\ g.last_size = engine.last_size
    BY <2>1, ValidatedForgets
  <2> QED
    BY <1>10, <2>2
<1>12. Mirrors(f, Intended, screen)
  BY <1>2, <1>3, <1>5, <1>10, <1>11, ForgetsMirrors
<1>13. ASSUME NEW i \in 1 .. Len(queue)
       PROVE  Leaves(f, Taking(server, queue, i - 1), Intended, queue[i].frame)
  <2>1. queue[i].frame \in Nat
    BY <1>2 DEF Items
  <2>2. echoAck < queue[i].frame
    BY <1>2 DEF QueueInv
  <2>3. Leaves(engine, Taking(server, queue, i - 1), Intended, queue[i].frame)
    BY <1>5 DEF Footprint
  <2> QED
    BY <1>2, <1>3, <1>11, <2>1, <2>2, <2>3, ForgetsLeaves
<1>14. Footprint'
  BY <1>1, <1>4, <1>13 DEF Footprint
<1> QED
  BY <1>7, <1>12, <1>14 DEF screen

\* the server's taking of input does,
LEMMA ServerTakesTrue ==
    ASSUME TypeInv, QueueInv, TrueInv, NEW num \in 1 .. sent, ServerTakes(num)
    PROVE  TrueInv'
<1>1. /\ Intended' = Intended /\ server' \in Apps /\ queue' \in Seq(Items)
  BY Taken
<1>2. PICK k \in 0 .. Len(queue) :
         /\ Len(queue') = Len(queue) - k
         /\ \A j \in 1 .. Len(queue') : queue'[j] = queue[k + j]
         /\ \A n \in 0 .. Len(queue') : Taking(server', queue', n) = Taking(server, queue, k + n)
  BY Taken
<1>3. engine' = engine /\ remote' = remote
  BY DEF ServerTakes
<1>4. server \in Apps /\ queue \in Seq(Items) /\ Len(queue) \in Nat /\ Len(queue') \in Nat
  BY <1>1 DEF TypeInv
<1>5. PlainOK(server)'
  <2>1. Taking(server', queue', 0) = server'
    BY TakingUnfolds
  <2>2. server' = Taking(server, queue, k)
    <3>1. 0 \in 0 .. Len(queue') /\ k + 0 = k
      BY <1>4
    <3> QED
      BY <1>2, <2>1, <3>1
  <2>3. PlainOK(Taking(server, queue, k))
    BY <1>4, TakingType DEF TrueInv
  <2>4. PlainOK(server')
    BY <2>2, <2>3
  <2> QED
    BY <2>4 DEF PlainOK
<1>6. ASSUME Footprint PROVE Footprint'
  <2>1. ASSUME NEW i \in 1 .. Len(queue')
        PROVE  Leaves(engine, Taking(server', queue', i - 1), Intended, queue'[i].frame)
    <3>1. /\ i - 1 \in 0 .. Len(queue') /\ k + i \in 1 .. Len(queue)
          /\ k + (i - 1) = (k + i) - 1
      BY <1>2, <1>4
    <3>2. Taking(server', queue', i - 1) = Taking(server, queue, (k + i) - 1)
      BY <1>2, <3>1
    <3>3. queue'[i] = queue[k + i]
      BY <1>2
    <3>4. Leaves(engine, Taking(server, queue, (k + i) - 1), Intended, queue[k + i].frame)
      BY <1>6, <3>1 DEF Footprint
    <3> QED
      BY <3>2, <3>3, <3>4
  <2> QED
    BY <1>1, <1>3, <2>1 DEF Footprint
<1> QED
  BY <1>1, <1>3, <1>5, <1>6 DEF TrueInv

\* a resize does: it ends the plain history,
LEMMA ResizeWindowTrue ==
    ASSUME TypeInv, TrueInv, NEW size \in Sizes, ResizeWindow(size)
    PROVE  TrueInv'
<1> DEFINE item == Item(<<>>, size)
<1>1. queue' = Append(queue, item) /\ server' = server
  BY DEF ResizeWindow
<1>2. item \in Items /\ item.bytes = <<>>
  BY ItemType DEF Item, TypeInv
<1> HIDE DEF item
<1>3. Intended' = AppTakes(Intended, item) /\ Intended \in Apps
  BY <1>1, <1>2, Added, IntendedType
<1>4. ~AppTakes(Intended, item).plain
  BY <1>2, <1>3, AppTakesType
<1>5. ~Intended'.plain
  BY <1>3, <1>4, Zenon
<1>6. PlainOK(server)'
  BY <1>1 DEF TrueInv, PlainOK
<1> QED
  BY <1>5, <1>6 DEF TrueInv

\* and so does whatever leaves engine, screen and input alone.
LEMMA StillTrue ==
    ASSUME TrueInv, engine' = engine, remote' = remote, server' = server, queue' = queue
    PROVE  TrueInv'
<1>1. Intended' = Intended
  BY DEF Intended
<1>2. PlainOK(server)'
  BY DEF TrueInv, PlainOK
<1>3. Footprint => Footprint'
  BY <1>1 DEF Footprint
<1> QED
  BY <1>1, <1>2, <1>3 DEF TrueInv

\* They hold in the beginning.
LEMMA StartTrue ==
    ASSUME Init
    PROVE  TrueInv
<1> DEFINE cells == BlankScreen(Window).cells
<1>1. /\ engine = NewEngine /\ queue = <<>>
      /\ remote = BlankScreen(Window)
      /\ server = [size |-> Window, cells |-> cells, cursor |-> <<0, 0>>,
                   echo |-> TRUE, input |-> "Ground", plain |-> TRUE, pasted |-> FALSE]
  BY DEF Init
<1>2. remote.size = Window /\ remote.cells = cells /\ remote.cursor = <<0, 0>>
  BY <1>1 DEF BlankScreen
<1> HIDE DEF cells
<1>3. /\ server.size = Window /\ server.cells = cells /\ server.cursor = <<0, 0>>
      /\ server.echo = TRUE /\ server.input = "Ground"
  BY <1>1
<1>4. /\ engine.cursors = <<>> /\ DOMAIN engine.overlay = {} /\ engine.last_size = <<0, 0>>
      /\ engine.input_state = "Ground" /\ engine.panicked = FALSE
  BY <1>1 DEF NewEngine, NoCells
<1>5. Len(queue) = 0 /\ 1 .. Len(queue) = {}
  BY <1>1
<1>6. Intended = server
  <2>1. Taking(server, queue, 0) = server
    BY TakingUnfolds
  <2> QED
    BY <1>5, <2>1 DEF Intended
<1>7. Mirrors(engine, Intended, remote)
  <2>1. TrueCells(engine, server, remote)
    BY <1>2, <1>3, <1>4 DEF TrueCells
  <2>2. TrueCursor(engine, server, remote)
    BY <1>2, <1>3, <1>4 DEF TrueCursor
  <2> QED
    BY <1>3, <1>4, <1>6, <2>1, <2>2 DEF Mirrors
<1>8. Footprint
  BY <1>5 DEF Footprint
<1>9. PlainOK(server)
  BY <1>3 DEF PlainOK
<1> QED
  BY <1>2, <1>7, <1>8, <1>9 DEF TrueInv

\* Inv is inductive.
LEMMA NextKeeps ==
    ASSUME Inv, [Next]_vars
    PROVE  Inv'
<1>1. TypeInv /\ QueueInv /\ HiddenInv /\ TrueInv
  BY DEF Inv
<1>2. ASSUME NEW bytes \in Chunks, TypeChunk(bytes) PROVE Inv'
  BY <1>1, <1>2, TypeChunkKeeps, TypeChunkTrue DEF Inv
<1>3. ASSUME NEW size \in Sizes, ResizeWindow(size) PROVE Inv'
  BY <1>1, <1>3, ResizeWindowKeeps, ResizeWindowTrue DEF Inv
<1>4. ASSUME Tick PROVE Inv'
  <2>1. TrueInv'
    BY <1>1, <1>4, StillTrue DEF Tick
  <2> QED
    BY <1>1, <1>4, <2>1, TickKeeps DEF Inv
<1>5. ASSUME Receive PROVE Inv'
  BY <1>1, <1>5, ReceiveKeeps, ReceiveTrue DEF Inv
<1>6. ASSUME NEW num \in 1 .. sent, ServerTakes(num) PROVE Inv'
  <2>1. TypeInv' /\ QueueInv' /\ HiddenInv'
    BY <1>1, <1>6, ServerKeeps
  <2>2. TrueInv'
    BY <1>1, <1>6, ServerTakesTrue
  <2> QED
    BY <2>1, <2>2 DEF Inv
<1>7. ASSUME NEW num \in taken, SetEchoAck(num) PROVE Inv'
  <2>1. TypeInv' /\ QueueInv' /\ HiddenInv'
    BY <1>1, <1>7, ServerKeeps
  <2>2. TrueInv'
    BY <1>1, <1>7, StillTrue DEF SetEchoAck
  <2> QED
    BY <2>1, <2>2 DEF Inv
<1>8. CASE UNCHANGED vars
  <2>1. /\ engine' = engine /\ remote' = remote /\ server' = server /\ queue' = queue
        /\ sent' = sent /\ taken' = taken /\ echoAck' = echoAck
    BY <1>8 DEF vars
  <2>2. TrueInv'
    BY <1>1, <2>1, StillTrue
  <2>3. TypeInv' /\ QueueInv' /\ HiddenInv'
    BY <1>1, <2>1 DEF TypeInv, QueueInv, HiddenInv, Intended
  <2> QED
    BY <2>2, <2>3 DEF Inv
<1> QED
  BY <1>2, <1>3, <1>4, <1>5, <1>6, <1>7, <1>8 DEF Next

-----------------------------------------------------------------------------
(* The theorems *)

\* The inductive invariant: the engine decodes what the application decodes; its
\* predictions are all for unanswered input, in the order it was typed, each epoch
\* wholly of echoed or wholly of unechoed input; and while only text and arrows are
\* typed, it is where the application will be, and wherever input on its way
\* changes the screen there is a prediction (prediction.rs).
THEOREM Invariance == Spec => []Inv
<1>1. Init => Inv
  BY StartInv, StartTrue DEF Inv
<1>2. Inv /\ [Next]_vars => Inv'
  BY NextKeeps
<1> QED
  BY <1>1, <1>2, PTL DEF Spec

\* The engine's fields, the received screen and the echo ack keep their types, and
\* no epoch is confirmed before it has begun (prediction.rs).
THEOREM TypeCorrect == Spec => []TypeOK
<1>1. Inv => TypeOK
  <2> SUFFICES ASSUME Inv PROVE TypeOK
    OBVIOUS
  <2>1. /\ sent \in Nat /\ remote \in Screens /\ taken \in SUBSET (0 .. sent)
        /\ echoAck \in taken /\ Sound(engine, sent) /\ engine \in Engines
    BY DEF Inv, TypeInv, Sound
  <2>2. /\ engine.overlay \in Overlays /\ engine.cursors \in Seq(Cursors)
        /\ engine.prediction_epoch \in Nat /\ engine.confirmed_epoch \in Nat
        /\ engine.input_state \in InputStates
    BY <2>1, EngineFields
  <2>3. /\ DOMAIN engine.overlay \subseteq Nat \X Nat
        /\ \A at \in DOMAIN engine.overlay : engine.overlay[at] \in Cells
    BY <2>2, OverlayFacts
  <2>4. engine.confirmed_epoch \in 0 .. engine.prediction_epoch
    BY <2>1, <2>2 DEF Sound
  <2>5. PICK size \in Sizes : remote \in ScreensOf(size)
    BY <2>1 DEF Screens
  <2>6. /\ remote.size = size /\ remote.cells \in [Positions(size) -> Printable]
        /\ remote.cursor \in Positions(size)
    BY <2>5 DEF ScreensOf
  <2>7. remote.cursor \in Nat \X Nat
    BY <2>6, PositionFacts
  <2> QED
    BY <2>1, <2>2, <2>3, <2>4, <2>6, <2>7 DEF TypeOK, Cells, Cursors, InputStates
<1> QED
  BY <1>1, Invariance, PTL

\* Once the server has echoed an input, no prediction made for it is left: whatever
\* is late, and whatever was typed meanwhile, get_validity has judged it.
THEOREM Unanswered == Spec => []OnlyUnanswered
<1>1. Inv => OnlyUnanswered
  BY DEF Inv, TypeInv, Sound, SoundOverlay, SoundCursors, OnlyUnanswered
<1> QED
  BY <1>1, Invariance, PTL

\* What is typed at a prompt that does not echo is not painted, unless the same
\* character came out where it was predicted and so confirmed its epoch: the epoch
\* of the prompt begins with the Enter that leads to it (become_tentative).
THEOREM PromptNotShown == Spec => []PromptHidden
<1>1. Inv => PromptHidden
  <2> SUFFICES ASSUME Inv, ~Intended.pasted, ~engine.fooled, NEW at \in Shown(engine)
               PROVE  ~engine.overlay[at].blind
    BY DEF PromptHidden
  <2>1. Together(engine, Intended) /\ engine \in Engines
    BY DEF Inv, TypeInv, HiddenInv, Sound
  <2>2. \E b : Hidden(engine, b)
    BY <2>1 DEF Together
  <2>3. at \in DOMAIN engine.overlay /\ engine.overlay[at].epoch <= engine.confirmed_epoch
    BY DEF Shown
  <2>4. engine.overlay[at].epoch \in Nat /\ engine.confirmed_epoch \in Nat
    BY <2>1, <2>3, EngineFields, OverlayFacts
  <2>5. engine.overlay[at].blind => engine.overlay[at].epoch > engine.confirmed_epoch
    BY <2>2, <2>3 DEF Hidden
  <2> QED
    BY <2>3, <2>4, <2>5
<1> QED
  BY <1>1, Invariance, PTL

\* While only text, backspaces and arrows are typed, every predicted character and
\* the predicted cursor are what the server will show, however the input is cut into
\* chunks and states, and however late frames and echo acks come.
THEOREM PredictionsComeTrue == Spec => []ComesTrue
<1>1. Inv => ComesTrue
  <2> SUFFICES ASSUME Inv, Intended.plain
               PROVE  /\ \A at \in DOMAIN engine.overlay :
                            engine.overlay[at].replacement \in {Unknown, Intended.cells[at]}
                      /\ engine.cursors # <<>> => Last(engine.cursors).at = Intended.cursor
    BY DEF ComesTrue
  <2>1. TrueCells(engine, Intended, remote) /\ TrueCursor(engine, Intended, remote)
    BY DEF Inv, TrueInv, Mirrors
  <2> QED
    BY <2>1 DEF TrueCells, TrueCursor
<1> QED
  BY <1>1, Invariance, PTL

\* And the engine is only given positions on the screen: it takes a window that
\* becomes smaller for predict_insert to index past the end of a row.
THEOREM OnlyAfterResize == Spec => [](Intended.plain => CursorOnScreen)
<1>1. Inv => (Intended.plain => CursorOnScreen)
  BY DEF Inv, TrueInv, Mirrors, CursorOnScreen
<1> QED
  BY <1>1, Invariance, PTL

=============================================================================
