------------------------------ MODULE Display ------------------------------
(***************************************************************************)
(* How a frame gets onto a terminal: DisplayDiff of morsh-terminal         *)
(* (display.rs) turns two screen snapshots into control sequences, and the *)
(* client's output_new_frame (frame.rs) writes them to the user's terminal.*)
(*                                                                         *)
(* The terminal is external: a VT emulator that executes the sequences.    *)
(* What is left of a double-width glyph of which one half was overwritten  *)
(* is an erased cell.  What a resize leaves on the screen varies; it is    *)
(* Debris here, a cell that no frame contains.                             *)
(*                                                                         *)
(* Rows and columns are counted from 1.                                    *)
(***************************************************************************)
EXTENDS Naturals, Sequences, FiniteSets, SequencesExt

CONSTANTS
    Frames,    \* the screens the server may publish
    Overlays,  \* the predictions that may be folded into one
    Late,      \* the frames around a change of size or a torn glyph (a bound)
    FirstSize  \* the window's size when the client starts

VARIABLES
    term,     \* the user's terminal
    shown,    \* local_framebuffer
    server,   \* the latest remote state
    drawn,    \* history: a frame with other rows has been painted
    resized,  \* history: the window changed since the last full redraw
    misshapen \* history: so did a prediction tear a double-width glyph apart

vars == <<term, shown, server, drawn, resized, misshapen>>

-----------------------------------------------------------------------------
(* Snapshots (snapshot.rs) *)

\* A CellData; a style is the set of its attributes.
Cell(text, wide, spacer, style) ==
    [text |-> text, wide |-> wide, spacer |-> spacer, style |-> style]

EmptyCell == Cell("", FALSE, FALSE, {})
BlankRow(cols) == [x \in 1 .. cols |-> EmptyCell]

\* ScreenSnapshot::new; a size is <<rows, columns>>.
BlankFrame(size) ==
    [rows |-> [y \in 1 .. size[1] |-> BlankRow(size[2])],
     cursor |-> <<1, 1>>, visible |-> TRUE, title |-> "",
     modes |-> {}, mouse |-> 0, encoding |-> 0]

\* The DEC modes of a snapshot: bracketed paste, focus events, alternate scroll.
Modes == <<2004, 1004, 1007>>
MouseReporting == <<9, 1000, 1002, 1003>>
MouseEncoding == <<1005, 1006, 1015>>

Size(f) == <<Len(f.rows), Len(f.rows[1])>>

CellData == [text : STRING, wide : BOOLEAN, spacer : BOOLEAN, style : SUBSET STRING]

\* A ScreenSnapshot: at least one row and one column, all rows of one length, the
\* cursor on one of the cells, and no text in the second half of a glyph or in a
\* column left free before one.
IsFrame(f) ==
    /\ f \in [rows : Seq(Seq(CellData)), cursor : Nat \X Nat, visible : BOOLEAN,
              title : STRING, modes : SUBSET Range(Modes),
              mouse : {0} \cup Range(MouseReporting),
              encoding : {0} \cup Range(MouseEncoding)]
    /\ f.rows # <<>> /\ f.rows[1] # <<>>
    /\ f.cursor \in (DOMAIN f.rows) \X (DOMAIN f.rows[1])
    /\ \A y \in DOMAIN f.rows :
          /\ Len(f.rows[y]) = Len(f.rows[1])
          /\ \A x \in DOMAIN f.rows[y] : f.rows[y][x].spacer => f.rows[y][x].text = ""

ASSUME FramesAssumption ==
    /\ \A f \in Frames : IsFrame(f)
    /\ \A o \in Overlays : \A at \in DOMAIN o :
          o[at] \in [replacement : STRING, flagged : BOOLEAN]
    /\ FirstSize \in (Nat \ {0}) \X (Nat \ {0})

-----------------------------------------------------------------------------
(* The control sequences *)

Cup(y, x) == <<"cup", y, x>>
Mode(number, on) == <<"mode", number, on>>
ResetStyle == <<"sgr0">>
LineFeeds(n) == [i \in 1 .. n |-> <<"lf">>]

\* style_on, for a style that is not the default one
StyleOn(style) == IF style = {} THEN <<>> ELSE <<<<"sgr", style>>>>

\* An empty cell is written as a space.
Text(cell) == <<"text", IF cell.text = "" THEN " " ELSE cell.text>>

\* Every mode of a group but the new one is reset.
Resets(numbers, new) ==
    FlattenSeq([i \in DOMAIN numbers |->
                   IF numbers[i] = new THEN <<>> ELSE <<Mode(numbers[i], FALSE)>>])

\* Modes are set before the others are reset.
ExclusiveSetFirst(numbers, new) ==
    (IF new = 0 THEN <<>> ELSE <<Mode(new, TRUE)>>) \o Resets(numbers, new)

\* The other modes of a group are reset, then the new one is set.
Exclusive(numbers, new) ==
    Resets(numbers, new) \o (IF new = 0 THEN <<>> ELSE <<Mode(new, TRUE)>>)

(***************************************************************************)
(* state_changes.  A first paint has no old frame: it announces everything *)
(* but an empty title.                                                     *)
(***************************************************************************)
StateChanges(first, old, new) ==
    (IF (first /\ new.title = "") \/ (~first /\ old.title = new.title)
     THEN <<>> ELSE <<<<"title", new.title>>>>)
      \o FlattenSeq([i \in DOMAIN Modes |->
             LET set == Modes[i] \in new.modes
             IN  IF ~first /\ (Modes[i] \in old.modes) = set THEN <<>>
                 ELSE <<Mode(Modes[i], set)>>])
      \o (IF ~first /\ old.mouse = new.mouse
          THEN <<>> ELSE Exclusive(MouseReporting, new.mouse))
      \o (IF ~first /\ old.encoding = new.encoding
          THEN <<>> ELSE Exclusive(MouseEncoding, new.encoding))

-----------------------------------------------------------------------------
(* full_redraw *)

RedrawCell(row, st, x) ==
    IF x # st.next THEN st
    ELSE [next |-> IF row[x].wide THEN x + 2 ELSE x + 1,
          style |-> row[x].style,
          out |-> st.out
                    \o (IF row[x].style = st.style THEN <<>>
                        ELSE <<ResetStyle>> \o StyleOn(row[x].style))
                    \o <<Text(row[x])>>]

RedrawRow(rows, y) ==
    LET row == rows[y]
        st[x \in 0 .. Len(row)] ==
            IF x = 0 THEN [next |-> 1, style |-> {}, out |-> <<Cup(y, 1)>>]
            ELSE RedrawCell(row, st[x - 1], x)
        end == st[Len(row)]
    IN  end.out \o (IF end.style = {} THEN <<>> ELSE <<ResetStyle>>)

FullRedraw(new) ==
    <<Mode(25, FALSE), <<"reset_region">>, ResetStyle, Cup(1, 1), <<"erase">>>>
      \o StateChanges(TRUE, new, new)
      \o FlattenSeq([y \in DOMAIN new.rows |-> RedrawRow(new.rows, y)])
      \o <<Cup(new.cursor[1], new.cursor[2])>>
      \o (IF new.visible THEN <<Mode(25, TRUE)>> ELSE <<>>)

-----------------------------------------------------------------------------
(* Scrolling *)

\* The rows of the new frame that follow the first on the old one.
RunFrom(old_rows, new, lines) ==
    {k \in 1 .. Len(new.rows) - lines :
        \A i \in 1 .. k : new.rows[i] = old_rows[lines + i]}

\* The run is taken one row too far.
DetectScrollPast(old_rows, new) ==
    LET same == {y \in DOMAIN new.rows : new.rows[1] = old_rows[y]}
        lines == Min(same) - 1
    IN  IF same = {} \/ 1 \in same THEN [lines |-> 0, height |-> 0]
        ELSE [lines |-> lines,
              height |-> Min({Max(RunFrom(old_rows, new, lines)) + 1,
                              Len(new.rows) - lines})]

\* detect_scroll; no lines if the display has not moved up.
DetectScroll(old_rows, new) ==
    LET same == {y \in DOMAIN new.rows : new.rows[1] = old_rows[y]}
        lines == Min(same) - 1
    IN  IF same = {} \/ 1 \in same THEN [lines |-> 0, height |-> 0]
        ELSE [lines |-> lines, height |-> Max(RunFrom(old_rows, new, lines))]

EmitScroll(scroll, new, old_cursor_y) ==
    LET height == Len(new.rows)
        bottom == scroll.lines + scroll.height
    IN  IF bottom = height /\ old_cursor_y = height
        THEN <<ResetStyle, <<"cr">>>> \o LineFeeds(scroll.lines)
        ELSE <<ResetStyle, <<"region", bottom>>, Cup(bottom, 1)>>
               \o LineFeeds(scroll.lines) \o <<<<"reset_region">>>>

ShiftRows(old_rows, scroll) ==
    LET bottom == scroll.lines + scroll.height
    IN  [y \in DOMAIN old_rows |->
            CASE y > bottom -> old_rows[y]
              [] y + scroll.lines <= bottom -> old_rows[y + scroll.lines]
              [] OTHER -> BlankRow(Len(old_rows[y]))]

-----------------------------------------------------------------------------
(* diff *)

\* The column after a double-width glyph is visited like any other.
OwnsNextNever(row, x) == FALSE

\* A double-width glyph owns the column to its right.
OwnsNext(row, x) == row[x].wide /\ x < Len(row)

(***************************************************************************)
(* One pass of the loop over the columns of a changed row: st.pen is       *)
(* pen_state, st.pos the column of cursor_pos, 0 for None.                 *)
(***************************************************************************)
DiffCell(y, old_row, row, st, x) ==
    LET cell == row[x]
        changed == old_row[x] # cell
        restyle == st.pen # cell.style
        pos == IF restyle THEN x ELSE st.pos
    IN  IF x # st.next THEN st
        ELSE [next |-> IF OwnsNext(row, x) THEN x + 2 ELSE x + 1,
              pen |-> IF OwnsNext(row, x) THEN row[x + 1].style ELSE cell.style,
              pos |-> IF ~changed THEN 0 ELSE IF cell.wide THEN x + 2 ELSE x + 1,
              out |-> st.out
                        \o (IF restyle
                            THEN <<Cup(y, x), ResetStyle>> \o StyleOn(cell.style)
                            ELSE <<>>)
                        \o (IF changed /\ pos # x THEN <<Cup(y, x)>> ELSE <<>>)
                        \o (IF changed THEN <<Text(cell)>> ELSE <<>>)]

DiffRow(old_rows, rows, y) ==
    LET row == rows[y]
        st[x \in 0 .. Len(row)] ==
            IF x = 0 THEN [next |-> 1, pen |-> {}, pos |-> 0, out |-> <<ResetStyle>>]
            ELSE DiffCell(y, old_rows[y], row, st[x - 1], x)
    IN  IF old_rows[y] = row THEN <<>> ELSE st[Len(row)].out

\* The cursor is put in its place with every frame.
RepositionAlways(drawing, old, new) == <<Cup(new.cursor[1], new.cursor[2])>>

\* The cursor only needs to be put in its place if it moved or was used.
Reposition(drawing, old, new) ==
    IF drawing # <<>> \/ old.cursor # new.cursor
    THEN <<Cup(new.cursor[1], new.cursor[2])>> ELSE <<>>

Diff(old, new) ==
    LET scroll == DetectScroll(old.rows, new)
        old_rows == IF scroll.lines = 0 THEN old.rows ELSE ShiftRows(old.rows, scroll)
        drawing ==
            StateChanges(FALSE, old, new)
              \o (IF scroll.lines = 0 THEN <<>>
                  ELSE EmitScroll(scroll, new, old.cursor[1]))
              \o FlattenSeq([y \in DOMAIN new.rows |->
                                IF y <= scroll.height THEN <<>>
                                ELSE DiffRow(old_rows, new.rows, y)])
    IN  IF Size(old) # Size(new) THEN FullRedraw(new)
        ELSE drawing
               \o Reposition(drawing, old, new)
               \o (IF old.visible # new.visible THEN <<Mode(25, new.visible)>> ELSE <<>>)

-----------------------------------------------------------------------------
(* output_new_frame *)

\* A prediction: what stands in a cell, and whether it is underlined.
Unknown == "unknown"

(***************************************************************************)
(* apply_overlay, for the cells that are due to be shown.  The last column *)
(* is left to the server.  The predicted cursor, which replaces that of    *)
(* the frame, is left out: a frame may have its cursor on any cell.        *)
(***************************************************************************)
ApplyOverlay(frame, overlay) ==
    LET styled(cell, p) == [cell EXCEPT !.style = IF p.flagged THEN @ \cup {"underline"}
                                                               ELSE @]
        predicted(cell, p) ==
            IF p.replacement = Unknown THEN styled(cell, p)
            ELSE styled([cell EXCEPT !.text = p.replacement, !.wide = FALSE,
                                     !.spacer = FALSE], p)
    IN  [frame EXCEPT !.rows = [y \in DOMAIN @ |-> [x \in DOMAIN @[y] |->
            IF <<y, x>> \in DOMAIN overlay /\ x < Len(@[y])
            THEN predicted(@[y][x], overlay[<<y, x>>]) ELSE @[y][x]]]]

\* The cursor stays hidden until a frame changes its visibility.
ShowAgainNever(target) == <<>>

ShowAgain(target) == IF target.visible THEN <<Mode(25, TRUE)>> ELSE <<>>

\* The DEC mode of a synchronized update.
Synchronized == 2026

\* A frame that draws is a synchronized update with the cursor hidden.
Output(old, target) ==
    LET diff == Diff(old, target)
    IN  IF diff = <<>> \/ old.rows = target.rows THEN diff
        ELSE <<Mode(Synchronized, TRUE), Mode(25, FALSE)>> \o diff
               \o ShowAgain(target) \o <<Mode(Synchronized, FALSE)>>

-----------------------------------------------------------------------------
(***************************************************************************)
(* The terminal.  wrap: the cursor waits at the right margin; region: the  *)
(* last line of the scrolling region; on: the modes that are set.          *)
(***************************************************************************)
Debris == Cell("debris", FALSE, FALSE, {})

Width(text) == IF text = "W" THEN 2 ELSE 1

\* An erased cell takes the background of the pen.
Erased(t) == Cell("", FALSE, FALSE, t.pen \cap {"background"})
ErasedRow(t) == [x \in DOMAIN t.rows[1] |-> Erased(t)]

LineFeed(t) ==
    CASE t.cursor[1] = t.region ->
            [t EXCEPT !.rows = [y \in DOMAIN @ |->
                                  CASE y > t.region -> @[y]
                                    [] y = t.region -> ErasedRow(t)
                                    [] OTHER -> @[y + 1]]]
      [] t.cursor[1] # t.region /\ t.cursor[1] < Len(t.rows) ->
            [t EXCEPT !.cursor[1] = @ + 1]
      [] OTHER -> t

\* A glyph of which one half is overwritten is gone.
Write(t0, text) ==
    LET w == Width(text)
        cols == Len(t0.rows[1])
        t == IF t0.wrap \/ t0.cursor[2] + w > cols + 1
             THEN LineFeed([t0 EXCEPT !.cursor[2] = 1]) ELSE t0
        x0 == t.cursor[2]
        put(row) == [x \in DOMAIN row |->
            CASE x = x0 -> Cell(text, w = 2, FALSE, t.pen)
              [] x = x0 + 1 /\ w = 2 -> Cell("", FALSE, TRUE, t.pen)
              [] x = x0 + w /\ row[x].spacer -> Erased(t)
              [] x + 1 = x0 /\ row[x].wide -> Erased(t)
              [] OTHER -> row[x]]
    IN  [t EXCEPT !.rows[t.cursor[1]] = put(@),
                  !.wrap = x0 + w > cols,
                  !.cursor[2] = IF x0 + w > cols THEN cols ELSE x0 + w]

\* Setting or resetting one mode of a group replaces what was set before.
SetMode(t, number, on) ==
    CASE number \in Range(MouseReporting) ->
            [t EXCEPT !.mouse = IF on THEN number ELSE 0]
      [] number \in Range(MouseEncoding) ->
            [t EXCEPT !.encoding = IF on THEN number ELSE 0]
      [] OTHER -> [t EXCEPT !.on = IF on THEN @ \cup {number} ELSE @ \ {number}]

Least(a, b) == IF a < b THEN a ELSE b

Execute(t, op) ==
    CASE op[1] = "cup" ->
            [t EXCEPT !.cursor = <<Least(op[2], Len(t.rows)), Least(op[3], Len(t.rows[1]))>>,
                      !.wrap = FALSE]
      [] op[1] = "cr" -> [t EXCEPT !.cursor[2] = 1, !.wrap = FALSE]
      [] op[1] = "lf" -> LineFeed(t)
      [] op[1] = "region" ->
            [t EXCEPT !.region = Least(op[2], Len(t.rows)), !.cursor = <<1, 1>>, !.wrap = FALSE]
      [] op[1] = "reset_region" ->
            [t EXCEPT !.region = Len(t.rows), !.cursor = <<1, 1>>, !.wrap = FALSE]
      [] op[1] = "erase" -> [t EXCEPT !.rows = [y \in DOMAIN @ |-> ErasedRow(t)]]
      [] op[1] = "sgr0" -> [t EXCEPT !.pen = {}]
      [] op[1] = "sgr" -> [t EXCEPT !.pen = @ \cup op[2]]
      [] op[1] = "mode" -> SetMode(t, op[2], op[3])
      [] op[1] = "title" -> [t EXCEPT !.title = op[2]]
      [] op[1] = "text" -> Write(t, op[2])

\* The terminal after it has executed a sequence of them.
Executed(t, ops) ==
    LET after[n \in 0 .. Len(ops)] ==
            IF n = 0 THEN t ELSE Execute(after[n - 1], ops[n])
    IN  after[Len(ops)]

\* MoshTerminal::snapshot: a blank reads the same however it came about.
Canonical(cell) ==
    [cell EXCEPT !.text = IF cell.spacer \/ @ = " " THEN "" ELSE @]

Snapshot(t) ==
    [rows |-> [y \in DOMAIN t.rows |-> [x \in DOMAIN t.rows[y] |-> Canonical(t.rows[y][x])]],
     cursor |-> t.cursor, visible |-> 25 \in t.on, title |-> t.title,
     modes |-> t.on \cap Range(Modes), mouse |-> t.mouse, encoding |-> t.encoding]

-----------------------------------------------------------------------------
(* The client's screen *)

\* The alternate screen has just been entered, and the cursor hidden.
Init ==
    /\ term = [rows |-> BlankFrame(FirstSize).rows, cursor |-> <<1, 1>>, wrap |-> FALSE,
               pen |-> {}, region |-> FirstSize[1], on |-> {}, mouse |-> 0,
               encoding |-> 0, title |-> ""]
    /\ shown = BlankFrame(FirstSize)
    /\ server = BlankFrame(FirstSize)
    /\ drawn = FALSE /\ resized = FALSE /\ misshapen = FALSE

\* Every glyph of two columns has both, in one style, and no other cell is half
\* of one.
Shapely(frame) ==
    \A y \in DOMAIN frame.rows : \A x \in DOMAIN frame.rows[y] :
        LET row == frame.rows[y]
        IN  /\ row[x].wide <=> Width(row[x].text) = 2
            /\ row[x].wide => /\ x < Len(row) /\ row[x + 1].spacer
                              /\ row[x + 1].style = row[x].style
            /\ row[x].spacer => \/ x > 1 /\ row[x - 1].wide
                                \/ x = Len(row)

OutputNewFrame(frame, overlay) ==
    LET target == ApplyOverlay(frame, overlay)
        whole == Size(target) # Size(shown)
    IN  /\ \/ frame \in Late
           \/ IF whole THEN server \in Late ELSE ~resized /\ ~misshapen
        /\ term' = Executed(term, Output(shown, target))
        /\ shown' = target
        /\ server' = frame
        /\ drawn' = (drawn \/ target.rows # shown.rows)
        /\ resized' = IF whole THEN Size(target) # Size(term) ELSE resized
        /\ misshapen' = IF whole THEN ~Shapely(target)
                                 ELSE misshapen \/ ~Shapely(target)

\* The window gets another size; the server learns of it much later.
WindowResizes(size) ==
    /\ size # Size(term) /\ server \in Late
    /\ term' = [term EXCEPT
                  !.rows = [y \in 1 .. size[1] |-> [x \in 1 .. size[2] |-> Debris]],
                  !.cursor = <<Least(@[1], size[1]), Least(@[2], size[2])>>,
                  !.wrap = FALSE, !.region = size[1]]
    /\ resized' = TRUE
    /\ UNCHANGED <<shown, server, drawn, misshapen>>

Sizes == {Size(f) : f \in Frames}

Next ==
    \/ \E frame \in Frames, overlay \in Overlays : OutputNewFrame(frame, overlay)
    \/ \E size \in Sizes : WindowResizes(size)

Spec == Init /\ [][Next]_vars

-----------------------------------------------------------------------------
(* Properties *)

\* A column left free because the next glyph is too wide for it.
LeftFree(row, x) == row[x].spacer /\ (x = 1 \/ ~row[x - 1].wide)

\* It is displayed as a blank one.  In a row where the half of a glyph stood there
\* it counts as unchanged, and keeps what that half was erased to.
Shows(cell, row, x) ==
    \/ ~LeftFree(row, x) /\ cell = Canonical(row[x])
    \/ LeftFree(row, x) /\ \E style \in {row[x].style} \cup SUBSET {"background"} :
                               cell = [row[x] EXCEPT !.spacer = FALSE, !.style = style]

\* Unless the window was resized, or a predicted frame tore a double-width glyph,
\* since the last full redraw, the terminal shows the last frame that was
\* painted, cell by cell and with its styles, and its cursor is where the frame
\* has it, whichever frames it went through: an emulator that executes the diff
\* of two frames reads back as the second (DisplayDiff::diff).
FrameShown ==
    LET rows == Snapshot(term).rows
    IN  ~resized /\ ~misshapen =>
            /\ DOMAIN rows = DOMAIN shown.rows
            /\ \A y \in DOMAIN rows :
                  /\ DOMAIN rows[y] = DOMAIN shown.rows[y]
                  /\ \A x \in DOMAIN rows[y] : Shows(rows[y][x], shown.rows[y], x)
            /\ Snapshot(term).cursor = shown.cursor

\* The terminal's modes are those of the last frame whatever became of its
\* cells, no synchronized update is left open, lines scroll in the whole window,
\* and a title that was set is the one displayed (state_changes).
ModesFollow ==
    /\ Snapshot(term).modes = shown.modes
    /\ term.mouse = shown.mouse /\ term.encoding = shown.encoding
    /\ shown.title # "" => term.title = shown.title
    /\ Synchronized \notin term.on
    /\ term.region = Len(term.rows)

\* From the first frame that draws something the cursor is visible exactly when
\* the frame says so, though every drawing frame hides it (output_new_frame).
CursorVisibility == drawn => Snapshot(term).visible = shown.visible

\* Painting the frame that is on the screen writes nothing: an idle client leaves
\* the user's terminal alone (DisplayDiff::diff).
IdleIsSilent == Output(shown, shown) = <<>>
=============================================================================
