----------------------------- MODULE MCDisplay -----------------------------
(* Screens small enough to paint every one over every other. *)
EXTENDS Display

Narrow(text, style) == <<Cell(text, FALSE, FALSE, style)>>
Wide(style) == <<Cell("W", TRUE, FALSE, style), Cell("", FALSE, TRUE, style)>>
WideHead == <<Cell("", FALSE, TRUE, {})>>

Screen(rows, cursor) == [BlankFrame(<<Len(rows), Len(rows[1])>>)
                            EXCEPT !.rows = rows, !.cursor = cursor]

\* Three lines of one column, to be scrolled.
MCScrolling ==
    {Screen(<<a, b, c>>, <<y, 1>>) :
        a, b, c \in {Narrow("", {}), Narrow("a", {}), Narrow("b", {"background"})},
        y \in {1, 3}}

\* One line of three columns, with styles and glyphs of two columns.
MCCells == {Narrow("", {}), Narrow("a", {}), Narrow("a", {"bold"})}
MCGlyphs == {Wide({}), Wide({"bold"}), Wide({"background"})}
MCLines == {a \o b \o c : a, b, c \in MCCells}
             \cup {g \o a : g \in MCGlyphs, a \in MCCells \cup {WideHead}}
             \cup {a \o g : g \in MCGlyphs, a \in MCCells}
MCDrawing == {Screen(<<line>>, <<1, 2>>) : line \in MCLines}

\* The same line under other modes.
MCPlain == Screen(<<Narrow("a", {}) \o Narrow("", {}) \o Narrow("", {})>>, <<1, 2>>)
MCModes ==
    {[MCPlain EXCEPT !.mouse = m, !.encoding = e] :
        m \in {0, 1000, 1003}, e \in {0, 1005, 1006}}
      \cup {[MCPlain EXCEPT !.modes = s] : s \in {{2004}, {1004, 1007}, {2004, 1007}}}
      \cup {[MCPlain EXCEPT !.title = t, !.visible = v, !.cursor = <<1, 3>>] :
               t \in {"", "vi"}, v \in BOOLEAN}

\* Text is inserted before a glyph of two columns.
MCBefore == Screen(<<Wide({}) \o Narrow("a", {}) \o Narrow("", {}) \o Narrow("", {})>>, <<1, 1>>)
MCAfter == Screen(<<Narrow("b", {}) \o Wide({}) \o Narrow("a", {}) \o Narrow("", {})>>, <<1, 2>>)

MCFrames == MCScrolling \cup MCDrawing \cup MCModes \cup {MCBefore, MCAfter}
MCBusy == [MCPlain EXCEPT !.mouse = 1003, !.encoding = 1006]
MCLate == {MCPlain, MCBusy, MCBefore,
           Screen(<<Narrow("a", {}), Narrow("", {}), Narrow("a", {})>>, <<3, 1>>)}
MCFirstSize == <<1, 3>>

P(text, flagged) == [replacement |-> text, flagged |-> flagged]
NoOverlay == [p \in {} |-> 0]
MCOverlays == {NoOverlay,
               [p \in {<<1, 1>>, <<1, 2>>} |-> IF p[2] = 1 THEN P("b", TRUE)
                                                          ELSE P(Unknown, TRUE)]}
=============================================================================
