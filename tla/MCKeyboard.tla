----------------------------- MODULE MCKeyboard -----------------------------
(* What is typed in the run of Keyboard, chosen by the escape key. *)
EXTENDS Keyboard

MCUnset == [given |-> FALSE, bytes |-> <<>>]
MCGiven(bytes) == [given |-> TRUE, bytes |-> bytes]

\* Ctrl-^ by default, Ctrl-A, "~", none, and Ctrl-C, which is refused.
MCSettings == {MCUnset, MCGiven(<<1>>), MCGiven(<<126>>), MCGiven(<<>>), MCGiven(<<3>>)}

\* The escape key, the second keys, and a key of no meaning.
MCKeys(c) ==
    CASE c.key = 0 -> {30, DOT}
      [] c.key = 1 -> {1, 97, DOT}
      [] c.key = 126 -> {13, 126, DOT}
      [] OTHER -> {c.key, DOT, CTRL_Z}

\* A printable escape key needs a line's end before it.
MCLine(c) == IF c.key = 126 THEN <<13>> ELSE <<>>

\* On Windows, surrogates around an escape sequence.
MCTexts(p, c) ==
    IF p = "unix" THEN {MCLine(c) \o keys : keys \in [1 .. 3 -> MCKeys(c)]}
    ELSE IF c.key = 30 THEN [1 .. 3 -> {HIGH, LOW, 30}]
                            \cup {<<HIGH, LOW, 30, DOT>>, <<30, HIGH, LOW, DOT>>}
    ELSE {<<c.key, DOT>>}
=============================================================================
