---------------------------- MODULE MCPrediction ----------------------------
(* What the user's terminal may send in the runs of Prediction. *)
EXTENDS Prediction

\* Editing with an arrow key that may be read in two parts, Enter, and a paste.
MCKeys == {<<"a">>, <<"b", "a">>, <<"del">>, <<"cr">>, <<"esc", "[", "D">>,
           <<"esc", "[", "C">>, <<"esc", "O">>, <<"D">>, <<"a", "b", "a", "b">>}
MCTyping == {<<"a">>}

MCOneRow == <<1, 4>>
MCTwoRows == <<2, 4>>
MCTwoRowsOrNarrow == {MCTwoRows, <<2, 2>>}
MCTwoSizes == {<<1, 2>>, <<1, 4>>}
=============================================================================
