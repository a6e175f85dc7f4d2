---------------------------- MODULE MCConnection ----------------------------
(* Networks and ports are interchangeable. *)
EXTENDS Connection, TLC

MCSymmetry == Permutations(Networks) \cup Permutations(Ports)
=============================================================================
