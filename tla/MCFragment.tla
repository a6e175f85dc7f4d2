----------------------------- MODULE MCFragment -----------------------------
(***************************************************************************)
(* Fragment with an instruction, its retransmission with a newer ack, and  *)
(* a longer one.                                                           *)
(***************************************************************************)
EXTENDS Fragment

MCInstruction ==
    {[numbers |-> 1, ack_num |-> 0, chaff |-> 0, diff |-> "short"],
     [numbers |-> 1, ack_num |-> 1, chaff |-> 0, diff |-> "short"],
     [numbers |-> 2, ack_num |-> 1, chaff |-> 0, diff |-> "long"]}

\* Payloads of two sizes: the smaller one needs two more fragments.
MCPayload == {"small", "large"}
MCCount(i, p) ==
    (IF i.diff = "long" THEN 2 ELSE 1) + (IF p = "small" THEN 2 ELSE 0)
=============================================================================
