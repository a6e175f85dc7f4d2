------------------------------ MODULE Complete ------------------------------
(***************************************************************************)
(* The server-to-client state (crates/morsh-statesync/src/complete.rs): a  *)
(* terminal screen, <<size, text>>, and the echo ack.  The display update  *)
(* DisplayDiff::diff produces for two screens of one size turns the text   *)
(* it was computed from into the other one and garbles any other; for two  *)
(* sizes it is a full redraw.  The live emulator, which adopt_from moves   *)
(* along and terminal_mut rebuilds, always shows the screen.               *)
(***************************************************************************)
EXTENDS Naturals, Sequences, SequencesExt, FiniteSetsExt

Terminal(screen, echoAck) == [screen |-> screen, echo_ack |-> echoAck]

\* What the emulator shows after bytes meant for another screen, or a reflow.
Garbled == "garbled"

\* Host bytes are <<from, to>>: from is {} for a full redraw.
CompleteDiffFrom(c, existing) ==
    LET old == existing.screen
        new == c.screen
    IN  (IF existing.echo_ack # c.echo_ack
         THEN <<[echoack |-> c.echo_ack]>> ELSE <<>>)
        \o (IF old[1] # new[1] THEN <<[resize |-> new[1]]>> ELSE <<>>)
        \o (IF old # new
            THEN <<[hostbytes |-> <<IF old[1] = new[1] THEN {old} ELSE {}, new>>]>>
            ELSE <<>>)

\* Complete::act on a display update
Act(screen, bytes) ==
    IF \/ bytes[1] = {} /\ screen[1] = bytes[2][1]
       \/ screen \in bytes[1]
    THEN bytes[2]
    ELSE <<screen[1], Garbled>>

ApplyInstruction(c, inst) ==
    IF "hostbytes" \in DOMAIN inst
    THEN [c EXCEPT !.screen = Act(@, inst.hostbytes)]
    ELSE IF "resize" \in DOMAIN inst
         THEN [c EXCEPT !.screen = <<inst.resize, Garbled>>]
         ELSE [c EXCEPT !.echo_ack = Max({@, inst.echoack})]

CompleteApplyString(c, diff) == FoldLeft(ApplyInstruction, c, diff)

\* The screen may change to anything; the echo ack never goes back.
CompleteExtends(c, d) == c.echo_ack <= d.echo_ack
=============================================================================
