----------------------------- MODULE UserStream -----------------------------
(***************************************************************************)
(* The client-to-server state (crates/morsh-statesync/src/user_stream.rs): *)
(* a queue of user events.  An event is <<"key", b>> or <<"resize", size>>.*)
(* A diff is the list of protobuf instructions of a UserMessage: a run of  *)
(* keystrokes, or one resize.                                              *)
(***************************************************************************)
EXTENDS Naturals, Sequences, SequencesExt, FiniteSetsExt

Stream(events) == [events |-> events]

CommonPrefixLen(s, t) ==
    Max({k \in 0 .. Min({Len(s.events), Len(t.events)}) :
            \A i \in 1 .. k : s.events[i] = t.events[i]})

\* The events of s after its first k.
DropEvents(s, k) == SubSeq(s.events, k + 1, Len(s.events))

\* One more event joins the message being built: consecutive keystrokes share
\* an instruction, a resize has its own.
GroupEvent(msg, event) ==
    IF event[1] = "resize" THEN Append(msg, [resize |-> event[2]])
    ELSE IF msg # <<>> /\ "keystroke" \in DOMAIN Last(msg)
         THEN Append(Front(msg),
                     [keystroke |-> Append(Last(msg).keystroke, event[2])])
         ELSE Append(msg, [keystroke |-> <<event[2]>>])

EncodeDiffFrom(s, existing) ==
    FoldLeft(GroupEvent, <<>>, DropEvents(s, CommonPrefixLen(s, existing)))

\* What one instruction of a decoded message appends to the queue.
InstructionEvents(inst) ==
    IF "keystroke" \in DOMAIN inst
    THEN [i \in DOMAIN inst.keystroke |-> <<"key", inst.keystroke[i]>>]
    ELSE <<<<"resize", inst.resize>>>>

DecodeAndApply(s, diff) ==
    Stream(FoldLeft(LAMBDA events, inst : events \o InstructionEvents(inst),
                    s.events, diff))

SubtractPrefix(s, prefix) == Stream(DropEvents(s, CommonPrefixLen(s, prefix)))

\* A queue only ever grows at its end.
StreamExtends(s, t) == IsPrefix(s.events, t.events)
=============================================================================
