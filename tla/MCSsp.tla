------------------------------- MODULE MCSsp --------------------------------
(***************************************************************************)
(* Ssp with the program's own states: the client publishes a UserStream,   *)
(* the server a Complete.                                                  *)
(***************************************************************************)
EXTENDS Ssp, TLC

CONSTANTS
    Events,       \* the user events, <<"key", b>> or <<"resize", size>>
    MaxEvents,    \* how many of them the user causes
    Screens,      \* screens the server's terminal may show
    MaxEcho,      \* the largest echo ack
    ClientNum,    \* the largest ordinary number of the client's states
    ServerNum,    \* the largest ordinary number of the server's states
    ClientFlight, \* datagrams in flight to the server
    ServerFlight  \* datagrams in flight to the client

MCKey == {<<"key", "a">>}
MCOneScreen == {<<"80x24", "blank">>}
MCTwoSizes == {<<"80x24", "blank">>, <<"80x25", "prompt">>}
MCKeyAndResize == {<<"key", "a">>, <<"resize", "80x25">>}

U == INSTANCE UserStream
C == INSTANCE Complete

MCStreams ==
    {U!Stream(s) : s \in UNION {[1 .. n -> Events] : n \in 0 .. MaxEvents}}
MCTerminals == {C!Terminal(s, k) : s \in Screens, k \in 0 .. MaxEcho}
MCState == MCStreams \cup MCTerminals

IsStream(s) == "events" \in DOMAIN s

MCInitialState ==
    [e \in Endpoint |-> IF e = "client" THEN U!Stream(<<>>)
                        ELSE C!Terminal(CHOOSE s \in Screens : s[2] = "blank", 0)]

\* What the states of a run differ by, computed once.
Pairs == {p \in MCState \X MCState : IsStream(p[1]) <=> IsStream(p[2])}
Diffs == [p \in Pairs |->
             IF IsStream(p[1]) THEN U!EncodeDiffFrom(p[1], p[2])
                               ELSE C!CompleteDiffFrom(p[1], p[2])]
Remainders == [p \in Pairs |->
                  IF IsStream(p[1]) THEN U!SubtractPrefix(p[1], p[2]) ELSE p[1]]

MCDiffFrom(s, existing) ==
    IF <<s, existing>> \in DOMAIN Diffs THEN Diffs[<<s, existing>>]
    ELSE IF IsStream(s) THEN U!EncodeDiffFrom(s, existing)
    ELSE C!CompleteDiffFrom(s, existing)
MCApplyString(s, diff) ==
    IF IsStream(s) THEN U!DecodeAndApply(s, diff)
                   ELSE C!CompleteApplyString(s, diff)
\* State::subtract is a no-op for a terminal.
MCSubtract(s, prefix) ==
    IF <<s, prefix>> \in DOMAIN Remainders THEN Remainders[<<s, prefix>>]
    ELSE IF IsStream(s) /\ IsStream(prefix) THEN U!SubtractPrefix(s, prefix) ELSE s
MCExtends(s, t) ==
    /\ IsStream(s) <=> IsStream(t)
    /\ IF IsStream(s) THEN U!StreamExtends(s, t) ELSE C!CompleteExtends(s, t)

MCEmptyDiff == <<>>
MCMaxNum == [e \in Endpoint |->
                IF e = "client" THEN ClientNum ELSE ServerNum]
MCInFlight == [e \in Endpoint |->
                  IF e = "client" THEN ClientFlight ELSE ServerFlight]

\* Bound: input or a shutdown, not both.  A behaviour without a shutdown, the only
\* kind that Converges is about, is not affected.
InputOrShutdown ==
    whole["client"] = InitialState["client"] \/ \A e \in Endpoint : ~shutdown[e]
MCFairSpec == Init /\ [][Next /\ InputOrShutdown']_vars /\ Fairness
=============================================================================
