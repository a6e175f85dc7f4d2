-------------------------------- MODULE Sync --------------------------------
(***************************************************************************)
(* What one direction of the State Synchronization Protocol promises.  The *)
(* publisher gives increasing numbers to the states it wants seen; the     *)
(* observer skips forward through them, in order, never sees a state that  *)
(* was not published, and nothing is published after the final state.      *)
(***************************************************************************)
EXTENDS Naturals

CONSTANTS State, Start, FINAL

VARIABLES
    published,  \* the states published so far, by number
    seen,       \* the number of the state the observer has
    view        \* that state, as the observer has put it together

syncVars == <<published, seen, view>>

SyncInit ==
    /\ published = [n \in {0} |-> Start]
    /\ seen = 0
    /\ view = Start

Publish ==
    /\ FINAL \notin DOMAIN published
    /\ \E n \in 1 .. FINAL, s \in State :
        /\ \A k \in DOMAIN published : k < n
        /\ published' = [k \in DOMAIN published \cup {n} |->
                            IF k = n THEN s ELSE published[k]]
    /\ UNCHANGED <<seen, view>>

Observe ==
    /\ \E n \in DOMAIN published :
        /\ n > seen
        /\ seen' = n
        /\ view' = published[n]
    /\ UNCHANGED published

SyncNext == Publish \/ Observe

SyncSpec == SyncInit /\ [][SyncNext]_syncVars
=============================================================================
