-------------------------- MODULE AtLeastOnceInbox --------------------------
(***************************************************************************)
(* What an inbox with acknowledgements promises: an envelope is offered    *)
(* again until the inbox holds it, the inbox answers for what it holds for *)
(* ever, and an envelope is done only after the inbox took it.             *)
(***************************************************************************)
EXTENDS Naturals

CONSTANT Envelopes

VARIABLES
    offered,  \* what the server would deliver again
    held,     \* what the inbox answers for
    done      \* what was processed, or given up for a stated reason

ivars == <<offered, held, done>>

Init == offered = Envelopes /\ held = {} /\ done = {}

\* The inbox takes envelopes; those of J need no processing.
Take(S, J) ==
    /\ J \subseteq S
    /\ held' = held \cup S
    /\ done' = done \cup J
    /\ UNCHANGED offered

\* Only what is held is acknowledged.
Ack(S) ==
    /\ S \subseteq held
    /\ offered' = offered \ S
    /\ UNCHANGED <<held, done>>

Finish(S) ==
    /\ S \subseteq held
    /\ done' = done \cup S
    /\ UNCHANGED <<offered, held>>

Next ==
    \/ \E S, J \in SUBSET Envelopes : Take(S, J)
    \/ \E S \in SUBSET Envelopes : Ack(S) \/ Finish(S)

Spec == Init /\ [][Next]_ivars
=============================================================================
