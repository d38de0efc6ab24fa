------------------------- MODULE MCZoneTransactions -------------------------
(* An instance of ZoneTransactions for TLC: two receive batches, each with a *)
(* zone of its own, and callers of GLOBAL_ZONE, which write through.         *)
EXTENDS ZoneTransactions, TLC

CONSTANTS r1, r2, r3, s1, s2, s3, s4, s5, a, b, g, k1, t1

\* Batches r1 and r2; a session job r3 that writes at once, and s5 alone.
BatchZones ==
    [c \in Calls |-> CASE c \in {r1, s1, s2} -> a [] c \in {r2, s3} -> b
                       [] OTHER -> g]
BatchParents ==
    [s \in Stores |-> CASE s \in {s1, s2} -> r1 [] s = s3 -> r2
                         [] s = s4 -> r3 [] OTHER -> NoCall]
\* They meet on the session k1 and on the kyber triple t1.
BatchKeys == [s \in Stores |-> IF s \in {s2, s4} THEN t1 ELSE k1]
=============================================================================
