------------------------------ MODULE MCJobQueue ------------------------------
(* Instances of JobQueue for TLC: two jobs of one conversation and one of     *)
(* another, which cannot be parsed.                                           *)
EXTENDS JobQueue, TLC

CONSTANTS a, b

MCKeyOf == (1 :> a) @@ (2 :> a) @@ (3 :> b)
===============================================================================
