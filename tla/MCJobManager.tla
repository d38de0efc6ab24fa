---------------------------- MODULE MCJobManager ----------------------------
(* Instances of JobManager for TLC.  Jobs are alike: nothing orders them.    *)
EXTENDS JobManager, TLC

JobSymmetry == Permutations(Jobs)
=============================================================================
