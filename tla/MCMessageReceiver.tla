-------------------------- MODULE MCMessageReceiver --------------------------
(* Instances of MessageReceiver for TLC.                                      *)
EXTENDS MessageReceiver, TLC
=============================================================================
