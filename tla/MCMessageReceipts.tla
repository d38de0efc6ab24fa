--------------------------- MODULE MCMessageReceipts ---------------------------
(* Instances of MessageReceipts for TLC: a message of ours and one of another *)
(* device, to two recipients, the first of whom sends a receipt for each.     *)
EXTENDS MessageReceipts, TLC

CONSTANTS ours, synced, r1, r2

Receipt(m, r, status) == [of |-> m, from |-> r, status |-> status]

MCReceipts == {Receipt(ours, r1, Viewed), Receipt(synced, r1, Delivered)}
================================================================================
