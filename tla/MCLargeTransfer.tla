-------------------------- MODULE MCLargeTransfer --------------------------
(* A LargeTransfer of two chunks and a manifest by two workers.            *)
EXTENDS LargeTransfer, TLC

MCWorkers == {"w1", "w2"}
=============================================================================
