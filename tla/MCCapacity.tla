----------------------------- MODULE MCCapacity ------------------------------
(* Values of the constants of WorkerCapacity for TLC. *)
EXTENDS WorkerCapacity

OneWork == [a \in Audits |-> "audit"]
=============================================================================
