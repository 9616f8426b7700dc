------------------------------ MODULE MCFailover ------------------------------
(* A ready cluster of three replicas; up to three threads besides the       *)
(* monitor.                                                                 *)
EXTENDS Failover, TLC

CONSTANTS w1, w2, w3

WorkerSymmetry == Permutations(Worker)
=============================================================================
