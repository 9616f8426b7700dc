---------------------------- MODULE MCController ----------------------------
(* Three replicas; two threads besides the monitor: one that replaces the   *)
(* backup and one that answers a report.                                    *)
EXTENDS ControllerEnvironment, TLC

CONSTANTS w1, w2

WorkerSymmetry == Permutations(Worker)
=============================================================================
