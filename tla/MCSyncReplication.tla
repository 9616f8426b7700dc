------------------------- MODULE MCSyncReplication -------------------------
(* Requests x and y on one auction; v reuses the id of x for other          *)
(* contents.  A run picks its operations.                                   *)
EXTENDS SyncReplication, TLC

CONSTANTS i1, i2, a1, x, y, v

MCIdOf == [op \in Op |-> IF op = y THEN i2 ELSE i1]
MCAuctionOf == [op \in Op |-> a1]

(* Two uses of one id are interchangeable. *)
ReuseSymmetry == Permutations({x, v})
=============================================================================
