---------------------------- MODULE AuctionLedger ----------------------------
(***************************************************************************)
(* What replicated storage promises the auction service                    *)
(* (docs/auction-specification.md sections 6, 7 and 9): every auction has  *)
(* one history of applied operations that only grows, a request id is      *)
(* applied at most once anywhere, and a mutation is acknowledged only      *)
(* with the version it has in that history.                                *)
(***************************************************************************)
EXTENDS Naturals, Sequences

CONSTANTS Op, Auction, IdOf, AuctionOf

VARIABLES
    history,      \* [Auction -> Seq(Op)]
    acknowledged  \* the histories, each up to a mutation, answered as success

ledgerVars == <<history, acknowledged>>

Init ==
    /\ history = [a \in Auction |-> <<>>]
    /\ acknowledged = {}

(* Unused: no applied operation has the request id of op. *)
Unused(op) ==
    \A a \in Auction : \A i \in 1..Len(history[a]) :
      IdOf[history[a][i]] # IdOf[op]

Commit(op) ==
    /\ Unused(op)
    /\ history' = [history EXCEPT ![AuctionOf[op]] = Append(@, op)]
    /\ UNCHANGED acknowledged

Acknowledge(a, version) ==
    /\ version \in 1..Len(history[a])
    /\ acknowledged' = acknowledged \cup {SubSeq(history[a], 1, version)}
    /\ UNCHANGED history

Next ==
    \/ \E op \in Op : Commit(op)
    \/ \E a \in Auction : \E version \in 1..Len(history[a]) :
         Acknowledge(a, version)

Spec == Init /\ [][Next]_ledgerVars
=============================================================================
