---------------------------- MODULE FailoverLedger ----------------------------
(***************************************************************************)
(* What replicated storage promises across failovers: the histories of     *)
(* AuctionLedger, of which the promotion of a backup may drop the newest   *)
(* mutation as long as nobody was told that it succeeded.                  *)
(***************************************************************************)
EXTENDS AuctionLedger

(* A mutation committed and answered in one step of whoever watches.        *)
CommitAcknowledged(op) ==
    LET committed == Append(history[AuctionOf[op]], op)
    IN /\ Unused(op)
       /\ history' = [history EXCEPT ![AuctionOf[op]] = committed]
       /\ acknowledged' = acknowledged \cup {committed}

Droppable(h) == h # <<>> /\ h \notin acknowledged

FailOver ==
    /\ \E dropped \in SUBSET {a \in Auction : Droppable(history[a])} :
         history' = [a \in Auction |->
                       IF a \in dropped
                       THEN SubSeq(history[a], 1, Len(history[a]) - 1)
                       ELSE history[a]]
    /\ UNCHANGED acknowledged

(* It may begin with auctions that were created before.                     *)
FailoverInit ==
    /\ history \in [Auction -> Seq(Op)]
    /\ acknowledged = {history[a] : a \in Auction} \ {<<>>}

FailoverNext ==
    \/ Next
    \/ \E op \in Op : CommitAcknowledged(op)
    \/ FailOver

FailoverSpec == FailoverInit /\ [][FailoverNext]_ledgerVars
=============================================================================
