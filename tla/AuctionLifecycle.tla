-------------------------- MODULE AuctionLifecycle --------------------------
(***************************************************************************)
(* One auction of a primary's auction_store under any requests its clients *)
(* may have built from any version they read, and under the reveal its     *)
(* primary sends itself when the auction is overdue.  The commit protocol  *)
(* around a candidate is SyncReplication's; here a candidate is published. *)
(***************************************************************************)
EXTENDS AuctionDomain, Sequences

CONSTANT Requests  \* the requests that may arrive

ASSUME RequestsAssumption == Requests \subseteq Request

VARIABLES
    auction,  \* the stored auction, or NoAuction
    ended,    \* time.time() has reached ends_at
    accepted  \* history: the accepted bids and withdrawals in order

vars == <<auction, ended, accepted>>

Init ==
    /\ auction = NoAuction
    /\ ended = FALSE
    /\ accepted = <<>>

(* An entry of the history. *)
Entry(type, bidder, amount) ==
    [type |-> type, bidder |-> bidder, amount |-> amount]

(* What the history keeps of an accepted request. *)
Recorded(r, type) ==
    IF type = "place_bid"
    THEN LET bidder == CHOOSE b \in Bidders(r.bids) : TRUE
         IN Append(accepted, Entry(type, bidder, r.bids[bidder]))
    ELSE IF type = "withdraw_bid"
    THEN Append(accepted, Entry(type, Strip[r.bidder], 0))
    ELSE accepted

(* A rejected request changes nothing. *)
Mutate(r) ==
    LET outcome == build_candidate(r, auction, ended)
    IN /\ outcome.reason = "none"
       /\ auction' = outcome.candidate
       /\ accepted' = Recorded(r, effective_mutation_type(r, auction))
       /\ UNCHANGED ended

ClosingTime ==
    /\ ~ended
    /\ ended' = TRUE
    /\ UNCHANGED <<auction, accepted>>

(* What _reconcile_overdue_auctions asks of an open auction whose deadline  *)
(* has passed when it becomes primary; the fields it leaves blank are those *)
(* of a blank message.                                                      *)
OverdueReveal ==
    [type |-> "reveal", seller |-> auction.seller, reserve |-> 0,
     ends_at |-> FALSE, metadata |-> FALSE, state |-> "open", bids |-> NoBids,
     bidder |-> NoOne, expected_version |-> auction.version, version |-> 0]

Overdue == ended /\ auction # NoAuction /\ auction.state = "open"

FinalizeOverdueAuction ==
    /\ Overdue
    /\ Mutate(OverdueReveal)

Next ==
    \/ \E r \in Requests : Mutate(r)
    \/ FinalizeOverdueAuction
    \/ ClosingTime

Spec == Init /\ [][Next]_vars

-----------------------------------------------------------------------------
(* Properties *)

(* The auction is absent or well-formed; the history holds what its bids    *)
(* and withdrawals are.                                                     *)
TypeOK ==
    /\ auction \in Auction \cup {NoAuction}
    /\ ended \in BOOLEAN
    /\ accepted \in Seq([type : {"place_bid", "withdraw_bid"},
                         bidder : Bidder, amount : Nat])

(* No sequence of accepted requests reaches a state the storage node itself *)
(* would refuse to load, synchronise or mutate as corrupted.                *)
NeverCorrupted ==
    auction # NoAuction => ~committed_state_error(auction)

(* The reference definitions, on the history alone: the entry that holds a  *)
(* bidder's active bid is his last entry, when that is a bid.               *)
ActiveEntries ==
    {i \in DOMAIN accepted :
       /\ accepted[i].type = "place_bid"
       /\ \A j \in DOMAIN accepted :
            j > i => accepted[j].bidder # accepted[i].bidder}

EarliestHighest ==
    {i \in ActiveEntries : \A j \in ActiveEntries :
       \/ accepted[i].amount > accepted[j].amount
       \/ accepted[i].amount = accepted[j].amount /\ i <= j}

ReferenceResult ==
    IF ActiveEntries = {} THEN NoSale("no_bids")
    ELSE LET i == CHOOSE i \in EarliestHighest : TRUE
         IN IF accepted[i].amount < auction.reserve
            THEN NoSale("reserve_not_met")
            ELSE [outcome |-> "successful_sale",
                  winner |-> accepted[i].bidder, amount |-> accepted[i].amount]

(* The published result is the one the whole history of accepted bids,      *)
(* replacements and withdrawals determines: the earliest accepted of the    *)
(* highest active bids wins, if it meets the reserve.                       *)
ResultFollowsHistory ==
    auction # NoAuction /\ auction.state = "revealed"
      => auction.result = ReferenceResult

(* Acceptance orders rank the active bids as they were accepted, also after *)
(* bids were replaced, withdrawn and placed again.                          *)
OrdersFollowAcceptance ==
    auction # NoAuction =>
      /\ Bidders(auction.bids) = {accepted[i].bidder : i \in ActiveEntries}
      /\ \A i, j \in ActiveEntries :
           i < j <=> auction.bids[accepted[i].bidder].acceptance_order
                       < auction.bids[accepted[j].bidder].acceptance_order

(* What decides whether a primary can close an auction after its deadline   *)
(* (service.py:509) is its seller id alone, never the requests it has seen: *)
(* the reveal is accepted unless the id was stored with surrounding blanks, *)
(* as a reveal's seller is stripped before the comparison and the stored    *)
(* one is not (auction_domain.py:115).                                      *)
OverdueCanBeRevealed ==
    Overdue =>
      (build_candidate(OverdueReveal, auction, ended).reason = "none"
         <=> Strip[auction.seller] = auction.seller)

(* Once revealed, an auction never changes: no late bid, withdrawal, second *)
(* reveal or re-creation.                                                   *)
RevealedIsFinal ==
    [][auction # NoAuction /\ auction.state = "revealed"
         => auction' = auction]_vars

(* A bid a bidder holds before and after a step is not lowered by it, and   *)
(* his position is given up when it is raised.                              *)
ReplacementLosesItsPlace ==
    [][auction # NoAuction =>
         \A b \in Bidders(auction.bids) \cap Bidders(auction'.bids) :
           auction'.bids[b] # auction.bids[b] =>
             /\ auction'.bids[b].amount > auction.bids[b].amount
             /\ \A c \in Bidders(auction.bids) :
                  auction'.bids[b].acceptance_order
                    > auction.bids[c].acceptance_order]_vars
=============================================================================
