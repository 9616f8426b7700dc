---------------------------- MODULE AuctionDomain ----------------------------
(***************************************************************************)
(* backend/blindsided/storage/auction_domain.py: what a mutation request   *)
(* does to a stored auction, as operators.  A candidate is the auction the *)
(* commit protocol would publish; a request that yields none has a failure *)
(* reason instead.                                                         *)
(*                                                                         *)
(* Amounts are naturals and 0 stands for every amount that is not positive *)
(* and finite.  NoOne is any blank bidder or seller id; Strip is strip() on *)
(* ids, which not every comparison applies to both sides.  The closing time *)
(* enters as the Boolean ended, sampled when the request is validated.     *)
(***************************************************************************)
EXTENDS Integers, FiniteSets

CONSTANTS
    Bidder,
    Seller,
    NoOne,      \* a blank bidder or seller id
    Strip,      \* an id without its surrounding blanks
    NoAuction,  \* no auction under the requested id
    NoBid,      \* a bidder without an entry in a bids map
    NoResult    \* the result field is absent

Id == Bidder \cup Seller \cup {NoOne}

MutationType == {"create", "place_bid", "withdraw_bid", "reveal", "unspecified"}

NoBids == [b \in Bidder |-> NoBid]

(* The keys of a bids map. *)
Bidders(bids) == {b \in Bidder : bids[b] # NoBid}

ActiveBid == [amount : Nat \ {0}, acceptance_order : Nat]

Result ==
    [outcome : {"no_bids", "reserve_not_met", "successful_sale"},
     winner : Bidder \cup {NoOne}, amount : Nat]

Auction ==
    [seller            : Seller,
     reserve           : Nat \ {0},
     bids              : [Bidder -> ActiveBid \cup {NoBid}],
     state             : {"open", "revealed"},
     version           : Nat \ {0},
     next_bid_sequence : Nat,
     result            : Result \cup {NoResult}]

(* metadata: the request carries a creation property besides the seller;    *)
(* expected_version and version are the request's and its auction's.        *)
Request ==
    [type             : MutationType,
     seller           : Seller \cup {NoOne},
     reserve          : Nat,
     ends_at          : BOOLEAN,
     metadata         : BOOLEAN,
     state            : {"open", "revealed"},
     bids             : [Bidder -> Nat \cup {NoBid}],
     bidder           : Bidder \cup {NoOne},
     expected_version : Nat,
     version          : Nat]

ASSUME DomainAssumption ==
    /\ NoOne \notin Bidder \cup Seller
    /\ Strip \in [Id -> Id]
    /\ \A i \in Id : /\ Strip[i] = NoOne <=> i = NoOne
                     /\ Strip[Strip[i]] = Strip[i]
    /\ IsFiniteSet(Bidder)
    /\ NoBid \notin Nat /\ NoBid \notin ActiveBid
    /\ NoResult \notin Result
    /\ NoAuction \notin Auction

-----------------------------------------------------------------------------
(* Stored state *)

Orders(a) ==
    {a.bids[b].acceptance_order : b \in Bidders(a.bids)} \ {0}

acceptance_order_state_error(a) ==
    \/ \E b, c \in Bidders(a.bids) :
         /\ b # c
         /\ a.bids[b].acceptance_order = a.bids[c].acceptance_order
         /\ a.bids[b].acceptance_order > 0
    \/ /\ a.next_bid_sequence > 0
       /\ \E n \in Orders(a) : a.next_bid_sequence < n + 1

next_bid_sequence(a) ==
    IF a.next_bid_sequence > 0 THEN a.next_bid_sequence
    ELSE IF a.bids = NoBids THEN 1
    ELSE 1 + CHOOSE n \in Orders(a) \cup {0} :
               \A m \in Orders(a) \cup {0} : m <= n

(* Fault: the latest of equal bids wins. *)
AheadLatest(a, b, c) ==
    \/ a.bids[b].amount > a.bids[c].amount
    \/ /\ a.bids[b].amount = a.bids[c].amount
       /\ a.bids[b].acceptance_order >= a.bids[c].acceptance_order

(* Ahead: b wins over c, by amount and then by acceptance order. *)
Ahead(a, b, c) ==
    \/ a.bids[b].amount > a.bids[c].amount
    \/ /\ a.bids[b].amount = a.bids[c].amount
       /\ a.bids[b].acceptance_order <= a.bids[c].acceptance_order

Winner(a) ==
    CHOOSE b \in Bidders(a.bids) : \A c \in Bidders(a.bids) : Ahead(a, b, c)

NoSale(outcome) == [outcome |-> outcome, winner |-> NoOne, amount |-> 0]

build_result(a) ==
    IF a.bids = NoBids THEN NoSale("no_bids")
    ELSE IF a.bids[Winner(a)].amount < a.reserve THEN NoSale("reserve_not_met")
    ELSE [outcome |-> "successful_sale", winner |-> Winner(a),
          amount |-> a.bids[Winner(a)].amount]

(* What makes a snapshot unloadable and a full-state sync rejected. *)
committed_state_error(a) ==
    \/ acceptance_order_state_error(a)
    \/ a.state = "open" /\ a.result # NoResult
    \/ a.state = "revealed" /\ a.result # build_result(a)

-----------------------------------------------------------------------------
(* Validation *)

effective_mutation_type(r, a) ==
    IF r.type # "unspecified" THEN r.type
    ELSE IF a = NoAuction THEN "create"
    ELSE IF r.bids # NoBids THEN "place_bid"
    ELSE "unspecified"

(* Fault: an auction without a reserve is created. *)
create_request_error_without_reserve(r) ==
    r.seller = NoOne \/ ~r.ends_at \/ r.bids # NoBids \/ r.state = "revealed"

create_request_error(r) ==
    \/ r.seller = NoOne \/ ~r.ends_at \/ r.reserve = 0
    \/ r.bids # NoBids \/ r.state = "revealed"

includes_creation_metadata(r) ==
    r.seller # NoOne \/ r.metadata \/ r.reserve > 0 \/ r.ends_at

expected_version(r) ==
    IF r.expected_version # 0 THEN r.expected_version ELSE r.version

(* Fault: a revealed auction is mutated as long as the version matches. *)
existing_mutation_error_of_open_auction(r, type, a) ==
    IF \/ type = "reveal" /\ Strip[r.seller] # a.seller
       \/ type # "reveal" /\ includes_creation_metadata(r)
    THEN "invalid_state"
    ELSE IF expected_version(r) # a.version THEN "concurrency_conflict"
    ELSE "none"

existing_mutation_error(r, type, a) ==
    IF \/ a.state = "revealed"
       \/ r.state = "revealed" /\ type # "reveal"
       \/ type = "reveal" /\ Strip[r.seller] # a.seller
       \/ acceptance_order_state_error(a)
       \/ type # "reveal" /\ includes_creation_metadata(r)
    THEN "invalid_state"
    ELSE IF expected_version(r) # a.version THEN "concurrency_conflict"
    ELSE "none"

(* Fault: a bidder may lower his bid. *)
bid_error_but_lowered(r, a, ended) ==
    \/ Cardinality(Bidders(r.bids)) # 1
    \/ \E b \in Bidders(r.bids) :
         \/ r.bidder # NoOne /\ r.bidder # b
         \/ ended \/ r.bids[b] = 0
         \/ b \in Bidders(a.bids) /\ r.bids[b] = a.bids[b].amount

(* A bid names one bidder, who outbids himself before the closing time. *)
bid_error(r, a, ended) ==
    \/ Cardinality(Bidders(r.bids)) # 1
    \/ \E b \in Bidders(r.bids) :
         \/ r.bidder # NoOne /\ r.bidder # b
         \/ ended \/ r.bids[b] = 0
         \/ b \in Bidders(a.bids) /\ r.bids[b] <= a.bids[b].amount

withdraw_error(r, a, ended) ==
    ended \/ r.bidder = NoOne \/ Strip[r.bidder] \notin Bidders(a.bids)

-----------------------------------------------------------------------------
(* Candidates *)

create_candidate(r) ==
    [seller |-> r.seller, reserve |-> r.reserve, bids |-> NoBids,
     state |-> "open", version |-> 1, next_bid_sequence |-> 1,
     result |-> NoResult]

(* Faults: the sequence is not advanced; a replaced bid keeps its place.    *)
bid_candidate_reusing_order(r, a) ==
    LET bidder == CHOOSE b \in Bidders(r.bids) : TRUE
        placed == [amount |-> r.bids[bidder],
                   acceptance_order |-> next_bid_sequence(a)]
    IN [a EXCEPT !.bids[bidder] = placed, !.version = @ + 1]

bid_candidate_keeping_place(r, a) ==
    LET bidder == CHOOSE b \in Bidders(r.bids) : TRUE
        order == next_bid_sequence(a)
    IN [a EXCEPT !.bids[bidder] =
                   [amount |-> r.bids[bidder],
                    acceptance_order |-> IF @ = NoBid THEN order
                                         ELSE @.acceptance_order],
                 !.next_bid_sequence = order + 1,
                 !.version = @ + 1]

bid_candidate(r, a) ==
    LET bidder == CHOOSE b \in Bidders(r.bids) : TRUE
        order == next_bid_sequence(a)
        placed == [amount |-> r.bids[bidder], acceptance_order |-> order]
    IN [a EXCEPT !.bids[bidder] = placed,
                 !.next_bid_sequence = order + 1,
                 !.version = @ + 1]

(* Fault: the orders start again after a withdrawal. *)
withdraw_candidate_restarting_orders(r, a) ==
    [a EXCEPT !.bids[Strip[r.bidder]] = NoBid,
              !.next_bid_sequence = 1,
              !.version = @ + 1]

withdraw_candidate(r, a) ==
    [a EXCEPT !.bids[Strip[r.bidder]] = NoBid,
              !.next_bid_sequence = next_bid_sequence(a),
              !.version = @ + 1]

reveal_candidate(a) ==
    [a EXCEPT !.state = "revealed",
              !.version = @ + 1,
              !.result = build_result(a)]

Accepted(c) == [reason |-> "none", candidate |-> c]
Rejected(reason) == [reason |-> reason, candidate |-> NoAuction]

build_create_candidate(r, type) ==
    IF type # "create" THEN Rejected("not_found")
    ELSE IF create_request_error(r) THEN Rejected("invalid_state")
    ELSE Accepted(create_candidate(r))

build_candidate(r, a, ended) ==
    LET type == effective_mutation_type(r, a)
        error == existing_mutation_error(r, type, a)
    IN IF a = NoAuction THEN build_create_candidate(r, type)
       ELSE IF error # "none" THEN Rejected(error)
       ELSE IF type = "reveal" THEN Accepted(reveal_candidate(a))
       ELSE IF type = "place_bid" /\ ~bid_error(r, a, ended)
       THEN Accepted(bid_candidate(r, a))
       ELSE IF type = "withdraw_bid" /\ ~withdraw_error(r, a, ended)
       THEN Accepted(withdraw_candidate(r, a))
       ELSE Rejected("invalid_state")
=============================================================================
