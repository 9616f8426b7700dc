----------------------- MODULE AuctionLifecycleProofs -----------------------
(***************************************************************************)
(* Proofs about AuctionLifecycle, for any bidders, sellers, amounts and    *)
(* requests: what the operators of AuctionDomain do to an auction          *)
(* (MutationCases), that acceptance orders stay ranked as the history of   *)
(* accepted bids and withdrawals is, and that the published result is the  *)
(* one the history determines.                                             *)
(***************************************************************************)
EXTENDS AuctionLifecycle, FiniteSetTheorems, WellFoundedInduction, TLAPS

-----------------------------------------------------------------------------
(* Strict orders on finite sets, for the winner *)

(* A finite set that is not empty has an element with none above it.        *)
LEMMA FiniteMaximum ==
    ASSUME NEW S, IsFiniteSet(S), S # {}, NEW R,
           \A x \in S : <<x, x>> \notin R,
           \A x, y, z \in S : <<x, y>> \in R /\ <<y, z>> \in R => <<x, z>> \in R
    PROVE  \E x \in S : \A y \in S : <<y, x>> \notin R
<1>. DEFINE above == [x \in S |-> {y \in S : <<y, x>> \in R}]
            T == {above[x] : x \in S}
<1>1. T \subseteq FiniteSubsetsOf(S) /\ T # {}
  <2>1. \A x \in S : above[x] \in SUBSET S
    OBVIOUS
  <2>2. \A x \in S : IsFiniteSet(above[x])
    BY <2>1, FS_Subset
  <2>3. PICK x \in S : TRUE
    OBVIOUS
  <2>4. above[x] \in T
    BY <2>3
  <2>5. ASSUME NEW t \in T PROVE t \in FiniteSubsetsOf(S)
    <3>1. PICK z \in S : t = above[z]
      OBVIOUS
    <3>. QED
      BY <2>1, <2>2, <3>1 DEF FiniteSubsetsOf
  <2>. QED
    BY <2>4, <2>5
<1>2. IsWellFoundedOn(StrictSubsetOrdering(S), FiniteSubsetsOf(S))
  BY FS_StrictSubsetOrderingWellFounded
<1>3. PICK m \in T : \A n \in T : <<n, m>> \notin StrictSubsetOrdering(S)
  <2>. HIDE DEF T
  <2>. QED
    BY <1>1, <1>2, WFMin
<1>4. PICK x \in S : m = above[x]
  OBVIOUS
<1>5. ASSUME NEW y \in S, <<y, x>> \in R
      PROVE  FALSE
  <2>1. above[y] \subseteq above[x] /\ y \in above[x] /\ y \notin above[y]
    BY <1>5
  <2>2. <<above[y], above[x]>> \in StrictSubsetOrdering(S)
    BY <2>1 DEF StrictSubsetOrdering
  <2>. QED
    BY <1>3, <1>4, <2>2
<1>. QED
  BY <1>5

-----------------------------------------------------------------------------
(* What a mutation does *)

(* A new auction.                                                           *)
Created ==
    /\ auction = NoAuction
    /\ \E r \in Request : /\ r.seller \in Seller /\ r.reserve # 0
                         /\ auction' = create_candidate(r)
    /\ accepted' = accepted

(* A bid of n by b, at the end of the line. *)
Placed(b, n) ==
    /\ b \in Bidders(auction.bids) => n > auction.bids[b].amount
    /\ auction' = [auction EXCEPT
                     !.bids[b] = [amount |-> n,
                                  acceptance_order |-> next_bid_sequence(auction)],
                     !.next_bid_sequence = next_bid_sequence(auction) + 1,
                     !.version = @ + 1]
    /\ accepted' = Append(accepted, Entry("place_bid", b, n))

Withdrawn(b) ==
    /\ b \in Bidders(auction.bids)
    /\ auction' = [auction EXCEPT
                     !.bids[b] = NoBid,
                     !.next_bid_sequence = next_bid_sequence(auction),
                     !.version = @ + 1]
    /\ accepted' = Append(accepted, Entry("withdraw_bid", b, 0))

Revealed ==
    /\ auction' = reveal_candidate(auction)
    /\ accepted' = accepted

Changed ==
    /\ auction # NoAuction /\ auction.state = "open"
    /\ \/ \E b \in Bidder : \E n \in Nat \ {0} : Placed(b, n)
       \/ \E b \in Bidder : Withdrawn(b)
       \/ Revealed

(* The bid request that is accepted names one bidder.                       *)
LEMMA OneBidder ==
    ASSUME NEW r \in Request, NEW a \in Auction, ~bid_error(r, a, ended)
    PROVE  LET b == CHOOSE b \in Bidders(r.bids) : TRUE
           IN /\ b \in Bidder /\ r.bids[b] \in Nat \ {0}
              /\ b \in Bidders(a.bids) => r.bids[b] > a.bids[b].amount
<1>1. Bidders(r.bids) \subseteq Bidder
  BY DEF Bidders
<1>2. IsFiniteSet(Bidders(r.bids))
  BY <1>1, DomainAssumption, FS_Subset
<1>3. PICK x : Bidders(r.bids) = {x}
  BY <1>2, FS_Singleton DEF bid_error
<1>4. (CHOOSE b \in Bidders(r.bids) : TRUE) = x
  BY <1>3
<1>5. x \in Bidder /\ r.bids[x] # NoBid
  BY <1>3 DEF Bidders
<1>6. r.bids[x] \in Nat
  BY <1>5 DEF Request
<1>7. r.bids[x] # 0 /\ (x \in Bidders(a.bids) => ~(r.bids[x] <= a.bids[x].amount))
  BY <1>3 DEF bid_error
<1>8. x \in Bidders(a.bids) => a.bids[x].amount \in Nat
  BY <1>5 DEF Bidders, Auction, ActiveBid
<1>9. /\ x \in Bidder /\ r.bids[x] \in Nat \ {0}
      /\ x \in Bidders(a.bids) => r.bids[x] > a.bids[x].amount
  BY <1>5, <1>6, <1>7, <1>8
<1>. QED
  BY <1>4, <1>9, Zenon

(* build_candidate accepts a creation, or a bid, a withdrawal or a reveal   *)
(* of an open auction, and nothing else.                                    *)
LEMMA MutationCases ==
    ASSUME TypeOK, NEW r \in Request, Mutate(r)
    PROVE  ended' = ended /\ (Created \/ Changed)
<1>. DEFINE type == effective_mutation_type(r, auction)
            error == existing_mutation_error(r, type, auction)
            outcome == build_candidate(r, auction, ended)
<1>1. /\ outcome.reason = "none" /\ auction' = outcome.candidate
      /\ accepted' = Recorded(r, type) /\ ended' = ended
  BY DEF Mutate
<1>2. CASE auction = NoAuction
  <2>1. outcome = build_create_candidate(r, type)
    BY <1>2 DEF build_candidate
  <2>2. /\ type = "create" /\ ~create_request_error(r)
        /\ outcome = Accepted(create_candidate(r))
    BY <1>1, <2>1 DEF build_create_candidate, Rejected
  <2>3. r.seller \in Seller /\ r.reserve # 0
    BY <2>2 DEF create_request_error, Request
  <2>4. accepted' = accepted
    BY <1>1, <2>2 DEF Recorded
  <2>. QED
    BY <1>1, <1>2, <2>2, <2>3, <2>4 DEF Created, Accepted
<1>3. CASE auction # NoAuction
  <2>1. error = "none"
    BY <1>1, <1>3 DEF build_candidate, Rejected
  <2>2. auction \in Auction /\ auction.state = "open"
    BY <1>3, <2>1 DEF existing_mutation_error, TypeOK, Auction
  <2>3. CASE type = "reveal"
    <3>1. outcome = Accepted(reveal_candidate(auction))
      BY <1>3, <2>1, <2>3 DEF build_candidate
    <3>. QED
      BY <1>1, <1>3, <2>2, <2>3, <3>1 DEF Accepted, Recorded, Changed, Revealed
  <2>4. CASE type = "place_bid"
    <3>. DEFINE b == CHOOSE b \in Bidders(r.bids) : TRUE
    <3>1. ~bid_error(r, auction, ended) /\ outcome = Accepted(bid_candidate(r, auction))
      BY <1>1, <1>3, <2>1, <2>4 DEF build_candidate, Rejected
    <3>2. /\ b \in Bidder /\ r.bids[b] \in Nat \ {0}
          /\ b \in Bidders(auction.bids) => r.bids[b] > auction.bids[b].amount
      BY <2>2, <3>1, OneBidder
    <3>3. accepted' = Append(accepted, Entry("place_bid", b, r.bids[b]))
      BY <1>1, <2>4 DEF Recorded
    <3>4. auction' = [auction EXCEPT
                     !.bids[b] = [amount |-> r.bids[b],
                                  acceptance_order |-> next_bid_sequence(auction)],
                     !.next_bid_sequence = next_bid_sequence(auction) + 1,
                     !.version = @ + 1]
      BY <1>1, <3>1 DEF Accepted, bid_candidate
    <3>5. Placed(b, r.bids[b])
      BY <3>2, <3>3, <3>4 DEF Placed
    <3>. QED
      BY <1>1, <1>3, <2>2, <3>2, <3>5 DEF Changed
  <2>5. CASE type = "withdraw_bid"
    <3>1. /\ ~withdraw_error(r, auction, ended)
          /\ outcome = Accepted(withdraw_candidate(r, auction))
      BY <1>1, <1>3, <2>1, <2>5 DEF build_candidate, Rejected
    <3>2. Strip[r.bidder] \in Bidders(auction.bids) /\ Strip[r.bidder] \in Bidder
      BY <3>1 DEF withdraw_error, Bidders
    <3>3. accepted' = Append(accepted, Entry("withdraw_bid", Strip[r.bidder], 0))
      BY <1>1, <2>5 DEF Recorded
    <3>4. Withdrawn(Strip[r.bidder])
      BY <1>1, <3>1, <3>2, <3>3 DEF Accepted, withdraw_candidate, Withdrawn
    <3>. QED
      BY <1>1, <1>3, <2>2, <3>2, <3>4 DEF Changed
  <2>6. CASE type \notin {"reveal", "place_bid", "withdraw_bid"}
    BY <1>1, <1>3, <2>1, <2>6 DEF build_candidate, Rejected
  <2>. QED
    BY <2>3, <2>4, <2>5, <2>6
<1>. QED
  BY <1>2, <1>3

-----------------------------------------------------------------------------
(* The inductive invariant *)

(* The sequence is above the order of every active bid. *)
Ranked ==
    /\ auction.next_bid_sequence > 0
    /\ \A b \in Bidders(auction.bids) :
         /\ auction.bids[b].acceptance_order > 0
         /\ auction.bids[b].acceptance_order < auction.next_bid_sequence

(* The active bids are the active entries of the history, in its order. *)
Mirrors ==
    /\ \A b \in Bidders(auction.bids) :
         \E i \in ActiveEntries : accepted[i].bidder = b
    /\ \A i \in ActiveEntries :
         /\ accepted[i].bidder \in Bidders(auction.bids)
         /\ auction.bids[accepted[i].bidder].amount = accepted[i].amount
    /\ \A i, j \in ActiveEntries :
         i < j => auction.bids[accepted[i].bidder].acceptance_order
                    < auction.bids[accepted[j].bidder].acceptance_order

ResultSound ==
    auction.result = IF auction.state = "open" THEN NoResult
                     ELSE build_result(auction)

IInv ==
    /\ TypeOK
    /\ auction = NoAuction => accepted = <<>>
    /\ auction # NoAuction => Ranked /\ Mirrors /\ ResultSound

HistoryEntry ==
    [type : {"place_bid", "withdraw_bid"}, bidder : Bidder, amount : Nat]

(* A new entry takes the place of its bidder's active one.                  *)
LEMMA AppendActive ==
    ASSUME accepted \in Seq(HistoryEntry), NEW e \in HistoryEntry,
           accepted' = Append(accepted, e)
    PROVE  /\ accepted' \in Seq(HistoryEntry)
           /\ Len(accepted) \in Nat
           /\ ActiveEntries \subseteq 1..Len(accepted)
           /\ \A i \in 1..Len(accepted) : accepted'[i] = accepted[i]
           /\ accepted'[Len(accepted) + 1] = e
           /\ \A i : i \in ActiveEntries' <=>
                \/ i \in ActiveEntries /\ accepted[i].bidder # e.bidder
                \/ i = Len(accepted) + 1 /\ e.type = "place_bid"
<1>. DEFINE n == Len(accepted)
<1>1. /\ accepted' \in Seq(HistoryEntry) /\ n \in Nat
      /\ DOMAIN accepted = 1..n /\ DOMAIN accepted' = 1..(n + 1)
      /\ \A i \in 1..n : accepted'[i] = accepted[i]
      /\ accepted'[n + 1] = e
  OBVIOUS
<1>2. ActiveEntries \subseteq 1..n
  BY <1>1 DEF ActiveEntries
<1>3. ASSUME NEW i
      PROVE  i \in ActiveEntries' <=>
               \/ i \in ActiveEntries /\ accepted[i].bidder # e.bidder
               \/ i = n + 1 /\ e.type = "place_bid"
  <2>1. CASE i \in 1..n
    <3>1. /\ n + 1 > i /\ i # n + 1
          /\ \A j \in 1..(n + 1) : j \in 1..n \/ j = n + 1
          /\ \A j \in 1..n : j \in 1..(n + 1)
      BY <1>1, <2>1
    <3>2. i \in ActiveEntries' <=>
            /\ accepted[i].type = "place_bid"
            /\ \A j \in 1..(n + 1) : j > i => accepted'[j].bidder # accepted[i].bidder
      BY <1>1, <2>1, <3>1 DEF ActiveEntries
    <3>3. i \in ActiveEntries <=>
            /\ accepted[i].type = "place_bid"
            /\ \A j \in 1..n : j > i => accepted[j].bidder # accepted[i].bidder
      BY <1>1, <2>1 DEF ActiveEntries
    <3>. QED
      BY <1>1, <3>1, <3>2, <3>3
  <2>2. CASE i = n + 1
    BY <1>1, <1>2, <2>2 DEF ActiveEntries
  <2>3. CASE i \notin 1..(n + 1)
    BY <1>1, <1>2, <2>3 DEF ActiveEntries
  <2>. QED
    BY <1>1, <2>1, <2>2, <2>3
<1>. QED
  BY <1>1, <1>2, <1>3

(* The sequence that is stored is the one to assign.                        *)
LEMMA SequenceAssigned ==
    ASSUME IInv, auction # NoAuction
    PROVE  next_bid_sequence(auction) = auction.next_bid_sequence
BY DEF IInv, Ranked, next_bid_sequence

(* A bid goes to the end of the line.                                       *)
LEMMA PlacedSound ==
    ASSUME IInv, auction # NoAuction, auction.state = "open",
           NEW b \in Bidder, NEW n \in Nat \ {0}, Placed(b, n), ended' = ended
    PROVE  IInv'
<1>. DEFINE next == auction.next_bid_sequence
            e == Entry("place_bid", b, n)
            k == Len(accepted) + 1
<1>1. /\ auction \in Auction /\ auction.bids \in [Bidder -> ActiveBid \cup {NoBid}]
      /\ next \in Nat \ {0} /\ accepted \in Seq(HistoryEntry)
      /\ auction.version \in Nat
  BY DEF IInv, TypeOK, Ranked, Auction, HistoryEntry
<1>2. /\ auction' = [auction EXCEPT
                      !.bids = [auction.bids EXCEPT
                                  ![b] = [amount |-> n, acceptance_order |-> next]],
                      !.next_bid_sequence = next + 1,
                      !.version = @ + 1]
      /\ accepted' = Append(accepted, e)
  BY <1>1, SequenceAssigned DEF Placed, Auction
<1>3. /\ auction'.bids = [auction.bids EXCEPT
                            ![b] = [amount |-> n, acceptance_order |-> next]]
      /\ auction'.next_bid_sequence = next + 1
      /\ auction'.state = "open" /\ auction'.result = auction.result
      /\ auction' \in Auction
  <2>1. [amount |-> n, acceptance_order |-> next] \in ActiveBid
    BY <1>1 DEF ActiveBid
  <2>2. [auction.bids EXCEPT ![b] = [amount |-> n, acceptance_order |-> next]]
          \in [Bidder -> ActiveBid \cup {NoBid}]
    BY <1>1, <2>1
  <2>3. /\ auction.version \in Nat \ {0} /\ auction.version + 1 \in Nat \ {0}
        /\ next + 1 \in Nat
    BY <1>1 DEF Auction
  <2>. HIDE DEF next
  <2>4. /\ auction'.bids = [auction.bids EXCEPT
                              ![b] = [amount |-> n, acceptance_order |-> next]]
        /\ auction'.next_bid_sequence = next + 1
        /\ auction'.state = auction.state /\ auction'.result = auction.result
    BY <1>1, <1>2 DEF Auction
  <2>5. auction' \in Auction
    BY <1>1, <1>2, <2>2, <2>3 DEF Auction
  <2>. QED
    BY <2>4, <2>5
<1>4. e \in HistoryEntry /\ e.bidder = b /\ e.type = "place_bid" /\ e.amount = n
  BY DEF HistoryEntry, Entry
<1>5. /\ accepted' \in Seq(HistoryEntry)
      /\ Len(accepted) \in Nat
      /\ ActiveEntries \subseteq 1..Len(accepted)
      /\ \A i \in 1..Len(accepted) : accepted'[i] = accepted[i]
      /\ accepted'[k] = e
      /\ \A i : i \in ActiveEntries' <=>
           \/ i \in ActiveEntries /\ accepted[i].bidder # b
           \/ i = k
  BY <1>1, <1>2, <1>4, AppendActive
<1>6. /\ auction'.bids[b] = [amount |-> n, acceptance_order |-> next]
      /\ auction'.bids[b] # NoBid
      /\ \A c \in Bidder \ {b} : auction'.bids[c] = auction.bids[c]
      /\ \A c : c \in Bidders(auction'.bids) <=>
                 c \in Bidders(auction.bids) \/ c = b
  <2>1. [amount |-> n, acceptance_order |-> next] \in ActiveBid
    BY <1>1 DEF ActiveBid
  <2>. QED
    BY <1>1, <1>3, <2>1, DomainAssumption DEF Bidders
<1>7. TypeOK'
  BY <1>3, <1>5 DEF IInv, TypeOK, HistoryEntry
<1>8. \A c \in Bidders(auction.bids) : c \in Bidder /\ auction.bids[c].acceptance_order \in Nat
  BY <1>1 DEF Bidders, ActiveBid
<1>9. Ranked'
  BY <1>1, <1>3, <1>6, <1>8 DEF IInv, Ranked
<1>10. Mirrors'
  <2>1. \A i \in ActiveEntries : /\ accepted'[i] = accepted[i] /\ i < k /\ i \in Nat
                                 /\ accepted[i].bidder \in Bidders(auction.bids)
    BY <1>5 DEF IInv, Mirrors
  <2>2. ASSUME NEW c \in Bidders(auction'.bids)
        PROVE  \E i \in ActiveEntries' : accepted'[i].bidder = c
    <3>1. CASE c = b
      BY <1>4, <1>5, <3>1
    <3>2. CASE c # b
      <4>1. PICK i \in ActiveEntries : accepted[i].bidder = c
        BY <1>6, <2>2, <3>2 DEF IInv, Mirrors
      <4>. QED
        BY <1>5, <2>1, <3>2, <4>1
    <3>. QED
      BY <3>1, <3>2
  <2>3. ASSUME NEW i \in ActiveEntries'
        PROVE  /\ accepted'[i].bidder \in Bidders(auction'.bids)
               /\ auction'.bids[accepted'[i].bidder].amount = accepted'[i].amount
    <3>1. CASE i = k
      BY <1>4, <1>5, <1>6, <3>1
    <3>2. CASE i # k
      <4>1. i \in ActiveEntries /\ accepted[i].bidder # b
        BY <1>5, <2>3, <3>2
      <4>. QED
        BY <1>6, <1>8, <2>1, <4>1 DEF IInv, Mirrors
    <3>. QED
      BY <3>1, <3>2
  <2>4. ASSUME NEW i \in ActiveEntries', NEW j \in ActiveEntries', i < j
        PROVE  auction'.bids[accepted'[i].bidder].acceptance_order
                 < auction'.bids[accepted'[j].bidder].acceptance_order
    <3>1. i \in ActiveEntries /\ accepted[i].bidder # b
      BY <1>5, <2>1, <2>4
    <3>2. /\ accepted'[i] = accepted[i] /\ accepted[i].bidder \in Bidders(auction.bids)
          /\ auction'.bids[accepted[i].bidder] = auction.bids[accepted[i].bidder]
      BY <1>6, <1>8, <2>1, <3>1
    <3>3. CASE j = k
      <4>1. auction'.bids[accepted'[j].bidder].acceptance_order = next
        BY <1>4, <1>5, <1>6, <3>3
      <4>2. auction.bids[accepted[i].bidder].acceptance_order < next
        BY <3>2 DEF IInv, Ranked
      <4>. QED
        BY <3>2, <4>1, <4>2
    <3>4. CASE j # k
      <4>1. j \in ActiveEntries /\ accepted[j].bidder # b
        BY <1>5, <2>4, <3>4
      <4>2. /\ accepted'[j] = accepted[j]
            /\ auction'.bids[accepted[j].bidder] = auction.bids[accepted[j].bidder]
        BY <1>6, <1>8, <2>1, <4>1
      <4>. QED
        BY <2>4, <3>1, <3>2, <4>1, <4>2 DEF IInv, Mirrors
    <3>. QED
      BY <3>3, <3>4
  <2>. QED
    BY <2>2, <2>3, <2>4 DEF Mirrors
<1>11. ResultSound'
  BY <1>3 DEF IInv, ResultSound
<1>. QED
  BY <1>3, <1>7, <1>9, <1>10, <1>11, DomainAssumption DEF IInv

(* A withdrawal leaves the others where they are.                           *)
LEMMA WithdrawnSound ==
    ASSUME IInv, auction # NoAuction, auction.state = "open",
           NEW b \in Bidder, Withdrawn(b), ended' = ended
    PROVE  IInv'
<1>. DEFINE next == auction.next_bid_sequence
            e == Entry("withdraw_bid", b, 0)
            k == Len(accepted) + 1
<1>1. /\ auction \in Auction /\ auction.bids \in [Bidder -> ActiveBid \cup {NoBid}]
      /\ next \in Nat \ {0} /\ accepted \in Seq(HistoryEntry)
      /\ auction.version \in Nat \ {0}
  BY DEF IInv, TypeOK, Ranked, Auction, HistoryEntry
<1>2. /\ auction' = [auction EXCEPT !.bids = [auction.bids EXCEPT ![b] = NoBid],
                                   !.next_bid_sequence = next,
                                   !.version = @ + 1]
      /\ accepted' = Append(accepted, e)
  BY <1>1, SequenceAssigned DEF Withdrawn, Auction
<1>3. /\ auction'.bids = [auction.bids EXCEPT ![b] = NoBid]
      /\ auction'.next_bid_sequence = next
      /\ auction'.state = "open" /\ auction'.result = auction.result
      /\ auction' \in Auction
  <2>1. [auction.bids EXCEPT ![b] = NoBid] \in [Bidder -> ActiveBid \cup {NoBid}]
    BY <1>1
  <2>2. auction.version + 1 \in Nat \ {0} /\ next \in Nat
    BY <1>1
  <2>. HIDE DEF next
  <2>3. /\ auction'.bids = [auction.bids EXCEPT ![b] = NoBid]
        /\ auction'.next_bid_sequence = next
        /\ auction'.state = auction.state /\ auction'.result = auction.result
    BY <1>1, <1>2 DEF Auction
  <2>4. auction' \in Auction
    BY <1>1, <1>2, <2>1, <2>2 DEF Auction
  <2>. QED
    BY <2>3, <2>4
<1>4. e \in HistoryEntry /\ e.bidder = b /\ e.type = "withdraw_bid"
  BY DEF HistoryEntry, Entry
<1>5. /\ accepted' \in Seq(HistoryEntry)
      /\ ActiveEntries \subseteq 1..Len(accepted)
      /\ \A i \in 1..Len(accepted) : accepted'[i] = accepted[i]
      /\ \A i : i \in ActiveEntries' <=>
           i \in ActiveEntries /\ accepted[i].bidder # b
  BY <1>1, <1>2, <1>4, AppendActive
<1>6. /\ \A c \in Bidder \ {b} : auction'.bids[c] = auction.bids[c]
      /\ \A c : c \in Bidders(auction'.bids) <=>
                 c \in Bidders(auction.bids) /\ c # b
  BY <1>1, <1>3 DEF Bidders
<1>7. TypeOK'
  BY <1>3, <1>5 DEF IInv, TypeOK, HistoryEntry
<1>8. \A c \in Bidders(auction.bids) : c \in Bidder
  BY DEF Bidders
<1>9. Ranked'
  BY <1>1, <1>3, <1>6, <1>8 DEF IInv, Ranked
<1>10. Mirrors'
  <2>1. \A i \in ActiveEntries : /\ accepted'[i] = accepted[i]
                                 /\ accepted[i].bidder \in Bidders(auction.bids)
    BY <1>5 DEF IInv, Mirrors
  <2>2. ASSUME NEW c \in Bidders(auction'.bids)
        PROVE  \E i \in ActiveEntries' : accepted'[i].bidder = c
    <3>1. PICK i \in ActiveEntries : accepted[i].bidder = c
      BY <1>6, <2>2 DEF IInv, Mirrors
    <3>. QED
      BY <1>5, <1>6, <2>1, <2>2, <3>1
  <2>3. ASSUME NEW i \in ActiveEntries'
        PROVE  /\ i \in ActiveEntries /\ accepted'[i] = accepted[i]
               /\ accepted[i].bidder \in Bidders(auction'.bids)
               /\ auction'.bids[accepted[i].bidder] = auction.bids[accepted[i].bidder]
    BY <1>5, <1>6, <1>8, <2>1, <2>3
  <2>. QED
    BY <2>2, <2>3 DEF IInv, Mirrors
<1>11. ResultSound'
  BY <1>3 DEF IInv, ResultSound
<1>. QED
  BY <1>3, <1>7, <1>9, <1>10, <1>11, DomainAssumption DEF IInv

-----------------------------------------------------------------------------
(* The result *)

(* The result depends on the bids and the reserve only.                     *)
LEMMA ResultCongruent ==
    ASSUME NEW a, NEW d, a.bids = d.bids, a.reserve = d.reserve
    PROVE  build_result(a) = build_result(d)
<1>1. Winner(a) = Winner(d)
  BY DEF Winner, Ahead
<1>. QED
  BY <1>1 DEF build_result

(* Of the active bids one is ahead of all, and it is the winner.            *)
LEMMA WinnerLeads ==
    ASSUME IInv, auction # NoAuction, auction.bids # NoBids
    PROVE  /\ Winner(auction) \in Bidders(auction.bids)
           /\ \A c \in Bidders(auction.bids) : Ahead(auction, Winner(auction), c)
<1>. DEFINE S == Bidders(auction.bids)
            amount(b) == auction.bids[b].amount
            order(b) == auction.bids[b].acceptance_order
            R == {p \in S \X S : \/ amount(p[1]) > amount(p[2])
                                \/ /\ amount(p[1]) = amount(p[2])
                                   /\ order(p[1]) < order(p[2])}
<1>1. auction.bids \in [Bidder -> ActiveBid \cup {NoBid}]
  BY DEF IInv, TypeOK, Auction
<1>2. \A b \in S : b \in Bidder /\ amount(b) \in Nat /\ order(b) \in Nat
  BY <1>1 DEF Bidders, ActiveBid
<1>3. IsFiniteSet(S) /\ S # {}
  <2>1. S \subseteq Bidder
    BY <1>2
  <2>2. \E b \in Bidder : auction.bids[b] # NoBid
    BY <1>1 DEF NoBids
  <2>. QED
    BY <2>1, <2>2, DomainAssumption, FS_Subset DEF Bidders
<1>4. \A x, y \in S : <<x, y>> \in R <=>
         \/ amount(x) > amount(y)
         \/ amount(x) = amount(y) /\ order(x) < order(y)
  OBVIOUS
<1>5. \A x \in S : <<x, x>> \notin R
  BY <1>2, <1>4
<1>6. \A x, y, z \in S : <<x, y>> \in R /\ <<y, z>> \in R => <<x, z>> \in R
  BY <1>2, <1>4
<1>7. PICK w \in S : \A c \in S : <<c, w>> \notin R
  <2>. HIDE DEF R, S
  <2>. QED
    BY <1>3, <1>5, <1>6, FiniteMaximum
<1>8. ASSUME NEW c \in S
      PROVE  Ahead(auction, w, c)
  <2>1. ~(amount(c) > amount(w) \/ (amount(c) = amount(w) /\ order(c) < order(w)))
    BY <1>4, <1>7
  <2>2. /\ amount(c) \in Nat /\ order(c) \in Nat
        /\ amount(w) \in Nat /\ order(w) \in Nat
    BY <1>2
  <2>3. amount(w) > amount(c) \/ (amount(w) = amount(c) /\ order(w) <= order(c))
    BY <2>1, <2>2
  <2>. QED
    BY <2>3 DEF Ahead
<1>. QED
  BY <1>8 DEF Winner

(* The result has its shape.                                                *)
LEMMA ResultType ==
    ASSUME IInv, auction # NoAuction
    PROVE  build_result(auction) \in Result
<1>1. CASE auction.bids = NoBids
  BY <1>1 DEF build_result, NoSale, Result
<1>2. CASE auction.bids # NoBids
  <2>1. Winner(auction) \in Bidders(auction.bids)
    BY <1>2, WinnerLeads
  <2>2. Winner(auction) \in Bidder /\ auction.bids[Winner(auction)].amount \in Nat
    BY <2>1 DEF IInv, TypeOK, Auction, Bidders, ActiveBid
  <2>. QED
    BY <1>2, <2>2 DEF build_result, NoSale, Result
<1>. QED
  BY <1>1, <1>2

(* The result is the one the history determines.                            *)
LEMMA ResultIsReference ==
    ASSUME IInv, auction # NoAuction
    PROVE  build_result(auction) = ReferenceResult
<1>. DEFINE w == Winner(auction)
<1>1. auction.bids \in [Bidder -> ActiveBid \cup {NoBid}]
  BY DEF IInv, TypeOK, Auction
<1>2. CASE auction.bids = NoBids
  <2>1. Bidders(auction.bids) = {}
    BY <1>2 DEF Bidders, NoBids
  <2>2. ActiveEntries = {}
    BY <2>1 DEF IInv, Mirrors
  <2>. QED
    BY <1>2, <2>2 DEF build_result, ReferenceResult
<1>3. CASE auction.bids # NoBids
  <2>1. /\ w \in Bidders(auction.bids)
        /\ \A c \in Bidders(auction.bids) : Ahead(auction, w, c)
    BY <1>3, WinnerLeads
  <2>2. PICK k \in ActiveEntries : accepted[k].bidder = w
    BY <2>1 DEF IInv, Mirrors
  <2>3. \A i \in ActiveEntries :
          /\ i \in Nat /\ accepted[i].amount \in Nat
          /\ accepted[i].bidder \in Bidders(auction.bids)
          /\ accepted[i].bidder \in Bidder
          /\ auction.bids[accepted[i].bidder].amount = accepted[i].amount
          /\ auction.bids[accepted[i].bidder].acceptance_order \in Nat
    <3>1. \A i \in ActiveEntries : i \in DOMAIN accepted
      BY DEF ActiveEntries
    <3>2. \A i \in DOMAIN accepted : i \in Nat /\ accepted[i].amount \in Nat
      <4>1. accepted \in Seq(HistoryEntry)
        BY DEF IInv, TypeOK, HistoryEntry
      <4>2. \A i \in DOMAIN accepted : i \in Nat /\ accepted[i] \in HistoryEntry
        BY <4>1
      <4>. QED
        BY <4>2 DEF HistoryEntry
    <3>3. \A b \in Bidders(auction.bids) :
            b \in Bidder /\ auction.bids[b].acceptance_order \in Nat
      BY <1>1 DEF Bidders, ActiveBid
    <3>. QED
      BY <3>1, <3>2, <3>3 DEF IInv, Mirrors
  <2>4. ASSUME NEW j \in ActiveEntries
        PROVE  \/ accepted[k].amount > accepted[j].amount
               \/ accepted[k].amount = accepted[j].amount /\ k <= j
    <3>1. Ahead(auction, w, accepted[j].bidder)
      BY <2>1, <2>3
    <3>2. j < k => auction.bids[accepted[j].bidder].acceptance_order
                     < auction.bids[w].acceptance_order
      BY <2>2 DEF IInv, Mirrors
    <3>. QED
      BY <2>2, <2>3, <3>1, <3>2 DEF Ahead
  <2>5. k \in EarliestHighest
    BY <2>4 DEF EarliestHighest
  <2>6. ASSUME NEW i \in EarliestHighest PROVE i = k
    <3>1. i \in ActiveEntries
      BY DEF EarliestHighest
    <3>2. \/ accepted[i].amount > accepted[k].amount
          \/ accepted[i].amount = accepted[k].amount /\ i <= k
      BY DEF EarliestHighest
    <3>. QED
      BY <2>3, <2>4, <3>1, <3>2
  <2>7. (CHOOSE i \in EarliestHighest : TRUE) = k
    BY <2>5, <2>6
  <2>8. ActiveEntries # {} /\ accepted[k].amount = auction.bids[w].amount
    BY <2>2, <2>3
  <2>. QED
    BY <1>3, <2>2, <2>7, <2>8 DEF build_result, ReferenceResult
<1>. QED
  BY <1>2, <1>3

-----------------------------------------------------------------------------
(* The other steps *)

(* A reveal publishes the result of the bids it leaves.                     *)
LEMMA RevealedSound ==
    ASSUME IInv, auction # NoAuction, auction.state = "open", Revealed,
           ended' = ended
    PROVE  IInv'
<1>1. /\ auction \in Auction /\ auction.version \in Nat \ {0}
      /\ auction.version + 1 \in Nat \ {0}
  BY DEF IInv, TypeOK, Auction
<1>2. /\ auction'.bids = auction.bids /\ auction'.reserve = auction.reserve
      /\ auction'.next_bid_sequence = auction.next_bid_sequence
      /\ auction'.state = "revealed"
      /\ auction'.result = build_result(auction)
      /\ accepted' = accepted
  BY <1>1 DEF Revealed, reveal_candidate, Auction
<1>3. auction' \in Auction
  BY <1>1, ResultType DEF Revealed, reveal_candidate, Auction
<1>4. build_result(auction') = build_result(auction)
  BY <1>2, ResultCongruent
<1>5. TypeOK' /\ Ranked' /\ Mirrors' /\ ResultSound'
  BY <1>2, <1>3, <1>4
     DEF IInv, TypeOK, Ranked, Mirrors, ActiveEntries, ResultSound
<1>. QED
  BY <1>3, <1>5, DomainAssumption DEF IInv

(* A new auction has no bids.                                               *)
LEMMA CreatedSound ==
    ASSUME IInv, Created, ended' = ended
    PROVE  IInv'
<1>1. PICK r \in Request : /\ r.seller \in Seller /\ r.reserve # 0
                          /\ auction' = create_candidate(r)
  BY DEF Created
<1>2. r.reserve \in Nat \ {0}
  BY <1>1 DEF Request
<1>3. NoBids \in [Bidder -> ActiveBid \cup {NoBid}]
  BY DEF NoBids
<1>4. auction' \in Auction
  BY <1>1, <1>2, <1>3 DEF create_candidate, Auction
<1>5. /\ auction'.bids = NoBids /\ auction'.next_bid_sequence = 1
      /\ auction'.state = "open" /\ auction'.result = NoResult
      /\ accepted' = <<>>
  BY <1>1 DEF create_candidate, Created, IInv
<1>6. Bidders(auction'.bids) = {}
  BY <1>5 DEF Bidders, NoBids
<1>7. ActiveEntries' = {}
  BY <1>5 DEF ActiveEntries
<1>8. TypeOK' /\ Ranked' /\ Mirrors' /\ ResultSound'
  BY <1>4, <1>5, <1>6, <1>7 DEF IInv, TypeOK, Ranked, Mirrors, ResultSound, Created
<1>. QED
  BY <1>4, <1>8, DomainAssumption DEF IInv

(* The reveal a primary sends itself is a request as any other.             *)
LEMMA OverdueIsRequest ==
    ASSUME TypeOK, Overdue
    PROVE  OverdueReveal \in Request
<1>1. auction \in Auction
  BY DEF TypeOK, Overdue
<1>2. NoBids \in [Bidder -> Nat \cup {NoBid}]
  BY DEF NoBids
<1>. QED
  BY <1>1, <1>2 DEF OverdueReveal, Request, MutationType, Auction

(* Every step is a mutation in one of its cases, the closing time, or none. *)
LEMMA StepCases ==
    ASSUME TypeOK, [Next]_vars
    PROVE  \/ ended' = ended /\ (Created \/ Changed)
           \/ UNCHANGED <<auction, accepted>> /\ ended' \in BOOLEAN
<1>1. CASE \E r \in Requests : Mutate(r)
  BY <1>1, MutationCases, RequestsAssumption
<1>2. CASE FinalizeOverdueAuction
  BY <1>2, OverdueIsRequest, MutationCases DEF FinalizeOverdueAuction
<1>3. CASE ClosingTime \/ UNCHANGED vars
  BY <1>3 DEF ClosingTime, vars, TypeOK
<1>. QED
  BY <1>1, <1>2, <1>3 DEF Next

(* A mutation of an existing auction keeps the invariant.                   *)
LEMMA ChangedSound ==
    ASSUME IInv, Changed, ended' = ended
    PROVE  IInv'
BY PlacedSound, WithdrawnSound, RevealedSound DEF Changed

-----------------------------------------------------------------------------
(* Theorems *)

(* Any accepted requests keep the orders ranked as the history is and the   *)
(* result what the bids determine.                                          *)
THEOREM Inductive == Spec => []IInv
<1>1. Init => IInv
  <2>1. <<>> \in Seq(HistoryEntry)
    OBVIOUS
  <2>2. Init => TypeOK
    BY <2>1 DEF Init, TypeOK, HistoryEntry
  <2>. QED
    BY <2>2 DEF Init, IInv
<1>2. IInv /\ [Next]_vars => IInv'
  <2>. SUFFICES ASSUME IInv, [Next]_vars PROVE IInv'
    OBVIOUS
  <2>1. CASE UNCHANGED <<auction, accepted>> /\ ended' \in BOOLEAN
    BY <2>1 DEF IInv, TypeOK, Ranked, Mirrors, ActiveEntries, ResultSound
  <2>2. CASE ended' = ended /\ (Created \/ Changed)
    BY <2>2, CreatedSound, ChangedSound
  <2>. QED
    BY <2>1, <2>2, StepCases DEF IInv
<1>. QED
  BY <1>1, <1>2, PTL DEF Spec

(* The stored auction keeps its shape.                                      *)
THEOREM TypeCorrect == Spec => []TypeOK
<1>1. IInv => TypeOK
  BY DEF IInv
<1>. QED
  BY <1>1, Inductive, PTL

(* No accepted requests lead to an auction that a restart or a full-state   *)
(* synchronization would refuse (committed_state_error, auction_domain.py). *)
THEOREM Uncorrupted == Spec => []NeverCorrupted
<1>1. IInv => NeverCorrupted
  <2>. SUFFICES ASSUME IInv, auction # NoAuction
                PROVE  ~committed_state_error(auction)
    BY DEF NeverCorrupted
  <2>1. auction.bids \in [Bidder -> ActiveBid \cup {NoBid}]
        /\ auction.next_bid_sequence \in Nat
        /\ auction.state \in {"open", "revealed"}
    BY DEF IInv, TypeOK, Auction
  <2>2. \A b \in Bidders(auction.bids) :
          /\ auction.bids[b].acceptance_order \in Nat
          /\ auction.bids[b].acceptance_order < auction.next_bid_sequence
    BY <2>1 DEF IInv, Ranked, Bidders, ActiveBid
  <2>3. ASSUME NEW b \in Bidders(auction.bids), NEW c \in Bidders(auction.bids),
               b # c
        PROVE  auction.bids[b].acceptance_order # auction.bids[c].acceptance_order
    <3>1. PICK i \in ActiveEntries, j \in ActiveEntries :
            accepted[i].bidder = b /\ accepted[j].bidder = c
      BY DEF IInv, Mirrors
    <3>2. i \in Nat /\ j \in Nat /\ i # j
      <4>1. accepted \in Seq(HistoryEntry)
        BY DEF IInv, TypeOK, HistoryEntry
      <4>. QED
        BY <2>3, <3>1, <4>1 DEF ActiveEntries
    <3>3. i < j \/ j < i
      BY <3>2
    <3>. QED
      BY <2>2, <3>1, <3>3 DEF IInv, Mirrors
  <2>4. \A n \in Orders(auction) :
          n \in Nat /\ n < auction.next_bid_sequence
    BY <2>2 DEF Orders
  <2>5. ~acceptance_order_state_error(auction)
    BY <2>1, <2>3, <2>4 DEF acceptance_order_state_error
  <2>. QED
    BY <2>1, <2>5 DEF committed_state_error, IInv, ResultSound
<1>. QED
  BY <1>1, Inductive, PTL

(* The published result is the one the whole history determines: the        *)
(* earliest of the highest active bids, if it meets the reserve             *)
(* (build_result, auction_domain.py).                                       *)
THEOREM ResultCorrect == Spec => []ResultFollowsHistory
<1>1. IInv => ResultFollowsHistory
  BY ResultIsReference DEF IInv, ResultSound, ResultFollowsHistory
<1>. QED
  BY <1>1, Inductive, PTL

(* Acceptance orders rank the active bids as they were accepted.            *)
THEOREM OrdersCorrect == Spec => []OrdersFollowAcceptance
<1>1. IInv => OrdersFollowAcceptance
  <2>. SUFFICES ASSUME IInv, auction # NoAuction
                PROVE  /\ Bidders(auction.bids)
                            = {accepted[i].bidder : i \in ActiveEntries}
                       /\ \A i, j \in ActiveEntries :
                            i < j <=>
                              auction.bids[accepted[i].bidder].acceptance_order
                                < auction.bids[accepted[j].bidder].acceptance_order
    BY DEF OrdersFollowAcceptance
  <2>1. Bidders(auction.bids) = {accepted[i].bidder : i \in ActiveEntries}
    BY DEF IInv, Mirrors
  <2>2. ASSUME NEW i \in ActiveEntries, NEW j \in ActiveEntries
        PROVE  i < j <=> auction.bids[accepted[i].bidder].acceptance_order
                           < auction.bids[accepted[j].bidder].acceptance_order
    <3>1. i \in Nat /\ j \in Nat
      <4>1. accepted \in Seq(HistoryEntry)
        BY DEF IInv, TypeOK, HistoryEntry
      <4>. QED
        BY <4>1 DEF ActiveEntries
    <3>2. \A b \in Bidders(auction.bids) :
            auction.bids[b].acceptance_order \in Nat
      BY DEF IInv, TypeOK, Auction, Bidders, ActiveBid
    <3>3. /\ i < j => auction.bids[accepted[i].bidder].acceptance_order
                        < auction.bids[accepted[j].bidder].acceptance_order
          /\ j < i => auction.bids[accepted[j].bidder].acceptance_order
                        < auction.bids[accepted[i].bidder].acceptance_order
          /\ accepted[i].bidder \in Bidders(auction.bids)
          /\ accepted[j].bidder \in Bidders(auction.bids)
      BY DEF IInv, Mirrors
    <3>4. i < j \/ j < i \/ i = j
      BY <3>1
    <3>. QED
      BY <3>1, <3>2, <3>3, <3>4
  <2>. QED
    BY <2>1, <2>2
<1>. QED
  BY <1>1, Inductive, PTL

(* The reveal a new primary sends itself for an overdue auction             *)
(* (_reconcile_overdue_auctions, storage/service.py) is accepted, whatever  *)
(* was accepted before, unless the stored seller id has surrounding blanks; *)
(* then it is refused every time (auction_domain.py:115).                   *)
THEOREM OverdueRevealed == Spec => []OverdueCanBeRevealed
<1>1. NeverCorrupted /\ TypeOK => OverdueCanBeRevealed
  <2>. SUFFICES ASSUME NeverCorrupted, TypeOK, Overdue
                PROVE  build_candidate(OverdueReveal, auction, ended).reason = "none"
                         <=> Strip[auction.seller] = auction.seller
    BY DEF OverdueCanBeRevealed
  <2>1. /\ auction # NoAuction /\ auction \in Auction
        /\ auction.state = "open" /\ auction.version # 0
        /\ ~acceptance_order_state_error(auction)
    BY DEF NeverCorrupted, TypeOK, Overdue, Auction, committed_state_error
  <2>2. effective_mutation_type(OverdueReveal, auction) = "reveal"
    BY DEF effective_mutation_type, OverdueReveal
  <2>3. existing_mutation_error(OverdueReveal, "reveal", auction)
          = IF Strip[auction.seller] = auction.seller THEN "none" ELSE "invalid_state"
    BY <2>1 DEF existing_mutation_error, OverdueReveal, expected_version
  <2>. QED
    BY <2>1, <2>2, <2>3 DEF build_candidate, Accepted, Rejected
<1>. QED
  BY <1>1, Uncorrupted, TypeCorrect, PTL

(* Once revealed, an auction never changes.                                 *)
THEOREM RevealFinal == Spec => RevealedIsFinal
<1>1. IInv /\ [Next]_vars =>
        [auction # NoAuction /\ auction.state = "revealed"
           => auction' = auction]_vars
  <2>. SUFFICES ASSUME IInv, [Next]_vars, auction # NoAuction,
                       auction.state = "revealed"
                PROVE  auction' = auction
    OBVIOUS
  <2>. QED
    BY StepCases DEF IInv, Created, Changed
<1>. QED
  BY <1>1, Inductive, PTL DEF Spec, RevealedIsFinal

(* A raised bid goes behind all bids there are, whoever withdrew before.    *)
THEOREM ReplacementsMoveBack == Spec => ReplacementLosesItsPlace
<1>. DEFINE Moves ==
              auction # NoAuction =>
                \A b \in Bidders(auction.bids) \cap Bidders(auction'.bids) :
                  auction'.bids[b] # auction.bids[b] =>
                    /\ auction'.bids[b].amount > auction.bids[b].amount
                    /\ \A c \in Bidders(auction.bids) :
                         auction'.bids[b].acceptance_order
                           > auction.bids[c].acceptance_order
<1>1. IInv /\ [Next]_vars => Moves
  <2>. SUFFICES ASSUME IInv, [Next]_vars, auction # NoAuction,
                       NEW b \in Bidders(auction.bids) \cap Bidders(auction'.bids),
                       auction'.bids[b] # auction.bids[b]
                PROVE  /\ auction'.bids[b].amount > auction.bids[b].amount
                       /\ \A c \in Bidders(auction.bids) :
                            auction'.bids[b].acceptance_order
                              > auction.bids[c].acceptance_order
    OBVIOUS
  <2>1. /\ auction \in Auction
        /\ auction.bids \in [Bidder -> ActiveBid \cup {NoBid}]
        /\ auction.next_bid_sequence \in Nat
        /\ b \in Bidder /\ auction'.bids[b] # NoBid
    BY DEF IInv, TypeOK, Auction, Bidders
  <2>2. \/ \E d \in Bidder : \E n \in Nat \ {0} : Placed(d, n)
        \/ \E d \in Bidder : Withdrawn(d)
        \/ Revealed
    BY StepCases DEF IInv, Created, Changed
  <2>3. ~Revealed
    BY <2>1 DEF Revealed, reveal_candidate, Auction
  <2>4. ASSUME NEW d \in Bidder, Withdrawn(d) PROVE FALSE
    <3>1. auction'.bids = [auction.bids EXCEPT ![d] = NoBid]
      BY <2>1, <2>4 DEF Withdrawn, Auction
    <3>. QED
      BY <2>1, <3>1
  <2>5. PICK d \in Bidder, n \in Nat \ {0} : Placed(d, n)
    BY <2>2, <2>3, <2>4
  <2>6. auction'.bids = [auction.bids EXCEPT
                           ![d] = [amount |-> n,
                                   acceptance_order |-> auction.next_bid_sequence]]
    BY <2>1, <2>5, SequenceAssigned DEF Placed, Auction
  <2>7. d = b /\ n > auction.bids[b].amount
    BY <2>1, <2>5, <2>6 DEF Placed
  <2>8. \A c \in Bidders(auction.bids) :
          /\ auction.bids[c].acceptance_order \in Nat
          /\ auction.bids[c].acceptance_order < auction.next_bid_sequence
    BY <2>1 DEF IInv, Ranked, Bidders, ActiveBid
  <2>. QED
    BY <2>1, <2>6, <2>7, <2>8
<1>2. IInv /\ [Next]_vars => [Moves]_vars
  BY <1>1
<1>. QED
  BY <1>2, Inductive, PTL DEF Spec, ReplacementLosesItsPlace
=============================================================================
