------------------------- MODULE MCAuctionLifecycle -------------------------
(* Every request clients may send, right or wrong, within MaxAmount and     *)
(* MaxVersion.  s2 is s1 with blanks around it, and b3 is b2 with blanks.   *)
EXTENDS AuctionLifecycle

CONSTANTS s1, s2, b1, b2, b3, MaxAmount, MaxVersion, Reserve

MCStrip == [i \in Id |-> IF i = s2 THEN s1 ELSE IF i = b3 THEN b2 ELSE i]

Versions == 1..MaxVersion

Blank ==
    [type |-> "unspecified", seller |-> NoOne, reserve |-> 0, ends_at |-> FALSE,
     metadata |-> FALSE, state |-> "open", bids |-> NoBids, bidder |-> NoOne,
     expected_version |-> 0, version |-> 0]

Creates ==
    {[Blank EXCEPT !.type = t, !.seller = s, !.reserve = n, !.ends_at = e] :
       t \in {"create", "unspecified"}, s \in {s1, s2}, n \in {0, Reserve},
       e \in BOOLEAN}

BidMaps ==
    {[NoBids EXCEPT ![b] = n] : b \in Bidder, n \in 0..MaxAmount}
      \cup {NoBids, [NoBids EXCEPT ![b1] = 1, ![b2] = 1]}

(* One bid, two in one request, and an id that contradicts the bid. *)
Bids ==
    {[Blank EXCEPT !.type = "place_bid", !.bids = m, !.bidder = b,
                   !.expected_version = v] :
       m \in BidMaps, b \in {NoOne, b1}, v \in Versions}

Withdrawals ==
    {[Blank EXCEPT !.type = "withdraw_bid", !.bidder = b, !.version = v] :
       b \in Bidder \cup {NoOne}, v \in Versions}

Reveals ==
    {[Blank EXCEPT !.type = "reveal", !.seller = s, !.state = st,
                   !.expected_version = v] :
       s \in {s1, s2}, st \in {"open", "revealed"}, v \in Versions}

MCRequests == Creates \cup Bids \cup Withdrawals \cup Reveals
=============================================================================
