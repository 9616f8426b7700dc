--------------------------- MODULE MCAuctionService ---------------------------
(* One auction: its creation, a bid, its reveal and the overdue reveal.     *)
EXTENDS AuctionService

CONSTANTS create, bid, reveal, sweep, r1, w1

MCCreated == <<create>>
=============================================================================
