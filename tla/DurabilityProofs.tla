--------------------------- MODULE DurabilityProofs ---------------------------
(***************************************************************************)
(* Proofs about what Failover keeps.  While the first leader can be        *)
(* reached (Reigns), and when one replica fails, whichever it is (Reigns   *)
(* or Succession): acknowledged mutations, the ledger the auction service  *)
(* relies on, a backup that trails its primary, an activated primary.  A   *)
(* replica that fails may be cut off, stop, restart from its snapshot,     *)
(* register again and handle requests late, as often as the bounds allow.  *)
(***************************************************************************)
EXTENDS FailoverProofs

-----------------------------------------------------------------------------
(* Stores *)

Prefix(s, t) == Len(s) <= Len(t) /\ \A i \in 1..Len(s) : s[i] = t[i]

LEMMA PrefixReflexive ==
    ASSUME NEW s \in Seq(Op)
    PROVE  Prefix(s, s)
  BY DEF Prefix

LEMMA PrefixTransitive ==
    ASSUME NEW s \in Seq(Op), NEW t \in Seq(Op), NEW u \in Seq(Op),
           Prefix(s, t), Prefix(t, u)
    PROVE  Prefix(s, u)
  BY DEF Prefix

LEMMA PrefixAppended ==
    ASSUME NEW s \in Seq(Op), NEW t \in Seq(Op), NEW op \in Op
    PROVE  /\ Prefix(t, Append(t, op))
           /\ Prefix(s, t) => Prefix(s, Append(t, op))
  BY DEF Prefix

LEMMA PrefixEqual ==
    ASSUME NEW s \in Seq(Op), NEW t \in Seq(Op), Prefix(s, t), Len(t) <= Len(s)
    PROVE  s = t
  BY DEF Prefix

LEMMA AppendedLast ==
    ASSUME NEW s \in Seq(Op), NEW op \in Op
    PROVE  LET t == Append(s, op)
           IN /\ t \in Seq(Op) /\ t # <<>>
              /\ Len(t) = Len(s) + 1 /\ t[Len(t)] = op
  OBVIOUS

(* A prefix that is one longer ends where the longer sequence goes on.      *)
LEMMA PrefixNext ==
    ASSUME NEW s \in Seq(Op), NEW t \in Seq(Op), NEW u \in Seq(Op),
           Prefix(s, u), Prefix(t, u), Len(t) = Len(s) + 1
    PROVE  Prefix(s, t) /\ t = Append(s, t[Len(t)]) /\ t[Len(t)] \in Op
<1>1. Prefix(s, t)
  BY DEF Prefix
<1>2. t[Len(t)] \in Op
  OBVIOUS
<1>3. t = Append(s, t[Len(t)])
  BY <1>1, <1>2 DEF Prefix
<1>. QED
  BY <1>1, <1>2, <1>3

(* A replica has a record of each mutation in its store, each of them once. *)
Applied(store, op) == \E i \in 1..Len(store) : store[i] = op

Recording(r) ==
    /\ \A op \in Op : Recorded(r, op) <=> Applied(r.store, op)
    /\ \A i, j \in 1..Len(r.store) : r.store[i] = r.store[j] => i = j

LEMMA AppliedAppended ==
    ASSUME NEW s \in Seq(Op), NEW op \in Op, NEW o
    PROVE  Applied(Append(s, op), o) <=> Applied(s, o) \/ o = op
<1>. DEFINE t == Append(s, op)
<1>1. /\ Len(t) = Len(s) + 1 /\ t[Len(t)] = op /\ Len(s) \in Nat
      /\ \A i \in 1..Len(s) : t[i] = s[i]
  OBVIOUS
<1>. HIDE DEF t
<1>2. ASSUME NEW i \in 1..Len(t), i # Len(t) PROVE i \in 1..Len(s)
  BY <1>1, <1>2
<1>3. 1..Len(s) \subseteq 1..Len(t) /\ Len(t) \in 1..Len(t)
  BY <1>1
<1>4. Applied(t, o) <=> Applied(s, o) \/ o = op
  BY <1>1, <1>2, <1>3 DEF Applied
<1>. QED
  BY <1>4 DEF t

LEMMA AppliedPrefix ==
    ASSUME NEW s \in Seq(Op), NEW t \in Seq(Op), Prefix(s, t), NEW op,
           Applied(s, op)
    PROVE  Applied(t, op)
  BY DEF Applied, Prefix

(* Publishing one more mutation.                                            *)
LEMMA PublicationRecorded ==
    ASSUME NEW r \in Replica, NEW op \in Op, NEW candidate \in Seq(Op), NEW o
    PROVE  Recorded(Published(r, op, candidate), o) <=> Recorded(r, o) \/ o = op
<1>. DEFINE q == Published(r, op, candidate)
            x == [op |-> op, version |-> Len(candidate)]
<1>1. q.records = r.records \cup {x}
  BY DEF Published, Replica
<1>2. x.op = op
  OBVIOUS
<1>. HIDE DEF q, x
<1>3. Recorded(q, o) <=> Recorded(r, o) \/ o = op
  BY <1>1, <1>2 DEF Recorded
<1>. QED
  BY <1>3 DEF q

LEMMA RecordingAppended ==
    ASSUME NEW r \in Replica, Recording(r), NEW op \in Op, ~Recorded(r, op),
           NEW q, q.store = Append(r.store, op),
           \A o \in Op : Recorded(q, o) <=> Recorded(r, o) \/ o = op
    PROVE  Recording(q)
<1>. DEFINE s == r.store
            t == Append(s, op)
<1>1. s \in Seq(Op)
  BY DEF Replica
<1>2. \A o \in Op : Recorded(q, o) <=> Applied(t, o)
  BY <1>1, AppliedAppended DEF Recording
<1>3. /\ Len(t) = Len(s) + 1 /\ t[Len(t)] = op /\ Len(s) \in Nat
      /\ \A i \in 1..Len(s) : t[i] = s[i]
  BY <1>1
<1>4. /\ \A i \in 1..Len(s) : s[i] # op
      /\ \A i, j \in 1..Len(s) : s[i] = s[j] => i = j
  BY DEF Recording, Applied
<1>. HIDE DEF t, s
<1>5. ASSUME NEW i \in 1..Len(t), NEW j \in 1..Len(t), t[i] = t[j]
      PROVE  i = j
  <2>1. /\ i \in 1..Len(s) \/ i = Len(t)
        /\ j \in 1..Len(s) \/ j = Len(t)
    BY <1>3
  <2>. QED
    BY <1>3, <1>4, <1>5, <2>1
<1>6. q.store = t
  BY DEF t, s
<1>. QED
  BY <1>2, <1>5, <1>6 DEF Recording
-----------------------------------------------------------------------------
(* The handlers *)

(* Replication at a backup keeps what it stores, except for a commit, and   *)
(* at a primary it changes nothing.                                         *)
SameData(r, q) ==
    /\ SameAuthority(r, q)
    /\ q.store = r.store /\ q.records = r.records /\ q.pending = r.pending

LEMMA PreparationData ==
    ASSUME NEW r \in Replica, NEW p \in PreparedMutation
    PROVE  LET q == PrepareAuctionMutation(r, p)
           IN /\ SameData(r, q) /\ q.aborted = r.aborted
              /\ \/ q.prepared = r.prepared
                 \/ PrepareAccepted(r, p) /\ q.prepared = r.prepared \cup {p}
              /\ r.role = "primary" => q = r
              /\ PrepareAccepted(r, p) => p \in q.prepared
  BY DEF PrepareAuctionMutation, PrepareAccepted, SameData, SameAuthority, Replica

LEMMA AbortData ==
    ASSUME NEW r \in Replica, NEW d
    PROVE  LET q == AbortPreparedMutation(r, d)
           IN /\ SameData(r, q)
              /\ \/ q = r
                 \/ /\ q.prepared \subseteq r.prepared
                    /\ \A p \in r.prepared : p.op # d.op => p \in q.prepared
                    /\ \A op : Tombstoned(r, op) => Tombstoned(q, op)
                    /\ Tombstoned(q, d.op)
              /\ r.role = "primary" => q = r
<1>. DEFINE undone == {p \in PreparedFor(r, d.op) : p.primary = d.primary}
            x == [op |-> d.op, primary |-> d.primary]
            changed == [r EXCEPT !.prepared = @ \ undone, !.aborted = @ \cup {x}]
            q == AbortPreparedMutation(r, d)
<1>1. q = r \/ (r.role = "backup" /\ q = changed)
  BY DEF AbortPreparedMutation
<1>2. /\ SameData(r, changed) /\ changed.prepared = r.prepared \ undone
      /\ changed.aborted = r.aborted \cup {x}
  BY DEF Replica, SameData, SameAuthority
<1>3. x.op = d.op /\ \A p \in undone : p.op = d.op
  BY DEF PreparedFor
<1>. HIDE DEF x, undone, changed, q
<1>4. SameData(r, r)
  BY DEF SameData, SameAuthority
<1>5. /\ \A op : Tombstoned(r, op) => Tombstoned(changed, op)
      /\ Tombstoned(changed, d.op)
  BY <1>2, <1>3 DEF Tombstoned
<1>6. /\ changed.prepared \subseteq r.prepared
      /\ \A p \in r.prepared : p.op # d.op => p \in changed.prepared
  BY <1>2, <1>3
<1>7. /\ SameData(r, q)
      /\ \/ q = r
         \/ /\ q.prepared \subseteq r.prepared
            /\ \A p \in r.prepared : p.op # d.op => p \in q.prepared
            /\ \A op : Tombstoned(r, op) => Tombstoned(q, op)
            /\ Tombstoned(q, d.op)
      /\ r.role = "primary" => q = r
  BY <1>1, <1>2, <1>4, <1>5, <1>6
<1>. QED
  BY <1>7 DEF q

LEMMA CommitData ==
    ASSUME NEW r \in Replica, NEW d, d.op \in Op
    PROVE  LET q == CommitPreparedMutation(r, d)
           IN /\ SameAuthority(r, q) /\ q.pending = r.pending
              /\ q.aborted = r.aborted
              /\ \/ q = r
                 \/ \E p \in r.prepared :
                      /\ p.op = d.op /\ Len(p.candidate) = Len(r.store) + 1
                      /\ r.role = "backup"
                      /\ q.store = p.candidate
                      /\ q.prepared = r.prepared \ {p}
                      /\ \A op : Recorded(q, op) <=> Recorded(r, op) \/ op = d.op
              /\ \A op : Recorded(r, op) => Recorded(q, op)
              /\ r.role = "primary" => q = r
<1>. DEFINE q == CommitPreparedMutation(r, d)
<1>1. CASE CommitAccepted(r, d) /\ PreparedFor(r, d.op) # {}
  <2>. DEFINE p == CHOOSE x \in Committable(r, d) : TRUE
              stored == Published(r, d.op, p.candidate)
  <2>1. p \in Committable(r, d)
    BY <1>1 DEF CommitAccepted
  <2>2. /\ p \in r.prepared /\ p.op = d.op /\ p.candidate \in Seq(Op)
        /\ Len(p.candidate) = Len(r.store) + 1
    BY <2>1 DEF Committable, PreparedFor, Replica, PreparedMutation
  <2>3. q = [stored EXCEPT !.prepared = @ \ {p}]
    BY <1>1 DEF CommitPreparedMutation
  <2>. HIDE DEF p, q
  <2>4. stored \in Replica /\ SameAuthority(r, stored)
    BY <2>2, MutationPublished
  <2>5. /\ stored.store = p.candidate /\ stored.prepared = r.prepared
        /\ stored.pending = r.pending /\ stored.aborted = r.aborted
    BY DEF Published, Replica
  <2>6. \A op : Recorded(stored, op) <=> Recorded(r, op) \/ op = d.op
    BY <2>2, PublicationRecorded
  <2>. HIDE DEF stored
  <2>7. /\ q.store = p.candidate /\ q.prepared = r.prepared \ {p}
        /\ q.pending = r.pending /\ q.aborted = r.aborted
        /\ q.records = stored.records
        /\ SameAuthority(stored, q)
    BY <2>3, <2>4, <2>5 DEF Replica, SameAuthority
  <2>8. \A op : Recorded(q, op) <=> Recorded(r, op) \/ op = d.op
    BY <2>6, <2>7 DEF Recorded
  <2>9. SameAuthority(r, q) /\ r.role = "backup"
    BY <1>1, <2>4, <2>7 DEF SameAuthority, CommitAccepted
  <2>. QED
    BY <2>2, <2>7, <2>8, <2>9 DEF q
<1>2. CASE ~(CommitAccepted(r, d) /\ PreparedFor(r, d.op) # {})
  BY <1>2 DEF CommitPreparedMutation, SameAuthority
<1>. QED
  BY <1>1, <1>2

LEMMA DecisionData ==
    ASSUME NEW r \in Replica, NEW p \in PreparedMutation, r.backup \in Node
    PROVE  LET q == Decided(r, p)
           IN /\ q.store = p.candidate /\ q.prepared = r.prepared
              /\ q.aborted = r.aborted
              /\ \A op : Recorded(q, op) <=> Recorded(r, op) \/ op = p.op
              /\ \E d : /\ d.op = p.op /\ d.backup = r.backup
                        /\ q.pending = r.pending \cup {d}
<1>. DEFINE stored == Published(r, p.op, p.candidate)
            d == [op |-> p.op, version |-> Len(p.candidate),
                  backup |-> r.backup, epoch |-> r.epoch]
            q == Decided(r, p)
<1>1. p.op \in Op /\ p.candidate \in Seq(Op)
  BY DEF PreparedMutation
<1>2. stored \in Replica
  BY <1>1, MutationPublished
<1>3. /\ stored.store = p.candidate /\ stored.prepared = r.prepared
      /\ stored.pending = r.pending /\ stored.aborted = r.aborted
  BY DEF Published, Replica
<1>4. \A op : Recorded(stored, op) <=> Recorded(r, op) \/ op = p.op
  BY <1>1, PublicationRecorded
<1>5. q = [stored EXCEPT !.pending = @ \cup {d}]
  BY DEF Decided
<1>6. d.op = p.op /\ d.backup = r.backup
  OBVIOUS
<1>. HIDE DEF stored, d, q
<1>7. /\ q.store = p.candidate /\ q.prepared = r.prepared
      /\ q.aborted = r.aborted /\ q.pending = r.pending \cup {d}
      /\ q.records = stored.records
  BY <1>2, <1>3, <1>5 DEF Replica
<1>8. \A op : Recorded(q, op) <=> Recorded(r, op) \/ op = p.op
  BY <1>4, <1>7 DEF Recorded
<1>. QED
  BY <1>6, <1>7, <1>8 DEF q

LEMMA AcknowledgmentData ==
    ASSUME NEW r \in Replica, NEW op
    PROVE  LET q == Acknowledged(r, op)
           IN /\ q.store = r.store /\ q.records = r.records
              /\ q.prepared = r.prepared /\ q.aborted = r.aborted
              /\ q.pending = {d \in r.pending : d.op # op}
<1>1. r.pending \ PendingFor(r, op) = {d \in r.pending : d.op # op}
  BY DEF PendingFor
<1>. QED
  BY <1>1 DEF Acknowledged, Replica
-----------------------------------------------------------------------------
(* A replica and its backup *)

PendingRecorded(r) == \A d \in r.pending : Recorded(r, d.op)

(* What the first leader l, or its snapshot, may still know when f has      *)
(* succeeded it: it decided with f as its backup, and a mutation it thinks  *)
(* committed is recorded there.                                             *)
FormerLeader(l, f) ==
    /\ l.backup = Follower
    /\ \A d \in l.pending : d.backup = Follower
    /\ PendingRecorded(l)
    /\ l.role = "primary" =>
         /\ l.epoch = 1 /\ l.ready
         /\ \A op \in Op :
              Recorded(l, op) /\ PendingFor(l, op) = {} => Recorded(f, op)

(* Backup f follows leader l: it is one mutation behind at most, and what   *)
(* it prepared of l's mutations is what l decided.                          *)
Follows(f, l) ==
    /\ Prefix(f.store, l.store)
    /\ Len(l.store) <= Len(f.store) + 1
    /\ \A p \in f.prepared :
         /\ Len(p.candidate) \in 1..(Len(f.store) + 1)
         /\ p.candidate[Len(p.candidate)] = p.op
         /\ Recorded(l, p.op) => Prefix(p.candidate, l.store)
         /\ \A q \in f.prepared : q.op = p.op => q = p
    /\ \A op \in Op : Recorded(l, op) =>
         Recorded(f, op) \/ Tombstoned(f, op) \/ PreparedFor(f, op) # {}

(* Leader l, whose snapshot is s, and its backup f before f succeeds it.    *)
Backed(l, s, f) ==
    /\ f.role = "backup" /\ f.reported /\ f.pending = {} /\ f.epoch = 1
    /\ s.ready /\ s.epoch = 1
    /\ s.store = l.store /\ s.records = l.records /\ s.pending = l.pending
    /\ l.role = "backup" => l.epoch = 2
    /\ Follows(f, l)
    /\ Recording(l)

LEMMA FormerLeaderSameData ==
    ASSUME NEW l \in Replica, NEW f, FormerLeader(l, f), NEW q, SameData(l, q),
           NEW g, \A op \in Op : Recorded(f, op) => Recorded(g, op)
    PROVE  FormerLeader(q, g)
<1>1. /\ q.backup = l.backup /\ q.pending = l.pending /\ q.role = l.role
      /\ q.epoch = l.epoch /\ q.ready = l.ready
      /\ \A op : Recorded(q, op) <=> Recorded(l, op)
      /\ \A op : PendingFor(q, op) = PendingFor(l, op)
  BY DEF SameData, SameAuthority, Recorded, PendingFor
<1>. QED
  BY <1>1 DEF FormerLeader, PendingRecorded

(* Whoever holds more records may take the follower's place.                *)
LEMMA FormerLeaderGrows ==
    ASSUME NEW l, NEW f, FormerLeader(l, f),
           NEW g, \A op \in Op : Recorded(f, op) => Recorded(g, op)
    PROVE  FormerLeader(l, g)
  BY DEF FormerLeader

(* A former leader that is no primary may record more and decide nothing.   *)
LEMMA FormerLeaderCommits ==
    ASSUME NEW l \in Replica, NEW f, FormerLeader(l, f), NEW d, d.op \in Op
    PROVE  FormerLeader(CommitPreparedMutation(l, d), f)
<1>. DEFINE q == CommitPreparedMutation(l, d)
<1>1. /\ SameAuthority(l, q) /\ q.pending = l.pending
      /\ \A op : Recorded(l, op) => Recorded(q, op)
      /\ l.role = "primary" => q = l
  BY CommitData
<1>2. CASE l.role = "primary"
  BY <1>1, <1>2
<1>3. CASE l.role # "primary"
  BY <1>1, <1>3 DEF FormerLeader, PendingRecorded, SameAuthority
<1>. QED
  BY <1>2, <1>3

(* What it saves restores the same.                                         *)
LEMMA FormerLeaderSaved ==
    ASSUME NEW l, NEW f, FormerLeader(l, f),
           l.ready /\ l.backup # NoNode => l.role = "primary"
    PROVE  FormerLeader(Loaded(Saved(l)), f)
<1>. DEFINE q == Loaded(Saved(l))
<1>1. /\ q.backup = l.backup /\ q.pending = l.pending /\ q.records = l.records
      /\ q.epoch = l.epoch /\ q.ready = l.ready
      /\ q.role = "primary" => l.role = "primary"
  BY DEF Loaded, Saved
<1>. HIDE DEF q
<1>2. /\ \A op : Recorded(q, op) <=> Recorded(l, op)
      /\ \A op : PendingFor(q, op) = PendingFor(l, op)
  BY <1>1 DEF Recorded, PendingFor
<1>3. FormerLeader(q, f)
  BY <1>1, <1>2 DEF FormerLeader, PendingRecorded
<1>. QED
  BY <1>3 DEF q

(* It becomes a backup, by an installation or an answer to its registration.*)
LEMMA FormerLeaderInstalled ==
    ASSUME NEW l \in Replica, NEW f, FormerLeader(l, f), l.role = "backup",
           NEW epoch, NEW store, NEW records
    PROVE  FormerLeader(ReplaceWithFullState(l, epoch, store, records), f)
  BY DEF FormerLeader, ReplaceWithFullState, Replica, PendingRecorded

(* A restarted leader is backed as before.                                  *)
LEMMA BackedLoaded ==
    ASSUME NEW l, NEW s, NEW f, Backed(l, s, f), s.backup \in Node
    PROVE  /\ Backed(Loaded(s), s, f)
           /\ Loaded(s).role = "primary" /\ Loaded(s).epoch = 1
           /\ Loaded(s).store = l.store /\ Loaded(s).records = l.records
<1>. DEFINE q == Loaded(s)
<1>1. /\ q.role = "primary" /\ q.epoch = 1 /\ q.store = l.store
      /\ q.records = l.records /\ q.pending = l.pending
  BY ControllerAssumption DEF Loaded, Backed
<1>. HIDE DEF q
<1>2. \A op : Recorded(q, op) <=> Recorded(l, op)
  BY <1>1 DEF Recorded
<1>3. Follows(f, q) /\ Recording(q)
  BY <1>1, <1>2 DEF Backed, Follows, Recording
<1>4. Backed(q, s, f)
  BY <1>1, <1>3 DEF Backed
<1>. QED
  BY <1>1, <1>4 DEF q

(* l changes its role or forgets a pending decision, and nothing else.      *)
LEMMA BackedSameStore ==
    ASSUME NEW l, NEW s, NEW f, Backed(l, s, f), NEW q, NEW z,
           q.store = l.store, q.records = l.records,
           q.role = "backup" => q.epoch = 2,
           z.ready, z.epoch = 1, z.store = q.store, z.records = q.records,
           z.pending = q.pending
    PROVE  Backed(q, z, f)
<1>1. \A op : Recorded(q, op) <=> Recorded(l, op)
  BY DEF Recorded
<1>2. Follows(f, q) /\ Recording(q)
  BY <1>1 DEF Backed, Follows, Recording
<1>. QED
  BY <1>2 DEF Backed
(* The backup prepares a mutation the leader did not decide yet, or does so *)
(* again.                                                                   *)
LEMMA BackedPrepares ==
    ASSUME NEW l, NEW s, NEW f \in Replica, Backed(l, s, f),
           NEW p \in PreparedMutation, p.candidate # <<>>,
           p.candidate[Len(p.candidate)] = p.op
    PROVE  Backed(l, s, PrepareAuctionMutation(f, p))
<1>. DEFINE g == PrepareAuctionMutation(f, p)
<1>1. /\ SameData(f, g) /\ g.aborted = f.aborted
      /\ \/ g.prepared = f.prepared
         \/ PrepareAccepted(f, p) /\ g.prepared = f.prepared \cup {p}
  BY PreparationData
<1>. HIDE DEF g
<1>2. /\ g.role = f.role /\ g.reported = f.reported /\ g.pending = f.pending
      /\ g.epoch = f.epoch /\ g.store = f.store
      /\ \A op : Recorded(g, op) <=> Recorded(f, op)
      /\ \A op : Tombstoned(g, op) <=> Tombstoned(f, op)
  BY <1>1 DEF SameData, SameAuthority, Recorded, Tombstoned
<1>3. f.prepared \subseteq g.prepared
  BY <1>1
<1>4. ASSUME NEW q \in g.prepared
      PROVE  /\ Len(q.candidate) \in 1..(Len(f.store) + 1)
             /\ q.candidate[Len(q.candidate)] = q.op
             /\ Recorded(l, q.op) => Prefix(q.candidate, l.store)
             /\ \A x \in g.prepared : x.op = q.op => x = q
  <2>1. CASE g.prepared = f.prepared
    BY <1>4, <2>1 DEF Backed, Follows
  <2>2. CASE /\ PrepareAccepted(f, p) /\ p \notin f.prepared
             /\ g.prepared = f.prepared \cup {p}
    <3>1. /\ PreparedFor(f, p.op) = {} /\ ~Recorded(f, p.op)
          /\ ~Tombstoned(f, p.op) /\ Len(p.candidate) = Len(f.store) + 1
      BY <2>2 DEF PrepareAccepted
    <3>2. ~Recorded(l, p.op)
      BY <3>1 DEF Backed, Follows, PreparedMutation
    <3>3. \A x \in f.prepared : x.op # p.op
      BY <3>1 DEF PreparedFor
    <3>4. Len(f.store) \in Nat
      BY DEF Replica
    <3>5. CASE q = p
      BY <2>2, <3>1, <3>2, <3>3, <3>4, <3>5
    <3>6. CASE q \in f.prepared
      BY <2>2, <3>3, <3>6 DEF Backed, Follows
    <3>. QED
      BY <1>4, <2>2, <3>5, <3>6
  <2>. QED
    BY <1>1, <2>1, <2>2
<1>5. ASSUME NEW op \in Op, Recorded(l, op)
      PROVE  Recorded(g, op) \/ Tombstoned(g, op) \/ PreparedFor(g, op) # {}
  BY <1>2, <1>3, <1>5 DEF Backed, Follows, PreparedFor
<1>6. Follows(g, l)
  BY <1>2, <1>4, <1>5 DEF Backed, Follows
<1>7. Backed(l, s, g)
  BY <1>2, <1>6 DEF Backed
<1>. QED
  BY <1>7 DEF g

(* It undoes a preparation, and remembers that it did.                      *)
LEMMA BackedAborts ==
    ASSUME NEW l, NEW s, NEW f \in Replica, Backed(l, s, f), NEW d
    PROVE  Backed(l, s, AbortPreparedMutation(f, d))
<1>. DEFINE g == AbortPreparedMutation(f, d)
<1>1. /\ SameData(f, g)
      /\ \/ g = f
         \/ /\ g.prepared \subseteq f.prepared
            /\ \A p \in f.prepared : p.op # d.op => p \in g.prepared
            /\ \A op : Tombstoned(f, op) => Tombstoned(g, op)
            /\ Tombstoned(g, d.op)
  BY AbortData
<1>. HIDE DEF g
<1>2. /\ g.role = f.role /\ g.reported = f.reported /\ g.pending = f.pending
      /\ g.epoch = f.epoch /\ g.store = f.store
      /\ \A op : Recorded(g, op) <=> Recorded(f, op)
  BY <1>1 DEF SameData, SameAuthority, Recorded
<1>3. ASSUME NEW op \in Op, Recorded(l, op)
      PROVE  Recorded(g, op) \/ Tombstoned(g, op) \/ PreparedFor(g, op) # {}
  <2>1. Recorded(f, op) \/ Tombstoned(f, op) \/ PreparedFor(f, op) # {}
    BY <1>3 DEF Backed, Follows
  <2>. QED
    BY <1>1, <1>2, <2>1 DEF PreparedFor
<1>4. g.prepared \subseteq f.prepared
  BY <1>1
<1>5. Follows(g, l)
  BY <1>2, <1>3, <1>4 DEF Backed, Follows
<1>6. Backed(l, s, g)
  BY <1>2, <1>5 DEF Backed
<1>. QED
  BY <1>6 DEF g

(* It commits a mutation the leader decided.                                *)
LEMMA BackedCommits ==
    ASSUME NEW l \in Replica, NEW s, NEW f \in Replica, Backed(l, s, f),
           Recording(f), NEW d, d.op \in Op, Recorded(l, d.op)
    PROVE  LET g == CommitPreparedMutation(f, d)
           IN Backed(l, s, g) /\ Recording(g)
<1>. DEFINE g == CommitPreparedMutation(f, d)
<1>1. CASE g = f
  BY <1>1
<1>2. CASE g # f
  <2>1. /\ SameAuthority(f, g) /\ g.pending = f.pending /\ g.aborted = f.aborted
        /\ \E p \in f.prepared :
             /\ p.op = d.op /\ Len(p.candidate) = Len(f.store) + 1
             /\ g.store = p.candidate
             /\ g.prepared = f.prepared \ {p}
             /\ \A op : Recorded(g, op) <=> Recorded(f, op) \/ op = d.op
    BY <1>2, CommitData
  <2>2. PICK p \in f.prepared :
          /\ p.op = d.op /\ Len(p.candidate) = Len(f.store) + 1
          /\ g.store = p.candidate
          /\ g.prepared = f.prepared \ {p}
          /\ \A op : Recorded(g, op) <=> Recorded(f, op) \/ op = d.op
    BY <2>1
  <2>. HIDE DEF g
  <2>3. /\ f.store \in Seq(Op) /\ p.candidate \in Seq(Op)
        /\ l.store \in Seq(Op)
    BY DEF Replica, PreparedMutation
  <2>4. /\ Prefix(p.candidate, l.store) /\ Prefix(f.store, l.store)
        /\ p.candidate[Len(p.candidate)] = d.op
    BY <2>2 DEF Backed, Follows
  <2>5. g.store = Append(f.store, d.op)
    BY <2>2, <2>3, <2>4, PrefixNext
  <2>6. ~Recorded(f, d.op)
    <3>1. l.store[Len(f.store) + 1] = d.op
      BY <2>2, <2>3, <2>4 DEF Prefix
    <3>2. Len(f.store) + 1 \in 1..Len(l.store)
      BY <2>2, <2>3, <2>4 DEF Prefix
    <3>3. ~Applied(f.store, d.op)
      <4>1. SUFFICES ASSUME NEW i \in 1..Len(f.store), f.store[i] = d.op
                     PROVE  FALSE
        BY DEF Applied
      <4>2. l.store[i] = d.op /\ i \in 1..Len(l.store)
        BY <2>3, <2>4, <4>1 DEF Prefix
      <4>3. i = Len(f.store) + 1
        BY <3>1, <3>2, <4>2 DEF Backed, Recording
      <4>. QED
        BY <2>3, <4>3
    <3>. QED
      BY <3>3 DEF Recording
  <2>7. Recording(g)
    BY <2>2, <2>5, <2>6, RecordingAppended
  <2>8. /\ g.role = f.role /\ g.reported = f.reported /\ g.epoch = f.epoch
        /\ g.pending = f.pending
        /\ \A op : Tombstoned(g, op) <=> Tombstoned(f, op)
    BY <2>1 DEF SameAuthority, Tombstoned
  <2>9. Len(g.store) = Len(f.store) + 1 /\ Len(f.store) \in Nat
    BY <2>2, <2>3
  <2>10. ASSUME NEW q \in g.prepared
         PROVE  /\ Len(q.candidate) \in 1..(Len(g.store) + 1)
                /\ q.candidate[Len(q.candidate)] = q.op
                /\ Recorded(l, q.op) => Prefix(q.candidate, l.store)
                /\ \A x \in g.prepared : x.op = q.op => x = q
    <3>1. /\ q \in f.prepared /\ g.prepared \subseteq f.prepared
          /\ Len(q.candidate) \in 1..(Len(f.store) + 1)
      BY <2>2, <2>10 DEF Backed, Follows
    <3>2. Len(q.candidate) \in 1..(Len(g.store) + 1)
      BY <2>9, <3>1
    <3>. QED
      BY <3>1, <3>2 DEF Backed, Follows
  <2>11. ASSUME NEW op \in Op, Recorded(l, op)
         PROVE  Recorded(g, op) \/ Tombstoned(g, op) \/ PreparedFor(g, op) # {}
    <3>1. Recorded(f, op) \/ Tombstoned(f, op) \/ PreparedFor(f, op) # {}
      BY <2>11 DEF Backed, Follows
    <3>. QED
      BY <2>2, <2>8, <3>1 DEF PreparedFor
  <2>12. Prefix(g.store, l.store) /\ Len(l.store) <= Len(g.store) + 1
    <3>1. Len(l.store) <= Len(f.store) + 1 /\ Len(l.store) \in Nat
      BY <2>3 DEF Backed, Follows
    <3>. QED
      BY <2>2, <2>4, <2>9, <3>1
  <2>13. Follows(g, l)
    BY <2>10, <2>11, <2>12 DEF Follows
  <2>14. Backed(l, s, g)
    BY <2>8, <2>13 DEF Backed
  <2>. QED
    BY <2>7, <2>14 DEF g
<1>. QED
  BY <1>1, <1>2

(* The leader decides a new mutation its backup prepared.                   *)
LEMMA BackedDecides ==
    ASSUME NEW l \in Replica, NEW s, NEW f \in Replica, Backed(l, s, f),
           l.role = "primary", NEW p \in PreparedMutation,
           p.candidate = Append(l.store, p.op), ~Recorded(l, p.op),
           PrepareAccepted(f, p),
           NEW q, q.role = l.role, q.store = p.candidate,
           \A op : Recorded(q, op) <=> Recorded(l, op) \/ op = p.op,
           NEW z, z.ready, z.epoch = 1, z.store = q.store,
           z.records = q.records, z.pending = q.pending
    PROVE  Backed(q, z, PrepareAuctionMutation(f, p)) /\ Recording(q)
<1>. DEFINE g == PrepareAuctionMutation(f, p)
<1>1. l.store \in Seq(Op) /\ f.store \in Seq(Op) /\ p.op \in Op
  BY DEF Replica, PreparedMutation
<1>2. /\ p.candidate # <<>> /\ p.candidate[Len(p.candidate)] = p.op
      /\ Len(p.candidate) = Len(l.store) + 1 /\ p.candidate \in Seq(Op)
  <2>. DEFINE t == Append(l.store, p.op)
  <2>1. /\ t \in Seq(Op) /\ t # <<>>
        /\ Len(t) = Len(l.store) + 1 /\ t[Len(t)] = p.op
    BY <1>1, AppendedLast
  <2>2. p.candidate = t
    OBVIOUS
  <2>. HIDE DEF t
  <2>. QED
    BY <2>1, <2>2
<1>3. Backed(l, s, g)
  BY <1>2, BackedPrepares
<1>4. g \in Replica /\ p \in g.prepared /\ g.store = f.store
  BY PreparationStored, PreparationData DEF SameData
<1>. HIDE DEF g
<1>5. Recording(q)
  BY <1>1, RecordingAppended DEF Backed
<1>6. Len(f.store) = Len(l.store)
  <2>1. /\ Len(p.candidate) <= Len(f.store) + 1
        /\ Len(f.store) <= Len(l.store)
    <3>1. Len(f.store) <= Len(l.store)
      BY DEF Backed, Follows, Prefix
    <3>2. Len(p.candidate) \in 1..(Len(f.store) + 1)
      BY <1>3, <1>4 DEF Backed, Follows
    <3>. QED
      BY <1>1, <3>1, <3>2
  <2>. QED
    BY <1>1, <1>2, <2>1
<1>7. Prefix(g.store, q.store) /\ Len(q.store) <= Len(g.store) + 1
  <2>1. Prefix(f.store, l.store)
    BY DEF Backed, Follows
  <2>. QED
    BY <1>1, <1>2, <1>4, <1>6, <2>1, PrefixAppended
<1>8. ASSUME NEW x \in g.prepared, Recorded(q, x.op)
      PROVE  Prefix(x.candidate, q.store)
  <2>1. x \in PreparedMutation
    BY <1>4, <1>8 DEF Replica
  <2>2. CASE x.op = p.op
    <3>1. x = p
      BY <1>3, <1>4, <1>8, <2>2 DEF Backed, Follows
    <3>. QED
      BY <1>2, <3>1, PrefixReflexive
  <2>3. CASE Recorded(l, x.op)
    <3>1. Prefix(x.candidate, l.store)
      BY <1>3, <1>8, <2>3 DEF Backed, Follows
    <3>. QED
      BY <1>1, <2>1, <3>1, PrefixAppended DEF PreparedMutation
  <2>. QED
    BY <1>8, <2>2, <2>3
<1>9. ASSUME NEW op \in Op, Recorded(q, op)
      PROVE  Recorded(g, op) \/ Tombstoned(g, op) \/ PreparedFor(g, op) # {}
  <2>1. CASE op = p.op
    BY <1>4, <2>1 DEF PreparedFor
  <2>2. CASE Recorded(l, op)
    BY <1>3, <2>2 DEF Backed, Follows
  <2>. QED
    BY <1>9, <2>1, <2>2
<1>10. Follows(g, q)
  BY <1>3, <1>7, <1>8, <1>9 DEF Backed, Follows
<1>11. Backed(q, z, g)
  BY <1>3, <1>5, <1>10 DEF Backed
<1>. QED
  BY <1>5, <1>11 DEF g
-----------------------------------------------------------------------------
(* What the steps do to the replicas *)

Others(S) ==
    \A a \in Node \ S : replica'[a] = replica[a] /\ disk'[a] = disk[a]

LEMMA SaveEffect ==
    ASSUME FInv, NEW n \in Node, NEW r, Save(n, r)
    PROVE  /\ replica'[n] = r /\ Others({n})
           /\ disk'[n] = IF r = replica[n] THEN disk[n] ELSE Saved(r)
  BY DEF FInv, ReplicasFit, Save, Others

(* Primary n decides op, which its backup b prepared as p.                  *)
DecisionTaken(n, op, b, p) ==
    /\ b \in Node \ {n} /\ p \in PreparedMutation /\ p.op = op
    /\ replica[b].role = "backup" /\ committing[b] = NoOp
    /\ p.candidate = Append(replica[n].store, op)
    /\ replica'[b] = PrepareAuctionMutation(replica[b], p)
    /\ replica'[n] = Decided(replica[n], p)
    /\ disk'[b] = Saved(replica'[b]) /\ disk'[n] = Saved(replica'[n])
    /\ Others({b, n})
    /\ committing' = [committing EXCEPT ![n] = op]
    /\ UNCHANGED acked

LEMMA PrepareAndDecideEffect ==
    ASSUME FInv, NEW n \in Node, NEW op \in Op, PrepareAndDecide(n, op)
    PROVE  LET b == replica[n].backup
           IN DecisionTaken(n, op, b, Preparation(Prepare(n, b, op)))
<1>. DEFINE b == replica[n].backup
            p == Preparation(Prepare(n, b, op))
            prepared == PrepareAuctionMutation(replica[b], p)
            decided == Decided(replica[n], p)
<1>1. b \in Node /\ p \in PreparedMutation /\ p.op = op
  BY NewBackup, PrepareTyped DEF PrepareAndDecide
<1>2. b # n /\ replica[b].role = "backup" /\ committing[b] = NoOp
  BY DEF PrepareAndDecide, New, Writable, PrepareAccepted, Serves
<1>3. p.candidate = Append(replica[n].store, op)
  BY DEF Preparation, Prepare
<1>4. replica' = [replica EXCEPT ![b] = prepared, ![n] = decided]
  BY <1>2 DEF PrepareAndDecide
<1>5. disk' = [disk EXCEPT ![b] = Saved(replica'[b]), ![n] = Saved(replica'[n])]
  BY DEF PrepareAndDecide
<1>6. committing' = [committing EXCEPT ![n] = op] /\ UNCHANGED acked
  BY DEF PrepareAndDecide
<1>. HIDE DEF b, p, prepared, decided
<1>7. /\ replica'[b] = prepared /\ replica'[n] = decided
      /\ \A m \in Node \ {b, n} : replica'[m] = replica[m]
  BY <1>1, <1>2, <1>4 DEF FInv, ReplicasFit
<1>8. /\ disk'[b] = Saved(replica'[b]) /\ disk'[n] = Saved(replica'[n])
      /\ \A m \in Node \ {b, n} : disk'[m] = disk[m]
  BY <1>1, <1>2, <1>5 DEF FInv, ReplicasFit
<1>. QED
  BY <1>1, <1>2, <1>3, <1>6, <1>7, <1>8
  DEF DecisionTaken, Others, b, p, prepared, decided

LEMMA CommitAnsweredEffect ==
    ASSUME FInv, NEW n \in Node, CommitAnswered(n)
    PROVE  LET op == committing[n]
               d == CHOOSE x \in PendingFor(replica[n], op) : TRUE
               m == Decision("commit", n, d.backup, op, d.epoch)
               committed == CommitPreparedMutation(replica[d.backup], m)
           IN /\ op \in Op /\ d \in replica[n].pending /\ d.op = op /\ m.op = op
              /\ d.backup \in Node \ {n} /\ committing[d.backup] = NoOp
              /\ replica'[d.backup] = committed
              /\ disk'[d.backup] = IF committed = replica[d.backup]
                                   THEN disk[d.backup] ELSE Saved(committed)
              /\ Others({d.backup, n})
              /\ committing' = [committing EXCEPT ![n] = NoOp]
              /\ \/ replica'[n] = replica[n] /\ disk'[n] = disk[n] /\ UNCHANGED acked
                 \/ /\ replica'[n] = Acknowledged(replica[n], op)
                    /\ disk'[n] \in {disk[n], Saved(replica'[n])}
                    /\ replica'[n] # replica[n] => disk'[n] = Saved(replica'[n])
                    /\ acked' = acked \cup {op}
                    /\ CommitAccepted(replica[d.backup], m)
                    /\ Recorded(committed, op)
<1>. DEFINE op == committing[n]
            d == CHOOSE x \in PendingFor(replica[n], op) : TRUE
            m == Decision("commit", n, d.backup, op, d.epoch)
            b == d.backup
            committed == CommitPreparedMutation(replica[b], m)
            x == [op |-> op, version |-> d.version]
            success == CommitAccepted(replica[b], m) /\ x \in committed.records
            acknowledged == Acknowledged(replica[n], op)
<1>1. op # NoOp /\ op \in Op /\ d \in PendingCommit /\ committing[b] = NoOp
  BY WaitingDecision DEF CommitAnswered, Serves, FInv, DecisionsKept
<1>2. b \in Node /\ b # n /\ d.epoch \in 1..MaxEpoch
  BY <1>1 DEF PendingCommit
<1>3. m.op = op
  BY <1>1, <1>2, DecisionTyped
<1>4. d \in PendingFor(replica[n], op)
  BY <1>1 DEF FInv, DecisionsKept
<1>5. d \in replica[n].pending /\ d.op = op
  BY <1>4 DEF PendingFor
<1>6. /\ replica' = [replica EXCEPT ![b] = committed,
                       ![n] = IF success THEN Acknowledged(@, op) ELSE @]
      /\ disk' = [a \in Node |-> IF replica'[a] = replica[a] THEN disk[a]
                                 ELSE Saved(replica'[a])]
      /\ acked' = IF success THEN acked \cup {op} ELSE acked
      /\ committing' = [committing EXCEPT ![n] = NoOp]
  BY DEF CommitAnswered
<1>7. replica' = [replica EXCEPT ![b] = committed,
                    ![n] = IF success THEN acknowledged ELSE replica[n]]
  BY <1>2, <1>6 DEF FInv, ReplicasFit
<1>8. x.op = op
  OBVIOUS
<1>9. success => CommitAccepted(replica[b], m) /\ Recorded(committed, op)
  BY <1>8 DEF Recorded
<1>. HIDE DEF op, d, m, b, committed, success, acknowledged
<1>10. /\ replica'[b] = committed
       /\ replica'[n] = IF success THEN acknowledged ELSE replica[n]
       /\ \A a \in Node \ {b, n} : replica'[a] = replica[a]
  BY <1>2, <1>7 DEF FInv, ReplicasFit
<1>11. \A a \in Node : disk'[a] = IF replica'[a] = replica[a] THEN disk[a]
                                  ELSE Saved(replica'[a])
  BY <1>6
<1>12. /\ disk'[b] = IF committed = replica[b] THEN disk[b] ELSE Saved(committed)
       /\ Others({b, n})
  BY <1>2, <1>10, <1>11 DEF Others
<1>13. \/ replica'[n] = replica[n] /\ disk'[n] = disk[n] /\ UNCHANGED acked
       \/ /\ replica'[n] = acknowledged
          /\ disk'[n] \in {disk[n], Saved(replica'[n])}
          /\ replica'[n] # replica[n] => disk'[n] = Saved(replica'[n])
          /\ acked' = acked \cup {op}
          /\ CommitAccepted(replica[b], m)
          /\ Recorded(committed, op)
  <2>1. CASE success
    BY <1>6, <1>9, <1>10, <1>11, <2>1
  <2>2. CASE ~success
    BY <1>6, <1>10, <1>11, <2>2
  <2>. QED
    BY <2>1, <2>2
<1>14. committing' = [committing EXCEPT ![n] = NoOp]
  BY <1>6
<1>. QED
  BY <1>1, <1>2, <1>3, <1>5, <1>10, <1>12, <1>13, <1>14
  DEF op, d, m, b, committed, acknowledged

LEMMA InstallEffect ==
    ASSUME FInv, NEW s \in syncs, Install(s)
    PROVE  /\ s.node \in Node /\ committing[s.node] = NoOp
           /\ \/ UNCHANGED <<replica, disk>>
              \/ /\ replica[s.node].role = "backup"
                 /\ replica'[s.node] = ReplaceWithFullState(replica[s.node],
                                         s.epoch, s.store, s.records)
                 /\ disk'[s.node] = Saved(replica'[s.node])
                 /\ Others({s.node})
<1>1. s.node \in Node
  BY SyncsFit
<1>. DEFINE r == replica[s.node]
            q == ReplaceWithFullState(r, s.epoch, s.store, s.records)
<1>2. CASE Synchronizable(r, s.epoch)
  <2>1. /\ replica' = [replica EXCEPT ![s.node] = q]
        /\ disk' = [disk EXCEPT ![s.node] = Saved(replica'[s.node])]
        /\ r.role = "backup" /\ committing[s.node] = NoOp
    BY <1>2 DEF Install, Synchronizable, Serves
  <2>. HIDE DEF q
  <2>2. replica'[s.node] = q /\ disk'[s.node] = Saved(replica'[s.node])
    BY <1>1, <2>1 DEF FInv, ReplicasFit
  <2>3. Others({s.node})
    BY <2>1 DEF FInv, ReplicasFit, Others
  <2>. QED
    BY <1>1, <2>1, <2>2, <2>3 DEF q
<1>3. CASE ~Synchronizable(r, s.epoch)
  BY <1>1, <1>3 DEF Install, Serves
<1>. QED
  BY <1>2, <1>3

LEMMA SynchronizationEndsEffect ==
    ASSUME FInv, NEW s \in syncs, SynchronizationEnds(s)
    PROVE  /\ s.node \in Node /\ Others({s.node}) /\ UNCHANGED <<disk, acked, committing>>
           /\ \/ replica'[s.node] = replica[s.node]
              \/ /\ s.phase = "told" /\ committing[s.node] = NoOp
                 /\ replica'[s.node] = Synchronized(replica[s.node], s.epoch)
  BY SyncsFit DEF FInv, ReplicasFit, SynchronizationEnds, Others, Serves

LEMMA RestartEffect ==
    ASSUME FInv, NEW n \in Node, Restart(n)
    PROVE  /\ replica'[n] = Loaded(disk[n]) /\ Others({n}) /\ UNCHANGED disk
           /\ n \in Restarting /\ committing[n] = NoOp
  BY DEF FInv, ReplicasFit, Restart, Others, Serves

LEMMA BootRegisteredEffect ==
    ASSUME FInv, NEW n \in Node, BootRegistered(n)
    PROVE  /\ replica'[n] = Registered(replica[n], booting[n])
           /\ Others({n}) /\ UNCHANGED disk /\ committing[n] = NoOp
  BY DEF FInv, ReplicasFit, BootRegistered, Others, Serves
(* A handler runs at replica n and leaves q.  Authority over a replica is   *)
(* what a promotion that may still reach it has.                            *)
Authority(n) ==
    \/ \E t \in Threads : threads[t].phase \notin Detached /\ threads[t].primary = n
    \/ \E m \in late : m.type \in {"begin", "complete"} /\ m.to = n

Replicating(n, q) ==
    \/ \E p \in PreparedMutation : q = PrepareAuctionMutation(replica[n], p)
    \/ \E d : /\ d.op \in Op /\ d.primary \in Node
              /\ \/ q = AbortPreparedMutation(replica[n], d)
                 \/ q = CommitPreparedMutation(replica[n], d)

Promoting(n, q) ==
    /\ Authority(n)
    /\ \/ \E m : /\ m.epoch \in Nat /\ m.epoch <= last_primary_epoch
                 /\ q = BeginPrimaryPromotion(replica[n], m)
       \/ \E m : q = CompletePrimaryPromotion(replica[n], m)

Handles(n, q) ==
    /\ Serves(n) /\ Save(n, q) /\ UNCHANGED <<committing, acked>>
    /\ Replicating(n, q) \/ Promoting(n, q)

LEMMA PrepareUnansweredHandles ==
    ASSUME FInv, NEW n \in Node, NEW op \in Op,
           PrepareRefused(n, op) \/ PrepareUnanswered(n, op)
    PROVE  \E b \in Node : \E q : Handles(b, q)
<1>. DEFINE b == replica[n].backup
            prepare == Prepare(n, b, op)
            abort == Decision("abort", n, b, op, replica[n].epoch)
<1>1. b \in Node /\ Preparation(prepare) \in PreparedMutation
  BY NewBackup, PrepareTyped DEF PrepareRefused, PrepareUnanswered
<1>2. prepare.op = op /\ prepare.primary = n /\ abort.op = op /\ abort.primary = n
  BY DEF Prepare, Decision
<1>3. /\ Serves(b) /\ UNCHANGED <<committing, acked>>
      /\ \/ Save(b, AbortPreparedMutation(replica[b], prepare))
         \/ Save(b, AbortPreparedMutation(replica[b], abort))
         \/ Save(b, PrepareAuctionMutation(replica[b], Preparation(prepare)))
  BY DEF PrepareRefused, PrepareUnanswered
<1>. HIDE DEF prepare, abort, b
<1>4. CASE Save(b, AbortPreparedMutation(replica[b], prepare))
  BY <1>1, <1>2, <1>3, <1>4 DEF Handles, Replicating
<1>5. CASE Save(b, AbortPreparedMutation(replica[b], abort))
  BY <1>1, <1>2, <1>3, <1>5 DEF Handles, Replicating
<1>6. CASE Save(b, PrepareAuctionMutation(replica[b], Preparation(prepare)))
  BY <1>1, <1>3, <1>6 DEF Handles, Replicating
<1>. QED
  BY <1>3, <1>4, <1>5, <1>6

LEMMA LateHandlerHandles ==
    ASSUME FInv, NEW m \in late, LateHandler(m)
    PROVE  m.to \in Node /\ Handles(m.to, Handled(m))
<1>1. FitRequest(m) /\ m \in Request
  BY DEF FInv, FitRequest
<1>2. m.to \in Node
  BY <1>1 DEF Request, PrepareRequest, DecisionRequest, BeginRequest,
              CompleteRequest
<1>. DEFINE r == replica[m.to]
<1>3. Replicating(m.to, Handled(m)) \/ Promoting(m.to, Handled(m))
  <2>1. CASE m \in PrepareRequest
    <3>1. m.type = "prepare" /\ Preparation(m) \in PreparedMutation
      BY <2>1 DEF PrepareRequest, Preparation, PreparedMutation
    <3>2. Handled(m) = PrepareAuctionMutation(r, Preparation(m))
      BY <3>1 DEF Handled
    <3>. QED
      BY <3>1, <3>2 DEF Replicating
  <2>2. CASE m \in DecisionRequest
    <3>1. m.type \in {"commit", "abort"} /\ m.op \in Op /\ m.primary \in Node
      BY <2>2 DEF DecisionRequest
    <3>2. \/ Handled(m) = CommitPreparedMutation(r, m)
          \/ Handled(m) = AbortPreparedMutation(r, m)
      BY <3>1 DEF Handled
    <3>. QED
      BY <3>1, <3>2 DEF Replicating
  <2>3. CASE m \in BeginRequest
    <3>1. m.type = "begin" /\ m.epoch \in 1..MaxEpoch
      BY <2>3 DEF BeginRequest
    <3>2. Entitled(m.to, m.epoch) /\ m.epoch <= last_primary_epoch
      BY <1>1, <1>2, <3>1 DEF FitRequest, FInv, OneEntitled
    <3>3. Handled(m) = BeginPrimaryPromotion(r, m) /\ Authority(m.to)
      BY <3>1 DEF Handled, Authority
    <3>. QED
      BY <3>1, <3>2, <3>3 DEF Promoting
  <2>4. CASE m \in CompleteRequest
    <3>1. m.type = "complete" /\ m.backup \in Node
      BY <2>4 DEF CompleteRequest
    <3>2. Handled(m) = CompletePrimaryPromotion(r, m) /\ Authority(m.to)
      BY <3>1 DEF Handled, Authority
    <3>. QED
      BY <3>2 DEF Promoting
  <2>. QED
    BY <1>1, <2>1, <2>2, <2>3, <2>4 DEF Request
<1>. QED
  BY <1>2, <1>3 DEF LateHandler, Handles

LEMMA PromotionHandles ==
    ASSUME FInv, NEW t \in Threads, BeginPromotion(t) \/ CompletePromotion(t)
    PROVE  Handles(threads[t].primary,
                   IF threads[t].phase = "begin"
                   THEN BeginPrimaryPromotion(replica[threads[t].primary], threads[t])
                   ELSE CompletePrimaryPromotion(replica[threads[t].primary],
                                                 Completion(threads[t])))
<1>. DEFINE w == threads[t]
<1>1. w.phase \in {"begin", "complete"}
  BY DEF BeginPromotion, CompletePromotion
<1>2. w.phase \notin Detached
  BY <1>1 DEF Detached
<1>3. /\ w.primary \in Node /\ w.epoch \in Nat /\ w.epoch <= last_primary_epoch
      /\ Authority(w.primary)
  BY <1>2, ServingThread DEF Authority
<1>4. CASE BeginPromotion(t)
  BY <1>3, <1>4 DEF BeginPromotion, Handles, Promoting
<1>5. CASE CompletePromotion(t)
  BY <1>3, <1>5 DEF CompletePromotion, Handles, Promoting
<1>. QED
  BY <1>4, <1>5

(* The storage of a step: nothing, a client's mutation, a handler, a        *)
(* synchronization, or the start of a replica.                              *)
LEMMA StorageSteps ==
    ASSUME FInv, Next
    PROVE  \/ UNCHANGED storageVars
           \/ \E n \in Node, op \in Op :
                \/ PrepareAndDecide(n, op) \/ ResumePendingCommit(n, op)
                \/ ReplayResponse(n, op)
           \/ \E n \in Node : CommitAnswered(n) \/ CommitUnanswered(n)
           \/ \E n \in Node : \E q : Handles(n, q)
           \/ \E s \in syncs : Install(s) \/ SynchronizationEnds(s)
           \/ \E n \in Node : Restart(n) \/ BootRegistered(n)
<1>1. \/ \E n \in Node : ReplicaStep(n)
      \/ \E t \in Threads : RpcStep(t)
      \/ \E s \in syncs : SyncStep(s)
      \/ \E m \in late : LateHandler(m)
      \/ ControllerStep
  BY ThreadsAre DEF Next
<1>2. CASE \E n \in Node : ReplicaStep(n)
  <2>1. PICK n \in Node : ReplicaStep(n)
    BY <1>2
  <2>2. CASE \E op \in Op : PrepareRefused(n, op) \/ PrepareUnanswered(n, op)
    BY <2>2, PrepareUnansweredHandles
  <2>3. CASE Reregister(n) \/ ProbeAnswered(n) \/ ProbeUnanswered(n)
              \/ BootRegister(n) \/ BootLookup(n)
    BY <2>3 DEF Reregister, ProbeAnswered, ProbeUnanswered, BootRegister, BootLookup
  <2>. QED
    BY <2>1, <2>2, <2>3 DEF ReplicaStep
<1>3. CASE \E t \in Threads : RpcStep(t)
  <2>1. PICK t \in Threads : RpcStep(t)
    BY <1>3
  <2>2. CASE BeginPromotion(t) \/ CompletePromotion(t)
    <3>1. threads[t].phase \notin Detached
      BY <2>2 DEF BeginPromotion, CompletePromotion, Detached
    <3>. QED
      BY <2>2, <3>1, ServingThread, PromotionHandles
  <2>3. CASE ~(BeginPromotion(t) \/ CompletePromotion(t))
    BY <2>1, <2>3 DEF RpcStep, BeginUnanswered, ConfirmPromotion,
       ConfirmUnanswered, CompleteUnanswered, StartSynchronization,
       SynchronizationUnanswered
  <2>. QED
    BY <2>2, <2>3
<1>4. CASE \E s \in syncs : SyncStep(s)
  BY <1>4 DEF SyncStep, ReportCompletion, ReportUnanswered
<1>5. CASE \E m \in late : LateHandler(m)
  BY <1>5, LateHandlerHandles
<1>6. CASE ControllerStep
  BY <1>6 DEF ControllerStep
<1>. QED
  BY <1>1, <1>2, <1>3, <1>4, <1>5, <1>6
(* A replica that waits for a commit is a published primary.                *)
PublishedAs(n) ==
    replica[n].role = "primary" /\ <<n, replica[n].epoch>> \in published

WaitsAsPrimary == \A n \in Node : committing[n] # NoOp => PublishedAs(n)

LEMMA HandledOtherwise ==
    ASSUME FInv, NEW n \in Node, NEW q, Handles(n, q)
    PROVE  /\ replica'[n] = q /\ Others({n}) /\ committing[n] = NoOp
           /\ disk'[n] = IF q = replica[n] THEN disk[n] ELSE Saved(q)
           /\ UNCHANGED <<committing, acked>>
  BY SaveEffect DEF Handles, Serves

LEMMA WaitsAsPrimaryKept ==
    ASSUME FInv, WaitsAsPrimary, Next
    PROVE  WaitsAsPrimary'
<1>1. published \subseteq published'
  BY DEF Next
<1>2. SUFFICES ASSUME NEW n \in Node, committing'[n] # NoOp
               PROVE  /\ PublishedAs(n)
                      /\ replica'[n].role = replica[n].role
                      /\ replica'[n].epoch = replica[n].epoch
  BY <1>1 DEF WaitsAsPrimary, PublishedAs
<1>3. CASE UNCHANGED <<replica, committing>>
  BY <1>2, <1>3 DEF WaitsAsPrimary
<1>4. ASSUME NEW a \in Node, NEW op \in Op, PrepareAndDecide(a, op)
      PROVE  /\ PublishedAs(n)
             /\ replica'[n].role = replica[n].role
             /\ replica'[n].epoch = replica[n].epoch
  <2>. DEFINE b == replica[a].backup
              p == Preparation(Prepare(a, b, op))
  <2>1. /\ b \in Node \ {a} /\ p \in PreparedMutation /\ committing[b] = NoOp
        /\ replica'[a] = Decided(replica[a], p)
        /\ Others({b, a}) /\ committing' = [committing EXCEPT ![a] = op]
    BY <1>4, PrepareAndDecideEffect DEF DecisionTaken
  <2>. HIDE DEF p
  <2>2. PublishedAs(a)
    BY <1>4 DEF PrepareAndDecide, New, Writable, PublishedAs
  <2>3. SameAuthority(replica[a], Decided(replica[a], p))
    BY <2>1, ReplicaFit, DecisionStored
  <2>4. CASE n = a
    BY <2>1, <2>2, <2>3, <2>4 DEF SameAuthority
  <2>5. CASE n # a
    <3>1. committing'[n] = committing[n] /\ n # b
      BY <1>2, <2>1, <2>5 DEF FInv, DecisionsKept
    <3>. QED
      BY <1>2, <2>1, <2>5, <3>1 DEF WaitsAsPrimary, Others
  <2>. QED
    BY <2>4, <2>5
<1>5. ASSUME NEW a \in Node, NEW op \in Op, ResumePendingCommit(a, op)
      PROVE  /\ PublishedAs(n)
             /\ replica'[n].role = replica[n].role
             /\ replica'[n].epoch = replica[n].epoch
  <2>1. /\ UNCHANGED replica /\ committing' = [committing EXCEPT ![a] = op]
        /\ PublishedAs(a)
    BY <1>5 DEF ResumePendingCommit, Writable, PublishedAs
  <2>. QED
    BY <1>2, <2>1 DEF WaitsAsPrimary, FInv, DecisionsKept
<1>6. ASSUME NEW a \in Node, CommitAnswered(a) \/ CommitUnanswered(a)
      PROVE  /\ PublishedAs(n)
             /\ replica'[n].role = replica[n].role
             /\ replica'[n].epoch = replica[n].epoch
  <2>1. committing' = [committing EXCEPT ![a] = NoOp]
    BY <1>6 DEF CommitAnswered, CommitUnanswered
  <2>2. n # a /\ committing[n] # NoOp
    BY <1>2, <2>1 DEF FInv, DecisionsKept
  <2>3. replica'[n] = replica[n]
    <3>1. CASE CommitAnswered(a)
      <4>1. \E b \in Node \ {a} : committing[b] = NoOp /\ Others({b, a})
        BY <3>1, CommitAnsweredEffect
      <4>. QED
        BY <2>2, <4>1 DEF Others
    <3>2. CASE CommitUnanswered(a)
      BY <3>2 DEF CommitUnanswered
    <3>. QED
      BY <1>6, <3>1, <3>2
  <2>. QED
    BY <2>2, <2>3 DEF WaitsAsPrimary
<1>7. ASSUME UNCHANGED committing, NEW a \in Node, committing[a] = NoOp,
             Others({a})
      PROVE  /\ PublishedAs(n)
             /\ replica'[n].role = replica[n].role
             /\ replica'[n].epoch = replica[n].epoch
  BY <1>2, <1>7 DEF WaitsAsPrimary, Others
<1>8. CASE \E a \in Node : \E q : Handles(a, q)
  BY <1>7, <1>8, HandledOtherwise
<1>9. ASSUME NEW s \in syncs, Install(s)
      PROVE  /\ PublishedAs(n)
             /\ replica'[n].role = replica[n].role
             /\ replica'[n].epoch = replica[n].epoch
  <2>1. UNCHANGED committing
    BY <1>9 DEF Install
  <2>. QED
    BY <1>3, <1>7, <1>9, <2>1, InstallEffect
<1>10. ASSUME NEW s \in syncs, SynchronizationEnds(s)
       PROVE  /\ PublishedAs(n)
              /\ replica'[n].role = replica[n].role
              /\ replica'[n].epoch = replica[n].epoch
  <2>1. /\ s.node \in Node /\ Others({s.node}) /\ UNCHANGED committing
        /\ replica'[s.node] = replica[s.node] \/ committing[s.node] = NoOp
    BY <1>10, SynchronizationEndsEffect
  <2>. QED
    BY <1>2, <1>7, <2>1 DEF WaitsAsPrimary, Others
<1>11. CASE \E a \in Node : Restart(a) \/ BootRegistered(a)
  BY <1>7, <1>11, RestartEffect, BootRegisteredEffect
     DEF Restart, BootRegistered
<1>. QED
  BY <1>3, <1>4, <1>5, <1>6, <1>8, <1>9, <1>10, <1>11, StorageSteps
  DEF storageVars, ReplayResponse

-----------------------------------------------------------------------------
(* The holder of the history *)

(* A primary that remembers every mutation in its store, those it decided   *)
(* among them.                                                              *)
Holding(r) == r.role = "primary" /\ PendingRecorded(r) /\ Recording(r)

(* The history in h grows by a new mutation, or one of it is acknowledged.  *)
Moves(h) ==
    \/ /\ replica'[h].store = replica[h].store
       /\ \/ UNCHANGED acked
          \/ \E op \in Op : Recorded(replica[h], op) /\ acked' = acked \cup {op}
    \/ /\ UNCHANGED acked
       /\ \E op \in Op : /\ ~Recorded(replica[h], op)
                         /\ replica'[h].store = Append(replica[h].store, op)

HolderStep(h) ==
    /\ Holding(replica'[h])
    /\ replica'[h].epoch = replica[h].epoch
    /\ replica'[h].prepared = replica[h].prepared
    /\ \A op \in Op : Recorded(replica[h], op) => Recorded(replica'[h], op)
    /\ Moves(h)

(* Any other published primary n decided with h as its backup and learnt    *)
(* from h what is committed.                                                *)
Superseded(n, h) ==
    /\ replica[n].backup = h
    /\ \A d \in replica[n].pending : d.backup = h
    /\ \A op \in Op : Recorded(replica[n], op) /\ PendingFor(replica[n], op) = {}
                        => Recorded(replica[h], op)

Holds(h) ==
    /\ h \in Node
    /\ Holding(replica[h])
    /\ replica[h].epoch = last_primary_epoch
    /\ \A n \in Node \ {h} : PublishedAs(n) => Superseded(n, h)

PrimaryKeeps(r, q) ==
    /\ q.role = r.role /\ q.epoch = r.epoch /\ q.store = r.store
    /\ q.records = r.records /\ q.prepared = r.prepared
    /\ q.pending \subseteq r.pending

LEMMA HoldingKept ==
    ASSUME NEW r, Holding(r), NEW q, PrimaryKeeps(r, q)
    PROVE  Holding(q) /\ (\A op : Recorded(q, op) <=> Recorded(r, op))
<1>1. \A op : Recorded(q, op) <=> Recorded(r, op)
  BY DEF PrimaryKeeps, Recorded
<1>. QED
  BY <1>1 DEF PrimaryKeeps, Holding, PendingRecorded, Recording

LEMMA HolderStays ==
    ASSUME NEW h, Holds(h), PrimaryKeeps(replica[h], replica'[h]), UNCHANGED acked
    PROVE  HolderStep(h)
  BY HoldingKept DEF HolderStep, Moves, Holds, PrimaryKeeps

LEMMA PrimaryHandles ==
    ASSUME FInv, NEW h \in Node, Holds(h), NEW q, Replicating(h, q) \/ Promoting(h, q)
    PROVE  PrimaryKeeps(replica[h], q)
<1>. DEFINE r == replica[h]
<1>1. r \in Replica /\ r.epoch \in 1..MaxEpoch /\ r.epoch = last_primary_epoch
      /\ r.role = "primary"
  BY ReplicaFit DEF Holds, Holding
<1>2. CASE Replicating(h, q)
  <2>1. q = r
    BY <1>1, <1>2, PreparationData, AbortData, CommitData DEF Replicating
  <2>. QED
    BY <2>1 DEF PrimaryKeeps
<1>3. ASSUME NEW m, m.epoch \in Nat, m.epoch <= last_primary_epoch,
             q = BeginPrimaryPromotion(r, m)
      PROVE  PrimaryKeeps(r, q)
  BY <1>1, <1>3 DEF BeginPrimaryPromotion, PrimaryKeeps
<1>4. ASSUME NEW m, q = CompletePrimaryPromotion(r, m)
      PROVE  PrimaryKeeps(r, q)
  BY <1>1, <1>4 DEF CompletePrimaryPromotion, PrimaryKeeps, Replica
<1>. QED
  BY <1>2, <1>3, <1>4 DEF Promoting
LEMMA HolderDecides ==
    ASSUME FInv, NEW h, Holds(h), NEW n \in Node, NEW op \in Op,
           PrepareAndDecide(n, op)
    PROVE  n = h /\ HolderStep(h) /\ UNCHANGED acked
<1>. DEFINE b == replica[n].backup
            r == replica[n]
            p == Preparation(Prepare(n, b, op))
            q == Decided(r, p)
<1>0. DecisionTaken(n, op, b, p)
  BY PrepareAndDecideEffect
<1>1. /\ b \in Node \ {n} /\ p \in PreparedMutation /\ p.op = op
      /\ replica[b].role = "backup" /\ p.candidate = Append(r.store, op)
      /\ replica'[n] = q /\ UNCHANGED acked
  BY <1>0 DEF DecisionTaken
<1>2. PublishedAs(n) /\ ~Recorded(r, op)
  BY DEF PrepareAndDecide, New, Writable, PublishedAs
<1>3. n = h
  BY <1>1, <1>2 DEF Holds, Holding, Superseded
<1>4. r \in Replica /\ Holding(r)
  BY <1>3, ReplicaFit DEF Holds
<1>5. /\ q.store = p.candidate /\ q.prepared = r.prepared
      /\ \A o \in Op : Recorded(q, o) <=> Recorded(r, o) \/ o = op
      /\ \E d : d.op = op /\ q.pending = r.pending \cup {d}
      /\ SameAuthority(r, q)
  BY <1>1, <1>4, DecisionData, DecisionStored
<1>. HIDE DEF p, q, r
<1>6. Recording(q)
  BY <1>1, <1>2, <1>4, <1>5, RecordingAppended DEF Holding
<1>7. PendingRecorded(q)
  <2>1. \A d \in r.pending : d.op \in Op
    BY <1>4 DEF Replica, PendingCommit
  <2>. QED
    BY <1>4, <1>5, <2>1 DEF Holding, PendingRecorded
<1>8. Holding(q) /\ q.epoch = r.epoch
  BY <1>4, <1>5, <1>6, <1>7 DEF Holding, SameAuthority
<1>. QED
  BY <1>1, <1>2, <1>3, <1>5, <1>8 DEF HolderStep, Moves, r

LEMMA HolderCommits ==
    ASSUME FInv, WaitsAsPrimary, NEW h, Holds(h), NEW n \in Node, CommitAnswered(n)
    PROVE  HolderStep(h)
<1>. DEFINE op == committing[n]
            d == CHOOSE x \in PendingFor(replica[n], op) : TRUE
            m == Decision("commit", n, d.backup, op, d.epoch)
            committed == CommitPreparedMutation(replica[d.backup], m)
<1>1. /\ op \in Op /\ d \in replica[n].pending /\ d.op = op /\ m.op = op
      /\ d.backup \in Node \ {n}
      /\ replica'[d.backup] = committed
      /\ Others({d.backup, n})
      /\ \/ replica'[n] = replica[n] /\ UNCHANGED acked
         \/ /\ replica'[n] = Acknowledged(replica[n], op)
            /\ acked' = acked \cup {op}
            /\ CommitAccepted(replica[d.backup], m)
  BY CommitAnsweredEffect
<1>. HIDE DEF op, d, m
<1>2. h \in Node /\ replica[h] \in Replica /\ replica[h].role = "primary"
      /\ PendingRecorded(replica[h])
  BY ReplicaFit DEF Holds, Holding
<1>3. CASE n = h
  <2>1. Recorded(replica[h], op)
    BY <1>1, <1>2, <1>3 DEF PendingRecorded
  <2>2. PrimaryKeeps(replica[h], replica[h])
    BY DEF PrimaryKeeps
  <2>3. PrimaryKeeps(replica[h], Acknowledged(replica[h], op))
    <3>1. SameAuthority(replica[h], Acknowledged(replica[h], op))
      BY <1>2, AcknowledgmentStored
    <3>. QED
      BY <1>2, <3>1, AcknowledgmentData DEF PrimaryKeeps, SameAuthority
  <2>4. PrimaryKeeps(replica[h], replica'[h])
    BY <1>1, <1>3, <2>2, <2>3
  <2>5. UNCHANGED acked \/ acked' = acked \cup {op}
    BY <1>1
  <2>. QED
    BY <1>1, <2>1, <2>4, <2>5, HoldingKept
    DEF HolderStep, Moves, Holds, PrimaryKeeps
<1>4. CASE n # h
  <2>1. committing[n] # NoOp
    BY DEF CommitAnswered
  <2>2. d.backup = h
    BY <1>1, <1>4, <2>1 DEF WaitsAsPrimary, Holds, Superseded
  <2>3. committed = replica[h] /\ ~CommitAccepted(replica[h], m)
    BY <1>1, <1>2, <2>2, CommitData DEF CommitAccepted
  <2>4. PrimaryKeeps(replica[h], replica'[h]) /\ UNCHANGED acked
    BY <1>1, <2>2, <2>3 DEF PrimaryKeeps
  <2>. QED
    BY <2>4, HolderStays
<1>. QED
  BY <1>3, <1>4

(* Only h itself adds to what it holds, whatever else is published.         *)
LEMMA HolderKept ==
    ASSUME FInv, WaitsAsPrimary, NEW h, Holds(h), booting[h].phase = "done",
           h \notin Restarting, Next
    PROVE  HolderStep(h)
<1>. DEFINE r == replica[h]
<1>1. h \in Node /\ r \in Replica /\ r.role = "primary"
  BY ReplicaFit DEF Holds, Holding
<1>2. ASSUME replica'[h] = r, UNCHANGED acked PROVE HolderStep(h)
  <2>1. PrimaryKeeps(r, replica'[h])
    BY <1>2 DEF PrimaryKeeps
  <2>. QED
    BY <1>2, <2>1, HolderStays
<1>3. CASE UNCHANGED storageVars
  BY <1>2, <1>3 DEF storageVars
<1>4. ASSUME NEW n \in Node, NEW op \in Op, ReplayResponse(n, op)
      PROVE  HolderStep(h)
  <2>1. /\ UNCHANGED replica /\ acked' = acked \cup {op}
        /\ Recorded(replica[n], op) /\ PendingFor(replica[n], op) = {}
        /\ PublishedAs(n)
    BY <1>4 DEF ReplayResponse, Writable, PublishedAs
  <2>2. Recorded(r, op)
    BY <2>1 DEF Holds, Superseded
  <2>3. PrimaryKeeps(r, replica'[h])
    BY <2>1 DEF PrimaryKeeps
  <2>. QED
    BY <2>1, <2>2, <2>3, HoldingKept DEF HolderStep, Moves, Holds, PrimaryKeeps
<1>5. ASSUME NEW n \in Node, CommitUnanswered(n) PROVE HolderStep(h)
  BY <1>2, <1>5 DEF CommitUnanswered
<1>6. ASSUME NEW n \in Node, NEW op \in Op, ResumePendingCommit(n, op)
      PROVE  HolderStep(h)
  BY <1>2, <1>6 DEF ResumePendingCommit
<1>7. ASSUME NEW n \in Node, NEW q, Handles(n, q) PROVE HolderStep(h)
  <2>1. replica'[n] = q /\ Others({n}) /\ UNCHANGED acked
    BY <1>7, HandledOtherwise
  <2>2. CASE n = h
    <3>1. PrimaryKeeps(r, q)
      BY <1>1, <1>7, <2>2, PrimaryHandles DEF Handles
    <3>. QED
      BY <2>1, <2>2, <3>1, HolderStays
  <2>3. CASE n # h
    BY <1>1, <1>2, <2>1, <2>3 DEF Others
  <2>. QED
    BY <2>2, <2>3
<1>8. ASSUME NEW s \in syncs, Install(s) PROVE HolderStep(h)
  <2>1. UNCHANGED acked
    BY <1>8 DEF Install
  <2>2. replica'[h] = r
    BY <1>1, <1>8, InstallEffect DEF Others
  <2>. QED
    BY <1>2, <2>1, <2>2
<1>9. ASSUME NEW s \in syncs, SynchronizationEnds(s) PROVE HolderStep(h)
  <2>1. replica'[h] = r
    BY <1>1, <1>9, SynchronizationEndsEffect DEF Others, Synchronized
  <2>. QED
    BY <1>2, <1>9, <2>1, SynchronizationEndsEffect
<1>10. ASSUME NEW n \in Node, Restart(n) \/ BootRegistered(n) PROVE HolderStep(h)
  <2>1. n # h
    BY <1>10 DEF Restart, BootRegistered
  <2>2. Others({n}) /\ UNCHANGED acked
    BY <1>10, RestartEffect, BootRegisteredEffect DEF Restart, BootRegistered
  <2>. QED
    BY <1>1, <1>2, <2>1, <2>2 DEF Others
<1>. QED
  BY <1>3, <1>4, <1>5, <1>6, <1>7, <1>8, <1>9, <1>10,
     HolderDecides, HolderCommits, StorageSteps
-----------------------------------------------------------------------------
(* A calm controller: between two elections, it gives no assignment up      *)
(* except a promotion, of which it then forgets who is synchronized, evicts *)
(* only who may be unreachable, and chooses only a backup that reported its *)
(* synchronization and whose completion it then asked for.                  *)

Reporting(b) == \E s \in syncs : s.phase = "report" /\ s.node = b

Completing(b) ==
    \E t \in Threads : threads[t].phase = "complete" /\ threads[t].backup = b

SameBackup ==
    Assigned("ready")' =>
      \/ Assigned("ready") /\ assignment'.backup = assignment.backup
      \/ Completing(assignment'.backup)

ThreadsCalm ==
    /\ \A t \in Threads :
         threads'[t].phase = "elect" =>
           threads'[t] = threads[t] \/ threads'[t].eligible = AnyEligible
    /\ threads'[Monitor].phase = "evict" =>
         \/ threads'[Monitor] = threads[Monitor]
         \/ threads'[Monitor].backup \in Unreliable
    /\ \A t \in Threads :
         threads'[t].phase = "complete" =>
           threads'[t] = threads[t] \/ Reporting(threads'[t].backup)

AssignmentCalm ==
    assignment # NoAssignment =>
      /\ \/ assignment' # NoAssignment /\ (Assigned("promoting")' => Assigned("promoting"))
         \/ Assigned("promoting") /\ \A a \in Members' : nodes'[a].synchronized_epoch = 0
      /\ SameBackup

NodesCalm ==
    assignment = NoAssignment =>
      \A a \in Members' :
        \/ nodes'[a].synchronized_epoch = 0
        \/ /\ a \in Members
           /\ nodes'[a].synchronized_epoch = nodes[a].synchronized_epoch

Calm == ThreadsCalm /\ AssignmentCalm /\ NodesCalm

LEMMA ContinuesCalm ==
    ASSUME FInv, NEW t \in Threads, NEW w, Continue(t, w),
           w.phase = "elect" => w.eligible = AnyEligible,
           w.phase = "evict" => w.backup \in Unreliable,
           w.phase # "complete"
    PROVE  ThreadsCalm
  BY MonitorThread
  DEF FInv, CInv, Shape, ThreadsSound, Continue, ThreadsCalm

LEMMA SpawnsCalm ==
    ASSUME FInv, NEW w, Spawn(w), w.phase \notin Detached,
           w.phase = "complete" => Reporting(w.backup)
    PROVE  ThreadsCalm
  BY MonitorThread
  DEF FInv, CInv, Shape, ThreadsSound, Spawn, ThreadsCalm, Detached, Threads

LEMMA ContinuesAndSpawnsCalm ==
    ASSUME FInv, NEW t \in Threads, NEW w, NEW x, ContinueAndSpawn(t, w, x),
           w.phase \notin {"elect", "evict", "complete"},
           x.phase \notin Detached \cup {"complete"}
    PROVE  ThreadsCalm
<1>1. PICK u \in Worker \ {t} : threads' = [threads EXCEPT ![t] = w, ![u] = x]
  BY DEF ContinueAndSpawn
<1>2. DOMAIN threads = Threads /\ u \in Threads /\ u # t
  BY ThreadsAre, <1>1 DEF Threads
<1>3. /\ threads'[t] = w /\ threads'[u] = x
      /\ \A v \in Threads \ {t, u} : threads'[v] = threads[v]
  BY <1>1, <1>2
<1>. QED
  BY <1>2, <1>3, MonitorThread DEF ThreadsCalm, Detached

(* The threads a step of the controller leaves.                             *)
LEMMA PhasesOfWork ==
    ASSUME NEW phase, NEW primary, NEW epoch
    PROVE  /\ Working(phase, primary, epoch).phase = phase
           /\ \A b : [Working(phase, primary, epoch) EXCEPT !.backup = b].phase = phase
           /\ \A b, s, g : [Working(phase, primary, epoch)
                EXCEPT !.backup = b, !.status = s, !.generation = g].phase = phase
           /\ Free.phase = "free"
  BY DEF Working, Free

LEMMA StopsCalm ==
    ASSUME FInv, NEW t \in Threads, Continue(t, Free)
    PROVE  ThreadsCalm
<1>1. Free.phase = "free"
  BY DEF Free
<1>. HIDE DEF Free
<1>. QED
  BY <1>1, ContinuesCalm

LEMMA WorksCalm ==
    ASSUME FInv, NEW t \in Threads, NEW phase \in {"next_backup", "replace"},
           NEW primary, NEW epoch, Continue(t, Working(phase, primary, epoch))
    PROVE  ThreadsCalm
<1>. DEFINE w == Working(phase, primary, epoch)
<1>1. w.phase = phase
  BY PhasesOfWork
<1>. HIDE DEF w
<1>2. Continue(t, w)
  BY DEF w
<1>. QED
  BY <1>1, <1>2, ContinuesCalm

LEMMA AdvancesCalm ==
    ASSUME FInv, NEW t \in Threads, NEW b, NEW g,
           \/ \E phase \in {"begin", "confirm", "next_backup", "abandon"} :
                Continue(t, [threads[t] EXCEPT !.phase = phase])
           \/ Continue(t, [threads[t] EXCEPT !.phase = "sync_backup", !.backup = b])
           \/ Continue(t, [threads[t] EXCEPT !.phase = "sync_replacement",
                                             !.backup = b, !.generation = g])
    PROVE  ThreadsCalm
<1>1. threads[t] \in Thread
  BY DEF FInv, CInv, Shape, ThreadsSound, SoundThread
<1>2. ASSUME NEW phase \in {"begin", "confirm", "next_backup", "abandon"},
             Continue(t, [threads[t] EXCEPT !.phase = phase])
      PROVE  ThreadsCalm
  <2>. DEFINE w == [threads[t] EXCEPT !.phase = phase]
  <2>1. w.phase = phase
    BY <1>1 DEF Thread
  <2>. HIDE DEF w
  <2>2. Continue(t, w)
    BY <1>2 DEF w
  <2>. QED
    BY <2>1, <2>2, ContinuesCalm
<1>3. CASE Continue(t, [threads[t] EXCEPT !.phase = "sync_backup", !.backup = b])
  <2>. DEFINE w == [threads[t] EXCEPT !.phase = "sync_backup", !.backup = b]
  <2>1. w.phase = "sync_backup"
    BY <1>1 DEF Thread
  <2>. HIDE DEF w
  <2>2. Continue(t, w)
    BY <1>3 DEF w
  <2>. QED
    BY <2>1, <2>2, ContinuesCalm
<1>4. CASE Continue(t, [threads[t] EXCEPT !.phase = "sync_replacement",
                                          !.backup = b, !.generation = g])
  <2>. DEFINE w == [threads[t] EXCEPT !.phase = "sync_replacement", !.backup = b,
                                      !.generation = g]
  <2>1. w.phase = "sync_replacement"
    BY <1>1 DEF Thread
  <2>. HIDE DEF w
  <2>2. Continue(t, w)
    BY <1>4 DEF w
  <2>. QED
    BY <2>1, <2>2, ContinuesCalm
<1>. QED
  BY <1>2, <1>3, <1>4

(* Nobody is registered or synchronized by a step that removes members, or  *)
(* forgets what they were synchronized with.                                *)
LEMMA Forgotten ==
    ASSUME FInv, \A a \in Node : \/ nodes'[a] = NotRegistered
                                 \/ nodes'[a] = nodes[a]
                                 \/ nodes'[a].synchronized_epoch = 0
    PROVE  NodesCalm
  BY DEF NodesCalm, Members

LEMMA UnsynchronizedForgotten ==
    ASSUME FInv, nodes' = Unsynchronized(nodes)
    PROVE  \A a \in Members' : nodes'[a].synchronized_epoch = 0
<1>1. NodesSound
  BY DEF FInv, CInv, Shape
<1>2. \A a \in Node : nodes[a] # NotRegistered => nodes[a] \in ReplicaRecord
  BY <1>1 DEF NodesSound
<1>. QED
  BY <1>2 DEF Members, Unsynchronized, ReplicaRecord
(* An edited assignment is one.                                             *)
LEMMA BackupForgotten ==
    ASSUME NEW a \in PrimaryAssignment
    PROVE  /\ [a EXCEPT !.backup = NoNode] # NoAssignment
           /\ [a EXCEPT !.backup = NoNode].status = a.status
<1>1. [a EXCEPT !.backup = NoNode] \in PrimaryAssignment
  BY DEF PrimaryAssignment, Address
<1>. QED
  BY <1>1, SentinelAssumption DEF PrimaryAssignment

LEMMA BackupChosen ==
    ASSUME NEW a \in PrimaryAssignment, NEW b \in Node
    PROVE  LET c == [a EXCEPT !.attempted = @ \cup {b}, !.backup = b]
           IN c # NoAssignment /\ c.status = a.status
<1>. DEFINE S == a.attempted \cup {b}
<1>1. S \in SUBSET Node /\ b \in Address
  BY DEF PrimaryAssignment, Address
<1>. HIDE DEF S
<1>. DEFINE c == [a EXCEPT !.attempted = S, !.backup = b]
<1>2. c \in PrimaryAssignment /\ c.status = a.status
  BY <1>1 DEF PrimaryAssignment
<1>. HIDE DEF c
<1>3. c # NoAssignment /\ c.status = a.status
  BY <1>2, SentinelAssumption
<1>. QED
  BY <1>3 DEF c, S

LEMMA CandidateChosen ==
    ASSUME NEW a \in PrimaryAssignment, NEW b \in Node, NEW g \in 0..MaxGeneration
    PROVE  LET c == [a EXCEPT !.attempted = @ \cup {b}, !.generation = g,
                              !.candidate = b]
           IN c # NoAssignment /\ c.status = a.status
<1>. DEFINE S == a.attempted \cup {b}
<1>1. S \in SUBSET Node /\ b \in Address
  BY DEF PrimaryAssignment, Address
<1>. HIDE DEF S
<1>. DEFINE c == [a EXCEPT !.attempted = S, !.generation = g, !.candidate = b]
<1>2. c \in PrimaryAssignment /\ c.status = a.status
  BY <1>1 DEF PrimaryAssignment
<1>. HIDE DEF c
<1>3. c # NoAssignment /\ c.status = a.status
  BY <1>2, SentinelAssumption
<1>. QED
  BY <1>3 DEF c, S

LEMMA BackupActivated ==
    ASSUME NEW a \in PrimaryAssignment, NEW b \in Address
    PROVE  LET c == [a EXCEPT !.backup = b, !.candidate = NoNode,
                              !.status = "ready"]
           IN c # NoAssignment /\ c.status = "ready" /\ c.backup = b
<1>. DEFINE c == [a EXCEPT !.backup = b, !.candidate = NoNode, !.status = "ready"]
<1>1. NoNode \in Address /\ "ready" \in Status
  BY DEF Address, Status
<1>2. c \in PrimaryAssignment /\ c.status = "ready" /\ c.backup = b
  BY <1>1 DEF PrimaryAssignment
<1>. QED
  BY <1>2, SentinelAssumption

LEMMA ProtectionLost ==
    ASSUME NEW a \in PrimaryAssignment
    PROVE  LET c == [a EXCEPT !.status = "reprotecting", !.backup = NoNode,
                              !.attempted = {}]
           IN c # NoAssignment /\ c.status = "reprotecting"
<1>. DEFINE c == [a EXCEPT !.status = "reprotecting", !.backup = NoNode,
                           !.attempted = {}]
<1>1. NoNode \in Address /\ "reprotecting" \in Status /\ {} \in SUBSET Node
  BY DEF Address, Status
<1>2. c \in PrimaryAssignment /\ c.status = "reprotecting"
  BY <1>1 DEF PrimaryAssignment
<1>. QED
  BY <1>2, SentinelAssumption

LEMMA AssignmentStaysCalm ==
    ASSUME UNCHANGED assignment
    PROVE  AssignmentCalm
  BY DEF AssignmentCalm, SameBackup, Assigned

LEMMA MemberUnsynchronized ==
    ASSUME FInv, NEW a \in Node, nodes[a] # NotRegistered,
           nodes' = [nodes EXCEPT ![a].synchronized_epoch = 0]
    PROVE  NodesCalm
<1>1. nodes[a] \in ReplicaRecord /\ nodes \in [Node -> ReplicaRecord \cup {NotRegistered}]
  BY DEF FInv, CInv, Shape, NodesSound
<1>2. /\ nodes'[a].synchronized_epoch = 0
      /\ \A b \in Node \ {a} : nodes'[b] = nodes[b]
  BY <1>1 DEF ReplicaRecord
<1>. QED
  BY <1>2, Forgotten

LEMMA PromotionCalm ==
    ASSUME FInv, NEW t \in Threads,
           \/ StartPromotion(t) \/ BeginPromotionAccepted(t)
           \/ PromotionStateConfirmed(t) \/ SynchronizationSucceeds(t)
    PROVE  Calm
<1>1. UNCHANGED <<nodes, assignment>>
  BY DEF StartPromotion, BeginPromotionAccepted, Advance,
         PromotionStateConfirmed, SynchronizationSucceeds
<1>2. \/ Continue(t, Free)
      \/ Continue(t, [threads[t] EXCEPT !.phase = "begin"])
      \/ Continue(t, [threads[t] EXCEPT !.phase = "confirm"])
      \/ Continue(t, [threads[t] EXCEPT !.phase = "next_backup"])
  BY DEF StartPromotion, BeginPromotionAccepted, Advance,
         PromotionStateConfirmed, SynchronizationSucceeds
<1>3. ThreadsCalm
  BY <1>2, AdvancesCalm, StopsCalm
<1>. QED
  BY <1>1, <1>3, Forgotten, AssignmentStaysCalm DEF Calm

(* The failure of an RPC of a promotion that is over.                       *)
LEMMA FailureCalm ==
    ASSUME FInv, NEW t \in Threads, CandidateFailed(t),
           ~AssignmentMatches(threads[t].primary, threads[t].epoch, "promoting")
    PROVE  Calm
<1>1. UNCHANGED <<nodes, assignment>> /\ Continue(t, Free)
  BY DEF CandidateFailed
<1>2. ThreadsCalm
  BY <1>1, StopsCalm
<1>. QED
  BY <1>1, <1>2, Forgotten, AssignmentStaysCalm DEF Calm

LEMMA AbandonCalm ==
    ASSUME FInv, NEW t \in Threads, Abandon(t)
    PROVE  Calm
<1>1. Continue(t, Free)
  BY DEF Abandon
<1>2. ThreadsCalm
  BY <1>1, StopsCalm
<1>3. CASE AssignmentMatches(threads[t].primary, threads[t].epoch, "promoting")
  <2>1. Assigned("promoting") /\ nodes' = Unsynchronized(nodes)
    BY <1>3 DEF Abandon, Assigned, AssignmentMatches
  <2>. QED
    BY <1>2, <2>1, UnsynchronizedForgotten
    DEF Calm, AssignmentCalm, SameBackup, NodesCalm, Assigned, Abandon, AssignmentMatches
<1>4. CASE ~AssignmentMatches(threads[t].primary, threads[t].epoch, "promoting")
  BY <1>2, <1>4, Forgotten, AssignmentStaysCalm DEF Calm, Abandon
<1>. QED
  BY <1>3, <1>4

LEMMA BackupFailureCalm ==
    ASSUME FInv, NEW t \in Threads, PromotionBackupFailed(t)
    PROVE  Calm
<1>. DEFINE w == threads[t]
<1>1. ThreadsCalm
  <2>1. Continue(t, Free) \/ Continue(t, Working("next_backup", w.primary, w.epoch))
    BY DEF PromotionBackupFailed
  <2>. QED
    BY <2>1, StopsCalm, WorksCalm
<1>2. NodesCalm
  BY Forgotten DEF PromotionBackupFailed, FInv, CInv, Shape, NodesSound
<1>3. AssignmentCalm
  <2>1. CASE IsCurrentPromotionBackup(w)
    <3>1. /\ assignment' = [assignment EXCEPT !.backup = NoNode]
          /\ Assigned("promoting") /\ assignment # NoAssignment
      BY <2>1 DEF PromotionBackupFailed, IsCurrentPromotionBackup,
                  AssignmentMatches, Assigned
    <3>2. assignment' # NoAssignment /\ assignment'.status = "promoting"
      BY <3>1, AssignmentTyped, BackupForgotten DEF FInv, Assigned
    <3>. QED
      BY <3>1, <3>2 DEF AssignmentCalm, SameBackup, Assigned
  <2>2. CASE ~IsCurrentPromotionBackup(w)
    BY <2>2, AssignmentStaysCalm DEF PromotionBackupFailed
  <2>. QED
    BY <2>1, <2>2
<1>. QED
  BY <1>1, <1>2, <1>3 DEF Calm

LEMMA NextBackupCalm ==
    ASSUME FInv, NEW t \in Threads, TryNextPromotionBackup(t)
    PROVE  Calm
<1>. DEFINE w == threads[t]
            choices == PromotionBackups(w.primary)
            backup == First(choices)
<1>1. ThreadsCalm
  <2>1. \/ Continue(t, Free) \/ Continue(t, [w EXCEPT !.phase = "abandon"])
        \/ Continue(t, [w EXCEPT !.phase = "sync_backup", !.backup = backup])
    BY DEF TryNextPromotionBackup
  <2>. HIDE DEF backup
  <2>. QED
    BY <2>1, AdvancesCalm, StopsCalm
<1>2. CASE UNCHANGED <<nodes, assignment>>
  BY <1>1, <1>2, Forgotten, AssignmentStaysCalm DEF Calm
<1>3. CASE ~UNCHANGED <<nodes, assignment>>
  <2>1. /\ Assigned("promoting") /\ choices # {}
        /\ assignment' = [assignment EXCEPT !.attempted = @ \cup {backup},
                                            !.backup = backup]
        /\ nodes' = [nodes EXCEPT ![backup].synchronized_epoch = 0]
    BY <1>3 DEF TryNextPromotionBackup, Assigned, AssignmentMatches
  <2>2. choices \subseteq Members /\ Members \subseteq Node
    BY DEF PromotionBackups, Members
  <2>3. backup \in Node /\ nodes[backup] # NotRegistered
    BY <2>1, <2>2, FirstMember DEF Members
  <2>. HIDE DEF choices, backup
  <2>4. NodesCalm
    BY <2>1, <2>3, MemberUnsynchronized
  <2>5. assignment \in PrimaryAssignment /\ assignment.status = "promoting"
    BY <2>1, AssignmentTyped DEF FInv, Assigned
  <2>6. assignment' # NoAssignment /\ assignment'.status = "promoting"
    BY <2>1, <2>3, <2>5, BackupChosen
  <2>. QED
    BY <1>1, <2>1, <2>4, <2>6 DEF Calm, AssignmentCalm, SameBackup, Assigned
<1>. QED
  BY <1>2, <1>3

LEMMA NextReplacementCalm ==
    ASSUME FInv, NEW t \in Threads, TryNextReplacementBackup(t)
    PROVE  Calm
<1>. DEFINE w == threads[t]
            choices == ReplacementCandidates
            backup == First(choices)
            generation == assignment.generation + 1
<1>1. ThreadsCalm
  <2>1. \/ Continue(t, Free)
        \/ Continue(t, [w EXCEPT !.phase = "sync_replacement", !.backup = backup,
                                 !.generation = generation])
    BY DEF TryNextReplacementBackup
  <2>. HIDE DEF backup, generation
  <2>. QED
    BY <2>1, AdvancesCalm, StopsCalm
<1>2. CASE UNCHANGED <<nodes, assignment>>
  BY <1>1, <1>2, Forgotten, AssignmentStaysCalm DEF Calm
<1>3. CASE ~UNCHANGED <<nodes, assignment>>
  <2>1. /\ Assigned("reprotecting") /\ choices # {}
        /\ assignment.generation < MaxGeneration
        /\ assignment' = [assignment EXCEPT !.attempted = @ \cup {backup},
                                            !.generation = generation,
                                            !.candidate = backup]
        /\ nodes' = [nodes EXCEPT ![backup].synchronized_epoch = 0]
    BY <1>3 DEF TryNextReplacementBackup, Assigned, AssignmentMatches
  <2>2. choices \subseteq Members /\ Members \subseteq Node
    BY DEF ReplacementCandidates, Members
  <2>3. backup \in Node /\ nodes[backup] # NotRegistered
    BY <2>1, <2>2, FirstMember DEF Members
  <2>. HIDE DEF choices, backup
  <2>4. NodesCalm
    BY <2>1, <2>3, MemberUnsynchronized
  <2>5. assignment \in PrimaryAssignment /\ assignment.status = "reprotecting"
    BY <2>1, AssignmentTyped DEF FInv, Assigned
  <2>6. generation \in 0..MaxGeneration
    BY <2>1, <2>5, ControllerAssumption DEF PrimaryAssignment
  <2>. HIDE DEF generation
  <2>7. assignment' # NoAssignment /\ assignment'.status = "reprotecting"
    BY <2>1, <2>3, <2>5, <2>6, CandidateChosen
  <2>. QED
    BY <1>1, <2>4, <2>7 DEF Calm, AssignmentCalm, SameBackup, Assigned
<1>. QED
  BY <1>2, <1>3

(* A replacement candidate is given up.                                     *)
LEMMA ReplacementFailureCalm ==
    ASSUME FInv, NEW t \in Threads,
           ReplacementSynchronizationFails(t) \/ RejectReplacement(t)
    PROVE  Calm
<1>. DEFINE w == threads[t]
<1>1. ThreadsCalm
  <2>1. Continue(t, Free) \/ Continue(t, Working("replace", w.primary, w.epoch))
    BY DEF ReplacementSynchronizationFails, RejectReplacement
  <2>. QED
    BY <2>1, StopsCalm, WorksCalm
<1>2. NodesCalm
  <2>1. \/ UNCHANGED nodes
        \/ /\ w.backup \in Members
           /\ nodes' = [nodes EXCEPT ![w.backup].synchronized_epoch = 0]
    BY DEF ReplacementSynchronizationFails, RejectReplacement
  <2>. QED
    BY <2>1, Forgotten, MemberUnsynchronized DEF Members
<1>3. AssignmentCalm
  <2>1. CASE UNCHANGED assignment
    BY <2>1, AssignmentStaysCalm
  <2>2. CASE IsCurrentCandidate(w)
    <3>1. assignment' = [assignment EXCEPT !.candidate = NoNode]
      BY <2>2 DEF ReplacementSynchronizationFails, RejectReplacement
    <3>2. assignment' # NoAssignment /\ assignment'.status = "reprotecting"
      BY <2>2, <3>1, CandidateCleared, SentinelAssumption DEF FInv
    <3>. QED
      BY <3>2 DEF AssignmentCalm, SameBackup, Assigned
  <2>. QED
    BY <2>1, <2>2 DEF ReplacementSynchronizationFails, RejectReplacement
<1>. QED
  BY <1>1, <1>2, <1>3 DEF Calm

LEMMA CompletionSucceedsCalm ==
    ASSUME FInv, NEW t \in Threads, CompletionSucceeds(t)
    PROVE  Calm
<1>. DEFINE w == threads[t]
<1>1. CASE CompletionExpected(w)
  <2>1. /\ assignment # NoAssignment
        /\ assignment' = [assignment EXCEPT !.backup = w.backup,
                                            !.candidate = NoNode,
                                            !.status = "ready"]
        /\ AnswerReport(t) /\ UNCHANGED nodes
    BY <1>1 DEF CompletionSucceeds, CompletionExpected, AssignmentMatches
  <2>2. w.backup \in Address
    BY DEF FInv, CInv, Shape, ThreadsSound, Thread
  <2>3. /\ assignment' # NoAssignment /\ assignment'.status = "ready"
        /\ assignment'.backup = w.backup /\ w.phase = "complete"
    BY <2>1, <2>2, AssignmentTyped, BackupActivated DEF FInv, CompletionSucceeds
  <2>4. ASSUME NEW u \in Threads, threads'[u].phase \in {"elect", "evict", "complete"}
        PROVE  threads'[u] = threads[u]
    <3>1. threads[u] \in Thread /\ u \in DOMAIN threads
      BY DEF FInv, CInv, Shape, ThreadsSound
    <3>2. \/ threads'[u] = Free \/ threads'[u] = threads[u]
          \/ threads'[u] = [threads[u] EXCEPT !.phase = "reported"]
      BY <2>1, <3>1 DEF AnswerReport
    <3>. QED
      BY <2>4, <3>1, <3>2 DEF Thread, Free
  <2>5. ThreadsCalm
    BY <2>4, MonitorThread DEF ThreadsCalm
  <2>6. AssignmentCalm
    BY <2>3 DEF AssignmentCalm, SameBackup, Completing, Assigned
  <2>. QED
    BY <2>1, <2>5, <2>6, Forgotten DEF Calm
<1>2. CASE ~CompletionExpected(w)
  <2>1. Continue(t, Free) /\ UNCHANGED <<nodes, assignment>>
    BY <1>2 DEF CompletionSucceeds
  <2>. QED
    BY <2>1, StopsCalm, Forgotten, AssignmentStaysCalm DEF Calm
<1>. QED
  BY <1>1, <1>2

LEMMA CompletionFailsCalm ==
    ASSUME FInv, NEW t \in Threads,
           \/ CompletionUnanswered(t)
           \/ /\ CompletionRejected(t)
              /\ ~AssignmentMatches(threads[t].primary, threads[t].epoch, "promoting")
    PROVE  Calm
  BY AbandonCalm, ReplacementFailureCalm, FailureCalm
  DEF CompletionUnanswered, CompletionRejected

LEMMA ReportCalm ==
    ASSUME FInv, NEW a, ReportSynchronizationComplete(a), Reporting(a)
    PROVE  Calm
<1>. DEFINE w == [Working("complete", assignment.primary, assignment.epoch)
                    EXCEPT !.backup = a, !.status = assignment.status,
                           !.generation = assignment.generation]
<1>1. Spawn(w) /\ UNCHANGED assignment /\ assignment # NoAssignment
  BY DEF ReportSynchronizationComplete
<1>2. w.phase = "complete" /\ w.backup = a
  BY DEF Working, Free
<1>. HIDE DEF w
<1>3. ThreadsCalm
  BY <1>1, <1>2, SpawnsCalm DEF Detached
<1>. QED
  BY <1>1, <1>3, AssignmentStaysCalm DEF Calm, NodesCalm

LEMMA ReplaceSpawnedCalm ==
    ASSUME FInv, NEW primary, NEW epoch, Spawn(Working("replace", primary, epoch))
    PROVE  ThreadsCalm
<1>1. Working("replace", primary, epoch).phase \notin Detached \cup {"complete"}
  BY PhasesOfWork DEF Detached
<1>. QED
  BY <1>1, SpawnsCalm

LEMMA ProbeFailsCalm ==
    ASSUME FInv, NEW a \in Unreliable, HeartbeatFails(a)
    PROVE  Calm
<1>1. a \in Node
  BY FailoverAssumption
<1>2. /\ UNCHANGED assignment /\ a \in Members
      /\ nodes' = [nodes EXCEPT ![a].failures = nodes[a].failures + 1]
      /\ \/ UNCHANGED threads
         \/ Continue(Monitor, [Free EXCEPT !.phase = "evict", !.backup = a])
  BY DEF HeartbeatFails
<1>3. ThreadsCalm
  <2>. DEFINE w == [Free EXCEPT !.phase = "evict", !.backup = a]
  <2>1. w.phase = "evict" /\ w.backup = a
    BY DEF Free
  <2>2. UNCHANGED threads \/ Continue(Monitor, w)
    BY <1>2
  <2>. HIDE DEF w
  <2>. QED
    BY <2>1, <2>2, MonitorThread, ContinuesCalm DEF ThreadsCalm
<1>4. NodesCalm
  <2>1. nodes \in [Node -> ReplicaRecord \cup {NotRegistered}]
    BY DEF FInv, CInv, Shape, NodesSound
  <2>2. \A b \in Node \ {a} : nodes'[b] = nodes[b]
    BY <1>1, <1>2, <2>1
  <2>3. nodes[a] \in ReplicaRecord
    BY <1>1, <1>2, <2>1 DEF Members
  <2>4. nodes'[a].synchronized_epoch = nodes[a].synchronized_epoch
    BY <1>1, <1>2, <2>1, <2>3 DEF ReplicaRecord
  <2>. QED
    BY <1>2, <2>2, <2>4 DEF NodesCalm, Members
<1>. QED
  BY <1>2, <1>3, <1>4, AssignmentStaysCalm DEF Calm

LEMMA ProbeAnsweredCalm ==
    ASSUME FInv, NEW a \in Node, NEW r, HeartbeatAnswered(a, r)
    PROVE  Calm
<1>1. /\ a \in Members
      /\ nodes' = [nodes EXCEPT ![a].failures = 0]
      /\ \/ UNCHANGED <<assignment, threads>>
         \/ /\ assignment # NoAssignment
            /\ assignment' = Unprotected(assignment)
            /\ Spawn(Working("replace", assignment.primary, assignment.epoch))
  BY DEF HeartbeatAnswered
<1>2. ThreadsCalm
  BY <1>1, ReplaceSpawnedCalm DEF ThreadsCalm
<1>3. AssignmentCalm
  BY <1>1, AssignmentTyped, UnprotectedTyped, SentinelAssumption, AssignmentStaysCalm
  DEF AssignmentCalm, SameBackup, Assigned, FInv
<1>4. NodesCalm
  <2>1. nodes \in [Node -> ReplicaRecord \cup {NotRegistered}]
    BY DEF FInv, CInv, Shape, NodesSound
  <2>2. \A b \in Node \ {a} : nodes'[b] = nodes[b]
    BY <1>1, <2>1
  <2>3. nodes[a] \in ReplicaRecord
    BY <1>1, <2>1 DEF Members
  <2>4. nodes'[a].synchronized_epoch = nodes[a].synchronized_epoch
    BY <1>1, <2>1, <2>3 DEF ReplicaRecord
  <2>. QED
    BY <1>1, <2>2, <2>4 DEF NodesCalm, Members
<1>. QED
  BY <1>2, <1>3, <1>4 DEF Calm

(* An eviction of anybody but the primary.                                  *)
LEMMA EvictionCalm ==
    ASSUME FInv, HandleReplicaFailure,
           \/ assignment = NoAssignment
           \/ assignment.primary # threads[Monitor].backup
    PROVE  Calm
<1>. DEFINE a == threads[Monitor].backup
<1>1. NodesCalm
  BY Forgotten DEF HandleReplicaFailure, FInv, CInv, Shape, NodesSound
<1>2. CASE Continue(Monitor, Free) /\ UNCHANGED assignment
  BY <1>1, <1>2, MonitorThread, StopsCalm, AssignmentStaysCalm DEF Calm
<1>3. CASE EvictUnassigned(a)
  <2>. DEFINE w == [Free EXCEPT !.phase = "elect", !.eligible = AnyEligible]
  <2>1. w.phase = "elect" /\ w.eligible = AnyEligible
    BY DEF Free
  <2>2. (Continue(Monitor, Free) \/ Continue(Monitor, w)) /\ UNCHANGED assignment
    BY <1>3 DEF EvictUnassigned
  <2>. HIDE DEF w
  <2>3. ThreadsCalm
    BY <2>1, <2>2, MonitorThread, StopsCalm, ContinuesCalm
  <2>. QED
    BY <1>1, <2>2, <2>3, AssignmentStaysCalm DEF Calm
<1>4. ASSUME ContinueAndSpawn(Monitor, Free,
                Working("replace", assignment.primary, assignment.epoch))
      PROVE  ThreadsCalm
  <2>. DEFINE w == Working("replace", assignment.primary, assignment.epoch)
  <2>1. w.phase \notin Detached \cup {"complete"} /\ Free.phase = "free"
    BY PhasesOfWork DEF Detached
  <2>. HIDE DEF w, Free
  <2>2. ContinueAndSpawn(Monitor, Free, w)
    BY <1>4 DEF w
  <2>. QED
    BY <2>1, <2>2, MonitorThread, ContinuesAndSpawnsCalm
<1>5. CASE EvictBackup(a)
  <2>1. CASE /\ assignment.status = "ready"
             /\ assignment' = [assignment EXCEPT !.status = "reprotecting",
                                                 !.backup = NoNode,
                                                 !.attempted = {}]
             /\ ContinueAndSpawn(Monitor, Free,
                  Working("replace", assignment.primary, assignment.epoch))
    <3>1. assignment' # NoAssignment /\ assignment'.status = "reprotecting"
      BY <1>5, <2>1, AssignmentTyped, ProtectionLost DEF EvictBackup, FInv
    <3>. QED
      BY <1>1, <1>4, <2>1, <3>1 DEF Calm, AssignmentCalm, SameBackup, Assigned
  <2>2. CASE /\ Continue(Monitor,
                      [Working("backup_failed", assignment.primary,
                               assignment.epoch) EXCEPT !.backup = a])
             /\ UNCHANGED assignment
    <3>. DEFINE w == [Working("backup_failed", assignment.primary,
                              assignment.epoch) EXCEPT !.backup = a]
    <3>1. w.phase = "backup_failed" /\ Continue(Monitor, w)
      BY <2>2, PhasesOfWork
    <3>. HIDE DEF w
    <3>2. ThreadsCalm
      BY <3>1, MonitorThread, ContinuesCalm
    <3>. QED
      BY <1>1, <2>2, <3>2, AssignmentStaysCalm DEF Calm
  <2>. QED
    BY <1>5, <2>1, <2>2 DEF EvictBackup
<1>6. CASE EvictOther(a) /\ ~(Continue(Monitor, Free) /\ UNCHANGED assignment)
  <2>1. /\ assignment # NoAssignment /\ assignment.status = "reprotecting"
        /\ assignment' = [assignment EXCEPT !.candidate = NoNode]
        /\ ContinueAndSpawn(Monitor, Free,
                            Working("replace", assignment.primary,
                                    assignment.epoch))
    BY <1>6 DEF EvictOther
  <2>2. assignment' # NoAssignment /\ assignment'.status = "reprotecting"
    <3>1. assignment \in PrimaryAssignment
      BY <2>1, AssignmentTyped DEF FInv
    <3>2. assignment' \in PrimaryAssignment /\ assignment'.status = assignment.status
      BY <2>1, <3>1 DEF PrimaryAssignment, Address
    <3>. QED
      BY <2>1, <3>2, SentinelAssumption
  <2>. QED
    BY <1>1, <1>4, <2>1, <2>2 DEF Calm, AssignmentCalm, SameBackup, Assigned
<1>. QED
  BY <1>2, <1>3, <1>5, <1>6 DEF HandleReplicaFailure, EvictPrimary

LEMMA LostElectionCalm ==
    ASSUME FInv, NEW t \in Threads, Elect(t),
           assignment # NoAssignment \/ SelectPrimaryCandidate(threads[t].eligible) = NoNode
    PROVE  Calm
<1>1. Continue(t, Free) /\ UNCHANGED <<nodes, assignment>>
  BY DEF Elect
<1>. QED
  BY <1>1, StopsCalm, Forgotten, AssignmentStaysCalm DEF Calm

LEMMA RegistrationCalm ==
    ASSUME FInv, NEW a \in Node, NEW r, RegisterNode(a, r),
           r.epoch \in Nat, r.epoch <= last_primary_epoch
    PROVE  /\ ThreadsCalm /\ AssignmentCalm
           /\ assignment # NoAssignment => NodesCalm
<1>1. \/ UNCHANGED threads
      \/ \E primary, epoch : Spawn(Working("replace", primary, epoch))
  BY DEF RegisterNode
<1>2. ThreadsCalm
  BY <1>1, ReplaceSpawnedCalm DEF ThreadsCalm
<1>3. ASSUME assignment # NoAssignment
      PROVE  AssignmentCalm
  <2>1. assignment.epoch = last_primary_epoch /\ assignment \in PrimaryAssignment
    BY <1>3, AssignmentTyped DEF FInv, CInv, Shape, AssignmentSound
  <2>2. last_primary_epoch \in Nat
    BY <2>1 DEF PrimaryAssignment
  <2>3. ~(r.epoch > assignment.epoch)
    BY <2>1, <2>2
  <2>4. \/ UNCHANGED assignment
        \/ assignment' = Unprotected(assignment)
        \/ assignment' = [assignment EXCEPT !.attempted = @ \ {a}]
    BY <1>3, <2>3 DEF RegisterNode
  <2>5. CASE assignment' = Unprotected(assignment)
    <3>1. assignment' # NoAssignment /\ assignment'.status = "reprotecting"
      BY <2>1, <2>5, UnprotectedTyped, SentinelAssumption
    <3>. QED
      BY <3>1 DEF AssignmentCalm, SameBackup, Assigned
  <2>6. CASE assignment' = [assignment EXCEPT !.attempted = @ \ {a}]
    <3>1. /\ assignment' \in PrimaryAssignment /\ assignment'.status = assignment.status
          /\ assignment'.backup = assignment.backup
      BY <2>1, <2>6 DEF PrimaryAssignment
    <3>. QED
      BY <3>1, <1>3, SentinelAssumption DEF AssignmentCalm, SameBackup, Assigned
  <2>. QED
    BY <2>4, <2>5, <2>6, AssignmentStaysCalm
<1>. QED
  BY <1>2, <1>3 DEF AssignmentCalm, NodesCalm
(* What the controller does in a step: it goes on calmly and serves nobody  *)
(* new, registers a replica, evicts the primary, elects another one, or     *)
(* gives up a candidate that did not accept its promotion.                  *)
Quiet == Calm /\ NobodyNew

Registers == \E n \in Node : RegisterNode(n, Reported(replica[n]))

PrimaryEvicted ==
    /\ HandleReplicaFailure
    /\ assignment # NoAssignment /\ assignment.primary = threads[Monitor].backup

Elected(t) ==
    /\ Elect(t) /\ assignment = NoAssignment
    /\ SelectPrimaryCandidate(threads[t].eligible) # NoNode

PromotionRefused(t) ==
    LET w == threads[t]
        r == replica[w.primary]
    IN /\ w.phase \notin Detached
       /\ AssignmentMatches(w.primary, w.epoch, "promoting")
       /\ \/ w.primary \in Unreliable
          \/ w.phase = "begin" /\ ~BeginAccepted(r, w)
          \/ w.phase = "confirm" /\ ~PromotionStateConfirmable(r, w.epoch)
          \/ w.phase = "complete" /\ ~CompletionAccepted(r, Completion(w))

LEMMA WaitingQuiet ==
    ASSUME FInv, UNCHANGED controllerVars
    PROVE  Quiet
<1>1. UNCHANGED <<nodes, assignment, last_primary_epoch, threads>>
  BY DEF controllerVars
<1>2. NobodyNew
  BY <1>1, StutterServed DEF NobodyNew, SameOwner, FInv
<1>. QED
  BY <1>1, <1>2, Forgotten, AssignmentStaysCalm DEF Quiet, Calm, ThreadsCalm

LEMMA PromotionQuiet ==
    ASSUME FInv, NEW t \in Threads,
           \/ StartPromotion(t) \/ BeginPromotionAccepted(t)
           \/ PromotionStateConfirmed(t) \/ TryNextPromotionBackup(t)
           \/ SelectedBackupEvicted(t) \/ NoPromotionBackup(t)
           \/ TryNextReplacementBackup(t)
           \/ SynchronizationSucceeds(t) \/ SynchronizationFails(t)
    PROVE  Quiet
<1>1. CASE \/ StartPromotion(t) \/ BeginPromotionAccepted(t)
           \/ PromotionStateConfirmed(t) \/ SynchronizationSucceeds(t)
  BY <1>1, PromotionCalm, PromotionServed DEF Quiet, FInv
<1>2. CASE NoPromotionBackup(t)
  BY <1>2, AbandonCalm, PromotionServed DEF NoPromotionBackup, Quiet, FInv
<1>3. CASE TryNextPromotionBackup(t)
  BY <1>3, NextBackupCalm, BackupsServed
  DEF Quiet, FInv, TryNextPromotionBackup, Detached
<1>4. CASE SelectedBackupEvicted(t) \/ PromotionSynchronizationFails(t)
  BY <1>4, BackupFailureCalm, BackupsServed
  DEF Quiet, FInv, SelectedBackupEvicted, PromotionSynchronizationFails, Detached
<1>5. CASE TryNextReplacementBackup(t)
  BY <1>5, NextReplacementCalm, ReplacementsServed
  DEF Quiet, FInv, TryNextReplacementBackup, Detached
<1>6. CASE ReplacementSynchronizationFails(t)
  BY <1>6, ReplacementFailureCalm, ReplacementsServed
  DEF Quiet, FInv, ReplacementSynchronizationFails, Detached
<1>. QED
  BY <1>1, <1>2, <1>3, <1>4, <1>5, <1>6 DEF SynchronizationFails

LEMMA RpcMoves ==
    ASSUME FInv, NEW t \in Threads, RpcStep(t)
    PROVE  Quiet \/ PromotionRefused(t)
<1>. DEFINE w == threads[t]
<1>1. ASSUME PromotionRpcFails(t),
             \/ w.primary \in Unreliable
             \/ w.phase = "begin" /\ ~BeginAccepted(replica[w.primary], w)
             \/ w.phase = "confirm"
                /\ ~PromotionStateConfirmable(replica[w.primary], w.epoch)
      PROVE  Quiet \/ PromotionRefused(t)
  <2>1. CandidateFailed(t) /\ w.phase \notin Detached
    BY <1>1 DEF PromotionRpcFails, Detached
  <2>2. CASE AssignmentMatches(w.primary, w.epoch, "promoting")
    BY <1>1, <2>1, <2>2 DEF PromotionRefused
  <2>3. CASE ~AssignmentMatches(w.primary, w.epoch, "promoting")
    BY <2>1, <2>3, FailureCalm, PromotionServed DEF Quiet, FInv
  <2>. QED
    BY <2>2, <2>3
<1>2. CASE BeginPromotion(t) \/ BeginUnanswered(t)
  BY <1>1, <1>2, PromotionQuiet DEF BeginPromotion, BeginUnanswered
<1>3. CASE ConfirmPromotion(t) \/ ConfirmUnanswered(t)
  BY <1>1, <1>3, PromotionQuiet DEF ConfirmPromotion, ConfirmUnanswered
<1>4. CASE CompletePromotion(t)
  <2>1. CASE CompletionSucceeds(t)
    BY <2>1, CompletionSucceedsCalm, CompletionsServed DEF Quiet, FInv
  <2>2. CASE /\ CompletionRejected(t)
             /\ ~CompletionAccepted(replica[w.primary], Completion(w))
    <3>1. w.phase \notin Detached /\ w.phase = "complete"
      BY <2>2 DEF CompletionRejected, Detached
    <3>2. CASE AssignmentMatches(w.primary, w.epoch, "promoting")
      BY <2>2, <3>1, <3>2 DEF PromotionRefused
    <3>3. CASE ~AssignmentMatches(w.primary, w.epoch, "promoting")
      <4>1. Calm
        BY <2>2, <3>3, CompletionFailsCalm
      <4>2. NobodyNew
        BY <2>2, <3>1, PromotionServed, ReplacementsServed
        DEF CompletionRejected, FInv
      <4>. QED
        BY <4>1, <4>2 DEF Quiet
    <3>. QED
      BY <3>2, <3>3
  <2>. QED
    BY <1>4, <2>1, <2>2 DEF CompletePromotion
<1>5. CASE CompleteUnanswered(t)
  <2>1. CompletionUnanswered(t) /\ w.phase \notin Detached
    BY <1>5 DEF CompleteUnanswered, Detached
  <2>2. NobodyNew
    BY <2>1, PromotionServed, ReplacementsServed DEF CompletionUnanswered, FInv
  <2>. QED
    BY <2>1, <2>2, CompletionFailsCalm DEF Quiet
<1>6. CASE StartSynchronization(t) \/ SynchronizationUnanswered(t)
  BY <1>6, PromotionQuiet, WaitingQuiet
  DEF StartSynchronization, SynchronizationUnanswered
<1>. QED
  BY <1>2, <1>3, <1>4, <1>5, <1>6 DEF RpcStep

LEMMA SyncMoves ==
    ASSUME FInv, NEW s \in syncs, SyncStep(s)
    PROVE  Quiet
<1>1. ASSUME s.phase = "report", ReportSynchronizationComplete(s.node) PROVE Quiet
  BY <1>1, ReportCalm, ReportsServed DEF Quiet, FInv, Reporting
<1>2. CASE Install(s) \/ ReportCompletion(s) \/ ReportUnanswered(s)
  BY <1>1, <1>2, WaitingQuiet DEF Install, ReportCompletion, ReportUnanswered
<1>3. CASE SynchronizationEnds(s)
  <2>1. Awaits(s) => s.caller \in Threads
    BY ThreadsAre DEF Awaits
  <2>. QED
    BY <1>3, <2>1, PromotionQuiet, WaitingQuiet DEF SynchronizationEnds
<1>. QED
  BY <1>2, <1>3 DEF SyncStep

LEMMA ReplicaMoves ==
    ASSUME FInv, NEW n \in Node, ReplicaStep(n)
    PROVE  Quiet \/ Registers
<1>1. CASE Reregister(n) \/ BootRegister(n)
  BY <1>1 DEF Reregister, BootRegister, Registers
<1>2. CASE ProbeAnswered(n) \/ ProbeUnanswered(n)
  BY <1>2, ProbeAnsweredCalm, ProbeFailsCalm, HeartbeatsServed
  DEF ProbeAnswered, ProbeUnanswered, Quiet, FInv
<1>3. CASE UNCHANGED controllerVars
  BY <1>3, WaitingQuiet
<1>4. CASE \E op \in Op : \/ PrepareAndDecide(n, op)
                          \/ PrepareRefused(n, op)
                          \/ PrepareUnanswered(n, op)
                          \/ ResumePendingCommit(n, op)
                          \/ ReplayResponse(n, op)
  BY <1>3, <1>4
  DEF PrepareAndDecide, PrepareRefused, PrepareUnanswered, ResumePendingCommit,
      ReplayResponse
<1>5. CASE \/ CommitAnswered(n) \/ CommitUnanswered(n) \/ Restart(n)
           \/ BootRegistered(n) \/ BootLookup(n)
  BY <1>3, <1>5
  DEF CommitAnswered, CommitUnanswered, Restart, BootRegistered, BootLookup
<1>. QED
  BY <1>1, <1>2, <1>4, <1>5 DEF ReplicaStep

LEMMA ControllerMoves ==
    ASSUME FInv, Next
    PROVE  \/ Quiet \/ Registers \/ PrimaryEvicted
           \/ \E t \in Threads : Elected(t) \/ PromotionRefused(t)
<1>1. \/ \E n \in Node : ReplicaStep(n)
      \/ \E t \in Threads : RpcStep(t)
      \/ \E s \in syncs : SyncStep(s)
      \/ \E m \in late : LateHandler(m)
      \/ ControllerStep
  BY ThreadsAre DEF Next
<1>2. ASSUME NEW m \in late, LateHandler(m) PROVE Quiet
  BY <1>2, WaitingQuiet DEF LateHandler
<1>3. CASE ControllerStep
  <2>1. CASE HandleReplicaFailure
    BY <2>1, EvictionCalm, EvictionsServed DEF PrimaryEvicted, Quiet, FInv
  <2>2. ASSUME NEW t \in Threads, Elect(t) PROVE Quiet \/ Elected(t)
    <3>1. CASE Elected(t)
      BY <3>1
    <3>2. CASE ~Elected(t)
      <4>1. Calm /\ Continue(t, Free) /\ UNCHANGED <<assignment, last_primary_epoch>>
        BY <2>2, <3>2, LostElectionCalm DEF Elected, Elect
      <4>2. NobodyNew
        BY <4>1, ContinuesServed, WorkingFields DEF NobodyNew, SameOwner, FInv
      <4>. QED
        BY <4>1, <4>2 DEF Quiet
    <3>. QED
      BY <3>1, <3>2
  <2>3. ASSUME NEW t \in Threads,
               \/ StartPromotion(t) \/ TryNextPromotionBackup(t)
               \/ SelectedBackupEvicted(t) \/ NoPromotionBackup(t)
               \/ TryNextReplacementBackup(t)
        PROVE  Quiet
    BY <2>3, PromotionQuiet
  <2>4. \/ HandleReplicaFailure
        \/ \E t \in Threads :
             \/ Elect(t) \/ StartPromotion(t) \/ TryNextPromotionBackup(t)
             \/ SelectedBackupEvicted(t) \/ NoPromotionBackup(t)
             \/ TryNextReplacementBackup(t)
    BY <1>3, ThreadsAre DEF ControllerStep
  <2>. QED
    BY <2>1, <2>2, <2>3, <2>4
<1>. QED
  BY <1>1, <1>2, <1>3, ReplicaMoves, RpcMoves, SyncMoves
-----------------------------------------------------------------------------
(* A replica that has started *)

(* What may become of synchronization s: u is the same call, given up at    *)
(* most.                                                                    *)
SameCall(s, u) == u.node = s.node /\ u.caller \in {s.caller, Orphan}

LEMMA CallGoesOn ==
    ASSUME FInv, NEW s \in syncs, NEW u,
           \/ u = s
           \/ \E phase : u = [s EXCEPT !.phase = phase]
           \/ u = [s EXCEPT !.phase = "report", !.store = <<>>, !.records = {}]
           \/ u = [s EXCEPT !.caller = Orphan]
    PROVE  SameCall(s, u)
<1>1. s \in Synchronization
  BY SyncsFit
<1>2. CASE \E phase : u = [s EXCEPT !.phase = phase]
  <2>1. PICK phase : u = [s EXCEPT !.phase = phase]
    BY <1>2
  <2>. QED
    BY <1>1, <2>1 DEF Synchronization, SameCall
<1>3. CASE \/ u = [s EXCEPT !.phase = "report", !.store = <<>>, !.records = {}]
           \/ u = [s EXCEPT !.caller = Orphan]
  BY <1>1, <1>3 DEF Synchronization, SameCall
<1>. QED
  BY <1>2, <1>3 DEF SameCall

LEMMA CallsGoOn ==
    ASSUME FInv, Next, NEW u \in syncs'
    PROVE  \/ \E s \in syncs : SameCall(s, u)
           \/ u.caller \in Threads
           \/ u.node \in Node /\ BootLookup(u.node)
<1>1. \A n, p, e, c : Fetched(n, p, e, c).caller = c /\ Fetched(n, p, e, c).node = n
  BY DEF Fetched
<1>2. u \in syncs => \E s \in syncs : SameCall(s, u)
  BY DEF SameCall
<1>3. ASSUME NEW n \in Node, ReplicaStep(n)
      PROVE  \/ \E s \in syncs : SameCall(s, u)
             \/ u.node = n /\ BootLookup(n)
  <2>1. CASE Restart(n)
    <3>1. PICK s \in syncs :
            u = IF s.node = n THEN [s EXCEPT !.phase = "failed"] ELSE s
      BY <2>1 DEF Restart
    <3>2. u = s \/ \E phase : u = [s EXCEPT !.phase = phase]
      BY <3>1
    <3>. QED
      BY <3>2, CallGoesOn
  <2>2. CASE BootLookup(n)
    BY <1>1, <1>2, <2>2 DEF BootLookup
  <2>3. CASE ~Restart(n) /\ ~BootLookup(n)
    <3>1. UNCHANGED syncs
      BY <1>3, <2>3
      DEF ReplicaStep, PrepareAndDecide, PrepareRefused, PrepareUnanswered,
          ResumePendingCommit, ReplayResponse, CommitAnswered, CommitUnanswered,
          Reregister, ProbeAnswered, ProbeUnanswered, BootRegister,
          BootRegistered, syncVars
    <3>. QED
      BY <1>2, <3>1
  <2>. QED
    BY <2>1, <2>2, <2>3
<1>4. ASSUME NEW t \in Threads, RpcStep(t)
      PROVE  \/ \E s \in syncs : SameCall(s, u)
             \/ u.caller \in Threads
  <2>1. CASE \/ BeginPromotion(t) \/ BeginUnanswered(t)
             \/ ConfirmPromotion(t) \/ ConfirmUnanswered(t)
    <3>1. UNCHANGED syncs
      BY <2>1
      DEF BeginPromotion, BeginUnanswered, ConfirmPromotion, ConfirmUnanswered,
          syncVars
    <3>. QED
      BY <1>2, <3>1
  <2>2. CASE CompletePromotion(t) \/ CompleteUnanswered(t)
    <3>1. PICK phase : AnswerWaiting(threads[t], phase)
      BY <2>2 DEF CompletePromotion, CompleteUnanswered
    <3>2. \E s \in syncs : u = s \/ \E p : u = [s EXCEPT !.phase = p]
      BY <3>1 DEF AnswerWaiting
    <3>. QED
      BY <3>2, CallGoesOn
  <2>3. CASE SynchronizationUnanswered(t)
    <3>1. \E s \in syncs : u = s \/ u = [s EXCEPT !.caller = Orphan]
      BY <2>3 DEF SynchronizationUnanswered
    <3>. QED
      BY <3>1, CallGoesOn
  <2>4. CASE StartSynchronization(t)
    <3>1. \/ UNCHANGED syncs
          \/ \E n, p, e : syncs' = syncs \cup {Fetched(n, p, e, t)}
      BY <2>4 DEF StartSynchronization
    <3>. QED
      BY <1>1, <3>1 DEF SameCall
  <2>. QED
    BY <1>4, <2>1, <2>2, <2>3, <2>4 DEF RpcStep
<1>5. ASSUME NEW s \in syncs, SyncStep(s)
      PROVE  \E x \in syncs : SameCall(x, u)
  <2>1. \/ \E phase : syncs' = (syncs \ {s}) \cup {[s EXCEPT !.phase = phase]}
        \/ syncs' = (syncs \ {s}) \cup
             {[s EXCEPT !.phase = "report", !.store = <<>>, !.records = {}]}
        \/ syncs' = syncs \ {s}
    BY <1>5
    DEF SyncStep, Install, ReportCompletion, ReportUnanswered,
        SynchronizationEnds, To
  <2>2. \/ u \in syncs
        \/ \E phase : u = [s EXCEPT !.phase = phase]
        \/ u = [s EXCEPT !.phase = "report", !.store = <<>>, !.records = {}]
    BY <2>1
  <2>. QED
    BY <2>2, CallGoesOn DEF SameCall
<1>6. ASSUME NEW m \in late, LateHandler(m)
      PROVE  UNCHANGED syncs
  BY <1>6 DEF LateHandler, syncVars
<1>7. ControllerStep => UNCHANGED syncs
  BY DEF ControllerStep, syncVars
<1>. QED
  BY <1>2, <1>3, <1>4, <1>5, <1>6, <1>7, ThreadsAre DEF Next

LEMMA BootingSteps ==
    ASSUME FInv, Next, NEW n \in Node
    PROVE  \/ booting'[n] = booting[n]
           \/ Restart(n) \/ BootRegister(n) \/ BootRegistered(n) \/ BootLookup(n)
           \/ \E s \in syncs : s.caller = Boot /\ s.node = n /\ SynchronizationEnds(s)
<1>0. booting \in [Node -> Starting]
  BY DEF FInv, StartsFit
<1>1. CASE UNCHANGED booting
  BY <1>1
<1>2. ASSUME NEW a \in Node, ReplicaStep(a),
             ~(a = n /\ \/ Restart(n) \/ BootRegister(n)
                        \/ BootRegistered(n) \/ BootLookup(n))
      PROVE  booting'[n] = booting[n]
  <2>1. CASE a # n /\ \/ Restart(a) \/ BootRegister(a)
                      \/ BootRegistered(a) \/ BootLookup(a)
    <3>1. CASE Restart(a)
      BY <1>0, <2>1, <3>1 DEF Restart
    <3>2. CASE BootRegister(a)
      <4>1. \E b : booting' = [booting EXCEPT ![a] = b]
        BY <3>2 DEF BootRegister
      <4>. QED
        BY <1>0, <2>1, <4>1
    <3>3. CASE BootRegistered(a)
      <4>1. \E b : booting' = [booting EXCEPT ![a] = b]
        BY <3>3 DEF BootRegistered
      <4>. QED
        BY <1>0, <2>1, <4>1
    <3>4. CASE BootLookup(a)
      BY <1>0, <2>1, <3>4 DEF BootLookup
    <3>. QED
      BY <2>1, <3>1, <3>2, <3>3, <3>4
  <2>2. CASE ~(\/ Restart(a) \/ BootRegister(a) \/ BootRegistered(a) \/ BootLookup(a))
    BY <1>2, <2>2
    DEF ReplicaStep, PrepareAndDecide, PrepareRefused, PrepareUnanswered,
        ResumePendingCommit, ReplayResponse, CommitAnswered, CommitUnanswered,
        Reregister, ProbeAnswered, ProbeUnanswered, syncVars
  <2>. QED
    BY <1>2, <2>1, <2>2
<1>3. ASSUME NEW t \in Threads, RpcStep(t)
      PROVE  UNCHANGED booting
  BY <1>3
  DEF RpcStep, BeginPromotion, BeginUnanswered, ConfirmPromotion,
      ConfirmUnanswered, CompletePromotion, CompleteUnanswered,
      StartSynchronization, SynchronizationUnanswered, syncVars
<1>4. ASSUME NEW s \in syncs, SyncStep(s), ~(s.caller = Boot /\ s.node = n)
      PROVE  \/ booting'[n] = booting[n]
  <2>1. CASE s.caller = Boot /\ SynchronizationEnds(s)
    BY <1>0, <1>4, <2>1 DEF SynchronizationEnds
  <2>2. CASE ~(s.caller = Boot /\ SynchronizationEnds(s))
    BY <1>4, <2>2
    DEF SyncStep, Install, ReportCompletion, ReportUnanswered, SynchronizationEnds
  <2>. QED
    BY <2>1, <2>2
<1>5. ASSUME NEW s \in syncs, SyncStep(s)
      PROVE  UNCHANGED booting \/ SynchronizationEnds(s)
  BY <1>5
  DEF SyncStep, Install, ReportCompletion, ReportUnanswered
<1>6. ASSUME NEW m \in late, LateHandler(m)
      PROVE  UNCHANGED booting
  BY <1>6 DEF LateHandler, syncVars
<1>7. ControllerStep => UNCHANGED booting
  BY DEF ControllerStep, syncVars
<1>. QED
  BY <1>1, <1>2, <1>3, <1>4, <1>5, <1>6, <1>7, ThreadsAre DEF Next

(* A replica that does not restart has started for good.                    *)
Started(n) ==
    /\ booting[n].phase = "done"
    /\ \A s \in syncs : s.caller = Boot => s.node # n

LEMMA StartedKept ==
    ASSUME FInv, Next, NEW n \in Node \ Restarting, Started(n)
    PROVE  Started(n)'
<1>1. booting'[n] = booting[n]
  <2>1. ~(Restart(n) \/ BootRegister(n) \/ BootRegistered(n) \/ BootLookup(n))
    BY DEF Started, Restart, BootRegister, BootRegistered, BootLookup
  <2>. QED
    BY <2>1, BootingSteps DEF Started
<1>2. ASSUME NEW u \in syncs', u.caller = Boot, u.node = n PROVE FALSE
  <2>1. Boot \notin Threads /\ Boot # Orphan
    BY FailoverAssumption DEF Threads
  <2>2. ~BootLookup(n)
    BY DEF Started, BootLookup
  <2>3. PICK s \in syncs : SameCall(s, u)
    BY <1>2, <2>1, <2>2, CallsGoOn
  <2>. QED
    BY <1>2, <2>1, <2>3 DEF SameCall, Started
<1>. QED
  BY <1>1, <1>2 DEF Started

(* Only replicas that may be unreachable are evicted.                       *)
EvictsUnreliable ==
    threads[Monitor].phase = "evict" => threads[Monitor].backup \in Unreliable

LEMMA EvictsUnreliableKept ==
    ASSUME FInv, EvictsUnreliable, ThreadsCalm
    PROVE  EvictsUnreliable'
  BY DEF EvictsUnreliable, ThreadsCalm
-----------------------------------------------------------------------------
(* The first leader is reliable: it stays the primary, whoever else fails.  *)

AckedIn(r) == \A op \in acked : Recorded(r, op)

(* The primary of the newest epoch is the one that is assigned.             *)
NewestOwns ==
    \A n \in Node :
      replica[n].role = "primary" /\ replica[n].epoch = last_primary_epoch =>
        /\ assignment # NoAssignment => assignment.primary = n
        /\ \A t \in Threads :
             /\ threads[t].phase \notin Detached
             /\ threads[t].epoch = last_primary_epoch
             => threads[t].primary = n

LEMMA NewestIsAssigned == FInv => NewestOwns
<1>. SUFFICES ASSUME FInv, NEW n \in Node, replica[n].role = "primary",
                     replica[n].epoch = last_primary_epoch
              PROVE  /\ assignment # NoAssignment => assignment.primary = n
                     /\ \A t \in Threads :
                          /\ threads[t].phase \notin Detached
                          /\ threads[t].epoch = last_primary_epoch
                          => threads[t].primary = n
  BY DEF NewestOwns
<1>1. last_primary_epoch \in Nat /\ Entitled(n, last_primary_epoch)
  BY ReplicaFit DEF Entitled
<1>2. ASSUME NEW m \in Node, Served(last_primary_epoch, m) PROVE m = n
  BY <1>1, <1>2 DEF FInv, OneEntitled, Entitled
<1>3. assignment # NoAssignment =>
        assignment.primary \in Node /\ assignment.epoch = last_primary_epoch
  BY AssignmentTyped DEF FInv, CInv, Shape, AssignmentSound, PrimaryAssignment
<1>4. assignment # NoAssignment => assignment.primary = n
  BY <1>2, <1>3 DEF Served
<1>5. ASSUME NEW t \in Threads, threads[t].phase \notin Detached,
             threads[t].epoch = last_primary_epoch
      PROVE  threads[t].primary = n
  BY <1>2, <1>5, ServingThread DEF Served
<1>. QED
  BY <1>4, <1>5

(* A step elects nobody while the primary keeps its place.                  *)
LEMMA RegistrationMoves ==
    ASSUME FInv, Registers
    PROVE  /\ UNCHANGED last_primary_epoch
           /\ ThreadsCalm /\ AssignmentCalm
           /\ assignment # NoAssignment => NodesCalm
<1>1. PICK n \in Node : RegisterNode(n, Reported(replica[n]))
  BY DEF Registers
<1>2. /\ Reported(replica[n]) \in Report
      /\ Reported(replica[n]).epoch \in Nat
      /\ Reported(replica[n]).epoch <= last_primary_epoch
  BY ReplicaFit, ReportRead DEF Fit
<1>3. UNCHANGED last_primary_epoch
  BY <1>1, <1>2, RegistrationServed DEF FInv
<1>. QED
  BY <1>1, <1>2, <1>3, RegistrationCalm

Reigns ==
    /\ WaitsAsPrimary /\ EvictsUnreliable /\ Started(Leader)
    /\ last_primary_epoch = 1
    /\ assignment # NoAssignment /\ ~Assigned("promoting")
    /\ published = {<<Leader, 1>>}
    /\ Holds(Leader) /\ AckedIn(replica[Leader])

LEMMA ReignController ==
    ASSUME Leader \notin Unreliable, FInv, Reigns, Next
    PROVE  Quiet \/ Registers
<1>1. replica[Leader].role = "primary" /\ Leader \in Node
  BY InitialReplicas DEF Reigns, Holds, Holding
<1>2. ~PrimaryEvicted
  BY <1>1, NewestIsAssigned
  DEF NewestOwns, PrimaryEvicted, HandleReplicaFailure, Reigns, Holds, EvictsUnreliable
<1>3. ~\E t \in Threads : Elected(t) \/ PromotionRefused(t)
  BY DEF Elected, PromotionRefused, Reigns, Assigned, AssignmentMatches
<1>. QED
  BY <1>2, <1>3, ControllerMoves

LEMMA ReignKept ==
    ASSUME Leader \notin Unreliable, FInv, Reigns, Next
    PROVE  Reigns' /\ HolderStep(Leader)
<1>1. FInv'
  BY NextInv
<1>2. Leader \in Node \ Restarting
  BY InitialReplicas, FailoverAssumption
<1>3. WaitsAsPrimary' /\ Started(Leader)' /\ HolderStep(Leader)
  BY <1>2, WaitsAsPrimaryKept, StartedKept, HolderKept DEF Reigns, Started
<1>4. replica[Leader].role = "primary" /\ replica[Leader].epoch = 1
  BY DEF Reigns, Holds, Holding
<1>5. /\ UNCHANGED last_primary_epoch /\ ThreadsCalm
      /\ assignment' # NoAssignment /\ ~Assigned("promoting")'
  <2>1. CASE Quiet
    BY <2>1 DEF Quiet, Calm, NobodyNew, AssignmentCalm, Reigns
  <2>2. CASE Registers
    BY <2>2, RegistrationMoves DEF AssignmentCalm, Reigns
  <2>. QED
    BY <2>1, <2>2, ReignController
<1>6. EvictsUnreliable'
  BY <1>5, EvictsUnreliableKept DEF Reigns
<1>7. replica'[Leader].role = "primary" /\ replica'[Leader].epoch = 1
      /\ Holding(replica'[Leader])
  BY <1>3, <1>4 DEF HolderStep, Holding
<1>8. last_primary_epoch' = 1
  BY <1>5 DEF Reigns
<1>9. assignment'.primary = Leader /\ assignment'.epoch = 1
  <2>1. FInv' => NewestOwns'
    BY NewestIsAssigned, PTL
  <2>. QED
    BY <1>1, <1>2, <1>5, <1>7, <1>8, <2>1
    DEF NewestOwns, FInv, CInv, Shape, AssignmentSound
<1>10. published' = {<<Leader, 1>>}
  BY <1>9 DEF Next, Reigns
<1>11. \A n \in Node \ {Leader} : ~PublishedAs(n)'
  BY <1>10 DEF PublishedAs
<1>12. Holds(Leader)'
  BY <1>2, <1>7, <1>8, <1>11 DEF Holds
<1>13. AckedIn(replica[Leader])'
  <2>1. acked \subseteq Op
    BY DEF FInv, ClientsTyped
  <2>. QED
    BY <1>3, <2>1 DEF HolderStep, Moves, AckedIn, Reigns
<1>. QED
  BY <1>3, <1>5, <1>6, <1>8, <1>10, <1>12, <1>13 DEF Reigns
-----------------------------------------------------------------------------
(* The ledger *)

(* The history is the store of the primary of the newest epoch.             *)
HistoryIsHeld ==
    \A h \in Node :
      replica[h].role = "primary" /\ replica[h].epoch = last_primary_epoch =>
        History = replica[h].store

LEMMA NewestHistory == FInv => HistoryIsHeld
<1>. SUFFICES ASSUME FInv, NEW h \in Node, replica[h].role = "primary",
                     replica[h].epoch = last_primary_epoch
              PROVE  History = replica[h].store
  BY DEF HistoryIsHeld
<1>. DEFINE P == {n \in Node : replica[n].role = "primary"}
            Newest(n) == \A m \in P : replica[m].epoch <= replica[n].epoch
            newest == CHOOSE n \in P : Newest(n)
<1>1. /\ h \in P /\ last_primary_epoch \in Nat
      /\ \A n \in P : /\ replica[n].epoch \in Nat
                      /\ replica[n].epoch <= last_primary_epoch
                      /\ Entitled(n, replica[n].epoch)
  BY ReplicaFit DEF Fit, Entitled
<1>2. Newest(h)
  BY <1>1
<1>3. newest \in P /\ Newest(newest)
  BY <1>1, <1>2
<1>4. replica[newest].epoch = last_primary_epoch
  BY <1>1, <1>3
<1>5. newest = h
  BY <1>1, <1>3, <1>4 DEF FInv, OneEntitled
<1>. QED
  BY <1>1, <1>5 DEF History

(* A step of the holder is one of the ledger.                               *)
LEMMA MovesLedger ==
    ASSUME FInv, NEW h \in Node, Recording(replica[h]), AckedIn(replica[h]),
           History = replica[h].store, History' = replica'[h].store, Moves(h)
    PROVE  [Ledger!FailoverNext]_Ledger!ledgerVars
<1>. DEFINE H == replica[h].store
<1>1. H \in Seq(Op) /\ acked \subseteq Op
  BY ReplicaFit DEF FInv, ClientsTyped
<1>2. ASSUME NEW op \in Op, Recorded(replica[h], op)
      PROVE  \E i \in 1..Len(H) :
               H[i] = op /\ \A j \in 1..Len(H) : H[j] = op => j = i
  BY <1>2 DEF Recording, Applied
<1>3. ASSUME NEW op, NEW i \in 1..Len(H), H[i] = op,
             \A j \in 1..Len(H) : H[j] = op => j = i
      PROVE  Through(op) = SubSeq(H, 1, i)
  <2>1. {j \in DOMAIN H : H[j] = op} = {i}
    BY <1>1, <1>3
  <2>. QED
    BY <2>1 DEF Through
<1>4. CASE /\ replica'[h].store = H
           /\ UNCHANGED acked
  <2>1. \A op : Through(op)' = Through(op)
    BY <1>4 DEF Through
  <2>. QED
    BY <1>4, <2>1 DEF Ledger!ledgerVars
<1>5. ASSUME NEW op \in Op, Recorded(replica[h], op), replica'[h].store = H,
             acked' = acked \cup {op}
      PROVE  Ledger!FailoverNext
  <2>1. \A o : Through(o)' = Through(o)
    BY <1>5 DEF Through
  <2>2. PICK i \in 1..Len(H) : Through(op) = SubSeq(H, 1, i)
    BY <1>2, <1>3, <1>5
  <2>3. {Through(o) : o \in acked}'
          = {Through(o) : o \in acked} \cup {SubSeq(H, 1, i)}
    BY <1>5, <2>1, <2>2
  <2>4. Ledger!Acknowledge(NoOp, i)
    BY <1>5, <2>3 DEF Ledger!Acknowledge
  <2>. QED
    BY <2>4 DEF Ledger!FailoverNext, Ledger!Next
<1>6. ASSUME NEW op \in Op, ~Recorded(replica[h], op),
             replica'[h].store = Append(H, op), UNCHANGED acked
      PROVE  Ledger!FailoverNext
  <2>. DEFINE G == Append(H, op)
  <2>1. \A i \in 1..Len(H) : H[i] \in Op /\ H[i] # op
    BY <1>1, <1>6 DEF Recording, Applied
  <2>2. ASSUME NEW o \in acked
        PROVE  Through(o)' = Through(o)
    <3>1. o \in Op /\ o # op /\ Recorded(replica[h], o)
      BY <1>1, <1>6, <2>2 DEF AckedIn
    <3>2. PICK i \in 1..Len(H) :
            H[i] = o /\ \A j \in 1..Len(H) : H[j] = o => j = i
      BY <1>2, <3>1
    <3>3. Through(o) = SubSeq(H, 1, i)
      BY <1>3, <3>2
    <3>4. {j \in DOMAIN G : G[j] = o} = {i}
      BY <1>1, <3>1, <3>2
    <3>5. Through(o)' = SubSeq(G, 1, i)
      BY <1>6, <3>4 DEF Through
    <3>6. SubSeq(G, 1, i) = SubSeq(H, 1, i)
      BY <1>1
    <3>. QED
      BY <3>3, <3>5, <3>6
  <2>3. {Through(o) : o \in acked}' = {Through(o) : o \in acked}
    BY <1>6, <2>2
  <2>4. Ledger!Unused(op)
    BY <2>1 DEF Ledger!Unused
  <2>5. Ledger!Commit(op)
    BY <1>6, <2>3, <2>4 DEF Ledger!Commit
  <2>. QED
    BY <2>5 DEF Ledger!FailoverNext, Ledger!Next
<1>. HIDE DEF H
<1>7. \/ replica'[h].store = H /\ UNCHANGED acked
      \/ \E op \in Op : /\ replica'[h].store = H
                        /\ Recorded(replica[h], op) /\ acked' = acked \cup {op}
      \/ /\ UNCHANGED acked
         /\ \E op \in Op : /\ ~Recorded(replica[h], op)
                           /\ replica'[h].store = Append(H, op)
  BY DEF Moves, H
<1>. QED
  BY <1>4, <1>5, <1>6, <1>7

(* Nothing happens.                                                         *)
LEMMA StutterLedger ==
    ASSUME UNCHANGED <<replica, acked>>
    PROVE  UNCHANGED Ledger!ledgerVars
<1>1. History' = History
  BY DEF History
<1>2. \A o : Through(o)' = Through(o)
  BY <1>1 DEF Through
<1>. QED
  BY <1>1, <1>2 DEF Ledger!ledgerVars

LEMMA InitLedger ==
    ASSUME Init
    PROVE  Ledger!FailoverInit
<1>1. FInv /\ Leader \in Node
  BY InitInv, InitialReplicas
<1>2. /\ replica[Leader].role = "primary"
      /\ replica[Leader].epoch = last_primary_epoch
      /\ replica[Leader].store = <<>> /\ acked = {}
  BY <1>1 DEF Init, InitialReplica
<1>3. History = <<>>
  BY <1>1, <1>2, NewestHistory DEF HistoryIsHeld
<1>. QED
  BY <1>2, <1>3 DEF Ledger!FailoverInit
-----------------------------------------------------------------------------
(* The first leader is reliable *)

LEMMA InitReigns ==
    ASSUME Init
    PROVE  Reigns
<1>1. FInv /\ Leader \in Node
  BY InitInv, InitialReplicas
<1>2. /\ replica[Leader].role = "primary" /\ replica[Leader].epoch = 1
      /\ replica[Leader].records = {} /\ replica[Leader].pending = {}
      /\ replica[Leader].store = <<>>
      /\ booting[Leader].phase = "done"
  BY <1>1 DEF Init, InitialReplica, Booted
<1>3. Holding(replica[Leader]) /\ acked = {}
  <2>1. \A op : ~Recorded(replica[Leader], op) /\ ~Applied(replica[Leader].store, op)
    BY <1>2 DEF Recorded, Applied
  <2>2. Recording(replica[Leader])
    BY <1>2, <2>1 DEF Recording
  <2>. QED
    BY <1>2, <2>2 DEF Holding, PendingRecorded, Init
<1>4. \A n \in Node \ {Leader} : ~PublishedAs(n)
  BY DEF PublishedAs, Init
<1>5. assignment # NoAssignment /\ assignment.status = "ready"
  <2>1. assignment = Assign(Leader, 1, "ready", Follower)
    BY DEF Init
  <2>2. assignment.status = "ready"
    BY <2>1 DEF Assign
  <2>3. assignment # NoAssignment
    <3>1. /\ Leader \in Node /\ 1 \in 1..MaxEpoch /\ "ready" \in Status
          /\ Follower \in Address /\ {} \in SUBSET Node
      BY InitialReplicas, ControllerAssumption DEF Status, Address
    <3>2. Assign(Leader, 1, "ready", Follower) \in PrimaryAssignment
      BY <3>1, AssignTyped
    <3>. QED
      BY <2>1, <3>2, SentinelAssumption
  <2>. QED
    BY <2>2, <2>3
<1>6. WaitsAsPrimary /\ EvictsUnreliable
  BY ControllerAssumption DEF WaitsAsPrimary, EvictsUnreliable, Init, Free, Threads
<1>. QED
  BY <1>1, <1>2, <1>3, <1>4, <1>5, <1>6
  DEF Reigns, Holds, Started, AckedIn, Assigned, Init

LEMMA ReignStutters ==
    ASSUME Reigns, UNCHANGED vars
    PROVE  Reigns'
  BY DEF Reigns, vars, controllerVars, storageVars, syncVars, WaitsAsPrimary,
     EvictsUnreliable, Started, Assigned, Holds, AckedIn, PublishedAs, Superseded

LEMMA ReignInv ==
    ASSUME Leader \notin Unreliable
    PROVE  Spec => [](FInv /\ Reigns)
<1>1. Init => FInv /\ Reigns
  BY InitInv, InitReigns
<1>2. FInv /\ Reigns /\ [Next]_vars => (FInv /\ Reigns)'
  BY NextInv, ReignKept, ReignStutters
<1>. QED
  BY <1>1, <1>2, PTL DEF Spec

(* README.md:71: no acknowledged mutation is lost while the primary can be  *)
(* reached, whatever becomes of all the other replicas: its backups fail,   *)
(* restart from their snapshots, are replaced and handle requests late.     *)
THEOREM ReliablePrimaryIsDurable ==
    ASSUME Leader \notin Unreliable
    PROVE  Spec => []AcknowledgedRecoverable
<1>1. FInv /\ Reigns => AcknowledgedRecoverable
  <2>. SUFFICES ASSUME FInv, Reigns PROVE AcknowledgedRecoverable
    OBVIOUS
  <2>1. assignment.primary = Leader
    BY NewestIsAssigned, InitialReplicas DEF NewestOwns, Reigns, Holds, Holding
  <2>. QED
    BY <2>1 DEF AcknowledgedRecoverable, PublishedPrimary, Reigns, AckedIn
<1>. QED
  BY <1>1, ReignInv, PTL

(* Under the same failures the system is the ledger the auction service     *)
(* relies on: one history that a mutation enters once, and that answers are *)
(* read from.                                                               *)
THEOREM ReliablePrimaryIsLedger ==
    ASSUME Leader \notin Unreliable
    PROVE  Spec => LedgerSpec
<1>1. Init => Ledger!FailoverInit
  BY InitLedger
<1>2. /\ FInv /\ Reigns /\ FInv' /\ Reigns' /\ [Next]_vars
      => [Ledger!FailoverNext]_Ledger!ledgerVars
  <2>1. CASE UNCHANGED vars
    BY <2>1, StutterLedger DEF vars, storageVars
  <2>2. ASSUME FInv, Reigns, FInv', Reigns', Next
        PROVE  [Ledger!FailoverNext]_Ledger!ledgerVars
    <3>1. /\ Leader \in Node /\ Holds(Leader) /\ AckedIn(replica[Leader])
          /\ HolderStep(Leader) /\ Holds(Leader)'
      BY <2>2, ReignKept, InitialReplicas DEF Reigns
    <3>2. History = replica[Leader].store
      BY <2>2, <3>1, NewestHistory DEF HistoryIsHeld, Holds, Holding
    <3>3. History' = replica'[Leader].store
      <4>1. FInv' => HistoryIsHeld'
        BY NewestHistory, PTL
      <4>. QED
        BY <2>2, <3>1, <4>1 DEF HistoryIsHeld, Holds, Holding
    <3>. QED
      BY <2>2, <3>1, <3>2, <3>3, MovesLedger DEF HolderStep, Holds, Holding
  <2>. QED
    BY <2>1, <2>2
<1>. QED
  BY <1>1, <1>2, ReignInv, PTL DEF Spec, LedgerSpec, Ledger!FailoverSpec
-----------------------------------------------------------------------------
(* The first leader may fail.  Before its backup has begun a promotion, the *)
(* backup follows it, whether the leader is up, cut off or starting again.  *)

LateReplication == \A m \in late : m.type \in {"prepare", "commit", "abort"}

LeaderFails ==
    /\ WaitsAsPrimary /\ EvictsUnreliable
    /\ \A n \in Node \ {Leader} : Started(n)
    /\ LateReplication
    /\ published \subseteq {<<Leader, 1>>, <<Follower, 2>>}
    /\ FormerLeader(replica[Leader], replica[Follower])
    /\ FormerLeader(Loaded(disk[Leader]), replica[Follower])
    /\ AckedIn(replica[Follower]) /\ Recording(replica[Follower])

(* The requests that may still reach the follower are of the leader's       *)
(* mutations.                                                               *)
LateCall(m) ==
    /\ m.to = Follower
    /\ m.type = "commit" => Recorded(replica[Leader], m.op)
    /\ m.type = "prepare" => /\ m.candidate # <<>>
                             /\ m.candidate[Len(m.candidate)] = m.op

(* A leader that registered in its epoch is still the primary.              *)
StartsAsPrimary ==
    booting[Leader].phase = "registered" /\ booting[Leader].epoch = 1 =>
      replica[Leader].role = "primary"

Following ==
    /\ Backed(replica[Leader], disk[Leader], replica[Follower])
    /\ replica[Leader].role = "backup" => ~replica[Leader].reported
    /\ \A n \in Node \ {Leader} : replica[n].epoch = 1
    /\ published = {<<Leader, 1>>} /\ syncs = {}
    /\ \A m \in late : LateCall(m)
    /\ StartsAsPrimary

(* What a step leaves of that.                                              *)
Followed ==
    /\ Backed(replica'[Leader], disk'[Leader], replica'[Follower])
    /\ replica'[Leader].role = "backup" => ~replica'[Leader].reported
    /\ FormerLeader(replica'[Leader], replica'[Follower])
    /\ AckedIn(replica[Follower])' /\ Recording(replica'[Follower])
    /\ \A op \in Op : Recorded(replica[Follower], op) => Recorded(replica'[Follower], op)
    /\ \A n \in Node \ {Leader} : replica'[n].epoch = 1
    /\ \A m \in late' : LateCall(m)' /\ m.type \in {"prepare", "commit", "abort"}
    /\ Moves(Leader)

LEMMA LeaderAndFollower ==
    ASSUME FInv
    PROVE  /\ Leader \in Node /\ Follower \in Node /\ Leader # Follower
           /\ Leader \in Node \ {Follower} /\ Follower \in Node \ {Leader}
           /\ replica[Leader] \in Replica /\ replica[Follower] \in Replica
           /\ disk[Leader] \in Snapshot
           /\ replica[Leader].epoch \in Nat /\ replica[Leader].epoch <= last_primary_epoch
           /\ acked \subseteq Op
  BY InitialReplicas, ReplicaFit DEF Fit, FInv, ClientsTyped, ReplicasFit

LEMMA LateCallsKept ==
    ASSUME FInv, LeaderFails, Following, NEW S, late' \subseteq late \cup S,
           \A m \in S : LateCall(m)' /\ m.type \in {"prepare", "commit", "abort"},
           \A op : Recorded(replica[Leader], op) => Recorded(replica'[Leader], op)
    PROVE  \A m \in late' : LateCall(m)' /\ m.type \in {"prepare", "commit", "abort"}
<1>. SUFFICES ASSUME NEW m \in late, m \notin S
              PROVE  LateCall(m)' /\ m.type \in {"prepare", "commit", "abort"}
  OBVIOUS
<1>1. LateCall(m) /\ m.type \in {"prepare", "commit", "abort"}
  BY DEF Following, LeaderFails, LateReplication
<1>. QED
  BY <1>1 DEF LateCall

LEMMA LateCallsGone ==
    ASSUME FInv, LeaderFails, Following, late' \subseteq late,
           \A op : Recorded(replica[Leader], op) => Recorded(replica'[Leader], op)
    PROVE  \A m \in late' : LateCall(m)' /\ m.type \in {"prepare", "commit", "abort"}
<1>. DEFINE S == {}
<1>1. \A m \in S : LateCall(m)' /\ m.type \in {"prepare", "commit", "abort"}
  OBVIOUS
<1>2. late' \subseteq late \cup S
  OBVIOUS
<1>. HIDE DEF S
<1>. QED
  BY <1>1, <1>2, LateCallsKept

(* Only the leader has clients, and only the follower hears of them.        *)
LEMMA OnlyTheLeader ==
    ASSUME FInv, LeaderFails, Following, NEW n \in Node,
           PublishedAs(n) \/ committing[n] # NoOp
    PROVE  /\ n = Leader /\ replica[n].role = "primary" /\ replica[n].epoch = 1
           /\ replica[n].backup = Follower
           /\ \A d \in replica[n].pending : d.backup = Follower
<1>1. PublishedAs(n)
  BY DEF LeaderFails, WaitsAsPrimary
<1>. QED
  BY <1>1 DEF PublishedAs, Following, LeaderFails, FormerLeader

LEMMA FollowedWaiting ==
    ASSUME FInv, LeaderFails, Following,
           UNCHANGED <<replica, disk, acked>>,
           NEW S, late' \subseteq late \cup S,
           \A m \in S : LateCall(m) /\ m.type \in {"prepare", "commit", "abort"}
    PROVE  Followed
<1>1. \A m \in S : LateCall(m)' /\ m.type \in {"prepare", "commit", "abort"}
  BY DEF LateCall
<1>2. \A m \in late' : LateCall(m)' /\ m.type \in {"prepare", "commit", "abort"}
  BY <1>1, LateCallsKept
<1>. QED
  BY <1>2 DEF Followed, LeaderFails, Following, AckedIn, Moves

LEMMA FollowedReplay ==
    ASSUME FInv, LeaderFails, Following, NEW n \in Node, NEW op \in Op,
           ReplayResponse(n, op)
    PROVE  Followed
<1>1. /\ UNCHANGED <<replica, disk, late>> /\ acked' = acked \cup {op}
      /\ Recorded(replica[n], op) /\ PendingFor(replica[n], op) = {}
      /\ PublishedAs(n)
  BY DEF ReplayResponse, Writable, PublishedAs
<1>2. Recorded(replica[Leader], op) /\ Recorded(replica[Follower], op)
  BY <1>1, OnlyTheLeader DEF LeaderFails, FormerLeader
<1>3. \A m \in late' : LateCall(m)' /\ m.type \in {"prepare", "commit", "abort"}
  BY <1>1, LateCallsKept
<1>4. AckedIn(replica[Follower])'
  BY <1>1, <1>2 DEF AckedIn, LeaderFails
<1>. QED
  BY <1>1, <1>2, <1>3, <1>4 DEF Followed, LeaderFails, Following, Moves

LEMMA FollowedDecision ==
    ASSUME FInv, LeaderFails, Following, NEW n \in Node, NEW op \in Op,
           PrepareAndDecide(n, op)
    PROVE  Followed
<1>. DEFINE l == replica[Leader]
            f == replica[Follower]
            p == Preparation(Prepare(n, Follower, op))
            g == PrepareAuctionMutation(f, p)
            q == Decided(l, p)
<1>1. n = Leader /\ l.role = "primary" /\ l.epoch = 1 /\ l.backup = Follower
  BY OnlyTheLeader DEF PrepareAndDecide, New, Writable, PublishedAs
<1>2. ~Recorded(l, op) /\ PrepareAccepted(f, p)
  BY <1>1 DEF PrepareAndDecide, New
<1>0. DecisionTaken(Leader, op, Follower, p)
  BY <1>1, PrepareAndDecideEffect
<1>3. /\ p \in PreparedMutation /\ p.op = op
      /\ p.candidate = Append(l.store, op)
      /\ replica'[Follower] = g /\ replica'[Leader] = q
      /\ disk'[Leader] = Saved(q)
      /\ Others({Follower, Leader}) /\ UNCHANGED acked
  BY <1>0, <1>1 DEF DecisionTaken
<1>4. UNCHANGED late
  BY DEF PrepareAndDecide
<1>. HIDE DEF p
<1>5. l \in Replica /\ f \in Replica /\ acked \subseteq Op
  BY LeaderAndFollower
<1>6. /\ q.store = p.candidate
      /\ \A o : Recorded(q, o) <=> Recorded(l, o) \/ o = op
      /\ \E d : /\ d.op = op /\ d.backup = Follower
                /\ q.pending = l.pending \cup {d}
      /\ SameAuthority(l, q)
  BY <1>1, <1>3, <1>5, LeaderAndFollower, DecisionData, DecisionStored
<1>7. SameData(f, g)
  BY <1>3, <1>5, PreparationData
<1>. HIDE DEF g, q
<1>8. q.role = "primary" /\ q.epoch = 1 /\ q.ready /\ q.backup = Follower
  BY <1>1, <1>6 DEF SameAuthority, LeaderFails, FormerLeader
<1>9. \A o : Recorded(g, o) <=> Recorded(f, o)
  BY <1>7 DEF SameData, Recorded
<1>10. FormerLeader(q, g)
  <2>1. PICK d : /\ d.op = op /\ d.backup = Follower
                 /\ q.pending = l.pending \cup {d}
    BY <1>6
  <2>2. PendingRecorded(q)
    BY <1>6, <2>1 DEF PendingRecorded, LeaderFails, FormerLeader
  <2>3. ASSUME NEW o \in Op, Recorded(q, o), PendingFor(q, o) = {}
        PROVE  Recorded(g, o)
    <3>1. o # op /\ PendingFor(l, o) = {}
      BY <2>1, <2>3 DEF PendingFor
    <3>. QED
      BY <1>1, <1>6, <1>9, <2>3, <3>1 DEF LeaderFails, FormerLeader
  <2>. QED
    BY <1>8, <2>1, <2>2, <2>3 DEF FormerLeader, LeaderFails
<1>11. Backed(q, Saved(q), g)
  <2>1. /\ Saved(q).ready /\ Saved(q).epoch = 1 /\ Saved(q).store = q.store
        /\ Saved(q).records = q.records /\ Saved(q).pending = q.pending
    BY <1>8 DEF Saved
  <2>2. q.role = l.role
    BY <1>1, <1>8
  <2>3. Backed(l, disk[Leader], f)
    BY DEF Following
  <2>. QED
    BY <1>1, <1>2, <1>3, <1>5, <1>6, <2>1, <2>2, <2>3, BackedDecides DEF g
<1>12. Recording(g) /\ g.epoch = f.epoch
  BY <1>7, <1>9 DEF SameData, SameAuthority, Recording, LeaderFails
<1>13. \A m \in late' : LateCall(m)' /\ m.type \in {"prepare", "commit", "abort"}
  <2>1. \A o : Recorded(l, o) => Recorded(replica'[Leader], o)
    BY <1>3, <1>6
  <2>. QED
    BY <1>4, <2>1, LateCallsGone
<1>14. AckedIn(replica[Follower])'
  BY <1>3, <1>5, <1>9 DEF AckedIn, LeaderFails
<1>15. Moves(Leader)
  BY <1>2, <1>3, <1>6 DEF Moves
<1>16. \A a \in Node \ {Leader} : replica'[a].epoch = 1
  BY <1>3, <1>12 DEF Others, Following
<1>. QED
  BY <1>3, <1>8, <1>9, <1>10, <1>11, <1>12, <1>13, <1>14, <1>15, <1>16 DEF Followed

LEMMA FollowedCommit ==
    ASSUME FInv, LeaderFails, Following, NEW n \in Node, CommitAnswered(n)
    PROVE  Followed
<1>. DEFINE l == replica[Leader]
            f == replica[Follower]
            op == committing[Leader]
            d == CHOOSE x \in PendingFor(l, op) : TRUE
            m == Decision("commit", Leader, d.backup, op, d.epoch)
            g == CommitPreparedMutation(f, m)
            q == replica'[Leader]
            z == disk'[Leader]
<1>1. n = Leader /\ l.role = "primary" /\ l.epoch = 1 /\ l.backup = Follower
      /\ \A x \in l.pending : x.backup = Follower
  BY OnlyTheLeader DEF CommitAnswered
<1>2. /\ op \in Op /\ d \in l.pending /\ d.op = op /\ m.op = op
      /\ Others({d.backup, Leader})
      /\ replica'[d.backup] = CommitPreparedMutation(replica[d.backup], m)
      /\ \/ q = l /\ z = disk[Leader] /\ UNCHANGED acked
         \/ /\ q = Acknowledged(l, op)
            /\ z \in {disk[Leader], Saved(q)}
            /\ q # l => z = Saved(q)
            /\ acked' = acked \cup {op}
            /\ Recorded(CommitPreparedMutation(replica[d.backup], m), op)
  BY <1>1, CommitAnsweredEffect
<1>3. /\ d.backup = Follower /\ replica'[Follower] = g /\ Others({Follower, Leader})
      /\ \/ q = l /\ z = disk[Leader] /\ UNCHANGED acked
         \/ /\ q = Acknowledged(l, op)
            /\ z \in {disk[Leader], Saved(q)}
            /\ q # l => z = Saved(q)
            /\ acked' = acked \cup {op}
            /\ Recorded(g, op)
  BY <1>1, <1>2
<1>4. UNCHANGED late
  BY DEF CommitAnswered
<1>. HIDE DEF d, op, q, z
<1>5. l \in Replica /\ f \in Replica /\ acked \subseteq Op
  BY LeaderAndFollower
<1>6. Recorded(l, op)
  BY <1>2 DEF LeaderFails, FormerLeader, PendingRecorded
<1>7. Backed(l, disk[Leader], g) /\ Recording(g)
  BY <1>2, <1>5, <1>6, BackedCommits DEF LeaderFails, Following
<1>8. SameAuthority(f, g) /\ \A o : Recorded(f, o) => Recorded(g, o)
  BY <1>2, <1>5, CommitData
<1>. HIDE DEF g, m
<1>9. /\ q.store = l.store /\ q.records = l.records
      /\ q.role = l.role /\ q.epoch = l.epoch /\ q.ready = l.ready
      /\ q.backup = l.backup
      /\ \/ q.pending = l.pending /\ UNCHANGED acked
         \/ /\ q.pending = {x \in l.pending : x.op # op}
            /\ acked' = acked \cup {op} /\ Recorded(g, op)
  BY <1>3, <1>5, AcknowledgmentData, AcknowledgmentStored DEF SameAuthority
<1>10. Backed(q, z, g)
  <2>1. CASE z = disk[Leader] /\ q = l
    BY <1>7, <2>1
  <2>2. CASE z = Saved(q)
    <3>1. /\ z.ready /\ z.epoch = 1 /\ z.store = q.store
          /\ z.records = q.records /\ z.pending = q.pending
      BY <1>1, <1>9, <2>2 DEF Saved, LeaderFails, FormerLeader
    <3>. QED
      BY <1>1, <1>7, <1>9, <3>1, BackedSameStore
  <2>. QED
    BY <1>3, <2>1, <2>2
<1>11. \A o : Recorded(q, o) <=> Recorded(l, o)
  BY <1>9 DEF Recorded
<1>12. FormerLeader(q, g)
  <2>1. PendingRecorded(q) /\ \A x \in q.pending : x.backup = Follower
    BY <1>9, <1>11 DEF PendingRecorded, LeaderFails, FormerLeader
  <2>2. ASSUME NEW o \in Op, Recorded(q, o), PendingFor(q, o) = {}
        PROVE  Recorded(g, o)
    <3>1. CASE Recorded(g, op) /\ o = op
      BY <3>1
    <3>2. CASE PendingFor(l, o) = {}
      BY <1>1, <1>8, <1>11, <2>2, <3>2 DEF LeaderFails, FormerLeader
    <3>. QED
      BY <1>9, <2>2, <3>1, <3>2 DEF PendingFor
  <2>. QED
    BY <1>1, <1>9, <2>1, <2>2 DEF LeaderFails, FormerLeader
<1>13. \A x \in late' : LateCall(x)' /\ x.type \in {"prepare", "commit", "abort"}
  BY <1>4, <1>11, LateCallsGone DEF q
<1>14. AckedIn(replica[Follower])'
  BY <1>3, <1>8, <1>9 DEF AckedIn, LeaderFails
<1>15. Moves(Leader)
  BY <1>2, <1>6, <1>9 DEF Moves, q
<1>16. \A a \in Node \ {Leader} : replica'[a].epoch = 1
  BY <1>3, <1>8 DEF Others, Following, SameAuthority
<1>17. \A o \in Op : Recorded(f, o) => Recorded(replica'[Follower], o)
  BY <1>3, <1>8
<1>18. /\ Backed(replica'[Leader], disk'[Leader], replica'[Follower])
       /\ replica'[Leader].role # "backup"
       /\ FormerLeader(replica'[Leader], replica'[Follower])
       /\ Recording(replica'[Follower])
  BY <1>1, <1>3, <1>7, <1>9, <1>10, <1>12 DEF q, z
<1>. QED
  BY <1>13, <1>14, <1>15, <1>16, <1>17, <1>18 DEF Followed

(* A handler runs at the follower.                                          *)
LEMMA FollowedHandler ==
    ASSUME FInv, LeaderFails, Following, NEW g, Save(Follower, g), UNCHANGED acked,
           \/ \E p \in PreparedMutation :
                /\ p.candidate # <<>> /\ p.candidate[Len(p.candidate)] = p.op
                /\ g = PrepareAuctionMutation(replica[Follower], p)
           \/ \E d : g = AbortPreparedMutation(replica[Follower], d)
           \/ \E d : /\ d.op \in Op /\ Recorded(replica[Leader], d.op)
                     /\ g = CommitPreparedMutation(replica[Follower], d),
           NEW S, late' \subseteq late \cup S,
           \A m \in S : LateCall(m) /\ m.type \in {"prepare", "commit", "abort"}
    PROVE  Followed
<1>. DEFINE l == replica[Leader]
            f == replica[Follower]
<1>1. l \in Replica /\ f \in Replica /\ Leader \in Node \ {Follower} /\ acked \subseteq Op
      /\ Follower \in Node
  BY LeaderAndFollower
<1>2. replica'[Follower] = g /\ Others({Follower})
  BY <1>1, SaveEffect
<1>3. replica'[Leader] = l /\ disk'[Leader] = disk[Leader]
  BY <1>1, <1>2 DEF Others
<1>4. /\ Backed(l, disk[Leader], g) /\ Recording(g)
      /\ g.epoch = 1 /\ \A o \in Op : Recorded(f, o) => Recorded(g, o)
  <2>1. ASSUME SameData(f, g), Backed(l, disk[Leader], g)
        PROVE  <1>4
    <3>1. \A o : Recorded(g, o) <=> Recorded(f, o)
      BY <2>1 DEF SameData, Recorded
    <3>2. Recording(f) /\ f.epoch = 1
      BY <1>1 DEF LeaderFails, Following
    <3>. QED
      BY <2>1, <3>1, <3>2 DEF SameData, SameAuthority, Recording
  <2>2. ASSUME NEW p \in PreparedMutation, p.candidate # <<>>,
               p.candidate[Len(p.candidate)] = p.op,
               g = PrepareAuctionMutation(f, p)
        PROVE  <1>4
    BY <1>1, <2>1, <2>2, PreparationData, BackedPrepares DEF Following
  <2>3. ASSUME NEW d, g = AbortPreparedMutation(f, d)
        PROVE  <1>4
    BY <1>1, <2>1, <2>3, AbortData, BackedAborts DEF Following
  <2>4. ASSUME NEW d, d.op \in Op, Recorded(l, d.op), g = CommitPreparedMutation(f, d)
        PROVE  <1>4
    <3>1. Backed(l, disk[Leader], g) /\ Recording(g)
      BY <1>1, <2>4, BackedCommits DEF LeaderFails, Following
    <3>2. SameAuthority(f, g) /\ \A o : Recorded(f, o) => Recorded(g, o)
      BY <1>1, <2>4, CommitData
    <3>3. f.epoch = 1
      BY <1>1 DEF Following
    <3>. QED
      BY <3>1, <3>2, <3>3 DEF SameAuthority
  <2>. QED
    BY <2>2, <2>3, <2>4
<1>5. FormerLeader(l, g)
  BY <1>4, FormerLeaderGrows DEF LeaderFails
<1>6. \A m \in S : LateCall(m)' /\ m.type \in {"prepare", "commit", "abort"}
  BY <1>3 DEF LateCall
<1>7. \A m \in late' : LateCall(m)' /\ m.type \in {"prepare", "commit", "abort"}
  BY <1>3, <1>6, LateCallsKept
<1>8. AckedIn(replica[Follower])'
  BY <1>1, <1>2, <1>4 DEF AckedIn, LeaderFails
<1>9. \A a \in Node \ {Leader} : replica'[a].epoch = 1
  BY <1>2, <1>4 DEF Others, Following
<1>10. Moves(Leader)
  BY <1>3 DEF Moves
<1>. QED
  BY <1>2, <1>3, <1>4, <1>5, <1>7, <1>8, <1>9, <1>10 DEF Followed, Following

LEMMA FollowedRefusal ==
    ASSUME FInv, LeaderFails, Following, NEW n \in Node, NEW op \in Op,
           PrepareRefused(n, op) \/ PrepareUnanswered(n, op)
    PROVE  Followed
<1>. DEFINE f == replica[Follower]
            prepare == Prepare(Leader, Follower, op)
            abort == Decision("abort", Leader, Follower, op, 1)
            p == Preparation(prepare)
<1>1. /\ n = Leader /\ replica[Leader].epoch = 1
      /\ replica[Leader].backup = Follower
      /\ Leader \in Node /\ Follower \in Node
      /\ replica[Leader].store \in Seq(Op)
  BY OnlyTheLeader, LeaderAndFollower, ReplicaFit
  DEF PrepareRefused, PrepareUnanswered, New, Writable, PublishedAs
<1>2. /\ prepare.candidate = Append(replica[Leader].store, op)
      /\ prepare.op = op /\ prepare.type = "prepare" /\ prepare.to = Follower
      /\ abort.type = "abort" /\ abort.to = Follower
      /\ p.candidate = prepare.candidate /\ p.op = op
      /\ p \in PreparedMutation
  BY <1>1, PrepareTyped DEF Prepare, Decision, Preparation
<1>3. /\ prepare.candidate # <<>>
      /\ prepare.candidate[Len(prepare.candidate)] = op
  BY <1>1, <1>2, AppendedLast
<1>4. LateCall(prepare) /\ LateCall(abort)
  BY <1>2, <1>3 DEF LateCall
<1>5. /\ UNCHANGED acked /\ late' \subseteq late \cup {prepare, abort}
      /\ \/ \E d : Save(Follower, AbortPreparedMutation(f, d))
         \/ Save(Follower, PrepareAuctionMutation(f, p))
  <2>1. CASE PrepareRefused(n, op)
    BY <1>1, <2>1 DEF PrepareRefused
  <2>2. CASE PrepareUnanswered(n, op)
    BY <1>1, <2>2 DEF PrepareUnanswered, NeverAnswered
  <2>. QED
    BY <2>1, <2>2
<1>. HIDE DEF prepare, abort, p
<1>. DEFINE S == {prepare, abort}
<1>6. /\ \A m \in S : LateCall(m) /\ m.type \in {"prepare", "commit", "abort"}
      /\ late' \subseteq late \cup S
  BY <1>2, <1>4, <1>5
<1>. HIDE DEF S
<1>7. PICK g : /\ Save(Follower, g)
               /\ \/ \E d : g = AbortPreparedMutation(f, d)
                  \/ g = PrepareAuctionMutation(f, p)
  BY <1>5
<1>. QED
  BY <1>2, <1>3, <1>5, <1>6, <1>7, FollowedHandler

LEMMA FollowedLate ==
    ASSUME FInv, LeaderFails, Following, NEW m \in late, LateHandler(m)
    PROVE  Followed
<1>1. /\ m.type \in {"prepare", "commit", "abort"} /\ LateCall(m) /\ m.to = Follower
      /\ m \in Request
  BY DEF LeaderFails, LateReplication, Following, LateCall, FInv, FitRequest
<1>2. Save(Follower, Handled(m)) /\ UNCHANGED acked /\ late' \subseteq late \cup {m}
  BY <1>1 DEF LateHandler
<1>. DEFINE S == {m}
<1>3. /\ \A x \in S : LateCall(x) /\ x.type \in {"prepare", "commit", "abort"}
      /\ late' \subseteq late \cup S
  BY <1>1, <1>2
<1>. HIDE DEF S
<1>4. m.op \in Op
  BY <1>1 DEF Request, PrepareRequest, DecisionRequest, BeginRequest, CompleteRequest
<1>5. \/ \E p \in PreparedMutation :
           /\ p.candidate # <<>> /\ p.candidate[Len(p.candidate)] = p.op
           /\ Handled(m) = PrepareAuctionMutation(replica[Follower], p)
      \/ \E d : Handled(m) = AbortPreparedMutation(replica[Follower], d)
      \/ \E d : /\ d.op \in Op /\ Recorded(replica[Leader], d.op)
                /\ Handled(m) = CommitPreparedMutation(replica[Follower], d)
  <2>1. CASE m.type = "prepare"
    <3>. DEFINE p == Preparation(m)
    <3>1. m \in PrepareRequest
      BY <1>1, <2>1 DEF Request, DecisionRequest, BeginRequest, CompleteRequest
    <3>2. p \in PreparedMutation /\ p.candidate = m.candidate /\ p.op = m.op
      BY <3>1 DEF PrepareRequest, Preparation, PreparedMutation
    <3>3. Handled(m) = PrepareAuctionMutation(replica[Follower], p)
      BY <1>1, <2>1 DEF Handled
    <3>. QED
      BY <1>1, <2>1, <3>2, <3>3 DEF LateCall
  <2>2. CASE m.type = "commit"
    BY <1>1, <1>4, <2>2 DEF Handled, LateCall
  <2>3. CASE m.type = "abort"
    BY <1>1, <2>3 DEF Handled
  <2>. QED
    BY <1>1, <2>1, <2>2, <2>3
<1>6. PICK g : g = Handled(m)
  OBVIOUS
<1>. QED
  BY <1>2, <1>3, <1>5, <1>6, FollowedHandler

LEMMA FollowedCommitUnanswered ==
    ASSUME FInv, LeaderFails, Following, NEW n \in Node, CommitUnanswered(n)
    PROVE  Followed
<1>. DEFINE op == committing[Leader]
            d == CHOOSE x \in PendingFor(replica[Leader], op) : TRUE
            commit == Decision("commit", Leader, d.backup, op, d.epoch)
<1>1. n = Leader /\ \A x \in replica[Leader].pending : x.backup = Follower
  BY OnlyTheLeader DEF CommitUnanswered
<1>2. op # NoOp /\ op \in Op /\ PendingFor(replica[Leader], op) # {}
  BY <1>1, LeaderAndFollower DEF CommitUnanswered, FInv, DecisionsKept
<1>3. d \in replica[Leader].pending /\ d.op = op
  BY <1>2 DEF PendingFor
<1>4. d.backup = Follower /\ Recorded(replica[Leader], op)
  BY <1>1, <1>3 DEF LeaderFails, FormerLeader, PendingRecorded
<1>5. /\ late' \subseteq late \cup {commit}
      /\ UNCHANGED <<replica, disk, acked>>
  BY <1>1 DEF CommitUnanswered, NeverAnswered
<1>6. commit.type = "commit" /\ commit.to = Follower /\ commit.op = op
  BY <1>4 DEF Decision
<1>. HIDE DEF commit, d, op
<1>. DEFINE S == {commit}
<1>7. \A m \in S : LateCall(m) /\ m.type \in {"prepare", "commit", "abort"}
  BY <1>4, <1>6 DEF LateCall
<1>8. late' \subseteq late \cup S
  BY <1>5
<1>. HIDE DEF S
<1>. QED
  BY <1>5, <1>7, <1>8, FollowedWaiting

(* The leader starts again from its snapshot.                               *)
LEMMA FollowedRestart ==
    ASSUME Unreliable \subseteq {Leader}, FInv, LeaderFails, Following,
           NEW n \in Node, Restart(n)
    PROVE  Followed /\ replica'[Leader].role = "primary"
<1>. DEFINE l == replica[Leader]
            s == disk[Leader]
<1>1. n = Leader /\ replica'[Leader] = Loaded(s) /\ Others({Leader})
      /\ UNCHANGED <<disk, acked>> /\ late' \subseteq late
  BY RestartEffect, FailoverAssumption DEF Restart
<1>2. Backed(l, s, replica[Follower]) /\ FormerLeader(Loaded(s), replica[Follower])
  BY DEF Following, LeaderFails
<1>3. s.backup = Follower /\ Follower \in Node
  BY <1>2, LeaderAndFollower DEF FormerLeader, Loaded
<1>4. /\ Backed(Loaded(s), s, replica[Follower])
      /\ Loaded(s).role = "primary"
      /\ Loaded(s).store = l.store /\ Loaded(s).records = l.records
  BY <1>2, <1>3, BackedLoaded
<1>. HIDE DEF s, l
<1>5. PICK q : q = Loaded(s)
  OBVIOUS
<1>6. replica'[Follower] = replica[Follower] /\ replica'[Leader] = q /\ disk'[Leader] = s
  BY <1>1, <1>5, LeaderAndFollower DEF Others, s
<1>7. \A o : Recorded(replica'[Leader], o) <=> Recorded(replica[Leader], o)
  BY <1>4, <1>5, <1>6 DEF Recorded, l
<1>8. \A x \in late' : LateCall(x)' /\ x.type \in {"prepare", "commit", "abort"}
  BY <1>1, <1>7, LateCallsGone
<1>9. AckedIn(replica[Follower])' /\ Recording(replica'[Follower])
  BY <1>1, <1>6 DEF AckedIn, LeaderFails
<1>10. Moves(Leader)
  BY <1>1, <1>4, <1>5, <1>6 DEF Moves, l
<1>11. \A a \in Node \ {Leader} : replica'[a].epoch = 1
  BY <1>1 DEF Others, Following
<1>12. /\ Backed(replica'[Leader], disk'[Leader], replica'[Follower])
       /\ replica'[Leader].role = "primary"
       /\ FormerLeader(replica'[Leader], replica'[Follower])
  BY <1>2, <1>4, <1>5, <1>6
<1>. QED
  BY <1>6, <1>8, <1>9, <1>10, <1>11, <1>12 DEF Followed

(* The second epoch, once there is one, is the follower's.                  *)
Heir ==
    \/ last_primary_epoch = 1
    \/ last_primary_epoch = 2 /\ Served(2, Follower)

(* The leader hears of its registration: it goes on, or is a backup now.    *)
LEMMA FollowedBootRegistered ==
    ASSUME FInv, LeaderFails, Following, Heir, NEW n \in Node, BootRegistered(n)
    PROVE  Followed
<1>. DEFINE l == replica[Leader]
            b == booting[Leader]
            q == Registered(l, b)
<1>1. n = Leader
  BY DEF BootRegistered, LeaderFails, Started
<1>2. /\ replica'[Leader] = q /\ Others({Leader}) /\ UNCHANGED <<disk, acked, late>>
      /\ b.phase = "registered"
  BY <1>1, BootRegisteredEffect DEF BootRegistered
<1>3. /\ b.epoch \in 1..last_primary_epoch
      /\ b.is_primary => Entitled(Leader, b.epoch)
      /\ l \in Replica
  BY <1>2, LeaderAndFollower, ReplicaFit DEF FitStart
<1>4. b.epoch = 1 \/ (b.epoch = 2 /\ ~b.is_primary)
  <2>1. last_primary_epoch = 1 => b.epoch = 1
    BY <1>3
  <2>2. last_primary_epoch = 2 => b.epoch \in {1, 2}
    BY <1>3
  <2>3. ~(Entitled(Leader, 2) /\ Served(2, Follower))
    <3>1. Served(2, Follower) => Entitled(Follower, 2)
      BY DEF Entitled
    <3>. QED
      BY <3>1, LeaderAndFollower DEF FInv, OneEntitled
  <2>. QED
    BY <1>3, <2>1, <2>2, <2>3 DEF Heir
<1>5. b.epoch = 1 => l.role = "primary" /\ l.epoch = 1 /\ l.ready
  BY <1>2 DEF Following, StartsAsPrimary, LeaderFails, FormerLeader
<1>6. /\ q.store = l.store /\ q.records = l.records /\ q.backup = l.backup
      /\ q.pending = l.pending
      /\ q.role = "primary" => l.role = "primary" /\ q.epoch = 1 /\ q.ready
      /\ q.role = "backup" => q.epoch = 2 /\ ~q.reported
      /\ q.role \in {"primary", "backup"}
  <2>1. CASE b.epoch = 1
    BY <1>3, <1>5, <2>1 DEF Registered, Replica
  <2>2. CASE b.epoch = 2 /\ ~b.is_primary
    <3>1. l.role = "primary" => l.epoch = 1
      BY DEF LeaderFails, FormerLeader
    <3>. QED
      BY <1>3, <2>2, <3>1 DEF Registered, Replica
  <2>. QED
    BY <1>4, <2>1, <2>2
<1>. HIDE DEF q, l, b
<1>7. Backed(q, disk[Leader], replica[Follower])
  <2>1. Backed(l, disk[Leader], replica[Follower])
    BY DEF Following, l
  <2>2. /\ disk[Leader].ready /\ disk[Leader].epoch = 1
        /\ disk[Leader].store = q.store /\ disk[Leader].records = q.records
        /\ disk[Leader].pending = q.pending
    BY <1>6, <2>1 DEF Backed
  <2>. QED
    BY <1>6, <2>1, <2>2, BackedSameStore
<1>8. \A o : Recorded(q, o) <=> Recorded(l, o)
  BY <1>6 DEF Recorded
<1>9. FormerLeader(q, replica[Follower])
  BY <1>6, <1>8 DEF FormerLeader, PendingRecorded, PendingFor, LeaderFails, l
<1>10. replica'[Follower] = replica[Follower] /\ disk'[Leader] = disk[Leader]
  BY <1>2, LeaderAndFollower DEF Others
<1>11. \A x \in late' : LateCall(x)' /\ x.type \in {"prepare", "commit", "abort"}
  BY <1>2, <1>8, LateCallsGone DEF l
<1>12. AckedIn(replica[Follower])' /\ Recording(replica'[Follower])
  BY <1>2, <1>10 DEF AckedIn, LeaderFails
<1>13. Moves(Leader)
  BY <1>2, <1>6 DEF Moves, l
<1>14. \A a \in Node \ {Leader} : replica'[a].epoch = 1
  BY <1>2 DEF Others, Following
<1>. QED
  BY <1>2, <1>6, <1>7, <1>9, <1>10, <1>11, <1>12, <1>13, <1>14 DEF Followed

(* A step saves what it leaves, or saves nothing.                           *)
LEMMA DiskSteps ==
    ASSUME FInv, Next, NEW n \in Node
    PROVE  disk'[n] \in {disk[n], Saved(replica'[n])}
<1>1. CASE UNCHANGED disk
  BY <1>1
<1>2. ASSUME NEW a \in Node, NEW op \in Op, PrepareAndDecide(a, op)
      PROVE  disk'[n] \in {disk[n], Saved(replica'[n])}
  BY <1>2, PrepareAndDecideEffect DEF DecisionTaken, Others
<1>3. ASSUME NEW a \in Node, CommitAnswered(a)
      PROVE  disk'[n] \in {disk[n], Saved(replica'[n])}
  <2>. DEFINE op == committing[a]
              d == CHOOSE x \in PendingFor(replica[a], op) : TRUE
              m == Decision("commit", a, d.backup, op, d.epoch)
              g == CommitPreparedMutation(replica[d.backup], m)
  <2>1. /\ d.backup \in Node /\ replica'[d.backup] = g
        /\ disk'[d.backup] = IF g = replica[d.backup] THEN disk[d.backup] ELSE Saved(g)
        /\ disk'[a] \in {disk[a], Saved(replica'[a])}
        /\ Others({d.backup, a})
    BY <1>3, CommitAnsweredEffect
  <2>. HIDE DEF g, m, d, op
  <2>. QED
    BY <2>1 DEF Others
<1>4. ASSUME NEW a \in Node, NEW q, Handles(a, q)
      PROVE  disk'[n] \in {disk[n], Saved(replica'[n])}
  BY <1>4, HandledOtherwise DEF Others
<1>5. ASSUME NEW s \in syncs, Install(s)
      PROVE  disk'[n] \in {disk[n], Saved(replica'[n])}
  <2>1. \/ UNCHANGED disk
        \/ s.node \in Node /\ disk'[s.node] = Saved(replica'[s.node]) /\ Others({s.node})
    BY <1>5, InstallEffect
  <2>. QED
    BY <2>1 DEF Others
<1>6. UNCHANGED storageVars => UNCHANGED disk
  BY DEF storageVars
<1>7. ASSUME \/ \E a \in Node, op \in Op : ResumePendingCommit(a, op) \/ ReplayResponse(a, op)
             \/ \E a \in Node : CommitUnanswered(a) \/ Restart(a) \/ BootRegistered(a)
             \/ \E s \in syncs : SynchronizationEnds(s)
      PROVE  UNCHANGED disk
  BY <1>7 DEF ResumePendingCommit, ReplayResponse, CommitUnanswered, Restart,
     BootRegistered, SynchronizationEnds
<1>. QED
  BY <1>1, <1>2, <1>3, <1>4, <1>5, <1>6, <1>7, StorageSteps

(* Only a start or a promotion changes the role of a replica.               *)
LEMMA RoleSteps ==
    ASSUME FInv, Next, NEW n \in Node, ~Authority(n),
           ~Restart(n), ~BootRegistered(n)
    PROVE  replica'[n].role = replica[n].role
<1>1. CASE UNCHANGED replica
  BY <1>1
<1>2. ASSUME NEW a \in Node, NEW op \in Op, PrepareAndDecide(a, op)
      PROVE  replica'[n].role = replica[n].role
  <2>. DEFINE b == replica[a].backup
              p == Preparation(Prepare(a, b, op))
  <2>1. /\ b \in Node \ {a} /\ p \in PreparedMutation
        /\ replica'[b] = PrepareAuctionMutation(replica[b], p)
        /\ replica'[a] = Decided(replica[a], p)
        /\ Others({b, a})
    BY <1>2, PrepareAndDecideEffect DEF DecisionTaken
  <2>. HIDE DEF p
  <2>2. SameAuthority(replica[a], Decided(replica[a], p))
    BY <2>1, ReplicaFit, DecisionStored
  <2>3. SameAuthority(replica[b], PrepareAuctionMutation(replica[b], p))
    BY <2>1, ReplicaFit, PreparationStored
  <2>. QED
    BY <2>1, <2>2, <2>3 DEF SameAuthority, Others
<1>3. ASSUME NEW a \in Node, CommitAnswered(a)
      PROVE  replica'[n].role = replica[n].role
  <2>. DEFINE op == committing[a]
              d == CHOOSE x \in PendingFor(replica[a], op) : TRUE
              b == d.backup
              m == Decision("commit", a, b, op, d.epoch)
  <2>1. /\ b \in Node /\ m.op \in Op
        /\ replica'[b] = CommitPreparedMutation(replica[b], m)
        /\ Others({b, a})
        /\ \/ replica'[a] = replica[a]
           \/ replica'[a] = Acknowledged(replica[a], op)
    BY <1>3, CommitAnsweredEffect
  <2>. HIDE DEF m, b, d, op
  <2>3. SameAuthority(replica[b], CommitPreparedMutation(replica[b], m))
    BY <2>1, ReplicaFit, CommitStored
  <2>4. SameAuthority(replica[a], Acknowledged(replica[a], op))
    BY ReplicaFit, AcknowledgmentStored
  <2>. QED
    BY <2>1, <2>3, <2>4 DEF SameAuthority, Others
<1>4. ASSUME NEW a \in Node, NEW q, Handles(a, q)
      PROVE  replica'[n].role = replica[n].role
  <2>1. replica'[a] = q /\ Others({a}) /\ (Replicating(a, q) \/ Authority(a))
    BY <1>4, HandledOtherwise DEF Handles, Promoting
  <2>2. Replicating(a, q) => SameAuthority(replica[a], q)
    BY ReplicaFit, PreparationStored, AbortStored, CommitStored DEF Replicating
  <2>. QED
    BY <2>1, <2>2 DEF SameAuthority, Others
<1>5. ASSUME NEW s \in syncs, Install(s) \/ SynchronizationEnds(s)
      PROVE  replica'[n].role = replica[n].role
  <2>1. \/ UNCHANGED replica
        \/ /\ s.node \in Node /\ Others({s.node})
           /\ \/ replica'[s.node] = replica[s.node]
              \/ replica'[s.node] = ReplaceWithFullState(replica[s.node],
                                       s.epoch, s.store, s.records)
              \/ replica'[s.node] = Synchronized(replica[s.node], s.epoch)
    BY <1>5, InstallEffect, SynchronizationEndsEffect
  <2>2. ASSUME NEW r \in Replica, NEW epoch, NEW store, NEW records
        PROVE  /\ ReplaceWithFullState(r, epoch, store, records).role = r.role
               /\ Synchronized(r, epoch).role = r.role
    BY DEF ReplaceWithFullState, Synchronized, Replica
  <2>3. \A a \in Node : replica[a] \in Replica
    BY ReplicaFit
  <2>. QED
    BY <2>1, <2>2, <2>3 DEF Others
<1>6. ASSUME NEW a \in Node, Restart(a) \/ BootRegistered(a)
      PROVE  replica'[n].role = replica[n].role
  BY <1>6, RestartEffect, BootRegisteredEffect DEF Others
<1>7. UNCHANGED storageVars => UNCHANGED replica
  BY DEF storageVars
<1>8. ASSUME \/ \E a \in Node, op \in Op : ResumePendingCommit(a, op) \/ ReplayResponse(a, op)
             \/ \E a \in Node : CommitUnanswered(a)
      PROVE  UNCHANGED replica
  BY <1>8 DEF ResumePendingCommit, ReplayResponse, CommitUnanswered
<1>. QED
  BY <1>1, <1>2, <1>3, <1>4, <1>5, <1>6, <1>7, <1>8, StorageSteps

(* A leader that learns epoch 1 when it registers is not a backup.          *)
LEMMA StartsAsPrimaryKept ==
    ASSUME FInv, FInv', Next, StartsAsPrimary, ~Authority(Leader),
           last_primary_epoch = 1 => replica[Leader].role = "primary"
    PROVE  StartsAsPrimary'
<1>. SUFFICES ASSUME booting'[Leader].phase = "registered",
                     booting'[Leader].epoch = 1
              PROVE  replica'[Leader].role = "primary"
  BY DEF StartsAsPrimary
<1>1. Leader \in Node /\ booting \in [Node -> Starting]
  BY InitialReplicas DEF FInv, StartsFit
<1>2. ~Restart(Leader)
  BY <1>1 DEF Restart, Starting
<1>3. ~BootRegistered(Leader)
  BY <1>1 DEF BootRegistered, Booted
<1>4. replica'[Leader].role = replica[Leader].role
  BY <1>1, <1>2, <1>3, RoleSteps
<1>5. CASE booting'[Leader] = booting[Leader]
  BY <1>4, <1>5 DEF StartsAsPrimary
<1>6. CASE BootRegister(Leader)
  <2>1. booting'[Leader].epoch = last_primary_epoch'
    <3>1. assignment' # NoAssignment => assignment'.epoch = last_primary_epoch'
      BY DEF FInv, CInv, Shape, AssignmentSound
    <3>. QED
      BY <1>1, <1>6, <3>1 DEF BootRegister
  <2>2. last_primary_epoch = 1
    BY <1>1, <1>6, <2>1, RegistrationMoves DEF BootRegister, Registers
  <2>. QED
    BY <1>4, <2>2
<1>7. CASE BootLookup(Leader)
  BY <1>1, <1>7 DEF BootLookup, Booted, Starting
<1>8. CASE \E s \in syncs : s.caller = Boot /\ s.node = Leader /\ SynchronizationEnds(s)
  BY <1>1, <1>8 DEF SynchronizationEnds, Booted, Starting
<1>. QED
  BY <1>1, <1>2, <1>3, <1>5, <1>6, <1>7, <1>8, BootingSteps

(* The follower's promotion has not reached it.                             *)
NotBegun ==
    /\ Heir
    /\ PublishedPrimary \in {NoNode, Leader}
    /\ \A t \in Threads :
         \/ threads[t].phase \in Detached
         \/ threads[t].phase \in {"validate", "begin"} /\ threads[t].primary = Follower

LEMMA FollowedQuiet ==
    ASSUME FInv, LeaderFails, Following, UNCHANGED <<replica, disk, acked>>,
           late' \subseteq late
    PROVE  Followed
<1>. DEFINE S == {}
<1>1. /\ \A m \in S : LateCall(m) /\ m.type \in {"prepare", "commit", "abort"}
      /\ late' \subseteq late \cup S
  OBVIOUS
<1>. HIDE DEF S
<1>. QED
  BY <1>1, FollowedWaiting

LEMMA FollowedSteps ==
    ASSUME Unreliable \subseteq {Leader}, FInv, LeaderFails, Following, NotBegun, Next
    PROVE  \/ Followed /\ syncs' = {}
           \/ \E t \in Threads : BeginPromotion(t)
<1>1. \/ \E n \in Node : ReplicaStep(n)
      \/ \E t \in Threads : RpcStep(t)
      \/ \E s \in syncs : SyncStep(s)
      \/ \E m \in late : LateHandler(m)
      \/ ControllerStep
  BY ThreadsAre DEF Next
<1>2. syncs = {}
  BY DEF Following
<1>3. ASSUME UNCHANGED <<storageVars, late>> PROVE Followed
  BY <1>3, FollowedQuiet DEF storageVars
<1>4. ASSUME NEW n \in Node, ReplicaStep(n)
      PROVE  Followed /\ syncs' = {}
  <2>1. ASSUME NEW op \in Op, PrepareAndDecide(n, op)
        PROVE  Followed /\ syncs' = {}
    BY <1>2, <2>1, FollowedDecision DEF PrepareAndDecide, syncVars
  <2>2. ASSUME NEW op \in Op, PrepareRefused(n, op) \/ PrepareUnanswered(n, op)
        PROVE  Followed /\ syncs' = {}
    BY <1>2, <2>2, FollowedRefusal DEF PrepareRefused, PrepareUnanswered, syncVars
  <2>3. ASSUME NEW op \in Op, ResumePendingCommit(n, op)
        PROVE  Followed /\ syncs' = {}
    BY <1>2, <2>3, FollowedQuiet DEF ResumePendingCommit, syncVars
  <2>4. ASSUME NEW op \in Op, ReplayResponse(n, op)
        PROVE  Followed /\ syncs' = {}
    BY <1>2, <2>4, FollowedReplay DEF ReplayResponse, syncVars
  <2>5. CASE CommitAnswered(n)
    BY <1>2, <2>5, FollowedCommit DEF CommitAnswered, syncVars
  <2>6. CASE CommitUnanswered(n)
    BY <1>2, <2>6, FollowedCommitUnanswered DEF CommitUnanswered, syncVars
  <2>7. CASE Reregister(n) \/ ProbeAnswered(n) \/ ProbeUnanswered(n)
    BY <1>2, <1>3, <2>7 DEF Reregister, ProbeAnswered, ProbeUnanswered, syncVars
  <2>8. CASE Restart(n)
    BY <1>2, <2>8, FollowedRestart DEF Restart
  <2>9. CASE BootRegister(n)
    BY <1>2, <1>3, <2>9 DEF BootRegister
  <2>10. CASE BootRegistered(n)
    BY <1>2, <2>10, FollowedBootRegistered DEF BootRegistered, NotBegun
  <2>11. CASE BootLookup(n)
    <3>1. n = Leader
      BY <2>11 DEF BootLookup, LeaderFails, Started
    <3>2. UNCHANGED syncs
      BY <2>11, <3>1 DEF BootLookup, NotBegun
    <3>. QED
      BY <1>2, <1>3, <2>11, <3>2 DEF BootLookup
  <2>. QED
    BY <1>4, <2>1, <2>2, <2>3, <2>4, <2>5, <2>6, <2>7, <2>8, <2>9, <2>10, <2>11
    DEF ReplicaStep
<1>5. ASSUME NEW t \in Threads, RpcStep(t)
      PROVE  BeginPromotion(t)
  <2>1. ~BeginUnanswered(t)
    BY LeaderAndFollower DEF BeginUnanswered, NotBegun, Detached
  <2>2. threads[t].phase \in {"free", "elect", "evict", "validate", "begin"}
    BY DEF NotBegun, Detached
  <2>. QED
    BY <1>5, <2>1, <2>2
    DEF RpcStep, ConfirmPromotion, ConfirmUnanswered, CompletePromotion,
        CompleteUnanswered, StartSynchronization, SynchronizationUnanswered,
        Synchronizing
<1>6. ASSUME NEW m \in late, LateHandler(m)
      PROVE  Followed /\ syncs' = {}
  BY <1>2, <1>6, FollowedLate DEF LateHandler, syncVars
<1>7. CASE ControllerStep
  BY <1>2, <1>3, <1>7 DEF ControllerStep, syncVars
<1>. QED
  BY <1>1, <1>2, <1>4, <1>5, <1>6, <1>7

LEMMA NoLeaderAuthority ==
    ASSUME FInv, LeaderFails, NotBegun
    PROVE  ~Authority(Leader)
  BY InitialReplicas DEF Authority, NotBegun, LeaderFails, LateReplication

(* The leader's snapshot restores a former leader.                          *)
LEMMA DiskFollows ==
    ASSUME FInv, FInv', Next, FormerLeader(replica'[Leader], replica'[Follower]),
           FormerLeader(Loaded(disk[Leader]), replica[Follower]),
           \A op \in Op : Recorded(replica[Follower], op) =>
                            Recorded(replica'[Follower], op)
    PROVE  FormerLeader(Loaded(disk'[Leader]), replica'[Follower])
<1>1. CASE disk'[Leader] = disk[Leader]
  BY <1>1, FormerLeaderGrows
<1>2. CASE disk'[Leader] = Saved(replica'[Leader])
  <2>1. replica'[Leader].ready /\ replica'[Leader].backup # NoNode =>
          replica'[Leader].role = "primary"
    BY InitialReplicas DEF FInv, ReplicasFit, Fit
  <2>. QED
    BY <1>2, <2>1, FormerLeaderSaved
<1>. QED
  BY <1>1, <1>2, DiskSteps, InitialReplicas

LEMMA FollowingKept ==
    ASSUME Unreliable \subseteq {Leader}, FInv, LeaderFails, Following, NotBegun, Next,
           ~\E t \in Threads : BeginPromotion(t),
           EvictsUnreliable', published' = {<<Leader, 1>>}
    PROVE  LeaderFails' /\ Following' /\ Moves(Leader)
<1>1. Followed /\ syncs' = {} /\ FInv'
  BY FollowedSteps, NextInv
<1>2. /\ \A n \in Node \ {Leader} : n \notin Restarting
      /\ \A n \in Node \ {Leader} : Started(n)
  BY FailoverAssumption DEF LeaderFails
<1>3. WaitsAsPrimary' /\ EvictsUnreliable' /\ \A n \in Node \ {Leader} : Started(n)'
  BY <1>2, WaitsAsPrimaryKept, StartedKept DEF LeaderFails
<1>4. FormerLeader(Loaded(disk'[Leader]), replica'[Follower])
  BY <1>1, DiskFollows DEF Followed, LeaderFails
<1>5. StartsAsPrimary'
  <2>1. last_primary_epoch = 1 => replica[Leader].role = "primary"
    <3>1. replica[Leader].role \in {"primary", "backup"}
      BY LeaderAndFollower DEF Replica
    <3>. QED
      BY <3>1, LeaderAndFollower DEF Following, Backed
  <2>. QED
    BY <1>1, <2>1, NoLeaderAuthority, StartsAsPrimaryKept DEF Following
<1>6. LateReplication'
  BY <1>1 DEF Followed, LateReplication
<1>7. LeaderFails'
  BY <1>1, <1>3, <1>4, <1>6 DEF LeaderFails, Followed
<1>. QED
  BY <1>1, <1>5, <1>7 DEF Following, Followed
-----------------------------------------------------------------------------
(* Before the leader is given up, the controller knows the ready cluster or *)
(* nothing; then it elects the follower.                                    *)

Before ==
    /\ last_primary_epoch = 1
    /\ assignment \in {NoAssignment, Assign(Leader, 1, "ready", Follower)}
    /\ assignment = NoAssignment => Leader \notin Members
    /\ Follower \in Members /\ nodes[Follower].synchronized_epoch = 1
    /\ \A t \in Threads :
         /\ threads[t].phase \in Detached
         /\ t # Monitor => threads[t].phase = "free"
         /\ threads[t].phase = "elect" => threads[t].eligible = {Follower}

Electing ==
    /\ last_primary_epoch = 2
    /\ assignment # NoAssignment /\ assignment.primary = Follower
    /\ assignment.status = "promoting" /\ assignment.backup = NoNode
    /\ \A t \in Threads :
         \/ threads[t].phase \in {"free", "evict"}
         \/ threads[t].phase \in {"validate", "begin"} /\ threads[t].primary = Follower
            /\ threads[t].epoch = 2

(* A registration that disturbs nothing.                                    *)
LEMMA SettledRegistration ==
    ASSUME FInv, NEW a \in Node, NEW r, RegisterNode(a, r),
           r.epoch \in Nat, r.epoch <= last_primary_epoch,
           NEW members,
           members = [nodes EXCEPT ![a] =
                        [synchronized_epoch |->
                           IF ReportsSynchronized(a, r) THEN r.epoch ELSE 0,
                         failures |-> 0]],
           NEW current,
           current = IF assignment = NoAssignment
                     THEN RecoveredAssignment(a, r, members, last_primary_epoch)
                     ELSE assignment,
           current # NoAssignment =>
             \/ current.status = "promoting"
             \/ /\ current.status = "ready" /\ current.backup # NoNode
                /\ a = current.backup => ReadyBackupReport(r, current.epoch)
    PROVE  nodes' = members /\ assignment' = current /\ UNCHANGED threads
<1>. DEFINE known == IF r.epoch > last_primary_epoch THEN r.epoch
                     ELSE last_primary_epoch
            invalidated == /\ assignment # NoAssignment
                           /\ r.epoch > assignment.epoch
            missing == assignment = NoAssignment \/ invalidated
            present == IF missing THEN RecoveredAssignment(a, r, members, known)
                       ELSE assignment
            assigned == present # NoAssignment
            lost == /\ assigned /\ present.status = "ready" /\ a = present.backup
                    /\ ~ReadyBackupReport(r, present.epoch)
            waiting == /\ assigned /\ present.status = "reprotecting"
                       /\ present.candidate = NoNode /\ a # present.primary
            bare == /\ assigned /\ present.status = "ready"
                    /\ present.backup = NoNode /\ a # present.primary
            restored == /\ missing /\ assigned /\ known > 0
                        /\ present.status = "reprotecting"
<1>1. /\ nodes' = members
      /\ assignment' = IF lost \/ bare THEN Unprotected(present)
                       ELSE IF waiting
                       THEN [present EXCEPT !.attempted = @ \ {a}]
                       ELSE present
      /\ IF lost \/ waiting \/ bare \/ restored
         THEN Spawn(Working("replace", present.primary, present.epoch))
         ELSE UNCHANGED threads
  BY DEF RegisterNode
<1>2. last_primary_epoch \in Nat
  BY ControllerAssumption DEF FInv, CInv, Shape, AssignmentSound
<1>3. known = last_primary_epoch
  BY <1>2
<1>4. ~invalidated
  BY <1>2 DEF FInv, CInv, Shape, AssignmentSound
<1>5. present = current
  BY <1>3, <1>4
<1>. HIDE DEF present
<1>6. ~lost /\ ~bare /\ ~waiting /\ ~restored
  BY <1>5
<1>. QED
  BY <1>1, <1>5, <1>6

(* What a replica reports then.                                             *)
LEMMA ReportsBefore ==
    ASSUME FInv, LeaderFails, Following, last_primary_epoch = 1, NEW n \in Node
    PROVE  LET r == Reported(replica[n])
           IN /\ r.epoch = 1
              /\ n = Leader => r.role = "primary" /\ r.ready /\ r.backup = Follower
              /\ n # Leader => r.role = "backup"
              /\ n = Follower => r.ready
<1>1. /\ replica[n] \in Replica /\ Fit(n, replica[n])
      /\ Leader \in Node /\ Follower \in Node /\ Leader # Follower
  BY ReplicaFit, InitialReplicas
<1>2. replica[Leader].role = "primary" /\ replica[Leader].epoch = 1
      /\ replica[Leader].ready /\ replica[Leader].backup = Follower
  <2>1. replica[Leader].role \in {"primary", "backup"}
    BY LeaderAndFollower DEF Replica
  <2>. QED
    BY <2>1, LeaderAndFollower DEF Following, Backed, LeaderFails, FormerLeader
<1>3. n # Leader => replica[n].role = "backup" /\ replica[n].epoch = 1
  <2>1. ASSUME n # Leader, replica[n].role = "primary" PROVE FALSE
    <3>1. Entitled(n, 1) /\ Entitled(Leader, 1)
      BY <1>1, <1>2, <2>1 DEF Entitled, Following
    <3>. QED
      BY <1>1, <2>1, <3>1 DEF FInv, OneEntitled
  <2>. QED
    BY <1>1, <2>1 DEF Replica, Following
<1>4. n = Leader => replica[n].reported
  BY <1>1, <1>2 DEF Fit
<1>5. replica[Follower].reported
  BY DEF Following, Backed
<1>. QED
  BY <1>2, <1>3, <1>4, <1>5 DEF Reported

LEMMA BeforeRegisters ==
    ASSUME FInv, LeaderFails, Following, Before, NEW a \in Node,
           RegisterNode(a, Reported(replica[a]))
    PROVE  Before'
<1>. DEFINE r == Reported(replica[a])
            record == [synchronized_epoch |->
                         IF ReportsSynchronized(a, r) THEN r.epoch ELSE 0,
                       failures |-> 0]
            members == [nodes EXCEPT ![a] = record]
            ready == Assign(Leader, 1, "ready", Follower)
            current == IF assignment = NoAssignment
                       THEN RecoveredAssignment(a, r, members, last_primary_epoch)
                       ELSE assignment
<1>1. /\ r.epoch = 1 /\ last_primary_epoch = 1
      /\ a = Leader => r.role = "primary" /\ r.ready /\ r.backup = Follower
      /\ a # Leader => r.role = "backup"
      /\ a = Follower => r.ready
  BY ReportsBefore DEF Before
<1>2. /\ Leader \in Node /\ Follower \in Node /\ Leader # Follower
      /\ NoNode \notin Node
  BY InitialReplicas, ControllerAssumption
<1>3. /\ ready.status = "ready" /\ ready.backup = Follower /\ ready.epoch = 1
      /\ ready.primary = Leader /\ ready \in PrimaryAssignment
      /\ ready # NoAssignment
  <2>1. 1 \in 1..MaxEpoch /\ "ready" \in Status /\ Follower \in Address
        /\ {} \in SUBSET Node
    BY <1>2, ControllerAssumption DEF Status, Address
  <2>2. ready \in PrimaryAssignment
    BY <1>2, <2>1, AssignTyped
  <2>. QED
    BY <2>2, SentinelAssumption DEF Assign
<1>. HIDE DEF r
<1>4. a = Follower => ReportsSynchronized(Follower, r) /\ record.synchronized_epoch = 1
  <2>1. assignment = NoAssignment \/ assignment.backup = Follower
    BY <1>3 DEF Before
  <2>2. a = Follower => ReportsSynchronized(Follower, r)
    BY <1>1, <1>2, <2>1 DEF ReportsSynchronized
  <2>. QED
    BY <1>1, <2>2
<1>5. nodes \in [Node -> ReplicaRecord \cup {NotRegistered}]
  BY DEF FInv, CInv, Shape, NodesSound
<1>6. record \in ReplicaRecord
  BY <1>1, <1>4, ControllerAssumption DEF ReplicaRecord
<1>. HIDE DEF record
<1>7. /\ members[Follower] # NotRegistered
      /\ members[Follower].synchronized_epoch = 1
      /\ members[a] # NotRegistered /\ \A b \in Node \ {a} : members[b] = nodes[b]
  BY <1>2, <1>4, <1>5, <1>6, SentinelAssumption DEF Before, Members
<1>. HIDE DEF members, ready
<1>8. \/ current = ready
      \/ current = NoAssignment /\ a # Leader /\ assignment = NoAssignment
  <2>1. CASE assignment # NoAssignment
    BY <2>1 DEF Before, ready
  <2>2. CASE assignment = NoAssignment /\ a # Leader
    BY <1>1, <2>2 DEF RecoveredAssignment
  <2>3. CASE assignment = NoAssignment /\ a = Leader
    BY <1>1, <1>2, <1>7, <2>3 DEF RecoveredAssignment, ready
  <2>. QED
    BY <2>1, <2>2, <2>3
<1>9. a = Follower => ReadyBackupReport(r, 1)
  BY <1>1, <1>2 DEF ReadyBackupReport
<1>10. current # NoAssignment =>
         \/ current.status = "promoting"
         \/ /\ current.status = "ready" /\ current.backup # NoNode
            /\ a = current.backup => ReadyBackupReport(r, current.epoch)
  BY <1>2, <1>3, <1>8, <1>9
<1>11. r.epoch \in Nat /\ r.epoch <= last_primary_epoch /\ RegisterNode(a, r)
  BY <1>1 DEF r
<1>12. \A x, m :
         /\ x = current
         /\ m = members
         => nodes' = m /\ assignment' = x /\ UNCHANGED threads
  <2>. SUFFICES ASSUME NEW x, NEW m, x = current, m = members
                PROVE  nodes' = m /\ assignment' = x /\ UNCHANGED threads
    OBVIOUS
  <2>1. m = [nodes EXCEPT ![a] =
               [synchronized_epoch |->
                  IF ReportsSynchronized(a, r) THEN r.epoch ELSE 0,
                failures |-> 0]]
    BY DEF members, record
  <2>2. x = IF assignment = NoAssignment
            THEN RecoveredAssignment(a, r, m, last_primary_epoch)
            ELSE assignment
    OBVIOUS
  <2>3. x # NoAssignment =>
          \/ x.status = "promoting"
          \/ /\ x.status = "ready" /\ x.backup # NoNode
             /\ a = x.backup => ReadyBackupReport(r, x.epoch)
    BY <1>10
  <2>. HIDE DEF current
  <2>. QED
    BY <1>11, <2>1, <2>2, <2>3, SettledRegistration
<1>. HIDE DEF current
<1>13. nodes' = members /\ assignment' = current /\ UNCHANGED threads
  BY <1>12
<1>14. last_primary_epoch' = 1
  BY <1>1, RegistrationMoves DEF Registers, r
<1>15. assignment' = NoAssignment => Leader \notin Members'
  BY <1>2, <1>3, <1>7, <1>8, <1>13 DEF Before, Members
<1>16. assignment' \in {NoAssignment, Assign(Leader, 1, "ready", Follower)}
  BY <1>8, <1>13 DEF ready
<1>17. Follower \in Members' /\ nodes'[Follower].synchronized_epoch = 1
  BY <1>2, <1>7, <1>13 DEF Members
<1>. QED
  BY <1>13, <1>14, <1>15, <1>16, <1>17 DEF Before

(* What the controller can do before the follower has begun.                *)
LEMMA EarlySteps ==
    ASSUME FInv, Following, Next,
           \A t \in Threads :
             threads[t].phase \in {"free", "elect", "evict", "validate", "begin"}
    PROVE  \/ UNCHANGED controllerVars
           \/ Registers
           \/ \E n \in Node : HeartbeatAnswered(n, Reported(replica[n]))
           \/ \E n \in Unreliable : HeartbeatFails(n)
           \/ HandleReplicaFailure
           \/ \E t \in Threads : Elect(t) \/ StartPromotion(t)
           \/ \E t \in Threads : BeginPromotion(t) \/ BeginUnanswered(t)
<1>1. \/ \E n \in Node : ReplicaStep(n)
      \/ \E t \in Threads : RpcStep(t)
      \/ \E s \in syncs : SyncStep(s)
      \/ \E m \in late : LateHandler(m)
      \/ ControllerStep
  BY ThreadsAre DEF Next
<1>2. syncs = {}
  BY DEF Following
<1>3. ASSUME NEW n \in Node, ReplicaStep(n)
      PROVE  \/ UNCHANGED controllerVars \/ Registers
             \/ HeartbeatAnswered(n, Reported(replica[n]))
             \/ n \in Unreliable /\ HeartbeatFails(n)
  <2>1. CASE Reregister(n) \/ BootRegister(n)
    BY <2>1 DEF Reregister, BootRegister, Registers
  <2>2. CASE ProbeAnswered(n)
    BY <2>2 DEF ProbeAnswered
  <2>3. CASE ProbeUnanswered(n)
    BY <2>3 DEF ProbeUnanswered
  <2>4. CASE ~(Reregister(n) \/ BootRegister(n) \/ ProbeAnswered(n) \/ ProbeUnanswered(n))
    BY <1>3, <2>4
    DEF ReplicaStep, PrepareAndDecide, PrepareRefused, PrepareUnanswered,
        ResumePendingCommit, ReplayResponse, CommitAnswered, CommitUnanswered,
        Restart, BootRegistered, BootLookup
  <2>. QED
    BY <2>1, <2>2, <2>3, <2>4
<1>4. ASSUME NEW t \in Threads, RpcStep(t)
      PROVE  BeginPromotion(t) \/ BeginUnanswered(t)
  BY <1>4
  DEF RpcStep, ConfirmPromotion, ConfirmUnanswered, CompletePromotion,
      CompleteUnanswered, StartSynchronization, SynchronizationUnanswered,
      Synchronizing
<1>5. ASSUME NEW m \in late, LateHandler(m)
      PROVE  UNCHANGED controllerVars
  BY <1>5 DEF LateHandler
<1>6. CASE ControllerStep
  BY <1>6, ThreadsAre
  DEF ControllerStep, TryNextPromotionBackup, SelectedBackupEvicted,
      NoPromotionBackup, TryNextReplacementBackup
<1>. QED
  BY <1>1, <1>2, <1>3, <1>4, <1>5, <1>6

(* A probe changes failures, unless it tells that the backup is lost, and   *)
(* starts an eviction of an unreliable replica at most.                     *)
LEMMA ProbesKeep ==
    ASSUME FInv, EvictsUnreliable, NEW n \in Node,
           \/ /\ HeartbeatAnswered(n, Reported(replica[n]))
              /\ Assigned("ready") /\ n = assignment.backup =>
                   ReadyBackupReport(Reported(replica[n]), assignment.epoch)
           \/ n \in Unreliable /\ HeartbeatFails(n)
    PROVE  /\ UNCHANGED <<assignment, last_primary_epoch, election_in_progress>>
           /\ Members' = Members
           /\ \A a \in Members : nodes'[a].synchronized_epoch = nodes[a].synchronized_epoch
           /\ \A t \in Threads : \/ threads'[t] = threads[t]
                                 \/ t = Monitor /\ threads'[t].phase = "evict"
           /\ EvictsUnreliable'
<1>1. /\ NodesSound /\ ThreadsSound /\ Monitor \in Threads
      /\ threads[Monitor].phase = "free" /\ n \in Members
  BY MonitorThread DEF FInv, CInv, Shape, HeartbeatAnswered, HeartbeatFails
<1>2. UNCHANGED <<assignment, last_primary_epoch, election_in_progress>>
  BY DEF HeartbeatAnswered, HeartbeatFails, Assigned
<1>3. \E failures \in 0..Eviction : nodes' = [nodes EXCEPT ![n].failures = failures]
  <2>1. CASE HeartbeatAnswered(n, Reported(replica[n]))
    <3>1. nodes' = [nodes EXCEPT ![n].failures = 0]
      BY <2>1 DEF HeartbeatAnswered
    <3>2. 0 \in 0..Eviction
      BY ControllerAssumption
    <3>. QED
      BY <3>1, <3>2
  <2>2. CASE HeartbeatFails(n)
    <3>1. nodes[n].failures \in 0..Eviction
      BY <1>1, SentinelAssumption DEF NodesSound, Members, ReplicaRecord
    <3>2. nodes[n].failures < Eviction
      BY <1>1 DEF NodesSound
    <3>3. nodes[n].failures + 1 \in 0..Eviction
      BY <3>1, <3>2, ControllerAssumption
    <3>. QED
      BY <2>2, <3>3 DEF HeartbeatFails
  <2>. QED
    BY <2>1, <2>2
<1>4. Members' = Members
      /\ \A a \in Members : nodes'[a].synchronized_epoch = nodes[a].synchronized_epoch
  BY <1>1, <1>3, Probed
<1>5. \/ UNCHANGED threads
      \/ n \in Unreliable /\ Continue(Monitor, [Free EXCEPT !.phase = "evict", !.backup = n])
  BY DEF HeartbeatAnswered, HeartbeatFails, Assigned
<1>6. CASE UNCHANGED threads
  BY <1>2, <1>4, <1>6 DEF EvictsUnreliable
<1>7. CASE n \in Unreliable /\ Continue(Monitor, [Free EXCEPT !.phase = "evict", !.backup = n])
  <2>1. PICK w : w = [Free EXCEPT !.phase = "evict", !.backup = n]
    OBVIOUS
  <2>2. SoundThread(w) /\ w.phase = "evict" /\ w.backup = n
    BY <2>1, EvictSound
  <2>3. Continue(Monitor, w)
    BY <1>7, <2>1
  <2>4. threads'[Monitor] = w /\ \A u \in Threads \ {Monitor} : threads'[u] = threads[u]
    BY <1>1, <2>2, <2>3, Continues
  <2>. QED
    BY <1>2, <1>4, <1>7, <2>2, <2>4 DEF EvictsUnreliable
<1>. QED
  BY <1>5, <1>6, <1>7

LEMMA BeforeProbed ==
    ASSUME Unreliable \subseteq {Leader}, FInv, LeaderFails, Following, Before,
           \/ \E n \in Node : HeartbeatAnswered(n, Reported(replica[n]))
           \/ \E n \in Unreliable : HeartbeatFails(n)
    PROVE  Before' /\ EvictsUnreliable'
<1>1. PICK n \in Node : \/ HeartbeatAnswered(n, Reported(replica[n]))
                        \/ n \in Unreliable /\ HeartbeatFails(n)
  BY FailoverAssumption
<1>2. Assigned("ready") /\ n = assignment.backup =>
        ReadyBackupReport(Reported(replica[n]), assignment.epoch)
  <2>1. Assigned("ready") => assignment.backup = Follower /\ assignment.epoch = 1
    BY DEF Assigned, Before, Assign
  <2>. QED
    BY <2>1, ReportsBefore, LeaderAndFollower DEF ReadyBackupReport, Before
<1>3. /\ UNCHANGED <<assignment, last_primary_epoch>>
      /\ Members' = Members
      /\ \A a \in Members : nodes'[a].synchronized_epoch = nodes[a].synchronized_epoch
      /\ \A t \in Threads : \/ threads'[t] = threads[t]
                            \/ t = Monitor /\ threads'[t].phase = "evict"
      /\ EvictsUnreliable'
  <2>1. EvictsUnreliable
    BY DEF LeaderFails
  <2>. QED
    BY <1>1, <1>2, <2>1, ProbesKeep
<1>. QED
  BY <1>3 DEF Before, Detached

(* The leader is given up.                                                  *)
LEMMA BeforeEvicts ==
    ASSUME Unreliable \subseteq {Leader}, FInv, LeaderFails, Before,
           HandleReplicaFailure
    PROVE  Before' /\ EvictsUnreliable'
<1>. DEFINE a == threads[Monitor].backup
<1>1. /\ Leader \in Node /\ Follower \in Node /\ Leader # Follower
      /\ Monitor \in Threads /\ ThreadsSound /\ threads[Monitor].phase = "evict"
  BY LeaderAndFollower, MonitorThread DEF FInv, CInv, Shape, HandleReplicaFailure
<1>2. a = Leader
  BY <1>1 DEF LeaderFails, EvictsUnreliable
<1>3. last_primary_epoch' = 1
  BY DEF HandleReplicaFailure, Before
<1>4. CASE Leader \notin Members
  <2>1. Continue(Monitor, Free) /\ UNCHANGED <<nodes, assignment>>
    BY <1>2, <1>4 DEF HandleReplicaFailure
  <2>2. threads'[Monitor] = Free /\ \A u \in Threads \ {Monitor} : threads'[u] = threads[u]
    BY <1>1, <2>1, FreeSound, Continues
  <2>3. Free.phase = "free"
    BY DEF Free
  <2>. QED
    BY <1>3, <2>1, <2>2, <2>3 DEF Before, EvictsUnreliable, Members, Detached
<1>5. CASE Leader \in Members
  <2>1. assignment # NoAssignment /\ assignment = Assign(Leader, 1, "ready", Follower)
    BY <1>5 DEF Before
  <2>2. assignment.primary = Leader /\ assignment.backup = Follower
    BY <2>1 DEF Assign
  <2>3. nodes' = [nodes EXCEPT ![Leader] = NotRegistered] /\ EvictPrimary(Leader)
    BY <1>1, <1>2, <1>5, <2>1, <2>2
    DEF HandleReplicaFailure, EvictUnassigned, EvictBackup, EvictOther
  <2>4. nodes \in [Node -> ReplicaRecord \cup {NotRegistered}]
    BY DEF FInv, CInv, Shape, NodesSound
  <2>5. /\ nodes'[Follower] = nodes[Follower] /\ nodes'[Leader] = NotRegistered
    BY <1>1, <2>3, <2>4
  <2>6. Follower \in Members' /\ Leader \notin Members'
        /\ nodes'[Follower].synchronized_epoch = 1 /\ Follower \in Members' \ {Leader}
    BY <1>1, <2>5 DEF Members, Before
  <2>7. PICK w : w = [Free EXCEPT !.phase = "elect", !.eligible = {Follower}]
    OBVIOUS
  <2>8. assignment' = NoAssignment /\ Continue(Monitor, w)
    <3>1. Follower \in Members \ {Leader}
      BY <1>1 DEF Before
    <3>. QED
      BY <2>2, <2>3, <2>7, <3>1 DEF EvictPrimary
  <2>9. SoundThread(w) /\ w.phase = "elect" /\ w.eligible = {Follower}
    <3>1. {Follower} \in (SUBSET Node) \cup {AnyEligible}
      BY <1>1
    <3>2. [Free EXCEPT !.phase = "elect", !.eligible = {Follower}].eligible = {Follower}
      BY DEF Free
    <3>. QED
      BY <2>7, <3>1, <3>2, ElectSound
  <2>10. threads'[Monitor] = w /\ \A u \in Threads \ {Monitor} : threads'[u] = threads[u]
    BY <1>1, <2>8, <2>9, Continues
  <2>11. EvictsUnreliable'
    BY <2>9, <2>10 DEF EvictsUnreliable
  <2>12. \A t \in Threads :
           /\ threads'[t].phase \in Detached
           /\ t # Monitor => threads'[t].phase = "free"
           /\ threads'[t].phase = "elect" => threads'[t].eligible = {Follower}
    BY <2>9, <2>10 DEF Before, Detached
  <2>. QED
    BY <1>3, <2>6, <2>8, <2>11, <2>12 DEF Before
<1>. QED
  BY <1>4, <1>5

(* The follower is elected.                                                 *)
LEMMA FollowerSelected ==
    ASSUME FInv, Before, assignment = NoAssignment
    PROVE  SelectPrimaryCandidate({Follower}) = Follower
<1>. DEFINE S == IF {Follower} = AnyEligible
                 THEN {a \in Members : /\ nodes[a].synchronized_epoch > 0
                                       /\ nodes[a].synchronized_epoch
                                            = last_primary_epoch}
                 ELSE {Follower} \cap Members
<1>1. /\ Leader \in Node /\ Follower \in Node /\ Follower \in Node \ {Leader}
  BY LeaderAndFollower
<1>2. Follower \in S /\ S \in SUBSET (Node \ {Leader})
  BY <1>1 DEF Before, Members
<1>3. SelectPrimaryCandidate({Follower}) = IF S = {} THEN NoNode ELSE First(S)
  BY DEF SelectPrimaryCandidate
<1>. HIDE DEF S
<1>4. First(S) \in S /\ First(S) <= Follower
  BY <1>2, FirstIsLeast
<1>5. Node \ {Leader} \in SUBSET Node /\ Node \ {Leader} # {}
  BY <1>1
<1>6. \A b \in Node \ {Leader} : Follower <= b
  BY <1>5, FirstIsLeast DEF Follower
<1>7. First(S) \in Nat /\ Follower \in Nat
  BY <1>1, <1>2, <1>4, ControllerAssumption
<1>8. First(S) = Follower
  BY <1>2, <1>4, <1>6, <1>7
<1>. QED
  BY <1>2, <1>3, <1>8

LEMMA BeforeElects ==
    ASSUME FInv, LeaderFails, Before, NEW t \in Threads, Elect(t)
    PROVE  (Before' \/ Electing') /\ EvictsUnreliable'
<1>1. /\ Leader \in Node /\ Follower \in Node /\ Leader # Follower
      /\ ThreadsSound /\ Free.phase = "free"
  BY LeaderAndFollower DEF FInv, CInv, Shape, Free
<1>2. /\ t = Monitor /\ threads[t].eligible = {Follower}
      /\ last_primary_epoch = 1
  BY DEF Elect, Before
<1>3. CASE Continue(t, Free) /\ UNCHANGED <<nodes, assignment, last_primary_epoch>>
  <2>1. threads'[t] = Free /\ \A u \in Threads \ {t} : threads'[u] = threads[u]
    BY <1>1, <1>3, FreeSound, Continues
  <2>. QED
    BY <1>1, <1>2, <1>3, <2>1 DEF Before, EvictsUnreliable, Members, Detached
<1>4. CASE ~(Continue(t, Free) /\ UNCHANGED <<nodes, assignment, last_primary_epoch>>)
  <2>1. assignment = NoAssignment
    BY <1>4 DEF Elect
  <2>2. SelectPrimaryCandidate(threads[t].eligible) = Follower
    BY <1>2, <2>1, FollowerSelected
  <2>3. /\ last_primary_epoch < MaxEpoch
        /\ last_primary_epoch' = NextEpoch
        /\ assignment' = [Assign(Follower, NextEpoch, "promoting", NoNode)
                            EXCEPT !.eligible = Members]
        /\ ContinueAndSpawn(t, Free, Working("validate", Follower, NextEpoch))
    BY <1>4, <2>2 DEF Elect
  <2>4. NextEpoch = 2 /\ 2 \in 1..MaxEpoch
    BY <1>2, <2>3, ControllerAssumption DEF NextEpoch
  <2>5. /\ assignment' # NoAssignment /\ assignment'.primary = Follower
        /\ assignment'.status = "promoting" /\ assignment'.backup = NoNode
    <3>1. "promoting" \in Status /\ NoNode \in Address /\ Members \in SUBSET Node
      BY DEF Status, Address, Members
    <3>2. /\ assignment' \in PrimaryAssignment
          /\ assignment' =
                [primary |-> Follower, epoch |-> 2, status |-> "promoting",
                 backup |-> NoNode, candidate |-> NoNode, generation |-> 0,
                 eligible |-> Members, attempted |-> {}]
      BY <1>1, <2>3, <2>4, <3>1, AssignTyped
    <3>. QED
      BY <3>2, SentinelAssumption
  <2>6. PICK w : w = Working("validate", Follower, NextEpoch)
    OBVIOUS
  <2>7. SoundThread(w) /\ w.phase = "validate" /\ w.primary = Follower /\ w.epoch = 2
    <3>1. "validate" \in Phase \ (Detached \cup Attending)
      BY DEF Phase, Detached, Attending
    <3>. QED
      BY <1>1, <2>4, <2>6, <3>1, WorkingSound
  <2>8. /\ threads'[t] = Free
        /\ \E u \in Worker \ {t} :
             /\ threads'[u] = w /\ \A v \in Threads \ {t, u} : threads'[v] = threads[v]
    BY <1>1, <2>3, <2>6, <2>7, FreeSound, ContinuesAndSpawns
  <2>9. \A v \in Threads : \/ threads'[v] = Free \/ threads'[v] = w
                           \/ v # Monitor /\ threads'[v] = threads[v]
    BY <1>2, <2>8
  <2>10. EvictsUnreliable'
    BY <1>1, <1>2, <2>8 DEF EvictsUnreliable
  <2>11. \A v \in Threads :
           \/ threads'[v].phase \in {"free", "evict"}
           \/ threads'[v].phase \in {"validate", "begin"} /\ threads'[v].primary = Follower
              /\ threads'[v].epoch = 2
    BY <1>1, <2>7, <2>9 DEF Before
  <2>12. Electing'
    BY <2>3, <2>4, <2>5, <2>11 DEF Electing
  <2>. QED
    BY <2>10, <2>12
<1>. QED
  BY <1>3, <1>4

LEMMA BeforeIsNotBegun ==
    ASSUME FInv, Before \/ Electing
    PROVE  NotBegun
<1>1. CASE Before
  <2>1. PublishedPrimary \in {NoNode, Leader}
    BY <1>1 DEF PublishedPrimary, Before, Assign
  <2>. QED
    BY <1>1, <2>1 DEF NotBegun, Heir, Before
<1>2. CASE Electing
  <2>1. assignment.epoch = 2
    BY <1>2 DEF Electing, FInv, CInv, Shape, AssignmentSound
  <2>2. Heir
    BY <1>2, <2>1 DEF Heir, Served, Electing
  <2>3. PublishedPrimary = NoNode
    BY <1>2 DEF PublishedPrimary, Electing
  <2>. QED
    BY <1>2, <2>2, <2>3 DEF NotBegun, Electing, Detached
<1>. QED
  BY <1>1, <1>2

LEMMA BeforeKept ==
    ASSUME Unreliable \subseteq {Leader}, FInv, LeaderFails, Following, Before, Next
    PROVE  (Before' \/ Electing') /\ EvictsUnreliable'
<1>1. /\ EvictsUnreliable
      /\ \A t \in Threads : threads[t].phase \in {"free", "elect", "evict"}
  BY DEF LeaderFails, Before, Detached
<1>2. CASE UNCHANGED controllerVars
  BY <1>1, <1>2 DEF Before, controllerVars, EvictsUnreliable, Members
<1>3. CASE Registers
  <2>1. PICK a \in Node : RegisterNode(a, Reported(replica[a]))
    BY <1>3 DEF Registers
  <2>2. Before'
    BY <2>1, BeforeRegisters
  <2>3. EvictsUnreliable'
    BY <1>1, <1>3, RegistrationMoves, EvictsUnreliableKept
  <2>. QED
    BY <2>2, <2>3
<1>4. ~\E t \in Threads : StartPromotion(t) \/ BeginPromotion(t) \/ BeginUnanswered(t)
  BY <1>1 DEF StartPromotion, BeginPromotion, BeginUnanswered
<1>. QED
  BY <1>1, <1>2, <1>3, <1>4, EarlySteps, BeforeProbed, BeforeEvicts, BeforeElects

LEMMA ElectingRegisters ==
    ASSUME FInv, Electing, NEW a \in Node, RegisterNode(a, Reported(replica[a]))
    PROVE  UNCHANGED <<assignment, threads>>
<1>. DEFINE r == Reported(replica[a])
<1>1. RegisterNode(a, r) /\ r.epoch \in Nat /\ r.epoch <= last_primary_epoch
  BY ReplicaFit, ReportRead DEF Fit
<1>. HIDE DEF r
<1>2. PICK m : m = [nodes EXCEPT ![a] =
                      [synchronized_epoch |->
                         IF ReportsSynchronized(a, r) THEN r.epoch ELSE 0,
                       failures |-> 0]]
  OBVIOUS
<1>3. PICK x : x = assignment
  OBVIOUS
<1>4. x = IF assignment = NoAssignment
          THEN RecoveredAssignment(a, r, m, last_primary_epoch)
          ELSE assignment
  BY <1>3 DEF Electing
<1>5. x # NoAssignment =>
        \/ x.status = "promoting"
        \/ /\ x.status = "ready" /\ x.backup # NoNode
           /\ a = x.backup => ReadyBackupReport(r, x.epoch)
  BY <1>3 DEF Electing
<1>6. assignment' = x /\ UNCHANGED threads
  BY <1>1, <1>2, <1>4, <1>5, SettledRegistration
<1>. QED
  BY <1>3, <1>6

LEMMA ElectingKept ==
    ASSUME Unreliable \subseteq {Leader}, FInv, LeaderFails, Following, Electing, Next,
           ~\E t \in Threads : BeginPromotion(t)
    PROVE  Electing' /\ EvictsUnreliable'
<1>1. /\ EvictsUnreliable /\ ThreadsSound /\ Monitor \in Threads
      /\ \A t \in Threads : threads[t].phase \in {"free", "elect", "evict", "validate", "begin"}
      /\ Leader # Follower /\ Leader \in Node /\ NoNode \notin Node
      /\ Free.phase = "free"
  BY LeaderAndFollower, MonitorThread, ControllerAssumption
  DEF LeaderFails, Electing, FInv, CInv, Shape, Free
<1>2. CASE UNCHANGED controllerVars
  BY <1>1, <1>2 DEF Electing, controllerVars, EvictsUnreliable
<1>3. CASE Registers
  <2>1. UNCHANGED <<assignment, threads>>
    BY <1>3, ElectingRegisters DEF Registers
  <2>2. UNCHANGED last_primary_epoch
    BY <1>3, RegistrationMoves
  <2>. QED
    BY <1>1, <2>1, <2>2 DEF Electing, EvictsUnreliable
<1>4. ASSUME NEW n \in Node,
             \/ HeartbeatAnswered(n, Reported(replica[n]))
             \/ n \in Unreliable /\ HeartbeatFails(n)
      PROVE  Electing' /\ EvictsUnreliable'
  <2>1. ~Assigned("ready")
    BY DEF Assigned, Electing
  <2>2. /\ UNCHANGED <<assignment, last_primary_epoch>>
        /\ \A t \in Threads : \/ threads'[t] = threads[t]
                              \/ t = Monitor /\ threads'[t].phase = "evict"
        /\ EvictsUnreliable'
    BY <1>1, <1>4, <2>1, ProbesKeep
  <2>. QED
    BY <2>2 DEF Electing
<1>5. CASE HandleReplicaFailure
  <2>1. threads[Monitor].backup = Leader
    BY <1>1, <1>5 DEF EvictsUnreliable, HandleReplicaFailure
  <2>2. /\ Continue(Monitor, Free) /\ UNCHANGED <<assignment, last_primary_epoch>>
    BY <1>1, <1>5, <2>1
    DEF HandleReplicaFailure, EvictUnassigned, EvictPrimary, EvictBackup,
        EvictOther, Electing
  <2>3. threads'[Monitor] = Free /\ \A u \in Threads \ {Monitor} : threads'[u] = threads[u]
    BY <1>1, <2>2, FreeSound, Continues
  <2>. QED
    BY <1>1, <2>2, <2>3 DEF Electing, EvictsUnreliable
<1>6. ASSUME NEW t \in Threads, StartPromotion(t)
      PROVE  Electing' /\ EvictsUnreliable'
  <2>1. PICK w : w = IF PromotionContextValid(t)
                     THEN [threads[t] EXCEPT !.phase = "begin"] ELSE Free
    OBVIOUS
  <2>2. Continue(t, w) /\ UNCHANGED <<assignment, last_primary_epoch>>
        /\ threads[t].phase = "validate"
    BY <1>6, <2>1 DEF StartPromotion, Advance
  <2>3. threads[t] \in Thread /\ SoundThread(threads[t])
    BY <1>1 DEF ThreadsSound
  <2>4. /\ SoundThread(w)
        /\ \/ w = Free
           \/ w.phase = "begin" /\ w.primary = threads[t].primary /\ w.epoch = threads[t].epoch
    <3>1. "begin" \in Phase \ Detached /\ "begin" \notin Attending
          /\ threads[t].phase \notin Detached
      BY <2>2 DEF Phase, Detached, Attending
    <3>2. SoundThread([threads[t] EXCEPT !.phase = "begin"])
      BY <2>3, <3>1, AdvanceSound
    <3>. QED
      BY <2>1, <2>3, <3>2, FreeSound DEF Thread
  <2>5. threads'[t] = w /\ \A u \in Threads \ {t} : threads'[u] = threads[u]
    BY <1>1, <2>2, <2>4, Continues
  <2>6. EvictsUnreliable'
    BY <1>1, <2>4, <2>5 DEF EvictsUnreliable
  <2>7. \A v \in Threads :
           \/ threads'[v].phase \in {"free", "evict"}
           \/ threads'[v].phase \in {"validate", "begin"} /\ threads'[v].primary = Follower
              /\ threads'[v].epoch = 2
    BY <1>1, <2>2, <2>4, <2>5 DEF Electing
  <2>. QED
    BY <2>2, <2>6, <2>7 DEF Electing
<1>7. ~\E t \in Threads : Elect(t) \/ BeginUnanswered(t)
  <2>1. Follower \notin Unreliable
    BY <1>1
  <2>. QED
    BY <2>1 DEF Elect, BeginUnanswered, Electing
<1>. QED
  BY <1>1, <1>2, <1>3, <1>4, <1>5, <1>6, <1>7, EarlySteps, FailoverAssumption

(* While the follower is behind its leader.                                 *)
Behind == LeaderFails /\ Following /\ (Before \/ Electing)

LEMMA BehindKept ==
    ASSUME Unreliable \subseteq {Leader}, FInv, Behind, Next,
           ~\E t \in Threads : BeginPromotion(t)
    PROVE  Behind' /\ Moves(Leader)
<1>1. (Before' \/ Electing') /\ EvictsUnreliable'
  BY BeforeKept, ElectingKept DEF Behind
<1>2. published' = {<<Leader, 1>>}
  <2>1. Assigned("ready")' => assignment'.primary = Leader /\ assignment'.epoch = 1
    BY <1>1 DEF Assigned, Before, Electing, Assign
  <2>. QED
    BY <2>1 DEF Next, Behind, Following
<1>. QED
  BY <1>1, <1>2, BeforeIsNotBegun, FollowingKept DEF Behind
-----------------------------------------------------------------------------
(* Who counts as synchronized *)

(* A synchronization is told of its completion when its cluster is ready.   *)
LEMMA ToldSteps ==
    ASSUME FInv, Next, NEW u \in syncs', u.phase = "told",
           \A s \in syncs : s.phase # "told"
    PROVE  Assigned("ready")'
<1>1. u \notin syncs
  OBVIOUS
<1>2. \A n, p, e, c : Fetched(n, p, e, c).phase = "install"
  BY DEF Fetched
<1>3. \A s \in syncs : s \in Synchronization
  BY SyncsFit
<1>4. ASSUME NEW n \in Node, ReplicaStep(n)
      PROVE  FALSE
  <2>1. CASE Restart(n)
    <3>1. PICK s \in syncs :
            u = IF s.node = n THEN [s EXCEPT !.phase = "failed"] ELSE s
      BY <2>1 DEF Restart
    <3>. QED
      BY <1>1, <1>3, <3>1 DEF Synchronization
  <2>2. CASE BootLookup(n)
    BY <1>1, <1>2, <2>2 DEF BootLookup
  <2>3. CASE ~Restart(n) /\ ~BootLookup(n)
    BY <1>1, <1>4, <2>3
    DEF ReplicaStep, PrepareAndDecide, PrepareRefused, PrepareUnanswered,
        ResumePendingCommit, ReplayResponse, CommitAnswered, CommitUnanswered,
        Reregister, ProbeAnswered, ProbeUnanswered, BootRegister,
        BootRegistered, syncVars
  <2>. QED
    BY <2>1, <2>2, <2>3
<1>5. ASSUME NEW t \in Threads, RpcStep(t)
      PROVE  Assigned("ready")'
  <2>1. ~(BeginPromotion(t) \/ BeginUnanswered(t) \/ ConfirmPromotion(t)
          \/ ConfirmUnanswered(t))
    BY <1>1
    DEF BeginPromotion, BeginUnanswered, ConfirmPromotion, ConfirmUnanswered,
        syncVars
  <2>2. ~SynchronizationUnanswered(t)
    <3>1. SynchronizationUnanswered(t) =>
            \E s \in syncs : u = s \/ u = [s EXCEPT !.caller = Orphan]
      BY DEF SynchronizationUnanswered
    <3>2. \A s \in syncs : [s EXCEPT !.caller = Orphan].phase = s.phase
      BY <1>3 DEF Synchronization
    <3>. QED
      BY <3>1, <3>2
  <2>3. ~StartSynchronization(t)
    BY <1>1, <1>2 DEF StartSynchronization
  <2>4. ASSUME AnswerWaiting(threads[t], "failed") PROVE FALSE
    <3>1. PICK s \in syncs : u = s \/ u = [s EXCEPT !.phase = "failed"]
      BY <2>4 DEF AnswerWaiting
    <3>. QED
      BY <1>3, <3>1 DEF Synchronization
  <2>5. ~CompleteUnanswered(t)
    BY <2>4 DEF CompleteUnanswered
  <2>6. CASE CompletePromotion(t)
    <3>1. CompletionExpected(threads[t]) /\ CompletionSucceeds(t)
      BY <2>4, <2>6 DEF CompletePromotion
    <3>2. /\ assignment \in PrimaryAssignment /\ threads[t].backup \in Node
          /\ assignment # NoAssignment
      <4>1. assignment # NoAssignment
        BY <3>1 DEF CompletionExpected, AssignmentMatches
      <4>2. SoundThread(threads[t]) /\ threads[t].phase \in Attending
        BY <3>1 DEF FInv, CInv, Shape, ThreadsSound, CompletionSucceeds, Attending
      <4>. QED
        BY <4>1, <4>2, AssignmentTyped DEF FInv, SoundThread
    <3>3. assignment' = [assignment EXCEPT !.backup = threads[t].backup,
                                           !.candidate = NoNode,
                                           !.status = "ready"]
      BY <3>1 DEF CompletionSucceeds
    <3>. DEFINE b == threads[t].backup
    <3>4. b \in Address /\ assignment' = [assignment EXCEPT !.backup = b,
                                            !.candidate = NoNode, !.status = "ready"]
      BY <3>2, <3>3 DEF Address
    <3>. HIDE DEF b
    <3>5. assignment' # NoAssignment /\ assignment'.status = "ready"
      BY <3>2, <3>4, BackupActivated
    <3>. QED
      BY <3>5 DEF Assigned
  <2>. QED
    BY <1>5, <2>1, <2>2, <2>3, <2>5, <2>6 DEF RpcStep
<1>6. ASSUME NEW s \in syncs, SyncStep(s)
      PROVE  FALSE
  <2>1. \/ \E phase \in {"waiting", "settled", "failed"} :
             syncs' = (syncs \ {s}) \cup {[s EXCEPT !.phase = phase]}
        \/ syncs' = (syncs \ {s}) \cup
             {[s EXCEPT !.phase = "report", !.store = <<>>, !.records = {}]}
        \/ syncs' = syncs \ {s}
    BY <1>6
    DEF SyncStep, Install, ReportCompletion, ReportUnanswered,
        SynchronizationEnds, To
  <2>2. \/ u \in syncs
        \/ \E phase \in {"waiting", "settled", "failed"} : u = [s EXCEPT !.phase = phase]
        \/ u = [s EXCEPT !.phase = "report", !.store = <<>>, !.records = {}]
    BY <2>1
  <2>3. s \in Synchronization
    BY <1>3
  <2>4. [s EXCEPT !.phase = "report", !.store = <<>>, !.records = {}].phase = "report"
    BY <2>3 DEF Synchronization
  <2>5. \A phase : [s EXCEPT !.phase = phase].phase = phase
    BY <2>3 DEF Synchronization
  <2>. QED
    BY <1>1, <2>2, <2>4, <2>5
<1>7. ASSUME NEW m \in late, LateHandler(m)
      PROVE  FALSE
  BY <1>1, <1>7 DEF LateHandler, syncVars
<1>8. ~ControllerStep
  BY <1>1 DEF ControllerStep, syncVars
<1>. QED
  BY <1>4, <1>5, <1>6, <1>7, <1>8, ThreadsAre DEF Next

(* A backup reports that it is synchronized in an epoch when it did so      *)
(* before, or is told.                                                      *)
LEMMA ReportedSteps ==
    ASSUME FInv, Next, NEW n \in Node,
           replica'[n].role = "backup", replica'[n].reported,
           \A s \in syncs : s.phase # "told"
    PROVE  /\ replica[n].role = "backup" /\ replica[n].reported
           /\ replica[n].epoch = replica'[n].epoch
<1>. DEFINE Goal == /\ replica[n].role = "backup" /\ replica[n].reported
                    /\ replica[n].epoch = replica'[n].epoch
<1>0. replica[n] \in Replica
  BY ReplicaFit
<1>1. ASSUME replica'[n] = replica[n] PROVE Goal
  BY <1>1
<1>2. ASSUME SameAuthority(replica[n], replica'[n]) PROVE Goal
  BY <1>2 DEF SameAuthority
<1>3. CASE UNCHANGED storageVars
  BY <1>1, <1>3 DEF storageVars
<1>4. ASSUME NEW a \in Node, NEW op \in Op, PrepareAndDecide(a, op) PROVE Goal
  <2>. DEFINE b == replica[a].backup
              p == Preparation(Prepare(a, b, op))
              g == PrepareAuctionMutation(replica[b], p)
              q == Decided(replica[a], p)
  <2>1. /\ b \in Node \ {a} /\ p \in PreparedMutation
        /\ replica'[b] = g /\ replica'[a] = q
        /\ \A c \in Node \ {b, a} : replica'[c] = replica[c]
    BY <1>4, PrepareAndDecideEffect DEF DecisionTaken, Others
  <2>. HIDE DEF p
  <2>2. SameAuthority(replica[b], g) /\ SameAuthority(replica[a], q)
    BY <2>1, ReplicaFit, PreparationStored, DecisionStored
  <2>. HIDE DEF g, q
  <2>3. CASE n = b
    BY <1>2, <2>1, <2>2, <2>3
  <2>4. CASE n = a
    BY <1>2, <2>1, <2>2, <2>4
  <2>5. CASE n # a /\ n # b
    BY <1>1, <2>1, <2>5
  <2>. QED
    BY <2>3, <2>4, <2>5
<1>5. ASSUME NEW a \in Node, NEW op \in Op,
             ResumePendingCommit(a, op) \/ ReplayResponse(a, op) PROVE Goal
  BY <1>1, <1>5 DEF ResumePendingCommit, ReplayResponse
<1>6. ASSUME NEW a \in Node, CommitAnswered(a) PROVE Goal
  <2>. DEFINE op == committing[a]
              d == CHOOSE x \in PendingFor(replica[a], op) : TRUE
              m == Decision("commit", a, d.backup, op, d.epoch)
              committed == CommitPreparedMutation(replica[d.backup], m)
  <2>1. /\ op \in Op /\ m.op = op
        /\ d.backup \in Node \ {a}
        /\ replica'[d.backup] = committed
        /\ Others({d.backup, a})
        /\ replica'[a] = replica[a] \/ replica'[a] = Acknowledged(replica[a], op)
    BY <1>6, CommitAnsweredEffect
  <2>. HIDE DEF d, m, op
  <2>2. /\ op \in Op /\ m.op = op
        /\ d.backup \in Node \ {a}
        /\ replica'[d.backup] = CommitPreparedMutation(replica[d.backup], m)
        /\ Others({d.backup, a})
        /\ \/ replica'[a] = replica[a]
           \/ replica'[a] = Acknowledged(replica[a], op)
    BY <2>1
  <2>3. CASE n = d.backup
    BY <1>0, <1>2, <2>2, <2>3, CommitStored
  <2>4. CASE n = a
    BY <1>0, <1>1, <1>2, <2>2, <2>4, AcknowledgmentStored
  <2>5. CASE n # a /\ n # d.backup
    BY <1>1, <2>2, <2>5 DEF Others
  <2>. QED
    BY <2>3, <2>4, <2>5
<1>7. ASSUME NEW a \in Node, CommitUnanswered(a) PROVE Goal
  BY <1>1, <1>7 DEF CommitUnanswered
<1>8. ASSUME NEW a \in Node, NEW q, Handles(a, q) PROVE Goal
  <2>1. replica'[a] = q /\ Others({a})
    BY <1>8, HandledOtherwise
  <2>2. CASE n # a
    BY <1>1, <2>1, <2>2 DEF Others
  <2>3. CASE n = a /\ Replicating(n, q)
    <3>1. SameAuthority(replica[n], q)
      BY <1>0, <2>3, PreparationStored, AbortStored, CommitStored DEF Replicating
    <3>. QED
      BY <1>2, <2>1, <2>3, <3>1
  <2>4. CASE n = a /\ Promoting(n, q)
    <3>1. \/ \E m : q = BeginPrimaryPromotion(replica[n], m)
          \/ \E m : q = CompletePrimaryPromotion(replica[n], m)
      BY <2>4 DEF Promoting
    <3>2. q.role = "primary" \/ q = replica[n]
      BY <1>0, <3>1
      DEF BeginPrimaryPromotion, CompletePrimaryPromotion, CompletionAccepted, Replica
    <3>. QED
      BY <1>1, <2>1, <2>4, <3>2
  <2>. QED
    BY <1>8, <2>2, <2>3, <2>4 DEF Handles
<1>9. ASSUME NEW s \in syncs, Install(s) PROVE Goal
  <2>1. \/ replica'[n] = replica[n]
        \/ replica'[n] = ReplaceWithFullState(replica[n], s.epoch, s.store, s.records)
    BY <1>9, InstallEffect DEF Others
  <2>2. ~ReplaceWithFullState(replica[n], s.epoch, s.store, s.records).reported
    BY <1>0 DEF ReplaceWithFullState, Replica
  <2>. QED
    BY <1>1, <2>1, <2>2
<1>10. ASSUME NEW s \in syncs, SynchronizationEnds(s) PROVE Goal
  <2>1. replica'[n] = replica[n]
    BY <1>10, SynchronizationEndsEffect DEF Others
  <2>. QED
    BY <1>1, <2>1
<1>11. ASSUME NEW a \in Node, Restart(a) PROVE Goal
  <2>1. n = a => replica'[n].reported = (replica'[n].role = "primary")
    <3>1. n = a => replica'[n] = Loaded(disk[n])
      BY <1>11, RestartEffect
    <3>2. disk[n].ready \in BOOLEAN
      BY DEF FInv, ReplicasFit, Snapshot
    <3>3. Loaded(disk[n]).reported = (Loaded(disk[n]).role = "primary")
      BY <3>2 DEF Loaded
    <3>. QED
      BY <3>1, <3>3
  <2>2. n # a => replica'[n] = replica[n]
    BY <1>11, RestartEffect DEF Others
  <2>. QED
    BY <1>1, <2>1, <2>2
<1>12. ASSUME NEW a \in Node, BootRegistered(a) PROVE Goal
  <2>1. n = a => replica'[n] = Registered(replica[n], booting[n])
    BY <1>12, BootRegisteredEffect
  <2>2. n # a => replica'[n] = replica[n]
    BY <1>12, BootRegisteredEffect DEF Others
  <2>3. Registered(replica[n], booting[n]).role = "backup" =>
          ~Registered(replica[n], booting[n]).reported
    BY <1>0 DEF Registered, Replica
  <2>. QED
    BY <1>1, <2>1, <2>2, <2>3
<1>. QED
  BY <1>3, <1>4, <1>5, <1>6, <1>7, <1>8, <1>9, <1>10, <1>11, <1>12, StorageSteps

(* Without an assignment, a registration believes such a report.            *)
LEMMA RegistrationUnassigned ==
    ASSUME FInv, NEW a \in Node, RegisterNode(a, Reported(replica[a])),
           assignment = NoAssignment,
           NEW b \in Members'
    PROVE  \/ nodes'[b].synchronized_epoch = 0
           \/ b \in Members /\ nodes'[b] = nodes[b]
           \/ /\ b = a /\ replica[a].role = "backup" /\ replica[a].reported
              /\ nodes'[b].synchronized_epoch = replica[a].epoch
<1>. DEFINE r == Reported(replica[a])
            record == [synchronized_epoch |->
                         IF ReportsSynchronized(a, r) THEN r.epoch ELSE 0,
                       failures |-> 0]
<1>1. nodes' = [nodes EXCEPT ![a] = record]
  BY DEF RegisterNode
<1>2. nodes \in [Node -> ReplicaRecord \cup {NotRegistered}] /\ b \in Node
  BY DEF FInv, CInv, Shape, NodesSound, Members
<1>3. r.epoch = replica[a].epoch /\ r.role = replica[a].role
      /\ (r.role = "backup" /\ r.ready => replica[a].reported)
  BY DEF Reported
<1>. HIDE DEF r
<1>4. \/ record.synchronized_epoch = 0
      \/ /\ replica[a].role = "backup" /\ replica[a].reported
         /\ record.synchronized_epoch = replica[a].epoch
  BY <1>3 DEF ReportsSynchronized
<1>. HIDE DEF record
<1>5. CASE b = a
  BY <1>1, <1>2, <1>4, <1>5
<1>6. CASE b # a
  BY <1>1, <1>2, <1>6 DEF Members
<1>. QED
  BY <1>5, <1>6
-----------------------------------------------------------------------------
(* The follower has succeeded the leader.                                   *)

Successor == replica[Follower].role = "primary" /\ replica[Follower].epoch = 2

(* Until the new cluster is ready once, nobody is synchronized with it, and *)
(* the follower decides nothing.                                            *)
Promoted ==
    /\ \A n \in Node :
         replica[n].role = "backup" /\ replica[n].epoch = 2 => ~replica[n].reported
    /\ \A s \in syncs : s.phase # "told"
    /\ replica[Follower].pending = {}

Inherited ==
    /\ last_primary_epoch = 2
    /\ Successor /\ replica[Follower].prepared = {} /\ Holding(replica[Follower])
    /\ \A t \in Threads :
         /\ threads[t].phase \notin Detached => threads[t].primary = Follower
                                               /\ threads[t].epoch = 2
         /\ threads[t].phase = "elect" => threads[t].eligible = AnyEligible
    /\ assignment = NoAssignment =>
         \A a \in Members : nodes[a].synchronized_epoch # 2
    /\ <<Follower, 2>> \in published =>
         assignment # NoAssignment /\ ~Assigned("promoting")
    /\ <<Follower, 2>> \notin published => Promoted
    /\ StartsAsPrimary

LEMMA FollowerHolds ==
    ASSUME FInv, LeaderFails, Inherited
    PROVE  Holds(Follower)
<1>1. /\ Leader \in Node /\ Follower \in Node /\ Leader # Follower
      /\ replica[Leader] \in Replica
  BY LeaderAndFollower
<1>2. ASSUME NEW n \in Node \ {Follower}, PublishedAs(n)
      PROVE  Superseded(n, Follower)
  <2>1. n = Leader /\ replica[n].role = "primary"
    BY <1>2 DEF PublishedAs, LeaderFails
  <2>. QED
    BY <1>1, <2>1 DEF Superseded, LeaderFails, FormerLeader
<1>. QED
  BY <1>1, <1>2 DEF Holds, Inherited, Successor

LEMMA FollowerStep ==
    ASSUME Unreliable \subseteq {Leader}, FInv, LeaderFails, Inherited, Next
    PROVE  HolderStep(Follower)
<1>1. Holds(Follower)
  BY FollowerHolds
<1>2. Follower \in Node \ {Leader} /\ Follower \notin Restarting
  BY LeaderAndFollower, FailoverAssumption
<1>3. WaitsAsPrimary /\ booting[Follower].phase = "done"
  BY <1>2 DEF LeaderFails, Started
<1>. QED
  BY <1>1, <1>2, <1>3, HolderKept

(* The controller goes on calmly, or hears a registration.                  *)
LEMMA InheritedController ==
    ASSUME Unreliable \subseteq {Leader}, FInv, LeaderFails, Inherited, Next
    PROVE  Quiet \/ Registers
<1>1. /\ Leader # Follower /\ Follower \notin Unreliable
      /\ replica[Follower] \in Replica /\ last_primary_epoch = 2
  BY LeaderAndFollower DEF Inherited
<1>2. assignment # NoAssignment => assignment.primary = Follower
  BY NewestIsAssigned, LeaderAndFollower DEF NewestOwns, Inherited, Successor
<1>3. ~PrimaryEvicted
  BY <1>1, <1>2
  DEF PrimaryEvicted, LeaderFails, EvictsUnreliable, HandleReplicaFailure
<1>4. ASSUME NEW t \in Threads, Elected(t) PROVE FALSE
  <2>1. /\ threads[t].eligible = AnyEligible /\ assignment = NoAssignment
        /\ SelectPrimaryCandidate(AnyEligible) # NoNode
    BY <1>4 DEF Elected, Elect, Inherited
  <2>2. {a \in Members : /\ nodes[a].synchronized_epoch > 0
                         /\ nodes[a].synchronized_epoch = last_primary_epoch} # {}
    BY <2>1 DEF SelectPrimaryCandidate
  <2>. QED
    BY <1>1, <2>1, <2>2 DEF Inherited
<1>5. ASSUME NEW t \in Threads, PromotionRefused(t) PROVE FALSE
  <2>1. /\ threads[t].primary = Follower /\ threads[t].epoch = 2
        /\ AssignmentMatches(Follower, 2, "promoting")
    BY <1>5 DEF PromotionRefused, Inherited
  <2>2. <<Follower, 2>> \notin published
    BY <2>1 DEF Inherited, Assigned, AssignmentMatches
  <2>3. BeginAccepted(replica[Follower], threads[t])
    BY <2>1 DEF BeginAccepted, Inherited, Successor
  <2>4. PromotionStateConfirmable(replica[Follower], 2)
    BY <2>2 DEF PromotionStateConfirmable, Inherited, Successor, Promoted
  <2>5. CompletionAccepted(replica[Follower], Completion(threads[t]))
    BY <2>1 DEF CompletionAccepted, Completion, Inherited, Successor
  <2>. QED
    BY <1>1, <1>5, <2>1, <2>3, <2>4, <2>5 DEF PromotionRefused
<1>. QED
  BY <1>3, <1>4, <1>5, ControllerMoves

(* Nobody new is served: the threads go on for the follower.                *)
LEMMA InheritedThreads ==
    ASSUME FInv, LeaderFails, Inherited, Quiet \/ Registers
    PROVE  /\ last_primary_epoch' = 2 /\ ThreadsCalm /\ AssignmentCalm
           /\ \A t \in Threads : threads'[t].phase \notin Detached =>
                threads'[t].primary = Follower /\ threads'[t].epoch = 2
           /\ assignment' # NoAssignment => assignment'.primary = Follower
                                            /\ assignment'.epoch = 2
<1>1. assignment # NoAssignment => assignment.primary = Follower /\ assignment.epoch = 2
  BY NewestIsAssigned, LeaderAndFollower
  DEF NewestOwns, Inherited, Successor, FInv, CInv, Shape, AssignmentSound
<1>2. \A e, p : Served(e, p) => p = Follower /\ e = 2
  BY <1>1 DEF Served, Inherited
<1>3. CASE Quiet
  BY <1>1, <1>2, <1>3
  DEF Quiet, Calm, NobodyNew, SameOwner, ThreadsServed, Inherited
<1>4. CASE Registers
  <2>1. PICK a \in Node : RegisterNode(a, Reported(replica[a]))
    BY <1>4 DEF Registers
  <2>2. /\ Reported(replica[a]) \in Report
        /\ Reported(replica[a]).epoch = replica[a].epoch
        /\ Reported(replica[a]).role = replica[a].role
        /\ replica[a] \in Replica
    BY ReplicaFit, ReportRead DEF Fit
  <2>3. last_primary_epoch' = 2 /\ ThreadsCalm /\ AssignmentCalm
    BY <1>4, RegistrationMoves DEF Inherited
  <2>4. /\ \/ SameOwner
           \/ /\ replica[a].role = "primary"
              /\ assignment'.epoch = replica[a].epoch /\ assignment'.primary = a
        /\ \A t \in Threads : threads'[t].phase \notin Detached =>
             \/ Served(threads'[t].epoch, threads'[t].primary)
             \/ /\ assignment' # NoAssignment
                /\ threads'[t].epoch = assignment'.epoch
                /\ threads'[t].primary = assignment'.primary
    BY <2>1, <2>2, RegistrationServed DEF FInv
  <2>5. assignment' # NoAssignment => assignment'.primary = Follower /\ assignment'.epoch = 2
    <3>1. CASE SameOwner
      BY <1>1, <3>1 DEF SameOwner
    <3>2. CASE /\ replica[a].role = "primary"
               /\ assignment'.epoch = replica[a].epoch /\ assignment'.primary = a
      <4>1. CInv'
        BY <2>1, <2>2, RegistrationKept DEF ControllerKept
      <4>2. assignment' # NoAssignment => assignment'.epoch = 2
        BY <2>3, <4>1 DEF CInv, Shape, AssignmentSound
      <4>3. replica[a].epoch = 2 => a = Follower
        BY <3>2, LeaderAndFollower DEF FInv, OneEntitled, Entitled, Inherited, Successor
      <4>. QED
        BY <3>2, <4>2, <4>3
    <3>. QED
      BY <2>4, <3>1, <3>2
  <2>. QED
    BY <1>2, <2>3, <2>4, <2>5
<1>. QED
  BY <1>3, <1>4

(* The former leader stays one, whatever reaches it late.                   *)
LEMMA FormerLeaderKept ==
    ASSUME FInv, LeaderFails, Inherited, Next, ~Authority(Leader),
           \A op \in Op : Recorded(replica[Follower], op) =>
                            Recorded(replica'[Follower], op)
    PROVE  FormerLeader(replica'[Leader], replica'[Follower])
<1>. DEFINE l == replica[Leader]
            f == replica[Follower]
            g == replica'[Follower]
<1>1. /\ Leader \in Node /\ Follower \in Node /\ Leader # Follower
      /\ l \in Replica /\ f \in Replica /\ f.role = "primary" /\ f.epoch = 2
      /\ FormerLeader(l, f) /\ WaitsAsPrimary
  BY LeaderAndFollower DEF LeaderFails, Inherited, Successor
<1>2. ASSUME NEW q, FormerLeader(q, f) PROVE FormerLeader(q, g)
  BY <1>2, FormerLeaderGrows
<1>3. ASSUME replica'[Leader] = l PROVE FormerLeader(replica'[Leader], g)
  BY <1>1, <1>2, <1>3
<1>4. ASSUME NEW q, SameData(l, q), replica'[Leader] = q
      PROVE  FormerLeader(replica'[Leader], g)
  <2>1. FormerLeader(q, g)
    BY <1>1, <1>4, FormerLeaderSameData
  <2>. QED
    BY <1>4, <2>1
<1>5. ASSUME NEW n \in Node, NEW op \in Op, PrepareAndDecide(n, op)
      PROVE  FormerLeader(replica'[Leader], g)
  <2>. DEFINE b == replica[n].backup
              p == Preparation(Prepare(n, b, op))
              q == PrepareAuctionMutation(replica[b], p)
  <2>1. n = Follower
    BY <1>5, FollowerHolds, HolderDecides
  <2>2. /\ b \in Node \ {n} /\ p \in PreparedMutation /\ replica'[b] = q
        /\ \A c \in Node \ {b, n} : replica'[c] = replica[c]
    BY <1>5, PrepareAndDecideEffect DEF DecisionTaken, Others
  <2>. HIDE DEF p
  <2>3. b = Leader => SameData(l, q)
    BY <1>1, <2>2, PreparationData
  <2>. HIDE DEF q
  <2>. QED
    BY <1>1, <1>3, <1>4, <2>1, <2>2, <2>3
<1>6. ASSUME NEW n \in Node, CommitAnswered(n)
      PROVE  FormerLeader(replica'[Leader], g)
  <2>. DEFINE op == committing[n]
              d == CHOOSE x \in PendingFor(replica[n], op) : TRUE
              m == Decision("commit", n, d.backup, op, d.epoch)
              committed == CommitPreparedMutation(replica[d.backup], m)
  <2>1. /\ op \in Op /\ m.op = op /\ d \in replica[n].pending
        /\ d.backup \in Node \ {n}
        /\ replica'[d.backup] = committed
        /\ \A c \in Node \ {d.backup, n} : replica'[c] = replica[c]
        /\ \/ replica'[n] = replica[n]
           \/ CommitAccepted(replica[d.backup], m)
    BY <1>6, CommitAnsweredEffect DEF Others
  <2>2. op # NoOp
    BY <2>1, FailoverAssumption
  <2>. HIDE DEF d, m, op
  <2>3. CASE n = Leader
    <3>1. d.backup = Follower
      BY <1>1, <2>1, <2>3 DEF FormerLeader
    <3>2. ~CommitAccepted(replica[d.backup], m)
      BY <1>1, <3>1 DEF CommitAccepted
    <3>. QED
      BY <1>3, <2>1, <2>3, <3>2
  <2>4. CASE n # Leader /\ d.backup = Leader
    <3>1. FormerLeader(CommitPreparedMutation(l, m), f)
      BY <1>1, <2>1, FormerLeaderCommits
    <3>. QED
      BY <1>2, <2>1, <2>4, <3>1
  <2>5. CASE n # Leader /\ d.backup # Leader
    BY <1>1, <1>3, <2>1, <2>5
  <2>. QED
    BY <2>3, <2>4, <2>5
<1>7. ASSUME NEW n \in Node, NEW q, Handles(n, q)
      PROVE  FormerLeader(replica'[Leader], g)
  <2>1. replica'[n] = q /\ \A c \in Node \ {n} : replica'[c] = replica[c]
    BY <1>7, HandledOtherwise DEF Others
  <2>2. CASE n # Leader
    BY <1>1, <1>3, <2>1, <2>2
  <2>3. CASE n = Leader
    <3>1. Replicating(Leader, q)
      BY <1>7, <2>3 DEF Handles, Promoting
    <3>2. ASSUME NEW p \in PreparedMutation, q = PrepareAuctionMutation(l, p)
          PROVE  FormerLeader(replica'[Leader], g)
      BY <1>1, <1>4, <2>1, <2>3, <3>2, PreparationData
    <3>3. ASSUME NEW d, q = AbortPreparedMutation(l, d)
          PROVE  FormerLeader(replica'[Leader], g)
      BY <1>1, <1>4, <2>1, <2>3, <3>3, AbortData
    <3>4. ASSUME NEW d, d.op \in Op, q = CommitPreparedMutation(l, d)
          PROVE  FormerLeader(replica'[Leader], g)
      BY <1>1, <1>2, <2>1, <2>3, <3>4, FormerLeaderCommits
    <3>. QED
      BY <3>1, <3>2, <3>3, <3>4 DEF Replicating
  <2>. QED
    BY <2>2, <2>3
<1>8. ASSUME NEW s \in syncs, Install(s)
      PROVE  FormerLeader(replica'[Leader], g)
  <2>1. \/ replica'[Leader] = l
        \/ /\ l.role = "backup"
           /\ replica'[Leader] = ReplaceWithFullState(l, s.epoch, s.store, s.records)
    BY <1>1, <1>8, InstallEffect DEF Others
  <2>. QED
    BY <1>1, <1>2, <1>3, <2>1, FormerLeaderInstalled
<1>9. ASSUME NEW s \in syncs, SynchronizationEnds(s)
      PROVE  FormerLeader(replica'[Leader], g)
  <2>1. replica'[Leader] = l \/ replica'[Leader] = Synchronized(l, s.epoch)
    BY <1>1, <1>9, SynchronizationEndsEffect DEF Others
  <2>2. FormerLeader(Synchronized(l, s.epoch), f)
    BY <1>1 DEF FormerLeader, Synchronized, Replica, PendingRecorded, Recorded, PendingFor
  <2>. QED
    BY <1>2, <1>3, <2>1, <2>2
<1>10. ASSUME NEW n \in Node, Restart(n)
       PROVE  FormerLeader(replica'[Leader], g)
  <2>1. replica'[Leader] = l \/ replica'[Leader] = Loaded(disk[Leader])
    BY <1>1, <1>10, RestartEffect DEF Others
  <2>. QED
    BY <1>2, <1>3, <2>1 DEF LeaderFails
<1>11. ASSUME NEW n \in Node, BootRegistered(n)
       PROVE  FormerLeader(replica'[Leader], g)
  <2>1. n # Leader => replica'[Leader] = l
    BY <1>1, <1>11, BootRegisteredEffect DEF Others
  <2>2. CASE n = Leader
    <3>. DEFINE b == booting[Leader]
                q == Registered(l, b)
    <3>1. replica'[Leader] = q /\ b.phase = "registered"
      BY <1>11, <2>2, BootRegisteredEffect DEF BootRegistered
    <3>2. /\ b \in Starting /\ b.epoch \in 1..2
          /\ b.is_primary => Entitled(Leader, b.epoch)
      BY <1>1, <3>1, ReplicaFit DEF FitStart, Inherited
    <3>3. b.epoch = 2 => ~b.is_primary
      <4>1. Entitled(Follower, 2)
        BY <1>1 DEF Entitled
      <4>. QED
        BY <1>1, <3>2, <4>1 DEF FInv, OneEntitled
    <3>4. b.epoch = 1 => l.role = "primary"
      BY <3>1 DEF Inherited, StartsAsPrimary
    <3>5. l.role = "primary" => l.epoch = 1 /\ l.ready
      BY <1>1 DEF FormerLeader
    <3>6. /\ q.backup = l.backup /\ q.pending = l.pending /\ q.records = l.records
          /\ q.epoch = b.epoch
          /\ q.role = "primary" => /\ l.role = "primary" /\ q.epoch = 1 /\ q.ready
      <4>1. b.epoch = 1 \/ b.epoch = 2
        BY <3>2
      <4>2. CASE b.epoch = 1
        BY <1>1, <3>4, <3>5, <4>2 DEF Registered, Replica
      <4>3. CASE b.epoch = 2
        BY <1>1, <3>3, <3>5, <4>3 DEF Registered, Replica
      <4>. QED
        BY <4>1, <4>2, <4>3
    <3>. HIDE DEF q
    <3>7. FormerLeader(q, f)
      BY <1>1, <3>6 DEF FormerLeader, PendingRecorded, Recorded, PendingFor
    <3>. QED
      BY <1>2, <3>1, <3>7
  <2>. QED
    BY <1>3, <2>1, <2>2
<1>12. ASSUME UNCHANGED replica PROVE FormerLeader(replica'[Leader], g)
  BY <1>3, <1>12
<1>13. \A n \in Node, op \in Op :
         ResumePendingCommit(n, op) \/ ReplayResponse(n, op) \/ CommitUnanswered(n)
           => UNCHANGED replica
  BY DEF ResumePendingCommit, ReplayResponse, CommitUnanswered
<1>14. \A n \in Node : CommitUnanswered(n) => UNCHANGED replica
  BY DEF CommitUnanswered
<1>15. UNCHANGED storageVars => UNCHANGED replica
  BY DEF storageVars
<1>. QED
  BY <1>5, <1>6, <1>7, <1>8, <1>9, <1>10, <1>11, <1>12, <1>13, <1>14, <1>15,
     StorageSteps

(* A primary decides nothing before it is published.                        *)
LEMMA PendingSteps ==
    ASSUME Unreliable \subseteq {Leader}, FInv, LeaderFails, Inherited, Next, <<Follower, 2>> \notin published,
           replica[Follower].pending = {}
    PROVE  replica'[Follower].pending = {}
<1>. DEFINE f == replica[Follower]
<1>1. /\ Follower \in Node /\ f \in Replica /\ f.role = "primary" /\ f.epoch = 2
      /\ Holds(Follower) /\ ~PublishedAs(Follower)
  BY LeaderAndFollower, FollowerHolds DEF Inherited, Successor, PublishedAs
<1>2. ASSUME PrimaryKeeps(f, replica'[Follower]) PROVE replica'[Follower].pending = {}
  BY <1>2 DEF PrimaryKeeps
<1>3. ASSUME replica'[Follower] = f PROVE replica'[Follower].pending = {}
  BY <1>3
<1>4. ASSUME NEW n \in Node, NEW op \in Op, PrepareAndDecide(n, op) PROVE FALSE
  <2>1. n = Follower
    BY <1>1, <1>4, HolderDecides
  <2>. QED
    BY <1>1, <1>4, <2>1 DEF PrepareAndDecide, New, Writable, PublishedAs
<1>5. ASSUME NEW n \in Node, CommitAnswered(n) PROVE replica'[Follower] = f
  <2>. DEFINE op == committing[n]
              d == CHOOSE x \in PendingFor(replica[n], op) : TRUE
              m == Decision("commit", n, d.backup, op, d.epoch)
              committed == CommitPreparedMutation(replica[d.backup], m)
  <2>1. /\ op \in Op /\ m.op = op /\ d \in replica[n].pending
        /\ d.backup \in Node \ {n}
        /\ replica'[d.backup] = committed
        /\ \A c \in Node \ {d.backup, n} : replica'[c] = replica[c]
    BY <1>5, CommitAnsweredEffect DEF Others
  <2>2. n # Follower
    BY <1>1, <2>1
  <2>3. d.backup = Follower => committed = f
    BY <1>1, <2>1, CommitData
  <2>. HIDE DEF d, m, op, committed
  <2>. QED
    BY <1>1, <2>1, <2>2, <2>3
<1>6. ASSUME NEW n \in Node, NEW q, Handles(n, q)
      PROVE  replica'[Follower].pending = {}
  <2>1. replica'[n] = q /\ \A c \in Node \ {n} : replica'[c] = replica[c]
    BY <1>6, HandledOtherwise DEF Others
  <2>2. n = Follower => PrimaryKeeps(f, q)
    BY <1>1, <1>6, PrimaryHandles DEF Handles
  <2>. QED
    BY <1>1, <1>2, <1>3, <2>1, <2>2
<1>7. ASSUME NEW s \in syncs, Install(s) PROVE replica'[Follower] = f
  BY <1>1, <1>7, InstallEffect DEF Others
<1>8. ASSUME NEW s \in syncs, SynchronizationEnds(s) PROVE replica'[Follower] = f
  BY <1>1, <1>8, SynchronizationEndsEffect DEF Others, Synchronized
<1>9. ASSUME NEW n \in Node, Restart(n) \/ BootRegistered(n)
      PROVE  replica'[Follower] = f
  <2>1. booting[Follower].phase = "done" /\ Follower \notin Restarting
    BY LeaderAndFollower, FailoverAssumption DEF LeaderFails, Started
  <2>2. n # Follower
    BY <1>9, <2>1 DEF Restart, BootRegistered
  <2>. QED
    BY <1>1, <1>9, <2>2, RestartEffect, BootRegisteredEffect DEF Others
<1>10. \A n \in Node, op \in Op :
         ResumePendingCommit(n, op) \/ ReplayResponse(n, op) => UNCHANGED replica
  BY DEF ResumePendingCommit, ReplayResponse
<1>11. \A n \in Node : CommitUnanswered(n) => UNCHANGED replica
  BY DEF CommitUnanswered
<1>12. UNCHANGED storageVars => UNCHANGED replica
  BY DEF storageVars
<1>. QED
  BY <1>3, <1>4, <1>5, <1>6, <1>7, <1>8, <1>9, <1>10, <1>11, <1>12,
     StorageSteps

(* A late request is one of replication, while only the leader may be       *)
(* unreachable.                                                             *)
LEMMA LateReplicationKept ==
    ASSUME Unreliable \subseteq {Leader}, FInv, LeaderFails, Inherited, Next
    PROVE  LateReplication'
<1>1. ASSUME late' \subseteq late PROVE LateReplication'
  BY <1>1 DEF LeaderFails, LateReplication
<1>2. ASSUME NEW m, NeverAnswered(m), m.type \in {"prepare", "commit", "abort"}
      PROVE  LateReplication'
  BY <1>2 DEF LeaderFails, LateReplication, NeverAnswered
<1>3. \A b, n, op, e :
        /\ Prepare(n, b, op).type = "prepare"
        /\ Decision("abort", n, b, op, e).type = "abort"
        /\ Decision("commit", n, b, op, e).type = "commit"
  BY DEF Prepare, Decision
<1>4. ASSUME NEW n \in Node, ReplicaStep(n) PROVE LateReplication'
  <2>1. CASE \E op \in Op : PrepareUnanswered(n, op)
    BY <1>2, <1>3, <2>1 DEF PrepareUnanswered
  <2>2. CASE CommitUnanswered(n)
    BY <1>2, <1>3, <2>2 DEF CommitUnanswered
  <2>3. CASE Restart(n)
    BY <1>1, <2>3 DEF Restart
  <2>4. CASE ~(\/ \E op \in Op : PrepareUnanswered(n, op)
               \/ CommitUnanswered(n) \/ Restart(n))
    <3>1. UNCHANGED late
      BY <1>4, <2>4
      DEF ReplicaStep, PrepareAndDecide, PrepareRefused, ResumePendingCommit,
          ReplayResponse, CommitAnswered, Reregister, ProbeAnswered,
          ProbeUnanswered, BootRegister, BootRegistered, BootLookup
    <3>. QED
      BY <1>1, <3>1
  <2>. QED
    BY <2>1, <2>2, <2>3, <2>4
<1>5. ASSUME NEW t \in Threads, RpcStep(t) PROVE LateReplication'
  <2>1. threads[t].phase \in {"begin", "complete"} => threads[t].primary \notin Unreliable
    BY LeaderAndFollower DEF Inherited, Detached
  <2>2. ~BeginUnanswered(t) /\ ~CompleteUnanswered(t)
    BY <2>1 DEF BeginUnanswered, CompleteUnanswered
  <2>3. UNCHANGED late
    BY <1>5, <2>2
    DEF RpcStep, BeginPromotion, ConfirmPromotion, ConfirmUnanswered,
        CompletePromotion, StartSynchronization, SynchronizationUnanswered
  <2>. QED
    BY <1>1, <2>3
<1>6. ASSUME NEW s \in syncs, SyncStep(s) PROVE LateReplication'
  <2>1. UNCHANGED late
    BY <1>6
    DEF SyncStep, Install, ReportCompletion, ReportUnanswered, SynchronizationEnds
  <2>. QED
    BY <1>1, <2>1
<1>7. ASSUME NEW m \in late, LateHandler(m) PROVE LateReplication'
  BY <1>1, <1>7 DEF LateHandler
<1>8. CASE ControllerStep
  BY <1>1, <1>8 DEF ControllerStep
<1>. QED
  BY <1>4, <1>5, <1>6, <1>7, <1>8, ThreadsAre DEF Next

LEMMA InheritedKept ==
    ASSUME Unreliable \subseteq {Leader}, FInv, LeaderFails, Inherited, Next
    PROVE  LeaderFails' /\ Inherited' /\ Moves(Follower)
<1>. DEFINE g == replica'[Follower]
<1>1. FInv'
  BY NextInv
<1>2. Leader \in Node /\ Follower \in Node \ {Leader} /\ acked \subseteq Op
  BY LeaderAndFollower
<1>3. HolderStep(Follower)
  BY FollowerStep
<1>4. /\ g.role = "primary" /\ g.epoch = 2 /\ g.prepared = {} /\ Holding(g)
      /\ \A op \in Op : Recorded(replica[Follower], op) => Recorded(g, op)
      /\ Moves(Follower)
  BY <1>3 DEF HolderStep, Holding, Inherited, Successor
<1>5. Quiet \/ Registers
  BY InheritedController
<1>6. /\ last_primary_epoch' = 2 /\ ThreadsCalm /\ AssignmentCalm
      /\ \A t \in Threads : threads'[t].phase \notin Detached =>
           threads'[t].primary = Follower /\ threads'[t].epoch = 2
      /\ assignment' # NoAssignment => assignment'.primary = Follower
                                       /\ assignment'.epoch = 2
  BY <1>5, InheritedThreads
<1>7. \A t \in Threads : threads'[t].phase = "elect" => threads'[t].eligible = AnyEligible
  BY <1>6 DEF ThreadsCalm, Inherited
<1>8. ~Authority(Leader)
  BY <1>2 DEF Authority, LeaderFails, LateReplication, Inherited
<1>9. FormerLeader(replica'[Leader], g)
  BY <1>4, <1>8, FormerLeaderKept
<1>10. FormerLeader(Loaded(disk'[Leader]), g)
  BY <1>1, <1>4, <1>9, DiskFollows DEF LeaderFails
<1>11. WaitsAsPrimary' /\ EvictsUnreliable'
  BY <1>6, WaitsAsPrimaryKept, EvictsUnreliableKept DEF LeaderFails
<1>12. \A n \in Node \ {Leader} : Started(n)'
  <2>1. \A n \in Node \ {Leader} : n \notin Restarting /\ Started(n)
    BY FailoverAssumption DEF LeaderFails
  <2>. QED
    BY <2>1, StartedKept
<1>13. AckedIn(replica[Follower])'
  BY <1>2, <1>4 DEF Moves, AckedIn, LeaderFails
<1>14. published' \subseteq {<<Leader, 1>>, <<Follower, 2>>}
  <2>1. Assigned("ready")' => <<assignment'.primary, assignment'.epoch>> = <<Follower, 2>>
    BY <1>6 DEF Assigned
  <2>. QED
    BY <2>1 DEF Next, LeaderFails
<1>15. LateReplication'
  BY LateReplicationKept
<1>16. LeaderFails'
  BY <1>4, <1>9, <1>10, <1>11, <1>12, <1>13, <1>14, <1>15 DEF LeaderFails, Holding
<1>17. StartsAsPrimary'
  BY <1>1, <1>8, StartsAsPrimaryKept DEF Inherited
<1>18. <<Follower, 2>> \in published' => assignment' # NoAssignment /\ ~Assigned("promoting")'
  <2>1. CASE <<Follower, 2>> \in published
    BY <1>6, <2>1 DEF AssignmentCalm, Inherited
  <2>2. CASE <<Follower, 2>> \notin published
    BY <2>2 DEF Next, Assigned
  <2>. QED
    BY <2>1, <2>2
<1>19. <<Follower, 2>> \notin published' => Promoted'
  <2>. SUFFICES ASSUME <<Follower, 2>> \notin published' PROVE Promoted'
    OBVIOUS
  <2>1. <<Follower, 2>> \notin published /\ Promoted
    BY DEF Next, Inherited
  <2>2. ~Assigned("ready")'
    BY <1>6 DEF Next, Assigned
  <2>3. \A s \in syncs' : s.phase # "told"
    BY <2>1, <2>2, ToldSteps DEF Promoted
  <2>4. \A n \in Node : replica'[n].role = "backup" /\ replica'[n].epoch = 2
                          => ~replica'[n].reported
    BY <2>1, ReportedSteps DEF Promoted
  <2>5. g.pending = {}
    BY <2>1, PendingSteps DEF Promoted
  <2>. QED
    BY <2>3, <2>4, <2>5 DEF Promoted
<1>20. assignment' = NoAssignment =>
         \A a \in Members' : nodes'[a].synchronized_epoch # 2
  <2>. SUFFICES ASSUME assignment' = NoAssignment, NEW a \in Members'
                PROVE  nodes'[a].synchronized_epoch # 2
    OBVIOUS
  <2>1. CASE assignment # NoAssignment
    BY <1>6, <2>1 DEF AssignmentCalm
  <2>2. CASE assignment = NoAssignment /\ Quiet
    BY <2>2 DEF Quiet, Calm, NodesCalm, Inherited
  <2>3. CASE assignment = NoAssignment /\ Registers
    <3>1. PICK b \in Node : RegisterNode(b, Reported(replica[b]))
      BY <2>3 DEF Registers
    <3>2. Promoted
      BY <2>3 DEF Inherited
    <3>. QED
      BY <2>3, <3>1, <3>2, RegistrationUnassigned DEF Promoted, Inherited
  <2>. QED
    BY <1>5, <2>1, <2>2, <2>3
<1>21. Successor'
  BY <1>4 DEF Successor
<1>22. Inherited'
  BY <1>4, <1>6, <1>7, <1>17, <1>18, <1>19, <1>20, <1>21 DEF Inherited
<1>. QED
  BY <1>4, <1>16, <1>22
(* The follower begins its promotion: it goes on from what it committed.    *)
LEMMA FollowerBegins ==
    ASSUME Unreliable \subseteq {Leader}, FInv, Behind, Next,
           NEW t \in Threads, BeginPromotion(t)
    PROVE  /\ LeaderFails' /\ Inherited'
           /\ UNCHANGED acked /\ replica'[Follower].store = replica[Follower].store
           /\ UNCHANGED syncs /\ Assigned("promoting")' /\ \A b : ~Completing(b)'
<1>. DEFINE w == threads[t]
            f == replica[Follower]
            g == replica'[Follower]
<1>1. LeaderFails /\ Following /\ w.phase = "begin"
  BY DEF Behind, BeginPromotion
<1>2. Electing /\ w.primary = Follower /\ w.epoch = 2
  BY <1>1 DEF Behind, Before, Electing, Detached
<1>3. /\ Leader \in Node /\ Follower \in Node /\ Leader # Follower
      /\ f \in Replica
  BY LeaderAndFollower
<1>4. f.epoch = 1 /\ f.pending = {} /\ f.role = "backup"
  BY <1>1 DEF Following, Backed
<1>5. /\ Save(Follower, BeginPrimaryPromotion(f, w))
      /\ BeginPromotionAccepted(t)
      /\ UNCHANGED <<committing, acked, booting, syncs, late>>
  <2>1. BeginAccepted(f, w)
    BY <1>2, <1>4 DEF BeginAccepted
  <2>. QED
    BY <1>2, <2>1 DEF BeginPromotion, syncVars
<1>6. g = BeginPrimaryPromotion(f, w) /\ Others({Follower})
  BY <1>3, <1>5, SaveEffect
<1>7. /\ g.role = "primary" /\ g.epoch = 2 /\ g.prepared = {}
      /\ g.store = f.store /\ g.records = f.records /\ g.pending = {}
  BY <1>2, <1>3, <1>4, <1>6 DEF BeginPrimaryPromotion, Replica
<1>8. replica'[Leader] = replica[Leader] /\ disk'[Leader] = disk[Leader]
  BY <1>3, <1>6 DEF Others
<1>9. \A op : Recorded(g, op) <=> Recorded(f, op)
  BY <1>7 DEF Recorded
<1>10. UNCHANGED <<nodes, assignment, last_primary_epoch>>
  BY <1>5 DEF BeginPromotionAccepted, Advance
<1>11. \A u \in Threads :
         \/ threads'[u] = threads[u]
         \/ threads'[u].phase = "free"
         \/ /\ threads'[u].phase = "confirm"
            /\ threads'[u].primary = Follower /\ threads'[u].epoch = 2
  <2>1. Continue(t, IF PromotionContextValid(t)
                    THEN [threads[t] EXCEPT !.phase = "confirm"] ELSE Free)
    BY <1>5 DEF BeginPromotionAccepted, Advance
  <2>2. DOMAIN threads = Threads /\ threads[t] \in Thread
    BY DEF FInv, CInv, Shape, ThreadsSound
  <2>4. LET x == [threads[t] EXCEPT !.phase = "confirm"]
        IN x.phase = "confirm" /\ x.primary = Follower /\ x.epoch = 2
    BY <1>2, <2>2 DEF Thread
  <2>5. Free.phase = "free"
    BY DEF Free
  <2>. QED
    BY <2>1, <2>2, <2>4, <2>5 DEF Continue
<1>12. EvictsUnreliable'
  <2>1. EvictsUnreliable
    BY <1>1 DEF LeaderFails
  <2>2. Monitor \in Threads
    BY DEF Threads
  <2>. QED
    BY <1>11, <2>1, <2>2 DEF EvictsUnreliable
<1>13. published' = {<<Leader, 1>>}
  <2>1. ~Assigned("ready")'
    BY <1>2, <1>10 DEF Electing, Assigned
  <2>. QED
    BY <1>1, <2>1 DEF Following, Next
<1>14. <<Follower, 2>> \notin published'
  BY <1>3, <1>13
<1>15. WaitsAsPrimary'
  BY <1>1, WaitsAsPrimaryKept DEF LeaderFails
<1>16. \A n \in Node \ {Leader} : Started(n)'
  <2>1. \A n \in Node \ {Leader} : n \notin Restarting /\ Started(n)
    BY <1>1, FailoverAssumption DEF LeaderFails
  <2>. QED
    BY <2>1, StartedKept
<1>17. FormerLeader(replica'[Leader], g)
  BY <1>1, <1>8, <1>9, FormerLeaderGrows DEF LeaderFails
<1>18. FormerLeader(Loaded(disk'[Leader]), g)
  BY <1>1, <1>8, <1>9, FormerLeaderGrows DEF LeaderFails
<1>19. AckedIn(replica[Follower])'
  BY <1>1, <1>5, <1>9 DEF LeaderFails, AckedIn
<1>20. Recording(g)
  BY <1>1, <1>7, <1>9 DEF LeaderFails, Recording
<1>21. LeaderFails'
  BY <1>1, <1>5, <1>12, <1>13, <1>15, <1>16, <1>17, <1>18, <1>19, <1>20
  DEF LeaderFails, LateReplication
<1>22. \A u \in Threads :
         /\ threads'[u].phase \notin Detached =>
              threads'[u].primary = Follower /\ threads'[u].epoch = 2
         /\ threads'[u].phase # "elect"
  BY <1>2, <1>11 DEF Electing, Detached
<1>23. Promoted'
  <2>1. \A n \in Node : replica'[n].role = "backup" /\ replica'[n].epoch = 2
                          => ~replica'[n].reported
    <3>. SUFFICES ASSUME NEW n \in Node, replica'[n].role = "backup",
                         replica'[n].epoch = 2
                  PROVE  ~replica'[n].reported
      OBVIOUS
    <3>1. CASE n = Leader
      BY <1>1, <1>8, <3>1 DEF Following
    <3>2. CASE n \in Node \ {Leader, Follower}
      BY <1>1, <1>6, <3>2 DEF Following, Others
    <3>. QED
      BY <1>7, <3>1, <3>2
  <2>. QED
    BY <1>1, <1>5, <1>7, <2>1 DEF Promoted, Following
<1>24. StartsAsPrimary'
  BY <1>1, <1>5, <1>8 DEF Following, StartsAsPrimary
<1>25. Holding(g) /\ Successor'
  BY <1>7, <1>20 DEF Holding, PendingRecorded, Successor
<1>26. Inherited'
  BY <1>2, <1>7, <1>10, <1>14, <1>22, <1>23, <1>24, <1>25 DEF Inherited, Electing
<1>27. Assigned("promoting")' /\ \A b : ~Completing(b)'
  BY <1>2, <1>10, <1>11 DEF Electing, Assigned, Completing
<1>. QED
  BY <1>5, <1>7, <1>21, <1>26, <1>27

(* At the start the follower is the synchronized backup of the leader.      *)
LEMMA InitBehind ==
    ASSUME Init
    PROVE  Behind
<1>. DEFINE l == replica[Leader]
            s == disk[Leader]
            f == replica[Follower]
<1>1. FInv /\ Leader \in Node /\ Follower \in Node /\ Leader # Follower
  BY InitInv, LeaderAndFollower
<1>2. l = InitialReplica(Leader) /\ f = InitialReplica(Follower)
      /\ s = Saved(InitialReplica(Leader))
  BY <1>1 DEF Init
<1>3. /\ l.role = "primary" /\ l.epoch = 1 /\ l.ready /\ l.backup = Follower
      /\ l.store = <<>> /\ l.records = {} /\ l.pending = {}
  BY <1>1 DEF Init, InitialReplica
<1>4. /\ f.role = "backup" /\ f.epoch = 1 /\ f.reported
      /\ f.store = <<>> /\ f.records = {} /\ f.pending = {} /\ f.prepared = {}
  BY <1>1 DEF Init, InitialReplica
<1>5. /\ s.ready /\ s.epoch = 1 /\ s.backup = Follower
      /\ s.store = <<>> /\ s.records = {} /\ s.pending = {}
  BY <1>1 DEF Init, InitialReplica, Saved
<1>6. /\ Recording(l) /\ Recording(f)
      /\ \A op : ~Recorded(l, op) /\ ~Recorded(f, op)
  BY <1>3, <1>4 DEF Recording, Recorded, Applied
<1>7. Backed(l, s, f)
  BY <1>3, <1>4, <1>5, <1>6 DEF Backed, Follows, Prefix
<1>8. FormerLeader(l, f)
  BY <1>3, <1>6 DEF FormerLeader, PendingRecorded
<1>9. FormerLeader(Loaded(s), f)
  <2>. DEFINE q == Loaded(s)
  <2>1. /\ q.ready /\ q.backup = Follower /\ q.epoch = 1
        /\ q.records = {} /\ q.pending = {}
    BY <1>5 DEF Loaded
  <2>. HIDE DEF q
  <2>2. \A op : ~Recorded(q, op)
    BY <2>1 DEF Recorded
  <2>3. FormerLeader(q, f)
    BY <2>1, <2>2 DEF FormerLeader, PendingRecorded
  <2>. QED
    BY <2>3 DEF q
<1>10. \A n \in Node : booting[n].phase = "done"
  BY DEF Init, Booted
<1>11. WaitsAsPrimary /\ EvictsUnreliable
  BY ControllerAssumption DEF WaitsAsPrimary, EvictsUnreliable, Init, Free, Threads
<1>12. LeaderFails
  BY <1>1, <1>6, <1>8, <1>9, <1>10, <1>11
  DEF LeaderFails, Started, LateReplication, AckedIn, Init
<1>13. Following
  <2>1. \A n \in Node : replica[n].epoch = 1
    BY DEF Init, InitialReplica
  <2>2. StartsAsPrimary
    BY <1>1, <1>10 DEF StartsAsPrimary
  <2>. QED
    BY <1>1, <1>3, <1>7, <2>1, <2>2 DEF Following, Init
<1>14. Before
  <2>1. \A t \in Threads : threads[t].phase = "free"
    BY DEF Init, Free, Threads
  <2>2. assignment = Assign(Leader, 1, "ready", Follower) /\ assignment # NoAssignment
    <3>1. Reigns
      BY InitReigns
    <3>. QED
      BY <3>1 DEF Reigns, Init
  <2>3. nodes[Follower].synchronized_epoch = 1 /\ nodes[Follower] # NotRegistered
    <3>1. nodes[Follower] = [failures |-> 0, synchronized_epoch |-> 1]
      BY <1>1 DEF Init
    <3>2. nodes[Follower] \in ReplicaRecord
      BY <3>1, ControllerAssumption DEF ReplicaRecord
    <3>. QED
      BY <3>1, <3>2, SentinelAssumption
  <2>. QED
    BY <1>1, <2>1, <2>2, <2>3 DEF Before, Init, Detached, Members
<1>. QED
  BY <1>12, <1>13, <1>14 DEF Behind
(* The history is the store of h, which has a record of every               *)
(* acknowledgment: h is the leader, then the follower.                      *)
Keeper(h) ==
    /\ Recording(replica[h]) /\ AckedIn(replica[h])
    /\ History = replica[h].store

LEMMA LeaderKeeps == FInv /\ Behind => Keeper(Leader)
<1>. SUFFICES ASSUME FInv, Behind PROVE Keeper(Leader)
  OBVIOUS
<1>. DEFINE l == replica[Leader]
            f == replica[Follower]
            s == disk[Leader]
            P == {n \in Node : replica[n].role = "primary"}
            Newest(n, S) == \A m \in S : replica[m].epoch <= replica[n].epoch
<1>1. /\ Leader \in Node /\ Follower \in Node /\ acked \subseteq Op
      /\ l \in Replica /\ f \in Replica /\ l.epoch \in Nat
  BY LeaderAndFollower
<1>2. LeaderFails /\ Following /\ Backed(l, s, f) /\ Follows(f, l)
  BY DEF Behind, Following, Backed
<1>3. Recording(l)
  BY <1>2 DEF Backed
<1>4. AckedIn(l)
  <2>. SUFFICES ASSUME NEW op \in acked PROVE Recorded(l, op)
    BY DEF AckedIn
  <2>1. op \in Op /\ Applied(f.store, op)
    BY <1>1, <1>2 DEF LeaderFails, AckedIn, Recording
  <2>2. f.store \in Seq(Op) /\ l.store \in Seq(Op) /\ Prefix(f.store, l.store)
    BY <1>1, <1>2 DEF Follows, Replica
  <2>3. Applied(l.store, op)
    BY <2>1, <2>2, AppliedPrefix
  <2>. QED
    BY <1>3, <2>1, <2>3 DEF Recording
<1>5. Entitled(Leader, 1)
  <2>1. s.backup = Follower
    BY <1>2 DEF LeaderFails, FormerLeader, Loaded
  <2>2. s.ready /\ s.epoch = 1
    BY <1>2 DEF Backed
  <2>3. s.backup # NoNode /\ FitSnapshot(Leader, s)
    BY <1>1, <2>1, SentinelAssumption, ControllerAssumption DEF FInv, ReplicasFit
  <2>. QED
    BY <2>2, <2>3 DEF FitSnapshot
<1>6. \A n \in Node \ {Leader} : replica[n].role # "primary" /\ replica[n].epoch = 1
  <2>. SUFFICES ASSUME NEW n \in Node \ {Leader}, replica[n].role = "primary"
                PROVE  FALSE
    BY <1>2 DEF Following
  <2>1. Entitled(n, 1)
    BY <1>2 DEF Following, FInv, ReplicasFit, Fit
  <2>. QED
    BY <1>1, <1>5, <2>1 DEF FInv, OneEntitled
<1>7. CASE l.role = "primary"
  <2>1. P = {Leader}
    BY <1>1, <1>6, <1>7
  <2>2. (CHOOSE n \in P : Newest(n, P)) = Leader
    BY <1>1, <2>1
  <2>3. History = l.store
    BY <2>1, <2>2 DEF History
  <2>. QED
    BY <1>3, <1>4, <2>3 DEF Keeper
<1>8. CASE l.role # "primary"
  <2>1. P = {}
    BY <1>6, <1>8
  <2>2. l.epoch = 2
    BY <1>1, <1>2, <1>8 DEF Backed, Replica
  <2>3. (CHOOSE n \in Node : Newest(n, Node)) = Leader
    <3>1. Newest(Leader, Node)
      BY <1>6, <2>2
    <3>2. \A n \in Node : Newest(n, Node) => n = Leader
      <4>. SUFFICES ASSUME NEW n \in Node \ {Leader}, Newest(n, Node) PROVE FALSE
        OBVIOUS
      <4>1. replica[Leader].epoch <= replica[n].epoch
        BY <1>1
      <4>. QED
        BY <1>6, <2>2, <4>1
    <3>. QED
      BY <1>1, <3>1, <3>2
  <2>4. History = l.store
    BY <2>1, <2>3 DEF History
  <2>. QED
    BY <1>3, <1>4, <2>4 DEF Keeper
<1>. QED
  BY <1>7, <1>8

LEMMA FollowerKeeps == FInv /\ LeaderFails /\ Inherited => Keeper(Follower)
  BY NewestHistory, LeaderAndFollower
  DEF Keeper, HistoryIsHeld, LeaderFails, Inherited, Successor

(* The promotion of the follower drops the newest mutation at most, and     *)
(* only if no client was told of it.                                        *)
LEMMA FollowerDrops ==
    ASSUME FInv, Behind, History' = replica[Follower].store, UNCHANGED acked
    PROVE  [Ledger!FailoverNext]_Ledger!ledgerVars
<1>. DEFINE H == replica[Leader].store
            G == replica[Follower].store
<1>1. /\ replica[Leader] \in Replica /\ replica[Follower] \in Replica
      /\ acked \subseteq Op
  BY LeaderAndFollower
<1>2. Keeper(Leader)
  BY LeaderKeeps
<1>3. /\ H \in Seq(Op) /\ G \in Seq(Op) /\ Prefix(G, H)
      /\ Len(H) <= Len(G) + 1 /\ History = H /\ History' = G
  BY <1>1, <1>2 DEF Behind, Following, Backed, Follows, Keeper, Replica
<1>4. ASSUME NEW op \in acked
      PROVE  /\ Through(op)' = Through(op)
             /\ \E i \in 1..Len(G) : Through(op) = SubSeq(H, 1, i)
  <2>1. Applied(G, op)
    BY <1>1 DEF Behind, LeaderFails, AckedIn, Recording
  <2>2. PICK i \in 1..Len(G) : G[i] = op
    BY <2>1 DEF Applied
  <2>3. i \in 1..Len(H) /\ H[i] = op
    BY <1>3, <2>2 DEF Prefix
  <2>4. \A j \in 1..Len(H) : H[j] = op => j = i
    BY <1>2, <2>3 DEF Keeper, Recording
  <2>5. \A j \in 1..Len(G) : G[j] = op => j = i
    BY <1>3, <2>4 DEF Prefix
  <2>6. {j \in DOMAIN H : H[j] = op} = {i} /\ {j \in DOMAIN G : G[j] = op} = {i}
    BY <1>3, <2>2, <2>3, <2>4, <2>5
  <2>7. Through(op) = SubSeq(H, 1, i)
    BY <1>3, <2>6 DEF Through
  <2>8. Through(op)' = SubSeq(G, 1, i)
    BY <1>3, <2>6 DEF Through
  <2>9. SubSeq(G, 1, i) = SubSeq(H, 1, i)
    BY <1>3, <2>2, <2>3 DEF Prefix
  <2>. QED
    BY <2>7, <2>8, <2>9
<1>5. {Through(op) : op \in acked}' = {Through(op) : op \in acked}
  BY <1>4
<1>. HIDE DEF H, G
<1>6. CASE Len(H) = Len(G)
  <2>1. G = H
    BY <1>3, <1>6, PrefixEqual
  <2>. QED
    BY <1>3, <1>5, <2>1 DEF Ledger!ledgerVars
<1>7. CASE Len(H) = Len(G) + 1
  <2>1. H # <<>> /\ G = SubSeq(H, 1, Len(H) - 1)
    BY <1>3, <1>7 DEF Prefix
  <2>2. H \notin {Through(op) : op \in acked}
    <3>. SUFFICES ASSUME NEW op \in acked, H = Through(op) PROVE FALSE
      OBVIOUS
    <3>1. PICK i \in 1..Len(G) : H = SubSeq(H, 1, i)
      BY <1>4
    <3>2. Len(SubSeq(H, 1, i)) = i /\ Len(G) \in Nat
      BY <1>3, <1>7
    <3>. QED
      BY <1>7, <3>1, <3>2
  <2>3. Ledger!Droppable(H)
    BY <2>1, <2>2 DEF Ledger!Droppable
  <2>4. Ledger!FailOver
    BY <1>3, <1>5, <2>1, <2>3 DEF Ledger!FailOver
  <2>. QED
    BY <2>4 DEF Ledger!FailoverNext
<1>8. Len(H) \in Nat /\ Len(G) \in Nat /\ Len(G) <= Len(H)
  BY <1>3 DEF Prefix
<1>. QED
  BY <1>3, <1>6, <1>7, <1>8

-----------------------------------------------------------------------------
(* One replica may fail, whichever it is *)

(* The leader, which may fail, is followed by its backup, then succeeded.   *)
Succession == Behind \/ (LeaderFails /\ Inherited)

(* A step keeps the succession and is one of the ledger.                    *)
LEMMA SuccessionKept ==
    ASSUME Unreliable \subseteq {Leader}, FInv, Succession, Next
    PROVE  Succession' /\ [Ledger!FailoverNext]_Ledger!ledgerVars
<1>1. /\ Leader \in Node /\ Follower \in Node /\ FInv'
  BY NextInv, LeaderAndFollower
<1>2. /\ Behind' => Keeper(Leader)'
      /\ LeaderFails' /\ Inherited' => Keeper(Follower)'
  <2>1. FInv' /\ Behind' => Keeper(Leader)'
    BY LeaderKeeps, PTL
  <2>2. FInv' /\ LeaderFails' /\ Inherited' => Keeper(Follower)'
    BY FollowerKeeps, PTL
  <2>. QED
    BY <1>1, <2>1, <2>2
<1>3. CASE Behind /\ ~\E t \in Threads : BeginPromotion(t)
  <2>1. Behind' /\ Moves(Leader) /\ Keeper(Leader) /\ Keeper(Leader)'
    BY <1>2, <1>3, BehindKept, LeaderKeeps
  <2>. QED
    BY <1>1, <2>1, MovesLedger DEF Keeper, Succession
<1>4. ASSUME Behind, NEW t \in Threads, BeginPromotion(t)
      PROVE  Succession' /\ [Ledger!FailoverNext]_Ledger!ledgerVars
  <2>1. /\ LeaderFails' /\ Inherited' /\ UNCHANGED acked
        /\ replica'[Follower].store = replica[Follower].store
    BY <1>4, FollowerBegins
  <2>2. History' = replica[Follower].store
    BY <1>2, <2>1 DEF Keeper
  <2>. QED
    BY <1>4, <2>1, <2>2, FollowerDrops DEF Succession
<1>5. CASE LeaderFails /\ Inherited
  <2>1. /\ LeaderFails' /\ Inherited' /\ Moves(Follower)
        /\ Keeper(Follower) /\ Keeper(Follower)'
    BY <1>2, <1>5, InheritedKept, FollowerKeeps
  <2>. QED
    BY <1>1, <2>1, MovesLedger DEF Keeper, Succession
<1>. QED
  BY <1>3, <1>4, <1>5 DEF Succession

LEMMA BehindStutters ==
    ASSUME Behind, UNCHANGED vars
    PROVE  Behind'
<1>1. UNCHANGED <<nodes, assignment, last_primary_epoch, threads, replica, disk,
                  committing, acked, booting, syncs, late, published>>
  BY DEF vars, controllerVars, storageVars, syncVars
<1>2. LeaderFails'
  BY <1>1
  DEF Behind, LeaderFails, WaitsAsPrimary, PublishedAs, EvictsUnreliable,
      Started, LateReplication, AckedIn
<1>3. Following'
  BY <1>1 DEF Behind, Following, LateCall, StartsAsPrimary
<1>4. Before' \/ Electing'
  BY <1>1 DEF Behind, Before, Electing, Members
<1>. QED
  BY <1>2, <1>3, <1>4 DEF Behind

LEMMA InheritedStutters ==
    ASSUME LeaderFails, Inherited, UNCHANGED vars
    PROVE  LeaderFails' /\ Inherited'
<1>1. UNCHANGED <<nodes, assignment, last_primary_epoch, threads, replica, disk,
                  committing, acked, booting, syncs, late, published>>
  BY DEF vars, controllerVars, storageVars, syncVars
<1>2. LeaderFails'
  BY <1>1
  DEF LeaderFails, WaitsAsPrimary, PublishedAs, EvictsUnreliable, Started,
      LateReplication, AckedIn
<1>3. Inherited'
  BY <1>1
  DEF Inherited, Successor, Promoted, StartsAsPrimary, Assigned, Members
<1>. QED
  BY <1>2, <1>3

LEMMA SuccessionInv ==
    ASSUME Unreliable \subseteq {Leader}
    PROVE  Spec => [](FInv /\ Succession)
<1>1. Init => FInv /\ Succession
  BY InitInv, InitBehind DEF Succession
<1>2. FInv /\ Succession /\ [Next]_vars => (FInv /\ Succession)'
  BY NextInv, SuccessionKept, BehindStutters, InheritedStutters DEF Succession
<1>. QED
  BY <1>1, <1>2, PTL DEF Spec

LEMMA SuccessionIsDurable == FInv /\ Succession => AcknowledgedRecoverable
<1>. SUFFICES ASSUME FInv, Succession, PublishedPrimary # NoNode
              PROVE  AckedIn(replica[PublishedPrimary])
  BY DEF AcknowledgedRecoverable, AckedIn
<1>1. assignment # NoAssignment /\ assignment.status # "promoting"
      /\ PublishedPrimary = assignment.primary
  BY DEF PublishedPrimary
<1>2. CASE Behind
  <2>1. assignment = Assign(Leader, 1, "ready", Follower)
    BY <1>1, <1>2 DEF Behind, Before, Electing
  <2>2. PublishedPrimary = Leader
    BY <1>1, <2>1 DEF Assign
  <2>. QED
    BY <1>2, <2>2, LeaderKeeps DEF Keeper
<1>3. CASE LeaderFails /\ Inherited
  <2>1. PublishedPrimary = Follower
    BY <1>1, <1>3, NewestIsAssigned, LeaderAndFollower
    DEF NewestOwns, Inherited, Successor
  <2>. QED
    BY <1>3, <2>1 DEF LeaderFails
<1>. QED
  BY <1>2, <1>3 DEF Succession

(* README.md:71: no acknowledged mutation is lost when one replica fails,   *)
(* whichever it is: cut off at any moment, in the middle of a decision, a   *)
(* commit or its own succession, as often as it likes, restarted from an    *)
(* old snapshot as the primary it was, with requests of its former epoch    *)
(* still on their way.                                                      *)
THEOREM OneFailureIsDurable ==
    ASSUME NEW a, Unreliable \subseteq {a}
    PROVE  Spec => []AcknowledgedRecoverable
<1>1. CASE Leader \in Unreliable
  <2>1. Unreliable \subseteq {Leader}
    BY <1>1
  <2>. QED
    BY <2>1, SuccessionInv, SuccessionIsDurable, PTL
<1>2. CASE Leader \notin Unreliable
  BY <1>2, ReliablePrimaryIsDurable
<1>. QED
  BY <1>1, <1>2

(* And then the system is the ledger the auction service relies on, through *)
(* the promotion of the backup: that drops the newest mutation at most, and *)
(* only one that no client was told of.                                     *)
THEOREM OneFailureIsLedger ==
    ASSUME NEW a, Unreliable \subseteq {a}
    PROVE  Spec => LedgerSpec
<1>1. CASE Leader \in Unreliable
  <2>1. Unreliable \subseteq {Leader}
    BY <1>1
  <2>2. Init => Ledger!FailoverInit
    BY InitLedger
  <2>3. FInv /\ Succession /\ [Next]_vars => [Ledger!FailoverNext]_Ledger!ledgerVars
    BY <2>1, SuccessionKept, StutterLedger DEF vars, storageVars
  <2>. QED
    BY <2>1, <2>2, <2>3, SuccessionInv, PTL DEF Spec, LedgerSpec, Ledger!FailoverSpec
<1>2. CASE Leader \notin Unreliable
  BY <1>2, ReliablePrimaryIsLedger
<1>. QED
  BY <1>1, <1>2

-----------------------------------------------------------------------------
(* Stores that can go on without the primary.  Whoever the primary or the   *)
(* controller takes for its backup trails it, also when it handles late     *)
(* what it was asked to prepare or to commit.                               *)

(* A snapshot holds what its replica does.                                  *)
SnapshotsCurrent ==
    \A n \in Node : /\ disk[n].store = replica[n].store
                    /\ disk[n].prepared = replica[n].prepared

(* s is part of history t, but for its newest mutation, which t has too: a  *)
(* preparation that was handled late may have been committed out of order.  *)
Echoes(s, t) ==
    \A i \in 1..Len(s) :
      \/ i <= Len(t) /\ s[i] = t[i]
      \/ i = Len(s) /\ Applied(t, s[i])

(* p is a preparation, or a request for one, of its mutation after a part   *)
(* of history t.                                                            *)
Proposed(p, t) ==
    /\ p.candidate # <<>>
    /\ p.candidate[Len(p.candidate)] = p.op
    /\ \A i \in 1..(Len(p.candidate) - 1) :
         i <= Len(t) /\ p.candidate[i] = t[i]

Trails(n, h) ==
    /\ Echoes(replica[n].store, replica[h].store)
    /\ \A p \in replica[n].prepared : Proposed(p, replica[h].store)

(* What is still on its way to another replica is of the mutations of h.    *)
Concerns(m, h) ==
    /\ m.type = "prepare" => Proposed(m, replica[h].store)
    /\ m.type = "commit" => Applied(replica[h].store, m.op)

Underway(h) == LateReplication /\ \A m \in late : m.to # h => Concerns(m, h)

(* Replica n is somebody's backup of h, or will be when the report of its   *)
(* synchronization is believed.                                             *)
Designated(n, h) ==
    \/ replica[h].backup = n
    \/ Assigned("ready") /\ assignment.backup = n
    \/ Completing(n)
    \/ Reporting(n)

(* A copy that is still to be installed is of the history of h.             *)
Copies(h) ==
    \A s \in syncs : s.phase = "install" => Prefix(s.store, replica[h].store)

Protected(h) ==
    /\ Copies(h) /\ Underway(h)
    /\ Assigned("ready") => assignment.backup \in Node
    /\ \A n \in Node \ {h} : Designated(n, h) => Trails(n, h)

LEMMA PrefixEchoes ==
    ASSUME NEW s \in Seq(Op), NEW t \in Seq(Op), Prefix(s, t)
    PROVE  Echoes(s, t)
  BY DEF Prefix, Echoes

(* The history goes on.                                                     *)
LEMMA EchoesOn ==
    ASSUME NEW s \in Seq(Op), NEW t \in Seq(Op), NEW u \in Seq(Op),
           Echoes(s, t), Prefix(t, u)
    PROVE  Echoes(s, u)
<1>. SUFFICES ASSUME NEW i \in 1..Len(s)
              PROVE  \/ i <= Len(u) /\ s[i] = u[i]
                     \/ i = Len(s) /\ Applied(u, s[i])
  BY DEF Echoes
<1>1. CASE i <= Len(t) /\ s[i] = t[i]
  BY <1>1 DEF Prefix
<1>2. CASE i = Len(s) /\ Applied(t, s[i])
  BY <1>2, AppliedPrefix
<1>. QED
  BY <1>1, <1>2 DEF Echoes

LEMMA ProposedOn ==
    ASSUME NEW p, p.candidate \in Seq(Op), NEW t \in Seq(Op), NEW u \in Seq(Op),
           Proposed(p, t), Prefix(t, u)
    PROVE  Proposed(p, u)
  BY DEF Proposed, Prefix

(* What the holder of history t proposes.                                   *)
LEMMA ProposedNext ==
    ASSUME NEW t \in Seq(Op), NEW op \in Op, NEW u \in Seq(Op), Prefix(t, u),
           NEW p, p.op = op, p.candidate = Append(t, op)
    PROVE  Proposed(p, u)
<1>. DEFINE c == Append(t, op)
<1>1. /\ c # <<>> /\ c[Len(c)] = op /\ Len(c) - 1 = Len(t)
      /\ \A i \in 1..Len(t) : c[i] = t[i]
  BY AppendedLast
<1>. HIDE DEF c
<1>2. p.candidate = c
  BY DEF c
<1>. QED
  BY <1>1, <1>2 DEF Proposed, Prefix

(* A proposal of a mutation that h has may be committed.                    *)
LEMMA ProposalEchoes ==
    ASSUME NEW p, p.candidate \in Seq(Op), NEW t \in Seq(Op),
           Proposed(p, t), Applied(t, p.op)
    PROVE  Echoes(p.candidate, t)
  BY DEF Proposed, Echoes

(* A handler keeps the snapshot current.                                    *)
LEMMA SnapshotKept ==
    ASSUME FInv, SnapshotsCurrent, Next, NEW n \in Node
    PROVE  /\ disk'[n].store = replica'[n].store
           /\ disk'[n].prepared = replica'[n].prepared
<1>. DEFINE Current == /\ disk'[n].store = replica'[n].store
                       /\ disk'[n].prepared = replica'[n].prepared
<1>0. replica[n] \in Replica
  BY ReplicaFit
<1>1. ASSUME replica'[n].store = replica[n].store,
             replica'[n].prepared = replica[n].prepared, disk'[n] = disk[n]
      PROVE  Current
  BY <1>1 DEF SnapshotsCurrent
<1>2. ASSUME disk'[n] = Saved(replica'[n])
      PROVE  Current
  BY <1>2 DEF Saved
<1>3. CASE UNCHANGED storageVars
  BY <1>1, <1>3 DEF storageVars
<1>4. ASSUME NEW a \in Node, NEW op \in Op, PrepareAndDecide(a, op) PROVE Current
  <2>1. PICK b \in Node :
               /\ disk'[b] = Saved(replica'[b]) /\ disk'[a] = Saved(replica'[a])
               /\ Others({b, a})
    BY <1>4, PrepareAndDecideEffect DEF DecisionTaken
  <2>2. CASE n \in {a, b}
    BY <1>2, <2>1, <2>2
  <2>3. CASE n \notin {a, b}
    BY <1>1, <2>1, <2>3 DEF Others
  <2>. QED
    BY <2>2, <2>3
<1>5. ASSUME NEW a \in Node, NEW op \in Op,
             ResumePendingCommit(a, op) \/ ReplayResponse(a, op) PROVE Current
  BY <1>1, <1>5 DEF ResumePendingCommit, ReplayResponse
<1>6. ASSUME NEW a \in Node, CommitAnswered(a) PROVE Current
  <2>1. PICK b \in Node \ {a} :
               /\ disk'[b] = IF replica'[b] = replica[b] THEN disk[b]
                             ELSE Saved(replica'[b])
               /\ Others({b, a})
               /\ \/ replica'[a] = replica[a] /\ disk'[a] = disk[a]
                  \/ /\ disk'[a] \in {disk[a], Saved(replica'[a])}
                     /\ replica'[a] # replica[a] => disk'[a] = Saved(replica'[a])
    <3>. DEFINE op == committing[a]
                d == CHOOSE x \in PendingFor(replica[a], op) : TRUE
                m == Decision("commit", a, d.backup, op, d.epoch)
    <3>1. /\ d.backup \in Node \ {a}
          /\ replica'[d.backup] = CommitPreparedMutation(replica[d.backup], m)
          /\ disk'[d.backup] = IF CommitPreparedMutation(replica[d.backup], m)
                                    = replica[d.backup]
                               THEN disk[d.backup]
                               ELSE Saved(CommitPreparedMutation(replica[d.backup], m))
          /\ Others({d.backup, a})
          /\ \/ replica'[a] = replica[a] /\ disk'[a] = disk[a]
             \/ /\ disk'[a] \in {disk[a], Saved(replica'[a])}
                /\ replica'[a] # replica[a] => disk'[a] = Saved(replica'[a])
      BY <1>6, CommitAnsweredEffect
    <3>. HIDE DEF op, d, m
    <3>. QED
      BY <3>1
  <2>2. CASE n \in {a, b}
    BY <1>1, <1>2, <2>1, <2>2
  <2>3. CASE n \notin {a, b}
    BY <1>1, <2>1, <2>3 DEF Others
  <2>. QED
    BY <2>2, <2>3
<1>7. ASSUME NEW a \in Node, CommitUnanswered(a) PROVE Current
  BY <1>1, <1>7 DEF CommitUnanswered
<1>8. ASSUME NEW a \in Node, NEW q, Handles(a, q) PROVE Current
  <2>1. /\ replica'[a] = q /\ Others({a})
        /\ disk'[a] = IF q = replica[a] THEN disk[a] ELSE Saved(q)
    BY <1>8, HandledOtherwise
  <2>2. CASE n # a
    BY <1>1, <2>1, <2>2 DEF Others
  <2>3. CASE n = a
    BY <1>1, <1>2, <2>1, <2>3
  <2>. QED
    BY <2>2, <2>3
<1>9. ASSUME NEW s \in syncs, Install(s) PROVE Current
  <2>1. \/ replica'[n] = replica[n] /\ disk'[n] = disk[n]
        \/ disk'[n] = Saved(replica'[n])
    BY <1>9, InstallEffect DEF Others
  <2>. QED
    BY <1>1, <1>2, <2>1
<1>10. ASSUME NEW s \in syncs, SynchronizationEnds(s) PROVE Current
  <2>1. \/ replica'[n] = replica[n]
        \/ replica'[n] = Synchronized(replica[n], s.epoch)
    BY <1>10, SynchronizationEndsEffect DEF Others
  <2>2. /\ Synchronized(replica[n], s.epoch).store = replica[n].store
        /\ Synchronized(replica[n], s.epoch).prepared = replica[n].prepared
    BY <1>0 DEF Synchronized, Replica
  <2>3. UNCHANGED disk
    BY <1>10, SynchronizationEndsEffect
  <2>. QED
    BY <1>1, <2>1, <2>2, <2>3
<1>11. ASSUME NEW a \in Node, Restart(a) PROVE Current
  <2>1. /\ n = a => replica'[n] = Loaded(disk[n])
        /\ n # a => replica'[n] = replica[n]
        /\ UNCHANGED disk
    BY <1>11, RestartEffect DEF Others
  <2>2. Loaded(disk[n]).store = disk[n].store /\ Loaded(disk[n]).prepared = disk[n].prepared
    BY DEF Loaded
  <2>. QED
    BY <1>1, <2>1, <2>2 DEF SnapshotsCurrent
<1>12. ASSUME NEW a \in Node, BootRegistered(a) PROVE Current
  <2>1. /\ n = a => replica'[n] = Registered(replica[n], booting[n])
        /\ n # a => replica'[n] = replica[n]
        /\ UNCHANGED disk
    BY <1>12, BootRegisteredEffect DEF Others
  <2>2. /\ Registered(replica[n], booting[n]).store = replica[n].store
        /\ Registered(replica[n], booting[n]).prepared = replica[n].prepared
    BY <1>0 DEF Registered, Replica
  <2>. QED
    BY <1>1, <2>1, <2>2
<1>. QED
  BY <1>3, <1>4, <1>5, <1>6, <1>7, <1>8, <1>9, <1>10, <1>11, <1>12, StorageSteps

LEMMA SnapshotsKept ==
    ASSUME FInv, SnapshotsCurrent, Next
    PROVE  SnapshotsCurrent'
  BY SnapshotKept DEF SnapshotsCurrent

LEMMA InitSnapshots ==
    ASSUME Init
    PROVE  SnapshotsCurrent
  BY DEF Init, SnapshotsCurrent, InitialReplica, Saved

(* Which action a step of the storage is of.                                *)
LEMMA StorageActions ==
    ASSUME FInv, Next
    PROVE  \/ UNCHANGED storageVars
           \/ \E n \in Node, op \in Op :
                \/ PrepareAndDecide(n, op) \/ ResumePendingCommit(n, op)
                \/ ReplayResponse(n, op)
           \/ \E n \in Node, op \in Op : PrepareRefused(n, op) \/ PrepareUnanswered(n, op)
           \/ \E n \in Node : CommitAnswered(n) \/ CommitUnanswered(n)
           \/ \E t \in Threads : BeginPromotion(t) \/ CompletePromotion(t)
           \/ \E s \in syncs : Install(s) \/ SynchronizationEnds(s)
           \/ \E n \in Node : Restart(n) \/ BootRegistered(n)
           \/ \E m \in late : LateHandler(m)
<1>1. \/ \E n \in Node : ReplicaStep(n)
      \/ \E t \in Threads : RpcStep(t)
      \/ \E s \in syncs : SyncStep(s)
      \/ \E m \in late : LateHandler(m)
      \/ ControllerStep
  BY ThreadsAre DEF Next
<1>2. ASSUME NEW n \in Node, Reregister(n) \/ ProbeAnswered(n) \/ ProbeUnanswered(n)
                             \/ BootRegister(n) \/ BootLookup(n)
      PROVE  UNCHANGED storageVars
  BY <1>2 DEF Reregister, ProbeAnswered, ProbeUnanswered, BootRegister, BootLookup
<1>3. ASSUME NEW t \in Threads, RpcStep(t), ~BeginPromotion(t), ~CompletePromotion(t)
      PROVE  UNCHANGED storageVars
  BY <1>3 DEF RpcStep, BeginUnanswered, ConfirmPromotion, ConfirmUnanswered,
     CompleteUnanswered, StartSynchronization, SynchronizationUnanswered
<1>4. ASSUME NEW s \in syncs, ReportCompletion(s) \/ ReportUnanswered(s)
      PROVE  UNCHANGED storageVars
  BY <1>4 DEF ReportCompletion, ReportUnanswered
<1>. QED
  BY <1>1, <1>2, <1>3, <1>4 DEF ReplicaStep, SyncStep, ControllerStep

(* Which requests a step leaves behind.                                     *)
LEMMA LateSteps ==
    ASSUME FInv, Next, NEW m \in late'
    PROVE  \/ m \in late
           \/ \E n \in Node, op \in Op :
                /\ PrepareUnanswered(n, op)
                /\ \/ m = Prepare(n, replica[n].backup, op)
                   \/ m = Decision("abort", n, replica[n].backup, op, replica[n].epoch)
           \/ \E n \in Node :
                /\ CommitUnanswered(n)
                /\ \E d \in replica[n].pending :
                     /\ d.op = committing[n]
                     /\ m = Decision("commit", n, d.backup, d.op, d.epoch)
           \/ \E t \in Threads : BeginUnanswered(t) \/ CompleteUnanswered(t)
<1>1. ASSUME NEW n \in Node, ReplicaStep(n), m \notin late
      PROVE  \/ \E op \in Op :
                  /\ PrepareUnanswered(n, op)
                  /\ \/ m = Prepare(n, replica[n].backup, op)
                     \/ m = Decision("abort", n, replica[n].backup, op, replica[n].epoch)
             \/ /\ CommitUnanswered(n)
                /\ \E d \in replica[n].pending :
                     /\ d.op = committing[n]
                     /\ m = Decision("commit", n, d.backup, d.op, d.epoch)
  <2>1. ASSUME NEW op \in Op, PrepareUnanswered(n, op)
        PROVE  \/ m = Prepare(n, replica[n].backup, op)
               \/ m = Decision("abort", n, replica[n].backup, op, replica[n].epoch)
    BY <1>1, <2>1 DEF PrepareUnanswered, NeverAnswered
  <2>2. ASSUME CommitUnanswered(n)
        PROVE  \E d \in replica[n].pending :
                 /\ d.op = committing[n]
                 /\ m = Decision("commit", n, d.backup, d.op, d.epoch)
    <3>. DEFINE op == committing[n]
                d == CHOOSE x \in PendingFor(replica[n], op) : TRUE
    <3>1. op # NoOp /\ PendingFor(replica[n], op) # {}
      BY <2>2 DEF CommitUnanswered, FInv, DecisionsKept
    <3>2. d \in replica[n].pending /\ d.op = op
      BY <3>1 DEF PendingFor
    <3>3. m = Decision("commit", n, d.backup, op, d.epoch)
      BY <1>1, <2>2 DEF CommitUnanswered, NeverAnswered
    <3>. HIDE DEF d
    <3>. QED
      BY <3>2, <3>3
  <2>3. CASE Restart(n)
    BY <1>1, <2>3 DEF Restart
  <2>4. CASE ~(\/ \E op \in Op : PrepareUnanswered(n, op)
               \/ CommitUnanswered(n) \/ Restart(n))
    BY <1>1, <2>4
    DEF ReplicaStep, PrepareAndDecide, PrepareRefused, ResumePendingCommit,
        ReplayResponse, CommitAnswered, Reregister, ProbeAnswered,
        ProbeUnanswered, BootRegister, BootRegistered, BootLookup
  <2>. QED
    BY <2>1, <2>2, <2>3, <2>4
<1>2. ASSUME NEW t \in Threads, RpcStep(t), ~BeginUnanswered(t), ~CompleteUnanswered(t)
      PROVE  UNCHANGED late
  BY <1>2
  DEF RpcStep, BeginPromotion, ConfirmPromotion, ConfirmUnanswered,
      CompletePromotion, StartSynchronization, SynchronizationUnanswered
<1>3. ASSUME NEW s \in syncs, SyncStep(s)
      PROVE  UNCHANGED late
  BY <1>3
  DEF SyncStep, Install, ReportCompletion, ReportUnanswered, SynchronizationEnds
<1>4. ASSUME NEW x \in late, LateHandler(x)
      PROVE  m \in late
  BY <1>4 DEF LateHandler
<1>5. ControllerStep => UNCHANGED late
  BY DEF ControllerStep
<1>. QED
  BY <1>1, <1>2, <1>3, <1>4, <1>5, ThreadsAre DEF Next

(* The store that h holds only grows.                                       *)
LEMMA HeldStoreGrows ==
    ASSUME FInv, NEW h \in Node, HolderStep(h)
    PROVE  Prefix(replica[h].store, replica'[h].store)
<1>1. replica[h].store \in Seq(Op)
  BY ReplicaFit
<1>. QED
  BY <1>1, PrefixReflexive, PrefixAppended DEF HolderStep, Moves

(* h is the one primary the controller works for, and started for good.     *)
Sole(h) ==
    /\ Holds(h) /\ WaitsAsPrimary
    /\ booting[h].phase = "done" /\ h \notin Unreliable
    /\ \A t \in Threads :
         threads[t].phase \notin Detached =>
           threads[t].primary = h /\ threads[t].epoch = last_primary_epoch

LEMMA SoleStep ==
    ASSUME FInv, NEW h \in Node, Sole(h), Next
    PROVE  HolderStep(h) /\ Prefix(replica[h].store, replica'[h].store)
  BY HolderKept, HeldStoreGrows, FailoverAssumption DEF Sole

(* A preparation without an effect at the primary that sent it.             *)
LEMMA PrepareUnansweredEffect ==
    ASSUME FInv, NEW n \in Node, NEW op \in Op,
           PrepareRefused(n, op) \/ PrepareUnanswered(n, op)
    PROVE  LET b == replica[n].backup
               p == Preparation(Prepare(n, b, op))
           IN /\ b \in Node /\ p \in PreparedMutation /\ p.op = op
              /\ p.candidate = Append(replica[n].store, op)
              /\ PublishedAs(n) /\ Others({b})
              /\ \/ replica'[b] = PrepareAuctionMutation(replica[b], p)
                 \/ \E d : replica'[b] = AbortPreparedMutation(replica[b], d)
<1>. DEFINE b == replica[n].backup
            prepare == Prepare(n, b, op)
            abort == Decision("abort", n, b, op, replica[n].epoch)
            p == Preparation(prepare)
<1>1. /\ b \in Node /\ p \in PreparedMutation /\ p.op = op
      /\ p.candidate = Append(replica[n].store, op)
  BY NewBackup, PrepareTyped
  DEF PrepareRefused, PrepareUnanswered, Preparation, Prepare
<1>2. PublishedAs(n)
  BY DEF PrepareRefused, PrepareUnanswered, New, Writable, PublishedAs
<1>3. \/ Save(b, AbortPreparedMutation(replica[b], prepare))
      \/ Save(b, AbortPreparedMutation(replica[b], abort))
      \/ Save(b, PrepareAuctionMutation(replica[b], p))
  BY DEF PrepareRefused, PrepareUnanswered
<1>. HIDE DEF prepare, abort, b, p
<1>4. \E q : /\ Save(b, q)
             /\ \/ q = PrepareAuctionMutation(replica[b], p)
                \/ \E d : q = AbortPreparedMutation(replica[b], d)
  BY <1>3
<1>5. /\ Others({b})
      /\ \/ replica'[b] = PrepareAuctionMutation(replica[b], p)
         \/ \E d : replica'[b] = AbortPreparedMutation(replica[b], d)
  BY <1>1, <1>4, SaveEffect
<1>. QED
  BY <1>1, <1>2, <1>5 DEF b, p, prepare

(* A replica trails h still when h goes on and what is new of its store and *)
(* of its preparations is of the history.                                   *)
LEMMA TrailsOn ==
    ASSUME FInv, FInv', NEW h \in Node, NEW n \in Node, Trails(n, h),
           Prefix(replica[h].store, replica'[h].store),
           \/ replica'[n].store = replica[n].store
           \/ Echoes(replica'[n].store, replica'[h].store),
           \A p \in replica'[n].prepared :
             p \in replica[n].prepared \/ Proposed(p, replica'[h].store)
    PROVE  Trails(n, h)'
<1>1. /\ replica[h].store \in Seq(Op) /\ replica[n].store \in Seq(Op)
      /\ replica[n] \in Replica
  BY ReplicaFit
<1>2. replica'[h].store \in Seq(Op)
  BY DEF FInv, ReplicasFit, Replica
<1>3. Echoes(replica'[n].store, replica'[h].store)
  BY <1>1, <1>2, EchoesOn DEF Trails
<1>4. ASSUME NEW p \in replica[n].prepared
      PROVE  Proposed(p, replica'[h].store)
  <2>1. p.candidate \in Seq(Op)
    BY <1>1 DEF Replica, PreparedMutation
  <2>. QED
    BY <1>1, <1>2, <2>1, ProposedOn DEF Trails
<1>. QED
  BY <1>3, <1>4 DEF Trails

(* What a handler of replication leaves at n when it is of the mutations of *)
(* h.                                                                       *)
Replayed(n, h) ==
    \/ \E p \in PreparedMutation :
         /\ Proposed(p, replica'[h].store)
         /\ replica'[n] = PrepareAuctionMutation(replica[n], p)
    \/ \E d : replica'[n] = AbortPreparedMutation(replica[n], d)
    \/ \E d : /\ d.op \in Op /\ Applied(replica[h].store, d.op)
              /\ replica'[n] = CommitPreparedMutation(replica[n], d)

LEMMA TrailsReplayed ==
    ASSUME FInv, FInv', NEW h \in Node, NEW n \in Node, Trails(n, h),
           Prefix(replica[h].store, replica'[h].store),
           replica'[n] = replica[n] \/ Replayed(n, h)
    PROVE  Trails(n, h)'
<1>0. replica[n] \in Replica /\ replica[h].store \in Seq(Op)
  BY ReplicaFit
<1>1. CASE replica'[n] = replica[n]
  BY <1>1, TrailsOn
<1>2. ASSUME NEW p \in PreparedMutation, Proposed(p, replica'[h].store),
             replica'[n] = PrepareAuctionMutation(replica[n], p)
      PROVE  Trails(n, h)'
  <2>1. /\ replica'[n].store = replica[n].store
        /\ replica'[n].prepared \subseteq replica[n].prepared \cup {p}
    BY <1>0, <1>2, PreparationData DEF SameData
  <2>. QED
    BY <1>2, <2>1, TrailsOn
<1>3. ASSUME NEW d, replica'[n] = AbortPreparedMutation(replica[n], d)
      PROVE  Trails(n, h)'
  <2>1. /\ replica'[n].store = replica[n].store
        /\ replica'[n].prepared \subseteq replica[n].prepared
    BY <1>0, <1>3, AbortData DEF SameData
  <2>. QED
    BY <2>1, TrailsOn
<1>4. ASSUME NEW d, d.op \in Op, Applied(replica[h].store, d.op),
             replica'[n] = CommitPreparedMutation(replica[n], d)
      PROVE  Trails(n, h)'
  <2>1. \/ replica'[n] = replica[n]
        \/ \E p \in replica[n].prepared :
             /\ p.op = d.op /\ replica'[n].store = p.candidate
             /\ replica'[n].prepared = replica[n].prepared \ {p}
    BY <1>0, <1>4, CommitData
  <2>2. ASSUME NEW p \in replica[n].prepared, p.op = d.op,
               replica'[n].store = p.candidate,
               replica'[n].prepared = replica[n].prepared \ {p}
        PROVE  Trails(n, h)'
    <3>1. p.candidate \in Seq(Op) /\ replica'[h].store \in Seq(Op)
      BY <1>0 DEF Replica, PreparedMutation, FInv, ReplicasFit
    <3>2. Echoes(p.candidate, replica[h].store)
      BY <1>0, <1>4, <2>2, <3>1, ProposalEchoes DEF Trails
    <3>3. Echoes(p.candidate, replica'[h].store)
      BY <1>0, <3>1, <3>2, EchoesOn
    <3>. QED
      BY <2>2, <3>3, TrailsOn
  <2>. QED
    BY <1>1, <2>1, <2>2
<1>. QED
  BY <1>1, <1>2, <1>3, <1>4 DEF Replayed

(* Only h itself proposes, decides and commits.                             *)
LEMMA DecisionReplayed ==
    ASSUME FInv, FInv', NEW h \in Node, Sole(h), NEW n \in Node \ {h},
           NEW a \in Node, NEW op \in Op, PrepareAndDecide(a, op), Next
    PROVE  replica'[n] = replica[n] \/ Replayed(n, h)
<1>. DEFINE b == replica[a].backup
            p == Preparation(Prepare(a, b, op))
<1>1. DecisionTaken(a, op, b, p)
  BY PrepareAndDecideEffect
<1>2. /\ b \in Node \ {a} /\ p \in PreparedMutation /\ p.op = op
      /\ p.candidate = Append(replica[a].store, op)
      /\ replica'[b] = PrepareAuctionMutation(replica[b], p)
      /\ Others({b, a})
  BY <1>1 DEF DecisionTaken
<1>. HIDE DEF p, b
<1>3. a = h
  BY HolderDecides DEF Sole
<1>4. /\ replica[h].store \in Seq(Op) /\ replica'[h].store \in Seq(Op)
      /\ Prefix(replica[h].store, replica'[h].store)
  BY SoleStep, ReplicaFit DEF FInv, ReplicasFit, Replica
<1>5. Proposed(p, replica'[h].store)
  BY <1>2, <1>3, <1>4, ProposedNext
<1>. QED
  BY <1>2, <1>3, <1>5 DEF Replayed, Others

LEMMA RefusalReplayed ==
    ASSUME FInv, FInv', NEW h \in Node, Sole(h), NEW n \in Node \ {h},
           NEW a \in Node, NEW op \in Op,
           PrepareRefused(a, op) \/ PrepareUnanswered(a, op), Next
    PROVE  replica'[n] = replica[n] \/ Replayed(n, h)
<1>. DEFINE b == replica[a].backup
            p == Preparation(Prepare(a, b, op))
<1>1. /\ b \in Node /\ p \in PreparedMutation /\ p.op = op
      /\ p.candidate = Append(replica[a].store, op)
      /\ PublishedAs(a) /\ Others({b})
      /\ \/ replica'[b] = PrepareAuctionMutation(replica[b], p)
         \/ \E d : replica'[b] = AbortPreparedMutation(replica[b], d)
  BY PrepareUnansweredEffect
<1>2. b # h => a = h
  BY <1>1 DEF Sole, Holds, Superseded
<1>. HIDE DEF p, b
<1>3. CASE b = h
  BY <1>1, <1>3 DEF Others
<1>4. CASE b # h
  <2>1. /\ replica[h].store \in Seq(Op) /\ replica'[h].store \in Seq(Op)
        /\ Prefix(replica[h].store, replica'[h].store)
    BY SoleStep, ReplicaFit DEF FInv, ReplicasFit, Replica
  <2>2. Proposed(p, replica'[h].store)
    BY <1>1, <1>2, <1>4, <2>1, ProposedNext
  <2>. QED
    BY <1>1, <2>2 DEF Replayed, Others
<1>. QED
  BY <1>3, <1>4

(* A pending decision of h is of the history.                               *)
LEMMA PendingApplied ==
    ASSUME FInv, NEW h \in Node, Sole(h), NEW d \in replica[h].pending
    PROVE  d.op \in Op /\ Applied(replica[h].store, d.op)
<1>1. replica[h] \in Replica
  BY ReplicaFit
<1>2. d.op \in Op
  BY <1>1 DEF Replica, PendingCommit
<1>. QED
  BY <1>2 DEF Sole, Holds, Holding, PendingRecorded, Recording

LEMMA TrailsCommit ==
    ASSUME FInv, FInv', NEW h \in Node, Sole(h),
           NEW n \in Node \ {h}, Trails(n, h), NEW a \in Node, CommitAnswered(a), Next
    PROVE  Trails(n, h)'
<1>. DEFINE op == committing[a]
            d == CHOOSE x \in PendingFor(replica[a], op) : TRUE
            m == Decision("commit", a, d.backup, op, d.epoch)
            b == d.backup
<1>1. /\ op \in Op /\ d \in replica[a].pending /\ d.op = op /\ m.op = op
      /\ b \in Node \ {a}
      /\ replica'[b] = CommitPreparedMutation(replica[b], m)
      /\ Others({b, a})
      /\ \/ replica'[a] = replica[a]
         \/ replica'[a] = Acknowledged(replica[a], op)
  BY CommitAnsweredEffect
<1>2. op # NoOp
  BY DEF CommitAnswered
<1>3. PublishedAs(a)
  BY <1>2 DEF Sole, WaitsAsPrimary
<1>4. a = h \/ b = h
  BY <1>1, <1>3 DEF Sole, Holds, Superseded
<1>. HIDE DEF op, d, m, b
<1>5. Prefix(replica[h].store, replica'[h].store)
  BY SoleStep
<1>6. CASE a = h
  <2>1. Applied(replica[h].store, m.op)
    BY <1>1, <1>6, PendingApplied
  <2>. QED
    BY <1>1, <1>5, <1>6, <2>1, TrailsReplayed DEF Replayed, Others
<1>7. CASE n = a
  <2>1. /\ replica'[n].store = replica[n].store
        /\ replica'[n].prepared = replica[n].prepared
    BY <1>1, <1>7, ReplicaFit, AcknowledgmentData
  <2>. QED
    BY <1>5, <2>1, TrailsOn
<1>8. CASE n # a /\ b = h
  BY <1>1, <1>5, <1>8, TrailsReplayed DEF Others
<1>. QED
  BY <1>4, <1>6, <1>7, <1>8

(* A request handled late is of the mutations of h.                         *)
LEMMA LateReplayed ==
    ASSUME FInv, FInv', NEW h \in Node, Sole(h), Underway(h), NEW n \in Node \ {h},
           NEW m \in late, LateHandler(m), Next
    PROVE  replica'[n] = replica[n] \/ Replayed(n, h)
<1>1. m \in Request /\ m.type \in {"prepare", "commit", "abort"}
  BY DEF Underway, LateReplication, FInv, FitRequest
<1>2. m.to \in Node /\ replica'[m.to] = Handled(m) /\ Others({m.to})
  BY LateHandlerHandles, HandledOtherwise
<1>3. CASE m.to # n
  BY <1>2, <1>3 DEF Others
<1>4. CASE m.to = n
  <2>1. Concerns(m, h)
    BY <1>4 DEF Underway
  <2>2. CASE m.type = "prepare"
    <3>. DEFINE p == Preparation(m)
    <3>1. m \in PrepareRequest
      BY <1>1, <2>2 DEF Request, DecisionRequest, BeginRequest, CompleteRequest
    <3>2. /\ p \in PreparedMutation /\ p.candidate \in Seq(Op)
          /\ p.op = m.op /\ p.candidate = m.candidate
      BY <3>1 DEF PrepareRequest, Preparation, PreparedMutation
    <3>3. replica'[n] = PrepareAuctionMutation(replica[n], p)
      BY <1>2, <1>4, <2>2 DEF Handled
    <3>. HIDE DEF p
    <3>4. Proposed(p, replica[h].store)
      BY <2>1, <2>2, <3>2 DEF Concerns, Proposed
    <3>5. /\ replica[h].store \in Seq(Op) /\ replica'[h].store \in Seq(Op)
          /\ Prefix(replica[h].store, replica'[h].store)
      BY SoleStep, ReplicaFit DEF FInv, ReplicasFit, Replica
    <3>6. Proposed(p, replica'[h].store)
      BY <3>2, <3>4, <3>5, ProposedOn
    <3>. QED
      BY <3>2, <3>3, <3>6 DEF Replayed
  <2>3. CASE m.type = "commit"
    <3>1. m.op \in Op
      BY <1>1, <2>3 DEF Request, PrepareRequest, DecisionRequest, BeginRequest,
                        CompleteRequest
    <3>2. replica'[n] = CommitPreparedMutation(replica[n], m)
      BY <1>2, <1>4, <2>3 DEF Handled
    <3>. QED
      BY <2>1, <2>3, <3>1, <3>2 DEF Concerns, Replayed
  <2>4. CASE m.type = "abort"
    BY <1>2, <1>4, <2>4 DEF Handled, Replayed
  <2>. QED
    BY <1>1, <2>2, <2>3, <2>4
<1>. QED
  BY <1>3, <1>4

(* A replica that installed a copy trails h from then on.                   *)
LEMMA InstalledTrails ==
    ASSUME FInv, FInv', NEW h \in Node, Sole(h), Copies(h), NEW s \in syncs,
           Install(s), Synchronizable(replica[s.node], s.epoch)
    PROVE  s.node # h /\ Trails(s.node, h)'
<1>1. s.node # h
  BY DEF Synchronizable, Sole, Holds, Holding
<1>2. s.node \in Node /\ replica[s.node] \in Replica
  BY InstallEffect, ReplicaFit
<1>3. replica' = [replica EXCEPT ![s.node] =
         ReplaceWithFullState(replica[s.node], s.epoch, s.store, s.records)]
  BY DEF Install
<1>4. /\ replica'[s.node] = ReplaceWithFullState(replica[s.node], s.epoch,
                                                s.store, s.records)
      /\ replica'[h] = replica[h]
  BY <1>1, <1>2, <1>3 DEF FInv, ReplicasFit
<1>5. replica'[s.node].store = s.store /\ replica'[s.node].prepared = {}
  BY <1>2, <1>4 DEF ReplaceWithFullState, Replica
<1>6. s.store \in Seq(Op) /\ replica[h].store \in Seq(Op)
  BY SyncsFit, ReplicaFit DEF Synchronization
<1>7. Echoes(s.store, replica[h].store)
  BY <1>6, PrefixEchoes DEF Copies, Install
<1>. QED
  BY <1>1, <1>4, <1>5, <1>7 DEF Trails

(* Whoever trails h does so while h is the one primary.                     *)
LEMMA TrailsKept ==
    ASSUME FInv, FInv', SnapshotsCurrent, NEW h \in Node, Sole(h), Copies(h),
           Underway(h), NEW n \in Node \ {h}, Trails(n, h), Next
    PROVE  Trails(n, h)'
<1>0. /\ replica[h] \in Replica /\ replica[n] \in Replica
      /\ Prefix(replica[h].store, replica'[h].store)
  BY ReplicaFit, SoleStep
<1>1. ASSUME replica'[n] = replica[n] \/ Replayed(n, h)
      PROVE  Trails(n, h)'
  BY <1>0, <1>1, TrailsReplayed
<1>2. ASSUME replica'[n].store = replica[n].store,
             replica'[n].prepared = replica[n].prepared
      PROVE  Trails(n, h)'
  BY <1>0, <1>2, TrailsOn
<1>3. ASSUME NEW a \in Node, NEW op \in Op,
             \/ PrepareAndDecide(a, op)
             \/ PrepareRefused(a, op) \/ PrepareUnanswered(a, op)
      PROVE  Trails(n, h)'
  BY <1>1, <1>3, DecisionReplayed, RefusalReplayed
<1>4. ASSUME NEW a \in Node, CommitAnswered(a)
      PROVE  Trails(n, h)'
  BY <1>4, TrailsCommit
<1>5. ASSUME NEW t \in Threads, BeginPromotion(t) \/ CompletePromotion(t)
      PROVE  Trails(n, h)'
  <2>1. threads[t].primary = h
    BY <1>5 DEF BeginPromotion, CompletePromotion, Detached, Sole
  <2>2. Others({h})
    BY <1>5, <2>1, SaveEffect DEF BeginPromotion, CompletePromotion
  <2>. QED
    BY <1>1, <2>2 DEF Others
<1>6. ASSUME NEW s \in syncs, Install(s)
      PROVE  Trails(n, h)'
  <2>1. CASE s.node = n /\ replica' # replica
    BY <1>6, <2>1, InstalledTrails DEF Install
  <2>2. CASE s.node # n \/ replica' = replica
    BY <1>1, <1>6, <2>2, InstallEffect DEF Others
  <2>. QED
    BY <2>1, <2>2
<1>7. ASSUME NEW s \in syncs, SynchronizationEnds(s)
      PROVE  Trails(n, h)'
  <2>1. \/ replica'[n] = replica[n]
        \/ replica'[n] = Synchronized(replica[n], s.epoch)
    BY <1>7, SynchronizationEndsEffect DEF Others
  <2>. QED
    BY <1>0, <1>2, <2>1 DEF Synchronized, Replica
<1>8. ASSUME NEW a \in Node, Restart(a)
      PROVE  Trails(n, h)'
  <2>1. replica'[n] = replica[n] \/ replica'[n] = Loaded(disk[n])
    BY <1>8, RestartEffect DEF Others
  <2>. QED
    BY <1>2, <2>1 DEF Loaded, SnapshotsCurrent
<1>9. ASSUME NEW a \in Node, BootRegistered(a)
      PROVE  Trails(n, h)'
  <2>1. replica'[n] = replica[n] \/ replica'[n] = Registered(replica[n], booting[n])
    BY <1>9, BootRegisteredEffect DEF Others
  <2>. QED
    BY <1>0, <1>2, <2>1 DEF Registered, Replica
<1>10. ASSUME NEW m \in late, LateHandler(m)
       PROVE  Trails(n, h)'
  BY <1>1, <1>10, LateReplayed
<1>11. CASE UNCHANGED replica
  BY <1>1, <1>11
<1>12. \/ UNCHANGED replica
       \/ \E a \in Node, op \in Op :
            \/ PrepareAndDecide(a, op)
            \/ PrepareRefused(a, op) \/ PrepareUnanswered(a, op)
       \/ \E a \in Node : CommitAnswered(a)
       \/ \E t \in Threads : BeginPromotion(t) \/ CompletePromotion(t)
       \/ \E s \in syncs : Install(s) \/ SynchronizationEnds(s)
       \/ \E a \in Node : Restart(a) \/ BootRegistered(a)
       \/ \E m \in late : LateHandler(m)
  BY StorageActions DEF storageVars, ResumePendingCommit, ReplayResponse,
     CommitUnanswered
<1>. QED
  BY <1>3, <1>4, <1>5, <1>6, <1>7, <1>8, <1>9, <1>10, <1>11, <1>12

(* What is on its way when h is the one primary is of its mutations, and no *)
(* promotion waits to be handled late.                                      *)
LEMMA UnderwayKept ==
    ASSUME FInv, FInv', NEW h \in Node, Sole(h), Underway(h), Next
    PROVE  Underway(h)'
<1>. DEFINE Sound(m) == /\ m.type \in {"prepare", "commit", "abort"}
                        /\ m.to # h => Concerns(m, h)'
<1>1. /\ replica[h].store \in Seq(Op) /\ replica'[h].store \in Seq(Op)
      /\ Prefix(replica[h].store, replica'[h].store)
  BY SoleStep, ReplicaFit DEF FInv, ReplicasFit, Replica
<1>2. ASSUME NEW m \in late
      PROVE  Sound(m)
  <2>1. m \in Request /\ m.type \in {"prepare", "commit", "abort"}
    BY DEF Underway, LateReplication, FInv, FitRequest
  <2>2. ASSUME m.to # h, m.type = "prepare"
        PROVE  Proposed(m, replica'[h].store)
    <3>1. m.candidate \in Seq(Op)
      BY <2>1, <2>2
      DEF Request, PrepareRequest, DecisionRequest, BeginRequest, CompleteRequest
    <3>. QED
      BY <1>1, <2>2, <3>1, ProposedOn DEF Underway, Concerns
  <2>3. ASSUME m.to # h, m.type = "commit"
        PROVE  Applied(replica'[h].store, m.op)
    BY <1>1, <2>3, AppliedPrefix DEF Underway, Concerns
  <2>. QED
    BY <2>1, <2>2, <2>3 DEF Concerns
<1>3. ASSUME NEW a \in Node, NEW op \in Op, PrepareUnanswered(a, op), NEW m,
             \/ m = Prepare(a, replica[a].backup, op)
             \/ m = Decision("abort", a, replica[a].backup, op, replica[a].epoch)
      PROVE  Sound(m)
  <2>1. PublishedAs(a)
    BY <1>3 DEF PrepareUnanswered, New, Writable, PublishedAs
  <2>2. replica[a].backup # h => a = h
    BY <2>1 DEF Sole, Holds, Superseded
  <2>3. CASE m = Decision("abort", a, replica[a].backup, op, replica[a].epoch)
    BY <2>3 DEF Decision, Concerns
  <2>4. CASE m = Prepare(a, replica[a].backup, op)
    <3>1. /\ m.type = "prepare" /\ m.to = replica[a].backup /\ m.op = op
          /\ m.candidate = Append(replica[a].store, op)
      BY <2>4 DEF Prepare
    <3>2. m.to # h => Proposed(m, replica'[h].store)
      BY <1>1, <2>2, <3>1, ProposedNext
    <3>. QED
      BY <3>1, <3>2 DEF Concerns
  <2>. QED
    BY <1>3, <2>3, <2>4
<1>4. ASSUME NEW a \in Node, CommitUnanswered(a), NEW d \in replica[a].pending, NEW m,
             m = Decision("commit", a, d.backup, d.op, d.epoch)
      PROVE  Sound(m)
  <2>1. m.type = "commit" /\ m.to = d.backup /\ m.op = d.op
    BY <1>4 DEF Decision
  <2>2. PublishedAs(a)
    BY <1>4 DEF CommitUnanswered, Sole, WaitsAsPrimary
  <2>3. d.backup # h => a = h
    BY <2>2 DEF Sole, Holds, Superseded
  <2>4. m.to # h => Applied(replica'[h].store, m.op)
    BY <1>1, <2>1, <2>3, PendingApplied, AppliedPrefix
  <2>. QED
    BY <2>1, <2>4 DEF Concerns
<1>5. ASSUME NEW t \in Threads, BeginUnanswered(t) \/ CompleteUnanswered(t)
      PROVE  FALSE
  BY <1>5 DEF BeginUnanswered, CompleteUnanswered, Sole, Detached
<1>6. ASSUME NEW m \in late'
      PROVE  Sound(m)
  <2>. HIDE DEF Sound
  <2>. QED
    BY <1>2, <1>3, <1>4, <1>5, <1>6, LateSteps
<1>. QED
  BY <1>6 DEF Underway, LateReplication

(* A copy to install was one, or is taken from the primary that is served;  *)
(* a report to send was one, or is of a copy just installed.                *)
SameCopy(s, u) == s.phase = u.phase /\ s.node = u.node /\ s.store = u.store

ServedCopy(u) ==
    \/ \E t \in Threads : /\ threads[t].phase \notin Detached
                          /\ u.store = replica[threads[t].primary].store
    \/ /\ assignment # NoAssignment
       /\ u.store = replica[assignment.primary].store

LEMMA CopySteps ==
    ASSUME FInv, Next, NEW u \in syncs', u.phase \in {"install", "report"}
    PROVE  \/ \E s \in syncs : SameCopy(s, u)
           \/ u.phase = "install" /\ ServedCopy(u)
           \/ /\ u.phase = "report"
              /\ \E s \in syncs : /\ Install(s) /\ u.node = s.node
                                  /\ Synchronizable(replica[s.node], s.epoch)
<1>. SUFFICES ASSUME ~\E s \in syncs : SameCopy(s, u)
              PROVE  \/ u.phase = "install" /\ ServedCopy(u)
                     \/ /\ u.phase = "report"
                        /\ \E s \in syncs : /\ Install(s) /\ u.node = s.node
                                            /\ Synchronizable(replica[s.node], s.epoch)
  OBVIOUS
<1>1. u \notin syncs
  BY DEF SameCopy
<1>2. \A n, p, e, c : /\ Fetched(n, p, e, c).phase = "install"
                      /\ Fetched(n, p, e, c).store = replica[p].store
  BY DEF Fetched
<1>3. \A s \in syncs : s \in Synchronization
  BY SyncsFit
<1>4. ASSUME NEW n \in Node, ReplicaStep(n)
      PROVE  u.phase = "install" /\ ServedCopy(u)
  <2>1. CASE Restart(n)
    <3>1. PICK s \in syncs :
            u = IF s.node = n THEN [s EXCEPT !.phase = "failed"] ELSE s
      BY <2>1 DEF Restart
    <3>. QED
      BY <1>1, <1>3, <3>1 DEF Synchronization
  <2>2. CASE BootLookup(n)
    <3>1. /\ PublishedPrimary # NoNode
          /\ syncs' = syncs \cup {Fetched(n, PublishedPrimary, assignment.epoch, Boot)}
      BY <1>1, <2>2 DEF BootLookup
    <3>2. assignment # NoAssignment /\ PublishedPrimary = assignment.primary
      BY <3>1 DEF PublishedPrimary, Assigned
    <3>. QED
      BY <1>1, <1>2, <3>1, <3>2 DEF ServedCopy
  <2>3. CASE ~Restart(n) /\ ~BootLookup(n)
    BY <1>1, <1>4, <2>3
    DEF ReplicaStep, PrepareAndDecide, PrepareRefused, PrepareUnanswered,
        ResumePendingCommit, ReplayResponse, CommitAnswered, CommitUnanswered,
        Reregister, ProbeAnswered, ProbeUnanswered, BootRegister,
        BootRegistered, syncVars
  <2>. QED
    BY <2>1, <2>2, <2>3
<1>5. ASSUME NEW t \in Threads, RpcStep(t)
      PROVE  u.phase = "install" /\ ServedCopy(u)
  <2>1. ~(BeginPromotion(t) \/ BeginUnanswered(t) \/ ConfirmPromotion(t)
          \/ ConfirmUnanswered(t))
    BY <1>1
    DEF BeginPromotion, BeginUnanswered, ConfirmPromotion, ConfirmUnanswered,
        syncVars
  <2>2. ~SynchronizationUnanswered(t)
    <3>1. SynchronizationUnanswered(t) =>
            \E s \in syncs : u = s \/ u = [s EXCEPT !.caller = Orphan]
      BY DEF SynchronizationUnanswered
    <3>2. \A s \in syncs : SameCopy(s, [s EXCEPT !.caller = Orphan])
      BY <1>3 DEF Synchronization, SameCopy
    <3>. QED
      BY <1>1, <3>1, <3>2
  <2>3. \A phase \in {"told", "failed"} : ~AnswerWaiting(threads[t], phase)
    <3>1. \A phase : AnswerWaiting(threads[t], phase) =>
            \E s \in syncs : u = s \/ u = [s EXCEPT !.phase = phase]
      BY DEF AnswerWaiting
    <3>2. \A s \in syncs : \A phase : [s EXCEPT !.phase = phase].phase = phase
      BY <1>3 DEF Synchronization
    <3>. QED
      BY <1>1, <3>1, <3>2
  <2>4. ~CompletePromotion(t) /\ ~CompleteUnanswered(t)
    BY <2>3 DEF CompletePromotion, CompleteUnanswered
  <2>5. CASE StartSynchronization(t)
    <3>1. /\ Synchronizing(t)
          /\ u = Fetched(threads[t].backup, threads[t].primary, threads[t].epoch, t)
      BY <1>1, <2>5 DEF StartSynchronization
    <3>2. threads[t].phase \notin Detached
      BY <3>1 DEF Synchronizing, Detached
    <3>. QED
      BY <1>2, <3>1, <3>2 DEF ServedCopy
  <2>. QED
    BY <1>5, <2>1, <2>2, <2>4, <2>5 DEF RpcStep
<1>6. ASSUME NEW s \in syncs, SyncStep(s)
      PROVE  /\ u.phase = "report"
             /\ Install(s) /\ u.node = s.node
             /\ Synchronizable(replica[s.node], s.epoch)
  <2>1. s \in Synchronization
    BY <1>3
  <2>2. \A phase : [s EXCEPT !.phase = phase].phase = phase
    BY <2>1 DEF Synchronization
  <2>3. ~ \E phase \in {"waiting", "settled", "failed"} :
            syncs' = (syncs \ {s}) \cup {[s EXCEPT !.phase = phase]}
    <3>1. ASSUME NEW phase \in {"waiting", "settled", "failed"},
                 syncs' = (syncs \ {s}) \cup {[s EXCEPT !.phase = phase]}
          PROVE  FALSE
      BY <1>1, <2>2, <3>1
    <3>. QED
      BY <3>1
  <2>4. ~SynchronizationEnds(s)
    BY <1>1 DEF SynchronizationEnds
  <2>5. ~ReportCompletion(s) /\ ~ReportUnanswered(s)
    BY <2>3 DEF ReportCompletion, ReportUnanswered, To
  <2>6. Install(s)
    BY <1>6, <2>4, <2>5 DEF SyncStep
  <2>7. /\ Synchronizable(replica[s.node], s.epoch)
        /\ syncs' = (syncs \ {s}) \cup
             {[s EXCEPT !.phase = "report", !.store = <<>>, !.records = {}]}
    BY <2>3, <2>6 DEF Install, To
  <2>8. u = [s EXCEPT !.phase = "report", !.store = <<>>, !.records = {}]
    BY <1>1, <2>7
  <2>9. u.phase = "report" /\ u.node = s.node
    BY <2>1, <2>8 DEF Synchronization
  <2>. QED
    BY <2>6, <2>7, <2>9
<1>7. ASSUME NEW m \in late, LateHandler(m)
      PROVE  FALSE
  BY <1>1, <1>7 DEF LateHandler, syncVars
<1>8. ~ControllerStep
  BY <1>1 DEF ControllerStep, syncVars
<1>. QED
  BY <1>4, <1>5, <1>6, <1>7, <1>8, ThreadsAre DEF Next

(* Every copy is of the one history.                                        *)
LEMMA CopiesKept ==
    ASSUME FInv, FInv', NEW h \in Node, Sole(h), Copies(h), Next
    PROVE  Copies(h)'
<1>1. Prefix(replica[h].store, replica'[h].store)
  BY SoleStep
<1>2. replica[h].store \in Seq(Op) /\ replica'[h].store \in Seq(Op)
  BY DEF FInv, ReplicasFit, Replica
<1>3. assignment # NoAssignment => assignment.primary = h
  BY NewestIsAssigned DEF NewestOwns, Sole, Holds, Holding
<1>4. ASSUME NEW u \in syncs', u.phase = "install"
      PROVE  Prefix(u.store, replica'[h].store)
  <2>1. CASE ServedCopy(u)
    BY <1>1, <1>3, <2>1 DEF ServedCopy, Sole
  <2>2. CASE \E s \in syncs : SameCopy(s, u)
    <3>1. PICK s \in syncs : s.phase = "install" /\ s.store = u.store
      BY <1>4, <2>2 DEF SameCopy
    <3>2. u.store \in Seq(Op) /\ Prefix(u.store, replica[h].store)
      BY <3>1, SyncsFit DEF Copies, Synchronization
    <3>. QED
      BY <1>1, <1>2, <3>2, PrefixTransitive
  <2>. QED
    BY <1>4, <2>1, <2>2, CopySteps
<1>. QED
  BY <1>4 DEF Copies

(* Replication leaves the authority of a replica.                           *)
LEMMA ReplicationKeepsBackup ==
    ASSUME FInv, NEW n \in Node, NEW q, Replicating(n, q)
    PROVE  q.backup = replica[n].backup
<1>. DEFINE r == replica[n]
<1>0. r \in Replica
  BY ReplicaFit
<1>1. \A p \in PreparedMutation : SameAuthority(r, PrepareAuctionMutation(r, p))
  BY <1>0, PreparationStored
<1>2. \A d : SameData(r, AbortPreparedMutation(r, d))
  BY <1>0, AbortData
<1>3. \A d : d.op \in Op => SameAuthority(r, CommitPreparedMutation(r, d))
  BY <1>0, CommitStored
<1>. HIDE DEF r
<1>4. SameAuthority(r, q)
  BY <1>1, <1>2, <1>3 DEF Replicating, SameData, r
<1>. QED
  BY <1>4 DEF SameAuthority, r

(* A replica takes for its backup whom a completion names.                  *)
LEMMA BackupSteps ==
    ASSUME FInv, LateReplication, NEW h \in Node \ Restarting, Next
    PROVE  \/ replica'[h].backup = replica[h].backup
           \/ Completing(replica'[h].backup)
<1>0. replica[h] \in Replica
  BY ReplicaFit
<1>1. CASE UNCHANGED replica
  BY <1>1
<1>2. ASSUME NEW a \in Node, NEW op \in Op, PrepareAndDecide(a, op)
      PROVE  replica'[h].backup = replica[h].backup
  <2>. DEFINE b == replica[a].backup
              p == Preparation(Prepare(a, b, op))
  <2>1. DecisionTaken(a, op, b, p)
    BY <1>2, PrepareAndDecideEffect
  <2>2. /\ b \in Node \ {a} /\ p \in PreparedMutation
        /\ replica'[b] = PrepareAuctionMutation(replica[b], p)
        /\ replica'[a] = Decided(replica[a], p)
        /\ Others({b, a})
    BY <2>1 DEF DecisionTaken
  <2>. HIDE DEF p
  <2>3. SameAuthority(replica[a], Decided(replica[a], p))
    BY <2>2, ReplicaFit, DecisionStored
  <2>4. SameAuthority(replica[b], PrepareAuctionMutation(replica[b], p))
    BY <2>2, ReplicaFit, PreparationStored
  <2>. QED
    BY <2>2, <2>3, <2>4 DEF SameAuthority, Others
<1>3. ASSUME NEW a \in Node, NEW q, Replicating(a, q),
             replica'[a] = q, Others({a})
      PROVE  replica'[h].backup = replica[h].backup
  BY <1>3, ReplicationKeepsBackup DEF Others
<1>4. ASSUME NEW a \in Node, NEW op \in Op,
             PrepareRefused(a, op) \/ PrepareUnanswered(a, op)
      PROVE  replica'[h].backup = replica[h].backup
  <2>. DEFINE b == replica[a].backup
              p == Preparation(Prepare(a, b, op))
  <2>1. /\ b \in Node /\ p \in PreparedMutation /\ Others({b})
        /\ \/ replica'[b] = PrepareAuctionMutation(replica[b], p)
           \/ \E d : replica'[b] = AbortPreparedMutation(replica[b], d)
    BY <1>4, PrepareUnansweredEffect
  <2>. HIDE DEF p, b
  <2>2. replica'[b].backup = replica[b].backup
    <3>1. SameData(replica[b], PrepareAuctionMutation(replica[b], p))
      BY <2>1, ReplicaFit, PreparationData
    <3>2. \A d : SameData(replica[b], AbortPreparedMutation(replica[b], d))
      BY <2>1, ReplicaFit, AbortData
    <3>. QED
      BY <2>1, <3>1, <3>2 DEF SameData, SameAuthority
  <2>. QED
    BY <2>1, <2>2 DEF Others
<1>5. ASSUME NEW a \in Node, CommitAnswered(a)
      PROVE  replica'[h].backup = replica[h].backup
  <2>. DEFINE op == committing[a]
              d == CHOOSE x \in PendingFor(replica[a], op) : TRUE
              b == d.backup
              m == Decision("commit", a, b, op, d.epoch)
  <2>1. /\ b \in Node /\ m.op \in Op
        /\ replica'[b] = CommitPreparedMutation(replica[b], m)
        /\ Others({b, a})
        /\ \/ replica'[a] = replica[a]
           \/ replica'[a] = Acknowledged(replica[a], op)
    BY <1>5, CommitAnsweredEffect
  <2>. HIDE DEF m, b, d, op
  <2>2. SameAuthority(replica[b], CommitPreparedMutation(replica[b], m))
    BY <2>1, ReplicaFit, CommitStored
  <2>3. SameAuthority(replica[a], Acknowledged(replica[a], op))
    BY ReplicaFit, AcknowledgmentStored
  <2>. QED
    BY <2>1, <2>2, <2>3 DEF SameAuthority, Others
<1>6. ASSUME NEW m \in late, LateHandler(m)
      PROVE  replica'[h].backup = replica[h].backup
  <2>1. /\ m \in Request /\ m.type \in {"prepare", "commit", "abort"}
        /\ m \in PrepareRequest \cup DecisionRequest
    BY DEF LateReplication, FInv, FitRequest, Request, BeginRequest, CompleteRequest
  <2>2. m.to \in Node /\ replica'[m.to] = Handled(m) /\ Others({m.to})
    BY <1>6, LateHandlerHandles, HandledOtherwise
  <2>3. Replicating(m.to, Handled(m))
    <3>1. CASE m.type = "prepare"
      <4>1. Preparation(m) \in PreparedMutation
        BY <2>1, <3>1 DEF PrepareRequest, DecisionRequest, Preparation, PreparedMutation
      <4>. QED
        BY <3>1, <4>1 DEF Handled, Replicating
    <3>2. CASE m.type \in {"commit", "abort"}
      <4>1. m.op \in Op /\ m.primary \in Node
        BY <2>1 DEF PrepareRequest, DecisionRequest
      <4>2. \/ Handled(m) = CommitPreparedMutation(replica[m.to], m)
            \/ Handled(m) = AbortPreparedMutation(replica[m.to], m)
        BY <3>2 DEF Handled
      <4>. QED
        BY <4>1, <4>2 DEF Replicating
    <3>. QED
      BY <2>1, <3>1, <3>2
  <2>. QED
    BY <1>3, <2>2, <2>3
<1>7. ASSUME NEW t \in Threads, BeginPromotion(t) \/ CompletePromotion(t)
      PROVE  \/ replica'[h].backup = replica[h].backup
             \/ Completing(replica'[h].backup)
  <2>. DEFINE w == threads[t]
              q == IF w.phase = "begin"
                   THEN BeginPrimaryPromotion(replica[w.primary], w)
                   ELSE CompletePrimaryPromotion(replica[w.primary], Completion(w))
  <2>1. Handles(w.primary, q) /\ w.primary \in Node
    BY <1>7, PromotionHandles, ServingThread
    DEF BeginPromotion, CompletePromotion, Detached
  <2>. HIDE DEF q
  <2>2. replica'[w.primary] = q /\ Others({w.primary})
    BY <2>1, HandledOtherwise
  <2>3. CASE w.primary # h
    BY <2>2, <2>3 DEF Others
  <2>4. CASE w.primary = h /\ w.phase = "begin"
    BY <1>0, <2>2, <2>4 DEF BeginPrimaryPromotion, Replica, q
  <2>5. CASE w.primary = h /\ w.phase = "complete"
    <3>1. Completion(w).backup = w.backup
      BY DEF Completion
    <3>2. q.backup \in {replica[h].backup, w.backup}
      BY <1>0, <2>5, <3>1 DEF CompletePrimaryPromotion, Replica, q
    <3>. QED
      BY <2>2, <2>5, <3>2 DEF Completing
  <2>. QED
    BY <1>7, <2>3, <2>4, <2>5 DEF BeginPromotion, CompletePromotion
<1>8. ASSUME NEW s \in syncs, Install(s) \/ SynchronizationEnds(s)
      PROVE  replica'[h].backup = replica[h].backup
  <2>1. \/ replica'[h] = replica[h]
        \/ replica'[h] = ReplaceWithFullState(replica[h], s.epoch, s.store, s.records)
        \/ replica'[h] = Synchronized(replica[h], s.epoch)
    BY <1>8, InstallEffect, SynchronizationEndsEffect DEF Others
  <2>. QED
    BY <1>0, <2>1 DEF ReplaceWithFullState, Synchronized, Replica
<1>9. ASSUME NEW a \in Node, Restart(a) \/ BootRegistered(a)
      PROVE  replica'[h].backup = replica[h].backup
  <2>1. \/ replica'[h] = replica[h]
        \/ replica'[h] = Registered(replica[h], booting[h])
    BY <1>9, RestartEffect, BootRegisteredEffect DEF Others
  <2>. QED
    BY <1>0, <2>1 DEF Registered, Replica
<1>10. \/ UNCHANGED replica
       \/ \E a \in Node, op \in Op :
            \/ PrepareAndDecide(a, op)
            \/ PrepareRefused(a, op) \/ PrepareUnanswered(a, op)
       \/ \E a \in Node : CommitAnswered(a)
       \/ \E t \in Threads : BeginPromotion(t) \/ CompletePromotion(t)
       \/ \E s \in syncs : Install(s) \/ SynchronizationEnds(s)
       \/ \E a \in Node : Restart(a) \/ BootRegistered(a)
       \/ \E m \in late : LateHandler(m)
  BY StorageActions DEF storageVars, ResumePendingCommit, ReplayResponse,
     CommitUnanswered
<1>. QED
  BY <1>1, <1>2, <1>4, <1>5, <1>6, <1>7, <1>8, <1>9, <1>10

(* A registration without an assignment restores what the primary takes for *)
(* its backup.                                                              *)
LEMMA RestoredBackup ==
    ASSUME FInv, NEW h \in Node, Sole(h), Registers, assignment = NoAssignment,
           Assigned("ready")'
    PROVE  assignment'.backup = replica[h].backup /\ assignment'.backup \in Node
<1>1. PICK a \in Node : RegisterNode(a, Reported(replica[a]))
  BY DEF Registers
<1>. DEFINE r == Reported(replica[a])
<1>2. /\ r.role = replica[a].role /\ r.epoch = replica[a].epoch
      /\ r.epoch \in Nat /\ r.epoch <= last_primary_epoch
      /\ r.backup \in {replica[a].backup, NoNode}
      /\ r \in Report
  BY ReplicaFit, ReportRead DEF Reported, Fit
<1>3. RegisterNode(a, r)
  BY <1>1
<1>. HIDE DEF r
<1>4. last_primary_epoch \in Nat /\ last_primary_epoch > 0
  BY ReplicaFit DEF FInv, Sole, Holds
<1>. DEFINE members == [nodes EXCEPT ![a] =
                          [synchronized_epoch |->
                             IF ReportsSynchronized(a, r) THEN r.epoch ELSE 0,
                           failures |-> 0]]
            current == RecoveredAssignment(a, r, members, last_primary_epoch)
<1>5. \/ assignment' = current
      \/ /\ current # NoAssignment
         /\ assignment' \in {Unprotected(current),
                             [current EXCEPT !.attempted = @ \ {a}]}
  <2>1. ~(r.epoch > last_primary_epoch)
    BY <1>2, <1>4
  <2>. HIDE DEF current
  <2>. QED
    BY <1>3, <2>1 DEF RegisterNode, current
<1>. HIDE DEF members
<1>6. \/ current = NoAssignment
      \/ current = Assign(a, last_primary_epoch, "reprotecting", NoNode)
      \/ /\ current = Assign(a, last_primary_epoch, "ready", r.backup)
         /\ r.role = "primary" /\ r.epoch = last_primary_epoch /\ r.backup # NoNode
  BY <1>4 DEF RecoveredAssignment
<1>. HIDE DEF current
<1>. DEFINE u == Assign(a, last_primary_epoch, "reprotecting", NoNode)
            v == Assign(a, last_primary_epoch, "ready", r.backup)
<1>7. /\ u.status = "reprotecting" /\ [u EXCEPT !.attempted = @ \ {a}].status = "reprotecting"
      /\ Unprotected(u).status = "reprotecting"
      /\ v.backup = r.backup /\ [v EXCEPT !.attempted = @ \ {a}].backup = r.backup
      /\ Unprotected(v).status = "reprotecting"
  BY DEF Assign, Unprotected
<1>. HIDE DEF u, v
<1>8. /\ assignment'.backup = r.backup
      /\ r.role = "primary" /\ r.epoch = last_primary_epoch /\ r.backup # NoNode
  BY <1>5, <1>6, <1>7 DEF Assigned, u, v
<1>9. a = h
  <2>1. \A n \in {a, h} : Entitled(n, last_primary_epoch)
    BY <1>2, <1>8 DEF Entitled, Sole, Holds, Holding
  <2>. QED
    BY <1>4, <2>1 DEF FInv, OneEntitled
<1>10. replica[h].backup \in Node \cup {NoNode}
  BY ReplicaFit DEF Address
<1>. QED
  BY <1>2, <1>8, <1>9, <1>10

(* Whoever becomes somebody's backup of h has installed a copy just now, or *)
(* was on its way to be.                                                    *)
LEMMA DesignatedSteps ==
    ASSUME FInv, LateReplication, NEW h \in Node, Sole(h), Next, Quiet \/ Registers,
           NEW n, Designated(n, h)'
    PROVE  \/ Designated(n, h)
           \/ \E s \in syncs : /\ Install(s) /\ n = s.node
                               /\ Synchronizable(replica[s.node], s.epoch)
<1>1. CASE replica'[h].backup = n
  BY <1>1, BackupSteps, FailoverAssumption DEF Designated, Sole
<1>2. CASE Assigned("ready")' /\ assignment'.backup = n
  <2>1. CASE assignment # NoAssignment
    <3>1. SameBackup
      BY <2>1, RegistrationMoves DEF Quiet, Calm, AssignmentCalm
    <3>. QED
      BY <1>2, <3>1 DEF SameBackup, Designated
  <2>2. CASE assignment = NoAssignment /\ Quiet
    BY <1>2, <2>2 DEF Quiet, NobodyNew, SameOwner, Assigned
  <2>3. CASE assignment = NoAssignment /\ Registers
    BY <1>2, <2>3, RestoredBackup DEF Designated
  <2>. QED
    BY <2>1, <2>2, <2>3
<1>3. CASE Completing(n)'
  <2>1. ThreadsCalm
    BY RegistrationMoves DEF Quiet, Calm
  <2>2. PICK t \in Threads : threads'[t].phase = "complete" /\ threads'[t].backup = n
    BY <1>3 DEF Completing
  <2>3. threads'[t] = threads[t] \/ Reporting(n)
    BY <2>1, <2>2 DEF ThreadsCalm
  <2>. QED
    BY <2>2, <2>3 DEF Designated, Completing
<1>4. CASE Reporting(n)'
  <2>1. PICK u \in syncs' : u.phase = "report" /\ u.node = n
    BY <1>4 DEF Reporting
  <2>2. CASE \E s \in syncs : SameCopy(s, u)
    BY <2>1, <2>2 DEF SameCopy, Designated, Reporting
  <2>. QED
    BY <2>1, <2>2, CopySteps
<1>. QED
  BY <1>1, <1>2, <1>3, <1>4 DEF Designated

LEMMA ProtectedKept ==
    ASSUME FInv, FInv', SnapshotsCurrent, NEW h \in Node, Sole(h), Protected(h),
           Next, Quiet \/ Registers
    PROVE  Protected(h)'
<1>1. Copies(h) /\ Underway(h) /\ LateReplication
  BY DEF Protected, Underway
<1>2. Copies(h)' /\ Underway(h)'
  BY <1>1, CopiesKept, UnderwayKept
<1>4. ASSUME Assigned("ready")'
      PROVE  assignment'.backup \in Node
  <2>1. CASE assignment # NoAssignment
    <3>1. SameBackup
      BY <2>1, RegistrationMoves DEF Quiet, Calm, AssignmentCalm
    <3>2. \A b : Completing(b) => b \in Node
      BY ServingThread DEF Completing, Detached, Attending
    <3>. QED
      BY <1>4, <3>1, <3>2 DEF SameBackup, Protected
  <2>2. CASE assignment = NoAssignment /\ Quiet
    BY <1>4, <2>2 DEF Quiet, NobodyNew, SameOwner, Assigned
  <2>3. CASE assignment = NoAssignment /\ Registers
    BY <1>4, <2>3, RestoredBackup
  <2>. QED
    BY <2>1, <2>2, <2>3
<1>3. ASSUME NEW n \in Node \ {h}, Designated(n, h)'
      PROVE  Trails(n, h)'
  <2>1. CASE Designated(n, h)
    BY <1>1, <2>1, TrailsKept DEF Protected
  <2>2. ASSUME NEW s \in syncs, Install(s), n = s.node,
               Synchronizable(replica[s.node], s.epoch)
        PROVE  Trails(n, h)'
    BY <1>1, <2>2, InstalledTrails
  <2>. QED
    BY <1>1, <1>3, <2>1, <2>2, DesignatedSteps
<1>. QED
  BY <1>2, <1>3, <1>4 DEF Protected

(* A reliable first leader is the one primary, and the controller keeps it. *)
LEMMA ReignSole ==
    ASSUME Leader \notin Unreliable, FInv, Reigns
    PROVE  Leader \in Node /\ Sole(Leader)
<1>1. Leader \in Node /\ MaxEpoch \in Nat
  BY InitialReplicas, ControllerAssumption
<1>2. ASSUME NEW t \in Threads, threads[t].phase \notin Detached
      PROVE  threads[t].primary = Leader /\ threads[t].epoch = last_primary_epoch
  <2>1. threads[t].epoch = last_primary_epoch
    BY <1>1, <1>2, ServingThread DEF Reigns
  <2>. QED
    BY <1>1, <1>2, <2>1, NewestIsAssigned DEF NewestOwns, Reigns, Holds, Holding
<1>. QED
  BY <1>1, <1>2 DEF Sole, Reigns, Started

LEMMA FollowerSole ==
    ASSUME Unreliable \subseteq {Leader}, FInv, LeaderFails, Inherited
    PROVE  Follower \in Node /\ Sole(Follower)
<1>1. Follower \in Node \ {Leader} /\ Follower \notin Unreliable
  BY LeaderAndFollower
<1>2. WaitsAsPrimary /\ Started(Follower)
  BY <1>1 DEF LeaderFails
<1>. QED
  BY <1>1, <1>2, FollowerHolds DEF Sole, Started, Inherited

(* At the start every store is empty.                                       *)
LEMMA InitProtected ==
    ASSUME Init
    PROVE  Protected(Leader) /\ replica[Follower].backup = NoNode
<1>1. /\ Leader \in Node /\ Follower \in Node /\ Leader # Follower
      /\ syncs = {} /\ late = {} /\ assignment = Assign(Leader, 1, "ready", Follower)
      /\ replica = [n \in Node |-> InitialReplica(n)]
  BY InitialReplicas DEF Init
<1>2. \A n \in Node : replica[n].store = <<>> /\ replica[n].prepared = {}
  BY <1>1 DEF InitialReplica
<1>3. Echoes(<<>>, <<>>)
  BY DEF Echoes
<1>4. \A n \in Node : Trails(n, Leader)
  BY <1>1, <1>2, <1>3 DEF Trails
<1>5. assignment.backup = Follower
  BY <1>1 DEF Assign
<1>. QED
  BY <1>1, <1>4, <1>5
  DEF Protected, Copies, Underway, LateReplication, InitialReplica

LEMMA ProtectedStutters ==
    ASSUME UNCHANGED vars
    PROVE  /\ SnapshotsCurrent => SnapshotsCurrent'
           /\ \A h \in Node : Protected(h) => Protected(h)'
<1>1. UNCHANGED <<assignment, threads, replica, disk, syncs, late>>
  BY DEF vars, controllerVars, storageVars, syncVars
<1>. QED
  BY <1>1
  DEF SnapshotsCurrent, Protected, Copies, Underway, LateReplication, Concerns,
      Trails, Designated, Assigned, Completing, Reporting

(* A backup that echoes the published primary follows it.                   *)
LEMMA EchoFollows ==
    ASSUME FInv, NEW h \in Node, Recording(replica[h]), PublishedPrimary = h,
           NEW n \in Node, assignment.backup = n,
           Echoes(replica[n].store, replica[h].store)
    PROVE  ReadyBackupFollows
<1>. DEFINE p == replica[h]
            b == replica[n].store
<1>1. p.store \in Seq(Op) /\ b \in Seq(Op)
  BY ReplicaFit
<1>2. ASSUME NEW i \in DOMAIN b
      PROVE  \/ i \in DOMAIN p.store /\ b[i] = p.store[i]
             \/ i = Len(b) /\ Recorded(p, b[i])
  <2>1. i \in 1..Len(b) /\ b[i] \in Op /\ DOMAIN p.store = 1..Len(p.store)
    BY <1>1
  <2>2. \/ i <= Len(p.store) /\ b[i] = p.store[i]
        \/ i = Len(b) /\ Applied(p.store, b[i])
    BY <2>1 DEF Echoes
  <2>. QED
    BY <2>1, <2>2 DEF Recording
<1>. QED
  BY <1>2 DEF ReadyBackupFollows

(* The designated backup of h follows it.                                   *)
LEMMA ProtectedFollows ==
    ASSUME FInv, NEW h \in Node, Holds(h), Protected(h)
    PROVE  ReadyBackupFollows
<1>. SUFFICES ASSUME PublishedPrimary # NoNode
              PROVE  ReadyBackupFollows
  BY DEF ReadyBackupFollows
<1>. DEFINE n == assignment.backup
<1>1. PublishedPrimary = h /\ Assigned("ready")
  BY NewestIsAssigned DEF NewestOwns, PublishedPrimary, Assigned, Holds, Holding
<1>2. n \in Node
  BY <1>1 DEF Protected
<1>3. Echoes(replica[n].store, replica[h].store)
  <2>1. CASE n = h
    BY <2>1, ReplicaFit, PrefixReflexive, PrefixEchoes
  <2>2. CASE n # h
    BY <1>1, <1>2, <2>2 DEF Protected, Designated, Trails
  <2>. QED
    BY <2>1, <2>2
<1>. QED
  BY <1>1, <1>2, <1>3, EchoFollows DEF Holds, Holding

(* While the first leader is given up nobody is the follower's backup; when *)
(* it is primary, its backups trail it.                                     *)
Ahead ==
    \/ Behind /\ replica[Follower].backup = NoNode
    \/ LeaderFails /\ Inherited /\ Protected(Follower)

LEMMA BehindServesNobody ==
    ASSUME Behind
    PROVE  /\ syncs = {} /\ \A b : ~Completing(b) /\ ~Reporting(b)
           /\ \A t \in Threads : ~CompletePromotion(t)
  BY DEF Behind, Following, Before, Electing, Detached, Completing, Reporting,
     CompletePromotion

LEMMA AheadKept ==
    ASSUME Unreliable \subseteq {Leader}, FInv, FInv', SnapshotsCurrent, Ahead, Next
    PROVE  Ahead'
<1>0. Follower \in Node \ Restarting /\ Follower \in Node
  BY LeaderAndFollower, FailoverAssumption
<1>2. CASE Behind /\ replica[Follower].backup = NoNode
  <2>1. replica'[Follower].backup = NoNode
    BY <1>0, <1>2, BackupSteps, BehindServesNobody DEF Behind, LeaderFails
  <2>2. CASE ~\E t \in Threads : BeginPromotion(t)
    BY <1>2, <2>1, <2>2, BehindKept DEF Ahead
  <2>3. ASSUME NEW t \in Threads, BeginPromotion(t)
        PROVE  Ahead'
    <3>1. /\ LeaderFails' /\ Inherited' /\ UNCHANGED syncs
          /\ Assigned("promoting")' /\ \A b : ~Completing(b)'
      BY <1>2, <2>3, FollowerBegins
    <3>2. syncs' = {} /\ \A b : ~Reporting(b)'
      BY <1>2, <3>1, BehindServesNobody DEF Reporting
    <3>3. ~Assigned("ready")'
      BY <3>1 DEF Assigned
    <3>4. Underway(Follower)'
      <4>1. \A m \in late' : m.to = Follower
        BY <1>2, <2>3 DEF BeginPromotion, Behind, Following, LateCall
      <4>. QED
        BY <3>1, <4>1 DEF Underway, LeaderFails
    <3>5. \A n \in Node : ~Designated(n, Follower)'
      BY <2>1, <3>1, <3>2, <3>3, ControllerAssumption, SentinelAssumption DEF Designated
    <3>6. Protected(Follower)'
      BY <3>2, <3>3, <3>4, <3>5 DEF Protected, Copies
    <3>. QED
      BY <3>1, <3>6 DEF Ahead
  <2>. QED
    BY <2>2, <2>3
<1>3. CASE LeaderFails /\ Inherited /\ Protected(Follower)
  <2>1. LeaderFails' /\ Inherited'
    BY <1>3, InheritedKept
  <2>2. Protected(Follower)'
    BY <1>3, FollowerSole, InheritedController, ProtectedKept
  <2>. QED
    BY <2>1, <2>2 DEF Ahead
<1>. QED
  BY <1>2, <1>3 DEF Ahead

LEMMA ReignAheadKept ==
    ASSUME Leader \notin Unreliable,
           FInv, Reigns, SnapshotsCurrent, Protected(Leader), [Next]_vars
    PROVE  FInv' /\ Reigns' /\ SnapshotsCurrent' /\ Protected(Leader)'
<1>1. FInv'
  BY NextInv
<1>2. Leader \in Node /\ Sole(Leader)
  BY ReignSole
<1>3. CASE Next
  BY <1>1, <1>2, <1>3, ReignKept, SnapshotsKept, ReignController, ProtectedKept
<1>4. CASE UNCHANGED vars
  BY <1>1, <1>2, <1>4, ReignStutters, ProtectedStutters
<1>. QED
  BY <1>3, <1>4

(* The designated backup of a reliable primary holds a prefix of its store, *)
(* but for its newest mutation, which the primary has decided too, whatever *)
(* becomes of the other replicas and however late they handle what they     *)
(* were asked.                                                              *)
THEOREM ReliablePrimaryIsAhead ==
    ASSUME Leader \notin Unreliable
    PROVE  Spec => []ReadyBackupFollows
<1>1. Init => FInv /\ Reigns /\ SnapshotsCurrent /\ Protected(Leader)
  BY InitInv, InitReigns, InitSnapshots, InitProtected
<1>2. FInv /\ Reigns /\ SnapshotsCurrent /\ Protected(Leader) /\ [Next]_vars
        => (FInv /\ Reigns /\ SnapshotsCurrent /\ Protected(Leader))'
  BY ReignAheadKept
<1>3. FInv /\ Reigns /\ SnapshotsCurrent /\ Protected(Leader) => ReadyBackupFollows
  BY ProtectedFollows DEF Reigns, Holds
<1>. QED
  BY <1>1, <1>2, <1>3, PTL DEF Spec

LEMMA SuccessionAheadKept ==
    ASSUME Unreliable \subseteq {Leader},
           FInv, SnapshotsCurrent, Ahead, [Next]_vars
    PROVE  FInv' /\ SnapshotsCurrent' /\ Ahead'
<1>1. FInv'
  BY NextInv
<1>2. CASE Next
  BY <1>1, <1>2, SnapshotsKept, AheadKept
<1>3. CASE UNCHANGED vars
  <2>1. Follower \in Node /\ replica'[Follower] = replica[Follower]
    BY <1>3, LeaderAndFollower DEF vars, storageVars
  <2>. QED
    BY <1>1, <1>3, <2>1, BehindStutters, InheritedStutters, ProtectedStutters DEF Ahead
<1>. QED
  BY <1>2, <1>3

(* The follower follows the leader it is designated by.                     *)
LEMMA AheadFollows == FInv /\ Ahead => ReadyBackupFollows
<1>. SUFFICES ASSUME FInv, Ahead PROVE ReadyBackupFollows
  OBVIOUS
<1>1. CASE LeaderFails /\ Inherited /\ Protected(Follower)
  BY <1>1, FollowerHolds, ProtectedFollows DEF Holds
<1>2. CASE Behind
  <2>1. SUFFICES ASSUME PublishedPrimary # NoNode
                 PROVE  ReadyBackupFollows
    BY DEF ReadyBackupFollows
  <2>2. assignment = Assign(Leader, 1, "ready", Follower)
    BY <1>2, <2>1 DEF PublishedPrimary, Behind, Before, Electing
  <2>3. PublishedPrimary = Leader /\ assignment.backup = Follower
    BY <2>1, <2>2 DEF PublishedPrimary, Assign
  <2>4. /\ Prefix(replica[Follower].store, replica[Leader].store)
        /\ Recording(replica[Leader])
    BY <1>2 DEF Behind, Following, Backed, Follows
  <2>5. /\ Leader \in Node /\ Follower \in Node
        /\ replica[Follower].store \in Seq(Op) /\ replica[Leader].store \in Seq(Op)
    BY LeaderAndFollower, ReplicaFit
  <2>. QED
    BY <2>3, <2>4, <2>5, PrefixEchoes, EchoFollows
<1>. QED
  BY <1>1, <1>2 DEF Ahead

(* And so it is through the succession of a first leader that fails, when   *)
(* no other replica does.                                                   *)
THEOREM OneFailureIsAhead ==
    ASSUME NEW a, Unreliable \subseteq {a}
    PROVE  Spec => []ReadyBackupFollows
<1>1. CASE Leader \in Unreliable
  <2>1. Unreliable \subseteq {Leader}
    BY <1>1
  <2>2. Init => FInv /\ SnapshotsCurrent /\ Ahead
    BY InitInv, InitSnapshots, InitBehind, InitProtected DEF Ahead
  <2>3. FInv /\ SnapshotsCurrent /\ Ahead /\ [Next]_vars
          => (FInv /\ SnapshotsCurrent /\ Ahead)'
    BY <2>1, SuccessionAheadKept
  <2>. QED
    BY <2>2, <2>3, AheadFollows, PTL DEF Spec
<1>2. CASE Leader \notin Unreliable
  BY <1>2, ReliablePrimaryIsAhead
<1>. QED
  BY <1>1, <1>2

-----------------------------------------------------------------------------
(* Activation.  While the holder does not restart, a published primary is   *)
(* an activated one, whoever else starts again.                             *)
LEMMA HolderStaysActivated ==
    ASSUME FInv, PublishedIsActivated, Next, NEW h \in Node \ Restarting,
           Started(h), Assigned("ready") => assignment.primary = h
    PROVE  PublishedIsActivated'
<1>1. CASE PublishedStays
  BY <1>1, PublishedStaysInv
<1>2. ASSUME NEW n \in Node, ReplicaStep(n)
      PROVE  PublishedIsActivated'
  <2>1. CASE \/ Reregister(n) \/ BootRegister(n)
             \/ ProbeAnswered(n) \/ ProbeUnanswered(n)
    BY <2>1, MembershipStays
  <2>2. CASE Restart(n) \/ BootRegistered(n) \/ BootLookup(n)
    <3>1. UNCHANGED controllerVars
      BY <2>2 DEF Restart, BootRegistered, BootLookup
    <3>2. \/ UNCHANGED replica
          \/ /\ n # h
             /\ \E r : replica' = [replica EXCEPT ![n] = r]
      BY <2>2 DEF Restart, BootRegistered, BootLookup, storageVars, Started
    <3>3. replica'[h] = replica[h]
      BY <3>2 DEF FInv, ReplicasFit
    <3>. QED
      BY <3>1, <3>3
      DEF controllerVars, PublishedIsActivated, PublishedPrimary, Assigned
  <2>. QED
    BY <1>1, <1>2, <2>1, <2>2, ClientStays DEF ReplicaStep
<1>3. ASSUME NEW t \in Threads, RpcStep(t)
      PROVE  PublishedIsActivated'
  <2>1. CASE CompletePromotion(t)
    BY <2>1, CompletionPublishes
  <2>. QED
    BY <1>1, <1>3, <2>1, RpcStays DEF RpcStep
<1>4. ASSUME NEW s \in syncs, SyncStep(s)
      PROVE  PublishedIsActivated'
  BY <1>1, <1>4, SyncStays
<1>5. ASSUME NEW m \in late, LateHandler(m)
      PROVE  PublishedIsActivated'
  BY <1>1, <1>5, LateHandlerStays
<1>6. CASE ControllerStep
  BY <1>1, <1>6, ControllerStays
<1>. QED
  BY <1>2, <1>3, <1>4, <1>5, <1>6, ThreadsAre DEF Next

LEMMA InitIsActivated == Init => PublishedIsActivated
<1>. SUFFICES ASSUME Init PROVE PublishedIsActivated
  OBVIOUS
<1>. QED
  BY InitialReplicas
  DEF Init, PublishedIsActivated, PublishedPrimary, Assign, InitialReplica

LEMMA ActivationStutters ==
    PublishedIsActivated /\ UNCHANGED vars => PublishedIsActivated'
  BY DEF vars, storageVars, controllerVars, PublishedIsActivated, PublishedPrimary

(* docs/auction-specification.md:528-533: what GetPrimary answers is an     *)
(* activated primary of the epoch it is published with, while the first     *)
(* leader can be reached: the other replicas restart, register again and    *)
(* report whatever they were.                                               *)
THEOREM ReliablePrimaryIsActivated ==
    ASSUME Leader \notin Unreliable
    PROVE  Spec => []PublishedIsActivated
<1>1. FInv /\ Reigns /\ PublishedIsActivated /\ Next => PublishedIsActivated'
  <2>. SUFFICES ASSUME FInv, Reigns, PublishedIsActivated, Next
                PROVE  PublishedIsActivated'
    OBVIOUS
  <2>1. Leader \in Node \ Restarting
    BY FailoverAssumption DEF Reigns, Holds
  <2>2. Assigned("ready") => assignment.primary = Leader
    BY NewestIsAssigned DEF NewestOwns, Reigns, Holds, Holding, Assigned
  <2>. QED
    BY <2>1, <2>2, HolderStaysActivated DEF Reigns
<1>. QED
  BY <1>1, InitIsActivated, ActivationStutters, ReignInv, PTL DEF Spec

(* Before its backup has begun a promotion the first leader is the one that *)
(* is published: it restarts as the activated primary it was.               *)
LEMMA BehindIsActivated ==
    ASSUME FInv, Behind
    PROVE  PublishedIsActivated
<1>. SUFFICES ASSUME PublishedPrimary # NoNode
              PROVE  Activated(replica[PublishedPrimary], assignment.epoch)
  BY DEF PublishedIsActivated, Activated
<1>1. assignment # NoAssignment /\ assignment.status # "promoting"
      /\ PublishedPrimary = assignment.primary
  BY DEF PublishedPrimary
<1>2. last_primary_epoch = 1 /\ assignment = Assign(Leader, 1, "ready", Follower)
  BY <1>1 DEF Behind, Before, Electing
<1>3. PublishedPrimary = Leader /\ assignment.epoch = 1
  BY <1>1, <1>2 DEF Assign
<1>4. replica[Leader].role = "primary"
  <2>1. replica[Leader] \in Replica /\ replica[Leader].epoch <= last_primary_epoch
    BY ReplicaFit, LeaderAndFollower DEF Fit
  <2>. QED
    BY <1>2, <2>1 DEF Behind, Following, Backed, Replica
<1>. QED
  BY <1>3, <1>4 DEF Behind, LeaderFails, FormerLeader, Activated

(* And when one replica fails, whichever it is, and starts again as often   *)
(* as it likes.                                                             *)
THEOREM OneFailureIsActivated ==
    ASSUME NEW a, Unreliable \subseteq {a}
    PROVE  Spec => []PublishedIsActivated
<1>1. CASE Leader \in Unreliable
  <2>1. Unreliable \subseteq {Leader}
    BY <1>1
  <2>2. FInv /\ Succession /\ PublishedIsActivated /\ Next
        /\ FInv' /\ Succession' => PublishedIsActivated'
    <3>. SUFFICES ASSUME FInv, Succession, PublishedIsActivated, Next,
                         FInv', Succession'
                  PROVE  PublishedIsActivated'
      OBVIOUS
    <3>1. CASE Behind'
      <4>1. FInv' /\ Behind' => PublishedIsActivated'
        BY BehindIsActivated, PTL
      <4>. QED
        BY <3>1, <4>1
    <3>2. CASE Behind /\ ~Behind'
      <4>1. PICK t \in Threads : BeginPromotion(t)
        BY <2>1, <3>2, BehindKept
      <4>2. Assigned("promoting")'
        BY <2>1, <3>2, <4>1, FollowerBegins
      <4>. QED
        BY <4>2 DEF PublishedIsActivated, PublishedPrimary, Assigned
    <3>3. CASE LeaderFails /\ Inherited
      <4>1. Follower \in Node \ Restarting
        BY <2>1, LeaderAndFollower, FailoverAssumption
      <4>2. Started(Follower)
        BY <3>3, LeaderAndFollower DEF LeaderFails
      <4>3. Assigned("ready") => assignment.primary = Follower
        BY <3>3, NewestIsAssigned, LeaderAndFollower
        DEF NewestOwns, Inherited, Successor, Assigned
      <4>. QED
        BY <4>1, <4>2, <4>3, HolderStaysActivated
    <3>. QED
      BY <3>1, <3>2, <3>3 DEF Succession
  <2>. QED
    BY <2>1, <2>2, InitIsActivated, ActivationStutters, SuccessionInv, PTL DEF Spec
<1>2. CASE Leader \notin Unreliable
  BY <1>2, ReliablePrimaryIsActivated
<1>. QED
  BY <1>1, <1>2
=============================================================================
