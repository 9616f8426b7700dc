------------------------ MODULE SyncReplicationProofs ------------------------
(***************************************************************************)
(* Proofs about SyncReplication, for every set of operations, request ids  *)
(* and auctions.                                                           *)
(*                                                                         *)
(* The inductive invariant IInv says, of the four snapshots (each          *)
(* process's memory and disk), that an idempotency record is the history   *)
(* of its auction up to its operation (WellRecorded); that the backup      *)
(* records only what the primary's memory and disk record (Keeps) and      *)
(* lacks only decisions it still holds prepared, or has tombstoned         *)
(* (Covers), all of them pending (Settled); and of the call under way,     *)
(* that its candidate extends the primary's history until it is decided    *)
(* (Undecided), is held by the backup when the primary decides (HeldBy)    *)
(* and is recorded by both when the decision is cleared.                   *)
(***************************************************************************)
EXTENDS SyncReplication, TLAPS

(* IsPrefix, in the form the provers use. *)
Pre(s, t) == Len(s) <= Len(t) /\ \A i \in 1..Len(s) : s[i] = t[i]

(* Records and histories agree, in both directions. *)
WellRecorded(s) ==
    /\ \A id \in Id :
         LET r == s.idempotency_records[id]
         IN r # <<>> => Ident(r) = id /\ Pre(r, s.auction_store[Target(r)])
    /\ \A a \in Auction : \A i \in 1..Len(s.auction_store[a]) :
         LET op == s.auction_store[a][i]
             r == s.idempotency_records[IdOf[op]]
         IN AuctionOf[op] = a /\ Len(r) = i /\ Pre(r, s.auction_store[a])

(* u has every idempotency record of s. *)
Keeps(s, u) ==
    \A id \in Id :
      s.idempotency_records[id] # <<>>
        => u.idempotency_records[id] = s.idempotency_records[id]

(* A prepared mutation is neither committed nor tombstoned. *)
Exclusive(t) ==
    \A id \in Id :
      t.prepared_mutations[id] # <<>> =>
        /\ Ident(t.prepared_mutations[id]) = id
        /\ t.idempotency_records[id] = <<>>
        /\ t.aborted_mutations[id] = NoAuction

(* Every decision of p is committed, prepared or tombstoned in t. *)
Covers(p, t) ==
    \A id \in Id :
      p.idempotency_records[id] # <<>> =>
        \/ t.idempotency_records[id] = p.idempotency_records[id]
        \/ t.prepared_mutations[id] = p.idempotency_records[id]
        \/ t.aborted_mutations[id] # NoAuction

(* A nonempty sequence ends with an element of its set.                     *)
LEMMA LastInSeq ==
    ASSUME NEW S, NEW c \in Seq(S), c # <<>>
    PROVE  Len(c) \in Nat \ {0} /\ Last(c) = c[Len(c)] /\ Last(c) \in S
BY DEF Last

(* The community IsPrefix follows from its unfolded form Pre.               *)
LEMMA PreIsPrefix ==
    ASSUME NEW S, NEW s \in Seq(S), NEW t \in Seq(S), Pre(s, t)
    PROVE  IsPrefix(s, t)
BY DEF Pre, IsPrefix

(* Of two histories of one length that are prefixes, both are the same.     *)
LEMMA PreAntisymmetric ==
    ASSUME NEW S, NEW s \in Seq(S), NEW t \in Seq(S), Pre(s, t), Len(s) = Len(t)
    PROVE  s = t
BY DEF Pre

(* A candidate extends the history it was built from by its operation.      *)
LEMMA AppendPre ==
    ASSUME NEW S, NEW s \in Seq(S), NEW e \in S
    PROVE  /\ Append(s, e) \in Seq(S) \ {<<>>}
           /\ Len(Append(s, e)) = Len(s) + 1
           /\ Last(Append(s, e)) = e
           /\ Pre(s, Append(s, e))
<1>1. Append(s, e) \in Seq(S) /\ Len(Append(s, e)) = Len(s) + 1
  OBVIOUS
<1>2. Append(s, e) # <<>>
  <2>1. \A c \in Seq(S) : Len(c) # 0 => c # <<>>
    OBVIOUS
  <2>2. Len(Append(s, e)) # 0
    BY <1>1
  <2>. QED
    BY <1>1, <2>1, <2>2, Zenon
<1>3. Last(Append(s, e)) = e
  BY <1>1 DEF Last
<1>4. Pre(s, Append(s, e))
  BY <1>1 DEF Pre
<1>. QED
  BY <1>1, <1>2, <1>3, <1>4

(* A candidate names a request id and an auction.                           *)
LEMMA CandidateType ==
    ASSUME NEW c \in Seq(Op), c # <<>>
    PROVE  Ident(c) \in Id /\ Target(c) \in Auction /\ Last(c) \in Op
BY LastInSeq, OpAssumption DEF Ident, Target

(* A history is a prefix of every other that holds the same records. *)
LEMMA HistoryFollows ==
    ASSUME NEW t, NEW p,
           t.auction_store \in [Auction -> Seq(Op)],
           p.auction_store \in [Auction -> Seq(Op)],
           t.idempotency_records \in [Id -> Seq(Op)],
           p.idempotency_records \in [Id -> Seq(Op)],
           WellRecorded(t), WellRecorded(p), Keeps(t, p),
           NEW a \in Auction
    PROVE  Pre(t.auction_store[a], p.auction_store[a])
<1>. DEFINE h == t.auction_store[a]
            n == Len(h)
            r == t.idempotency_records[IdOf[h[n]]]
<1>1. CASE h = <<>>
  BY <1>1 DEF Pre
<1>2. CASE h # <<>>
  <2>1. n \in 1..n /\ h[n] \in Op /\ h \in Seq(Op)
    BY <1>2
  <2>2. IdOf[h[n]] \in Id
    BY <2>1, OpAssumption
  <2>3. AuctionOf[h[n]] = a /\ Len(r) = n /\ Pre(r, h)
    BY <2>1 DEF WellRecorded
  <2>4. r \in Seq(Op) /\ r # <<>>
    BY <2>1, <2>2, <2>3
  <2>5. r = h
    BY <2>1, <2>3, <2>4, PreAntisymmetric
  <2>6. p.idempotency_records[IdOf[h[n]]] = r
    BY <2>2, <2>4 DEF Keeps
  <2>7. Target(r) = a
    BY <2>3, <2>4, <2>5, LastInSeq DEF Target
  <2>8. Pre(r, p.auction_store[Target(r)])
    BY <2>2, <2>4, <2>6 DEF WellRecorded
  <2>. QED
    BY <2>5, <2>7, <2>8
<1>. QED
  BY <1>1, <1>2

(* What a save of a new decision does to a snapshot with one history. *)
LEMMA AppendRecorded ==
    ASSUME NEW s, NEW u, NEW c \in Seq(Op) \ {<<>>},
           s.auction_store \in [Auction -> Seq(Op)],
           s.idempotency_records \in [Id -> Seq(Op)],
           WellRecorded(s),
           s.idempotency_records[Ident(c)] = <<>>,
           Len(c) = Len(s.auction_store[Target(c)]) + 1,
           Pre(s.auction_store[Target(c)], c),
           u.auction_store = [s.auction_store EXCEPT ![Target(c)] = c],
           u.idempotency_records = [s.idempotency_records EXCEPT ![Ident(c)] = c]
    PROVE  WellRecorded(u)
<1>. DEFINE id == Ident(c)
            a == Target(c)
<1>1. id \in Id /\ a \in Auction /\ Last(c) \in Op
  BY CandidateType
<1>2. c[Len(c)] = Last(c) /\ Len(c) \in Nat \ {0}
  BY LastInSeq
<1>3. ASSUME NEW i \in Id, u.idempotency_records[i] # <<>>
      PROVE  LET r == u.idempotency_records[i]
             IN Ident(r) = i /\ Pre(r, u.auction_store[Target(r)])
  <2>. DEFINE r == u.idempotency_records[i]
  <2>1. CASE i = id
    <3>1. r = c /\ u.auction_store[Target(r)] = c
      BY <1>1, <2>1
    <3>. QED
      BY <3>1, <2>1, <1>2 DEF Pre
  <2>2. CASE i # id
    <3>1. r = s.idempotency_records[i] /\ r \in Seq(Op) /\ r # <<>>
      BY <1>3, <2>2
    <3>2. Ident(r) = i /\ Pre(r, s.auction_store[Target(r)])
      BY <3>1 DEF WellRecorded
    <3>3. CASE Target(r) = a
      <4>1. Pre(r, s.auction_store[a]) /\ u.auction_store[Target(r)] = c
        BY <1>1, <3>2, <3>3
      <4>2. Pre(r, c)
        BY <4>1, <3>1, <1>1 DEF Pre
      <4>. QED
        BY <3>2, <4>1, <4>2
    <3>4. CASE Target(r) # a
      <4>1. u.auction_store[Target(r)] = s.auction_store[Target(r)]
        BY <3>1, <3>4, CandidateType
      <4>. QED
        BY <3>2, <4>1
    <3>. QED
      BY <3>3, <3>4
  <2>. QED
    BY <2>1, <2>2
<1>4. ASSUME NEW b \in Auction, NEW i \in 1..Len(u.auction_store[b])
      PROVE  LET op == u.auction_store[b][i]
                 r == u.idempotency_records[IdOf[op]]
             IN AuctionOf[op] = b /\ Len(r) = i /\ Pre(r, u.auction_store[b])
  <2>. DEFINE op == u.auction_store[b][i]
              r == u.idempotency_records[IdOf[op]]
  <2>1. CASE b = a /\ i = Len(c)
    <3>1. u.auction_store[b] = c /\ op = Last(c)
      BY <1>1, <1>2, <2>1
    <3>2. IdOf[op] = id /\ AuctionOf[op] = a /\ r = c
      BY <1>1, <3>1 DEF Ident, Target
    <3>. QED
      BY <3>1, <3>2, <2>1, <1>2 DEF Pre
  <2>2. CASE ~(b = a /\ i = Len(c))
    <3>. DEFINE q == s.idempotency_records[IdOf[op]]
    <3>1. i \in 1..Len(s.auction_store[b]) /\ op = s.auction_store[b][i]
      BY <1>1, <1>2, <2>2 DEF Pre
    <3>2. AuctionOf[op] = b /\ Len(q) = i /\ Pre(q, s.auction_store[b])
      BY <3>1 DEF WellRecorded
    <3>3. op \in Op /\ IdOf[op] \in Id
      BY <3>1, OpAssumption
    <3>4. IdOf[op] # id
      BY <3>1, <3>2
    <3>5. r = q /\ q \in Seq(Op)
      BY <3>3, <3>4
    <3>6. Pre(q, u.auction_store[b])
      <4>1. CASE b = a
        <5>1. u.auction_store[b] = c
          BY <1>1, <4>1
        <5>. QED
          BY <5>1, <4>1, <3>2, <3>5, <1>1 DEF Pre
      <4>2. CASE b # a
        BY <4>2, <3>2, <1>1
      <4>. QED
        BY <4>1, <4>2
    <3>. QED
      BY <3>2, <3>5, <3>6
  <2>. QED
    BY <2>1, <2>2
<1>. QED
  BY <1>3, <1>4 DEF WellRecorded

(* A pending commit is the recorded decision of its id. *)
PendingRecorded(p) ==
    \A id \in Id :
      p.pending_backup_commits[id] # <<>>
        => p.pending_backup_commits[id] = p.idempotency_records[id]

(* A decision of p that is no longer pending is committed in t. *)
Settled(p, t) ==
    \A id \in Id :
      p.idempotency_records[id] # <<>> /\ p.pending_backup_commits[id] = <<>>
        => t.idempotency_records[id] = p.idempotency_records[id]

(* A restart loses no prepared mutation, unless it commits or aborts it. *)
Stages(t, d) ==
    \A id \in Id :
      t.prepared_mutations[id] # <<>> =>
        \/ d.prepared_mutations[id] = t.prepared_mutations[id]
        \/ d.idempotency_records[id] # <<>>
        \/ d.aborted_mutations[id] # NoAuction

(* The backup cannot be made to forget that c was prepared. *)
HeldBy(t, c) ==
    \/ t.prepared_mutations[Ident(c)] = c
    \/ t.aborted_mutations[Ident(c)] # NoAuction

(* A snapshot p of the primary, against the backup's t. *)
PrimaryOK(p, t) ==
    /\ p \in PrimarySnapshot
    /\ WellRecorded(p)
    /\ PendingRecorded(p)
    /\ Settled(p, t)

(* A snapshot t of the backup, against the primary's memory and disk. *)
BackupOK(p, d, t) ==
    /\ t \in BackupSnapshot
    /\ WellRecorded(t)
    /\ Exclusive(t)
    /\ Keeps(t, p)
    /\ Covers(p, t) /\ Covers(d, t)

(* c is the next history of its auction and p does not have it. *)
Undecided(p, c) ==
    /\ p.idempotency_records[Ident(c)] = <<>>
    /\ Len(c) = Len(p.auction_store[Target(c)]) + 1
    /\ Pre(p.auction_store[Target(c)], c)

(* What each phase of the call under way knows of its candidate. *)
CallSound ==
    LET c == call.candidate
    IN /\ call.phase \in {"prepare", "decide"} => Undecided(primary, c)
       /\ call.phase = "decide" => HeldBy(backup, c) /\ HeldBy(backupDisk, c)
       /\ call.phase \in {"commit", "clear"} =>
            primary.idempotency_records[Ident(c)] = c
       /\ call.phase = "clear" => backup.idempotency_records[Ident(c)] = c

(* A late commit is of a decided request. *)
LateSound ==
    \A m \in late :
      m.type = "commit" => primary.idempotency_records[m.id] # <<>>

(* Both replicas record what was acknowledged. *)
AckSound ==
    \A c \in acked :
      /\ primary.idempotency_records[Ident(c)] = c
      /\ backup.idempotency_records[Ident(c)] = c

ReplicasSound ==
    /\ PrimaryOK(primary, backup) /\ PrimaryOK(primaryDisk, backup)
    /\ Keeps(primary, primaryDisk)
    /\ BackupOK(primary, primaryDisk, backup)
    /\ BackupOK(primary, primaryDisk, backupDisk)
    /\ Keeps(backup, backupDisk) /\ Stages(backup, backupDisk)

(* The inductive invariant. *)
IInv == TypeOK /\ ReplicasSound /\ CallSound /\ LateSound /\ AckSound

-----------------------------------------------------------------------------
(* One handler of the backup *)

(* What every handler of the backup does, whether or not its save works. *)
BackupAdvances ==
    /\ BackupOK(primary, primaryDisk, backup')
    /\ BackupOK(primary, primaryDisk, backupDisk')
    /\ Keeps(backup, backup')
    /\ Keeps(backup', backupDisk') /\ Stages(backup', backupDisk')
    /\ \A c \in Seq(Op) \ {<<>>} :
         /\ primary.idempotency_records[Ident(c)] = <<>>
         /\ HeldBy(backup, c) /\ HeldBy(backupDisk, c)
         => HeldBy(backup', c) /\ HeldBy(backupDisk', c)

(* A snapshot keeps its own records.                                        *)
LEMMA KeepsReflexive ==
    ASSUME NEW s PROVE Keeps(s, s)
BY DEF Keeps

(* A restart from an equal snapshot loses no preparation.                   *)
LEMMA StagesReflexive ==
    ASSUME NEW s PROVE Stages(s, s)
BY DEF Stages

(* Records kept twice are kept.                                             *)
LEMMA KeepsTransitive ==
    ASSUME NEW s, NEW t, NEW u, Keeps(s, t), Keeps(t, u)
    PROVE  Keeps(s, u)
BY DEF Keeps

(* A handler that changes nothing is a sound step of the backup.            *)
LEMMA UnchangedAdvances ==
    ASSUME IInv, UNCHANGED backupVars
    PROVE  BackupAdvances
BY KeepsReflexive DEF IInv, ReplicasSound, BackupAdvances, backupVars

(* A save of sound maps is a sound step of the backup, whether the save     *)
(* works, fails before os.replace or fails after it.                        *)
LEMMA PersistAdvances ==
    ASSUME IInv, NEW u, NEW ok \in BOOLEAN,
           Persist(backup, backupDisk, u, ok),
           BackupOK(primary, primaryDisk, u),
           Keeps(backup, u), Stages(backup, u),
           \A c \in Seq(Op) \ {<<>>} :
             /\ primary.idempotency_records[Ident(c)] = <<>>
             /\ HeldBy(backup, c)
             => HeldBy(u, c)
    PROVE  BackupAdvances
<1>1. CASE ok
  <2>1. backup' = u /\ backupDisk' = u
    BY <1>1 DEF Persist
  <2>. QED
    BY <2>1, KeepsReflexive, StagesReflexive DEF BackupAdvances
<1>2. CASE ~ok
  <2>1. backup' = backup /\ backupDisk' \in {backupDisk, u}
    BY <1>2 DEF Persist
  <2>2. CASE backupDisk' = backupDisk
    BY <2>1, <2>2, UnchangedAdvances DEF backupVars
  <2>3. CASE backupDisk' = u
    BY <2>1, <2>3, KeepsReflexive DEF IInv, ReplicasSound, BackupAdvances
  <2>. QED
    BY <2>1, <2>2, <2>3
<1>. QED
  BY <1>1, <1>2

(* PrepareAuctionMutation, called in time or late, is a sound step; when it *)
(* answers success to an undecided request both memory and disk hold it.    *)
LEMMA PrepareAdvances ==
    ASSUME IInv, NEW c \in Seq(Op) \ {<<>>}, NEW ok \in BOOLEAN,
           PrepareAuctionMutation(c, ok)
    PROVE  /\ BackupAdvances
           /\ ok /\ primary.idempotency_records[Ident(c)] = <<>>
                => HeldBy(backup', c) /\ HeldBy(backupDisk', c)
<1>. DEFINE id == Ident(c)
            u == [backup EXCEPT !.prepared_mutations[id] = c]
<1>1. id \in Id /\ Target(c) \in Auction
  BY CandidateType
<1>2. backup \in BackupSnapshot /\ backupDisk \in BackupSnapshot
  BY DEF IInv, ReplicasSound, BackupOK
<1>3. CASE RefusesPreparation(c) /\ ~ok /\ UNCHANGED backupVars
  BY <1>3, UnchangedAdvances
<1>4. CASE /\ ~RefusesPreparation(c) /\ backup.prepared_mutations[id] # <<>>
           /\ ok /\ UNCHANGED backupVars
  <2>1. backup.prepared_mutations[id] = c
    BY <1>4 DEF RefusesPreparation
  <2>2. HeldBy(backup, c)
    BY <2>1 DEF HeldBy
  <2>3. primary.idempotency_records[id] = <<>> => HeldBy(backupDisk, c)
    BY <1>1, <1>4, <2>1 DEF IInv, ReplicasSound, Stages, HeldBy, BackupOK, Keeps
  <2>. QED
    BY <1>4, <2>2, <2>3, UnchangedAdvances DEF backupVars, HeldBy
<1>5. CASE /\ ~RefusesPreparation(c) /\ backup.prepared_mutations[id] = <<>>
           /\ Persist(backup, backupDisk, u, ok)
  <2>1. /\ backup.aborted_mutations[id] = NoAuction
        /\ backup.idempotency_records[id] = <<>>
    BY <1>5 DEF RefusesPreparation
  <2>2. /\ u \in BackupSnapshot
        /\ u.auction_store = backup.auction_store
        /\ u.idempotency_records = backup.idempotency_records
        /\ u.aborted_mutations = backup.aborted_mutations
        /\ u.prepared_mutations[id] = c
        /\ \A i \in Id \ {id} :
             u.prepared_mutations[i] = backup.prepared_mutations[i]
    BY <1>1, <1>2 DEF BackupSnapshot
  <2>3. WellRecorded(u)
    BY <2>2 DEF IInv, ReplicasSound, BackupOK, WellRecorded
  <2>4. Exclusive(u)
    BY <2>1, <2>2 DEF IInv, ReplicasSound, BackupOK, Exclusive
  <2>5. Keeps(u, primary) /\ Keeps(backup, u)
    BY <2>2 DEF IInv, ReplicasSound, BackupOK, Keeps
  <2>6. Covers(primary, u) /\ Covers(primaryDisk, u)
    BY <1>5, <2>1, <2>2 DEF IInv, ReplicasSound, BackupOK, Covers
  <2>7. Stages(backup, u)
    BY <1>5, <2>2 DEF Stages
  <2>8. ASSUME NEW d \in Seq(Op) \ {<<>>}, HeldBy(backup, d)
        PROVE  HeldBy(u, d)
    <3>1. Ident(d) \in Id /\ d # <<>>
      BY CandidateType
    <3>. QED
      BY <1>5, <2>1, <2>2, <2>8, <3>1 DEF HeldBy
  <2>9. BackupAdvances
    BY <1>5, <2>2, <2>3, <2>4, <2>5, <2>6, <2>7, <2>8, PersistAdvances
       DEF BackupOK
  <2>10. ok => HeldBy(backup', c) /\ HeldBy(backupDisk', c)
    BY <1>5, <2>2 DEF Persist, HeldBy
  <2>. QED
    BY <2>9, <2>10
<1>. QED
  BY <1>3, <1>4, <1>5 DEF PrepareAuctionMutation

(* CommitPreparedMutation of a decided request, called in time or late, is  *)
(* a sound step; when it answers success the backup has the record.         *)
LEMMA CommitAdvances ==
    ASSUME IInv, NEW id \in Id, NEW auction \in Auction, NEW ok \in BOOLEAN,
           primary.idempotency_records[id] # <<>>,
           CommitPreparedMutation(id, auction, ok)
    PROVE  /\ BackupAdvances
           /\ ok => backup'.idempotency_records[id] # <<>>
<1>. DEFINE c == backup.prepared_mutations[id]
            u == [backup EXCEPT !.auction_store[auction] = c,
                                !.idempotency_records[id] = c,
                                !.prepared_mutations[id] = <<>>]
            new == /\ backup.aborted_mutations[id] = NoAuction
                   /\ c # <<>> /\ Target(c) = auction
                   /\ Len(c) = NextVersion(backup, auction)
<1>1. backup \in BackupSnapshot
  BY DEF IInv, ReplicasSound, BackupOK
<1>2. CASE /\ UNCHANGED backupVars
           /\ ok => backup.idempotency_records[id] # <<>>
  BY <1>2, UnchangedAdvances DEF backupVars
<1>3. CASE new /\ Persist(backup, backupDisk, u, ok)
  <2>1. /\ c \in Seq(Op) \ {<<>>} /\ Ident(c) = id /\ Target(c) = auction
        /\ backup.idempotency_records[id] = <<>>
    <3>1. Exclusive(backup)
      BY DEF IInv, ReplicasSound, BackupOK
    <3>2. c \in Seq(Op) \ {<<>>}
      BY <1>1, <1>3 DEF BackupSnapshot
    <3>. QED
      BY <1>3, <3>1, <3>2 DEF Exclusive
  <2>2. primary.idempotency_records[id] = c
    BY <1>3, <2>1 DEF IInv, ReplicasSound, BackupOK, Covers
  <2>3. /\ u \in BackupSnapshot
        /\ u.auction_store = [backup.auction_store EXCEPT ![auction] = c]
        /\ u.idempotency_records
             = [backup.idempotency_records EXCEPT ![id] = c]
        /\ u.aborted_mutations = backup.aborted_mutations
        /\ u.prepared_mutations
             = [backup.prepared_mutations EXCEPT ![id] = <<>>]
    BY <1>1, <2>1 DEF BackupSnapshot
  <2>4. Pre(backup.auction_store[auction], c)
    <3>1. Pre(backup.auction_store[auction], primary.auction_store[auction])
      BY <1>1, HistoryFollows
         DEF IInv, ReplicasSound, BackupOK, PrimaryOK, BackupSnapshot, PrimarySnapshot
    <3>2. Pre(c, primary.auction_store[auction])
      BY <2>1, <2>2 DEF IInv, ReplicasSound, PrimaryOK, WellRecorded
    <3>3. Len(c) = Len(backup.auction_store[auction]) + 1
      BY <1>3 DEF NextVersion
    <3>4. backup.auction_store[auction] \in Seq(Op)
      BY <1>1 DEF BackupSnapshot
    <3>. QED
      BY <2>1, <3>1, <3>2, <3>3, <3>4 DEF Pre
  <2>5. WellRecorded(u)
    <3>1. Len(c) = Len(backup.auction_store[Target(c)]) + 1
      BY <1>3, <2>1 DEF NextVersion
    <3>2. WellRecorded(backup)
      BY DEF IInv, ReplicasSound, BackupOK
    <3>3. /\ backup.auction_store \in [Auction -> Seq(Op)]
          /\ backup.idempotency_records \in [Id -> Seq(Op)]
      BY <1>1 DEF BackupSnapshot
    <3>. HIDE DEF u, c
    <3>. QED
      BY <2>1, <2>3, <2>4, <3>1, <3>2, <3>3, AppendRecorded
  <2>6. Exclusive(u)
    BY <1>1, <2>3 DEF IInv, ReplicasSound, BackupOK, Exclusive, BackupSnapshot
  <2>7. Keeps(u, primary) /\ Keeps(backup, u)
    <3>1. Keeps(backup, primary)
      BY DEF IInv, ReplicasSound, BackupOK
    <3>2. /\ u.idempotency_records[id] = c
          /\ \A i \in Id \ {id} :
               u.idempotency_records[i] = backup.idempotency_records[i]
      BY <1>1, <2>3 DEF BackupSnapshot
    <3>. HIDE DEF u, c
    <3>. QED
      BY <2>1, <2>2, <3>1, <3>2 DEF Keeps
  <2>8. Covers(primary, u)
    BY <1>1, <2>2, <2>3 DEF IInv, ReplicasSound, BackupOK, Covers, BackupSnapshot
  <2>9. primaryDisk.idempotency_records[id] = c
    BY <2>1, <2>2 DEF IInv, ReplicasSound, Keeps
  <2>10. Covers(primaryDisk, u)
    BY <1>1, <2>3, <2>9 DEF IInv, ReplicasSound, BackupOK, Covers, BackupSnapshot
  <2>11. Stages(backup, u)
    BY <1>1, <1>3, <2>3 DEF Stages, BackupSnapshot
  <2>12. ASSUME NEW d \in Seq(Op) \ {<<>>},
                primary.idempotency_records[Ident(d)] = <<>>,
                HeldBy(backup, d)
         PROVE  HeldBy(u, d)
    <3>1. Ident(d) \in Id /\ Ident(d) # id
      BY <2>12, CandidateType
    <3>. QED
      BY <1>1, <2>3, <2>12, <3>1 DEF HeldBy, BackupSnapshot
  <2>13. BackupAdvances
    BY <1>3, <2>3, <2>5, <2>6, <2>7, <2>8, <2>10, <2>11, <2>12,
       PersistAdvances DEF BackupOK
  <2>14. ok => backup'.idempotency_records[id] # <<>>
    <3>1. ok => backup' = u
      BY <1>3 DEF Persist
    <3>2. u.idempotency_records[id] # <<>>
      BY <1>1, <2>1, <2>3 DEF BackupSnapshot
    <3>. HIDE DEF u
    <3>. QED
      BY <3>1, <3>2
  <2>. QED
    BY <2>13, <2>14
<1>. QED
  BY <1>2, <1>3 DEF CommitPreparedMutation

(* AbortPreparedMutation, called in time or late, is a sound step.          *)
LEMMA AbortAdvances ==
    ASSUME IInv, NEW id \in Id, NEW auction \in Auction, NEW ok \in BOOLEAN,
           AbortPreparedMutation(id, auction, ok)
    PROVE  BackupAdvances
<1>. DEFINE c == backup.prepared_mutations[id]
            u == [backup EXCEPT !.prepared_mutations[id] = <<>>,
                                !.aborted_mutations[id] = auction]
<1>1. backup \in BackupSnapshot
  BY DEF IInv, ReplicasSound, BackupOK
<1>2. CASE UNCHANGED backupVars
  BY <1>2, UnchangedAdvances
<1>3. CASE /\ backup.idempotency_records[id] = <<>>
           /\ Persist(backup, backupDisk, u, ok)
  <2>1. /\ u \in BackupSnapshot
        /\ u.auction_store = backup.auction_store
        /\ u.idempotency_records = backup.idempotency_records
        /\ u.aborted_mutations
             = [backup.aborted_mutations EXCEPT ![id] = auction]
        /\ u.prepared_mutations
             = [backup.prepared_mutations EXCEPT ![id] = <<>>]
    <3>1. /\ [backup.prepared_mutations EXCEPT ![id] = <<>>] \in [Id -> Seq(Op)]
          /\ [backup.aborted_mutations EXCEPT ![id] = auction]
               \in [Id -> Auction \cup {NoAuction}]
      BY <1>1 DEF BackupSnapshot
    <3>. QED
      BY <1>1, <3>1 DEF BackupSnapshot
  <2>2. auction # NoAuction
    BY OpAssumption
  <2>3. WellRecorded(u)
    BY <2>1 DEF IInv, ReplicasSound, BackupOK, WellRecorded
  <2>4. Exclusive(u)
    BY <1>1, <1>3, <2>1 DEF IInv, ReplicasSound, BackupOK, Exclusive, BackupSnapshot
  <2>5. Keeps(u, primary) /\ Keeps(backup, u)
    BY <2>1 DEF IInv, ReplicasSound, BackupOK, Keeps
  <2>6. Covers(primary, u) /\ Covers(primaryDisk, u)
    BY <1>1, <2>1, <2>2 DEF IInv, ReplicasSound, BackupOK, Covers, BackupSnapshot
  <2>7. Stages(backup, u)
    BY <1>1, <2>1, <2>2 DEF Stages, BackupSnapshot
  <2>8. ASSUME NEW d \in Seq(Op) \ {<<>>}, HeldBy(backup, d)
        PROVE  HeldBy(u, d)
    <3>1. Ident(d) \in Id
      BY CandidateType
    <3>. QED
      BY <1>1, <2>1, <2>2, <2>8, <3>1 DEF HeldBy, BackupSnapshot
  <2>. QED
    BY <1>3, <2>1, <2>3, <2>4, <2>5, <2>6, <2>7, <2>8, PersistAdvances
       DEF BackupOK
<1>. QED
  BY <1>2, <1>3 DEF AbortPreparedMutation

-----------------------------------------------------------------------------
(* Steps of the primary *)

(* All four snapshots stay sound and no record is lost from memory. *)
PrimaryAdvances ==
    /\ ReplicasSound'
    /\ Keeps(primary, primary') /\ Keeps(backup, backup')

(* A sound step of the backup keeps all four snapshots sound together.      *)
LEMMA BackupAdvancesReplicas ==
    ASSUME IInv, BackupAdvances, UNCHANGED primaryVars
    PROVE  PrimaryAdvances
<1>1. primary' = primary /\ primaryDisk' = primaryDisk
  BY DEF primaryVars
<1>2. Settled(primary, backup') /\ Settled(primaryDisk, backup')
  BY DEF IInv, ReplicasSound, PrimaryOK, Settled, BackupAdvances, Keeps
<1>. QED
  BY <1>1, <1>2, KeepsReflexive
     DEF IInv, ReplicasSound, PrimaryOK, BackupAdvances, PrimaryAdvances

(* So does a step that leaves the snapshots alone.                          *)
LEMMA UnchangedReplicas ==
    ASSUME IInv, UNCHANGED primaryVars, UNCHANGED backupVars
    PROVE  PrimaryAdvances
BY UnchangedAdvances, BackupAdvancesReplicas

(* So does a save on the primary whose decisions the backup covers.         *)
LEMMA PersistAdvancesReplicas ==
    ASSUME IInv, NEW u, NEW ok \in BOOLEAN,
           Persist(primary, primaryDisk, u, ok), UNCHANGED backupVars,
           PrimaryOK(u, backup), Keeps(primary, u),
           Covers(u, backup), Covers(u, backupDisk)
    PROVE  PrimaryAdvances
<1>1. backup' = backup /\ backupDisk' = backupDisk
  BY DEF backupVars
<1>2. Keeps(backup, u) /\ Keeps(backupDisk, u)
  BY KeepsTransitive DEF IInv, ReplicasSound, BackupOK
<1>3. CASE ok
  <2>1. primary' = u /\ primaryDisk' = u
    BY <1>3 DEF Persist
  <2>. QED
    BY <1>1, <1>2, <2>1, KeepsReflexive
       DEF IInv, ReplicasSound, BackupOK, PrimaryAdvances
<1>4. CASE ~ok
  <2>1. primary' = primary /\ primaryDisk' \in {primaryDisk, u}
    BY <1>4 DEF Persist
  <2>2. CASE primaryDisk' = primaryDisk
    BY <1>1, <2>1, <2>2, UnchangedReplicas DEF primaryVars, backupVars
  <2>3. CASE primaryDisk' = u
    BY <1>1, <2>1, <2>3, KeepsReflexive
       DEF IInv, ReplicasSound, BackupOK, PrimaryAdvances
  <2>. QED
    BY <2>1, <2>2, <2>3
<1>. QED
  BY <1>3, <1>4

(* A call under way has a candidate, and its RPC is well-formed.            *)
LEMMA CallType ==
    ASSUME TypeOK, call.phase # "idle"
    PROVE  /\ call.candidate \in Seq(Op) \ {<<>>}
           /\ Ident(call.candidate) \in Id
           /\ Target(call.candidate) \in Auction
           /\ Last(call.candidate) \in Op
           /\ call.phase \in RpcPhase => CurrentRpc \in Message
<1>1. call.candidate \in Seq(Op) \ {<<>>}
  BY DEF TypeOK
<1>2. /\ Ident(call.candidate) \in Id /\ Target(call.candidate) \in Auction
      /\ Last(call.candidate) \in Op
  BY <1>1, CandidateType
<1>3. call.phase \in RpcPhase => CurrentRpc \in Message
  BY <1>1, <1>2
     DEF RpcPhase, CurrentRpc, Message, PrepareRequest, DecisionRequest
<1>. QED
  BY <1>1, <1>2, <1>3

(* The durable decision on an undecided candidate the backup holds keeps    *)
(* the snapshots sound; when the save works the decision is recorded.       *)
LEMMA DecideAdvances ==
    ASSUME IInv, call.phase = "decide", NEW ok \in BOOLEAN,
           UNCHANGED backupVars,
           Persist(primary, primaryDisk,
                   [primary EXCEPT
                      !.auction_store[Target(call.candidate)] = call.candidate,
                      !.idempotency_records[Ident(call.candidate)]
                         = call.candidate,
                      !.pending_backup_commits[Ident(call.candidate)]
                         = call.candidate], ok)
    PROVE  /\ PrimaryAdvances
           /\ ok => primary'.idempotency_records[Ident(call.candidate)]
                      = call.candidate
<1>. DEFINE c == call.candidate
            id == Ident(c)
            u == [primary EXCEPT !.auction_store[Target(c)] = c,
                                 !.idempotency_records[id] = c,
                                 !.pending_backup_commits[id] = c]
<1>1. c \in Seq(Op) \ {<<>>} /\ id \in Id /\ Target(c) \in Auction
  BY CallType DEF IInv
<1>2. Undecided(primary, c) /\ HeldBy(backup, c) /\ HeldBy(backupDisk, c)
  BY DEF IInv, CallSound
<1>3. primary \in PrimarySnapshot
  BY DEF IInv, ReplicasSound, PrimaryOK
<1>4. /\ u \in PrimarySnapshot
      /\ u.auction_store = [primary.auction_store EXCEPT ![Target(c)] = c]
      /\ u.idempotency_records = [primary.idempotency_records EXCEPT ![id] = c]
      /\ u.pending_backup_commits
           = [primary.pending_backup_commits EXCEPT ![id] = c]
  BY <1>1, <1>3 DEF PrimarySnapshot
<1>5. WellRecorded(u)
  <2>1. WellRecorded(primary)
    BY DEF IInv, ReplicasSound, PrimaryOK
  <2>2. /\ primary.auction_store \in [Auction -> Seq(Op)]
        /\ primary.idempotency_records \in [Id -> Seq(Op)]
    BY <1>3 DEF PrimarySnapshot
  <2>. HIDE DEF u, c
  <2>. QED
    BY <1>1, <1>2, <1>4, <2>1, <2>2, AppendRecorded DEF Undecided
<1>6. PendingRecorded(u)
  BY <1>1, <1>3, <1>4
     DEF IInv, ReplicasSound, PrimaryOK, PendingRecorded, PrimarySnapshot
<1>7. Settled(u, backup)
  BY <1>1, <1>3, <1>4
     DEF IInv, ReplicasSound, PrimaryOK, Settled, PrimarySnapshot
<1>8. Keeps(primary, u)
  BY <1>1, <1>2, <1>3, <1>4 DEF Keeps, Undecided, PrimarySnapshot
<1>9. Covers(u, backup) /\ Covers(u, backupDisk)
  BY <1>1, <1>2, <1>3, <1>4
     DEF IInv, ReplicasSound, BackupOK, Covers, HeldBy, PrimarySnapshot
<1>10. PrimaryAdvances
  <2>. HIDE DEF u
  <2>. QED
    BY <1>4, <1>5, <1>6, <1>7, <1>8, <1>9, PersistAdvancesReplicas
       DEF PrimaryOK, u
<1>11. ok => primary'.idempotency_records[id] = c
  <2>1. ok => primary' = u
    BY DEF Persist
  <2>2. u.idempotency_records[id] = c
    BY <1>1, <1>3, <1>4 DEF PrimarySnapshot
  <2>. HIDE DEF u
  <2>. QED
    BY <2>1, <2>2
<1>. QED
  BY <1>10, <1>11

(* Clearing a pending decision the backup has committed keeps them sound.   *)
LEMMA ClearAdvances ==
    ASSUME IInv, call.phase = "clear", NEW ok \in BOOLEAN,
           UNCHANGED backupVars,
           Persist(primary, primaryDisk,
                   [primary EXCEPT
                      !.pending_backup_commits[Ident(call.candidate)] = <<>>], ok)
    PROVE  PrimaryAdvances
<1>. DEFINE c == call.candidate
            id == Ident(c)
            u == [primary EXCEPT !.pending_backup_commits[id] = <<>>]
<1>1. c \in Seq(Op) \ {<<>>} /\ id \in Id
  BY CallType DEF IInv
<1>2. primary.idempotency_records[id] = c /\ backup.idempotency_records[id] = c
  BY DEF IInv, CallSound
<1>3. primary \in PrimarySnapshot
  BY DEF IInv, ReplicasSound, PrimaryOK
<1>4. /\ u \in PrimarySnapshot
      /\ u.auction_store = primary.auction_store
      /\ u.idempotency_records = primary.idempotency_records
      /\ u.pending_backup_commits
           = [primary.pending_backup_commits EXCEPT ![id] = <<>>]
  <2>1. [primary.pending_backup_commits EXCEPT ![id] = <<>>] \in [Id -> Seq(Op)]
    BY <1>1, <1>3 DEF PrimarySnapshot
  <2>. QED
    BY <1>1, <1>3, <2>1 DEF PrimarySnapshot
<1>5. WellRecorded(u) /\ Keeps(primary, u)
      /\ Covers(u, backup) /\ Covers(u, backupDisk)
  BY <1>4
     DEF IInv, ReplicasSound, PrimaryOK, BackupOK, WellRecorded, Keeps, Covers
<1>6. PendingRecorded(u)
  BY <1>1, <1>3, <1>4
     DEF IInv, ReplicasSound, PrimaryOK, PendingRecorded, PrimarySnapshot
<1>7. Settled(u, backup)
  BY <1>1, <1>2, <1>3, <1>4
     DEF IInv, ReplicasSound, PrimaryOK, Settled, PrimarySnapshot
<1>. QED
  BY <1>4, <1>5, <1>6, <1>7, PersistAdvancesReplicas DEF PrimaryOK

-----------------------------------------------------------------------------
(* The parts of the invariant about calls, late RPCs and clients *)

(* Sound snapshots are well-typed.                                          *)
LEMMA TypeFromReplicas ==
    ASSUME ReplicasSound'
    PROVE  /\ primary' \in PrimarySnapshot /\ primaryDisk' \in PrimarySnapshot
           /\ backup' \in BackupSnapshot /\ backupDisk' \in BackupSnapshot
BY DEF ReplicasSound, PrimaryOK, BackupOK

(* Giving up on the RPC of the call under way keeps late RPCs sound.        *)
LEMMA LateGrows ==
    ASSUME IInv, Keeps(primary, primary'),
           call.phase \in RpcPhase => late' \subseteq late \cup {CurrentRpc},
           call.phase \notin RpcPhase => late' \subseteq late
    PROVE  LateSound' /\ late' \subseteq Message
<1>1. late \subseteq Message
  BY DEF IInv, TypeOK
<1>2. ASSUME NEW m \in late PROVE m.type = "commit" =>
        m.id \in Id /\ primary'.idempotency_records[m.id] # <<>>
  <2>1. m.type = "commit" =>
          m.id \in Id /\ primary.idempotency_records[m.id] # <<>>
    BY <1>1 DEF IInv, LateSound, Message
  <2>. QED
    BY <2>1 DEF Keeps
<1>3. CASE call.phase \in RpcPhase
  <2>1. CurrentRpc \in Message
    BY <1>3, CallType DEF IInv, RpcPhase
  <2>2. CurrentRpc.type = "commit" =>
          primary'.idempotency_records[CurrentRpc.id] # <<>>
    <3>1. CASE call.phase = "commit"
      <4>1. /\ call.candidate # <<>> /\ Ident(call.candidate) \in Id
            /\ CurrentRpc.id = Ident(call.candidate)
        BY <3>1, CallType DEF IInv, CurrentRpc, DecisionRequest
      <4>2. primary.idempotency_records[Ident(call.candidate)] = call.candidate
        BY <3>1 DEF IInv, CallSound
      <4>. QED
        BY <4>1, <4>2 DEF Keeps
    <3>2. CASE call.phase # "commit"
      BY <3>2, <1>3
         DEF RpcPhase, CurrentRpc, DecisionRequest, PrepareRequest
    <3>. QED
      BY <3>1, <3>2
  <2>. QED
    BY <1>1, <1>2, <1>3, <2>1, <2>2 DEF LateSound
<1>4. CASE call.phase \notin RpcPhase
  BY <1>1, <1>2, <1>4 DEF LateSound
<1>. QED
  BY <1>3, <1>4

(* Records are never lost, so what was acknowledged stays recorded.         *)
LEMMA AckedKept ==
    ASSUME IInv, Keeps(primary, primary'), Keeps(backup, backup'),
           NEW c \in acked
    PROVE  /\ primary'.idempotency_records[Ident(c)] = c
           /\ backup'.idempotency_records[Ident(c)] = c
<1>1. c \in Seq(Op) \ {<<>>}
  BY DEF IInv, TypeOK
<1>2. Ident(c) \in Id
  BY <1>1, CandidateType
<1>. QED
  BY <1>1, <1>2 DEF IInv, AckSound, Keeps

(* Every step that leaves a call where the protocol allows it to be.        *)
LEMMA StepInductive ==
    ASSUME IInv, PrimaryAdvances,
           call.phase \in RpcPhase => late' \subseteq late \cup {CurrentRpc},
           call.phase \notin RpcPhase => late' \subseteq late,
           \A c \in acked' \ acked :
             /\ c \in Seq(Op) \ {<<>>}
             /\ primary'.idempotency_records[Ident(c)] = c
             /\ backup'.idempotency_records[Ident(c)] = c,
           answer' \in [Op -> {"none", "success", "pending", "failed"}],
           call' \in [phase : RpcPhase \cup {"idle", "decide", "clear"},
                      candidate : Seq(Op)],
           (call'.phase = "idle") <=> (call'.candidate = <<>>),
           CallSound'
    PROVE  IInv'
<1>1. LateSound' /\ late' \subseteq Message
  BY LateGrows DEF PrimaryAdvances
<1>2. AckSound' /\ acked' \subseteq Seq(Op) \ {<<>>}
  BY AckedKept DEF PrimaryAdvances, IInv, TypeOK, AckSound
<1>3. TypeOK'
  BY <1>1, <1>2, TypeFromReplicas DEF PrimaryAdvances, TypeOK
<1>. QED
  BY <1>1, <1>2, <1>3 DEF IInv, PrimaryAdvances

(* An idle call is sound.                                                   *)
LEMMA IdleCall ==
    ASSUME call' = Idle
    PROVE  /\ CallSound'
           /\ call' \in [phase : RpcPhase \cup {"idle", "decide", "clear"},
                         candidate : Seq(Op)]
           /\ (call'.phase = "idle") <=> (call'.candidate = <<>>)
<1>1. call'.phase = "idle" /\ call'.candidate = <<>>
  BY DEF Idle
<1>2. CallSound'
  BY <1>1 DEF CallSound
<1>3. call' \in [phase : RpcPhase \cup {"idle", "decide", "clear"},
                 candidate : Seq(Op)]
  BY DEF Idle
<1>. QED
  BY <1>1, <1>2, <1>3

(* A call that goes on keeps its candidate. *)
LEMMA NextPhase ==
    ASSUME TypeOK, call.phase # "idle",
           NEW phase \in RpcPhase \cup {"decide", "clear"},
           call' = [call EXCEPT !.phase = phase]
    PROVE  /\ call'.phase = phase /\ call'.candidate = call.candidate
           /\ call' \in [phase : RpcPhase \cup {"idle", "decide", "clear"},
                         candidate : Seq(Op)]
           /\ (call'.phase = "idle") <=> (call'.candidate = <<>>)
BY DEF TypeOK, RpcPhase

(* An answer keeps its type.                                                *)
LEMMA AnswerType ==
    ASSUME TypeOK, NEW op \in Op,
           NEW outcome \in {"none", "success", "pending", "failed"},
           answer' = [answer EXCEPT ![op] = outcome]
    PROVE  answer' \in [Op -> {"none", "success", "pending", "failed"}]
BY DEF TypeOK

(* Ending the call under way, with any answer, keeps the invariant.         *)
LEMMA FinishInductive ==
    ASSUME IInv, PrimaryAdvances, call.phase # "idle",
           NEW outcome \in {"success", "pending", "failed"}, Finish(outcome),
           call.phase \in RpcPhase => late' \subseteq late \cup {CurrentRpc},
           call.phase \notin RpcPhase => late' \subseteq late,
           \A c \in acked' \ acked :
             /\ c \in Seq(Op) \ {<<>>}
             /\ primary'.idempotency_records[Ident(c)] = c
             /\ backup'.idempotency_records[Ident(c)] = c
    PROVE  IInv'
<1>1. answer' \in [Op -> {"none", "success", "pending", "failed"}]
  BY CallType, AnswerType DEF Finish, IInv
<1>. QED
  BY <1>1, IdleCall, StepInductive DEF Finish

-----------------------------------------------------------------------------
(* One lemma per kind of step *)

(* The invariant holds of two empty replicas.                               *)
LEMMA InitInductive == Init => IInv
<1>. SUFFICES ASSUME Init PROVE IInv
  OBVIOUS
<1>1. /\ \A a \in Auction : primary.auction_store[a] = <<>>
      /\ \A id \in Id : primary.idempotency_records[id] = <<>>
      /\ \A id \in Id : primary.pending_backup_commits[id] = <<>>
      /\ primary \in PrimarySnapshot
  BY DEF Init, EmptyStore, NoEntries, PrimarySnapshot
<1>2. /\ \A a \in Auction : backup.auction_store[a] = <<>>
      /\ \A id \in Id : backup.idempotency_records[id] = <<>>
      /\ \A id \in Id : backup.prepared_mutations[id] = <<>>
      /\ backup \in BackupSnapshot
  BY DEF Init, EmptyStore, NoEntries, BackupSnapshot
<1>3. primaryDisk = primary /\ backupDisk = backup
  BY DEF Init
<1>4. WellRecorded(primary) /\ WellRecorded(backup)
  BY <1>1, <1>2 DEF WellRecorded
<1>5. ReplicasSound
  BY <1>1, <1>2, <1>3, <1>4 DEF ReplicasSound, PrimaryOK, BackupOK,
     PendingRecorded, Settled, Keeps, Stages, Exclusive, Covers
<1>6. call.phase = "idle" /\ call.candidate = <<>> /\ late = {} /\ acked = {}
  BY DEF Init, Idle
<1>7. CallSound /\ LateSound /\ AckSound
  BY <1>6 DEF CallSound, LateSound, AckSound
<1>8. TypeOK
  BY <1>1, <1>2, <1>3 DEF Init, Idle, TypeOK, RpcPhase
<1>. QED
  BY <1>5, <1>7, <1>8 DEF IInv

(* Starting, replaying or resuming a request keeps the invariant.           *)
LEMMA ApplyInductive ==
    ASSUME IInv, NEW op \in Op, ApplyAuctionMutation(op)
    PROVE  IInv'
<1>. DEFINE record == primary.idempotency_records[IdOf[op]]
<1>1. call = Idle /\ call.phase \notin RpcPhase
  BY DEF ApplyAuctionMutation, ReplayRecordedResponse, RpcPhase, Idle,
     ResumePendingBackupCommit, PrepareOnSynchronousBackup, Admissible
<1>2. late' = late /\ UNCHANGED primaryVars /\ UNCHANGED backupVars
  BY DEF ApplyAuctionMutation, ReplayRecordedResponse,
     ResumePendingBackupCommit, PrepareOnSynchronousBackup
<1>3. PrimaryAdvances /\ primary' = primary /\ backup' = backup
      /\ backupDisk' = backupDisk
  BY <1>2, UnchangedReplicas DEF primaryVars, backupVars
<1>4. answer' \in [Op -> {"none", "success", "pending", "failed"}]
  BY AnswerType DEF IInv, ApplyAuctionMutation, ReplayRecordedResponse,
     ResumePendingBackupCommit, PrepareOnSynchronousBackup
<1>5. /\ primary \in PrimarySnapshot /\ WellRecorded(primary)
      /\ PendingRecorded(primary) /\ Settled(primary, backup)
      /\ IdOf[op] \in Id /\ AuctionOf[op] \in Auction
  BY OpAssumption DEF IInv, ReplicasSound, PrimaryOK
<1>6. CASE ReplayRecordedResponse(op)
  <2>1. /\ record # <<>> /\ acked' = acked \cup {record} /\ call' = Idle
        /\ primary.pending_backup_commits[IdOf[op]] = <<>>
    BY <1>1, <1>6 DEF ReplayRecordedResponse
  <2>2. record \in Seq(Op) \ {<<>>} /\ Ident(record) = IdOf[op]
    BY <1>5, <2>1 DEF PrimarySnapshot, WellRecorded
  <2>3. backup.idempotency_records[IdOf[op]] = record
    BY <1>5, <2>1 DEF Settled
  <2>. QED
    BY <1>1, <1>2, <1>3, <1>4, <2>1, <2>2, <2>3, IdleCall, StepInductive
<1>7. CASE ResumePendingBackupCommit(op)
  <2>. DEFINE c == primary.pending_backup_commits[IdOf[op]]
  <2>1. /\ record # <<>> /\ c # <<>> /\ acked' = acked
        /\ call' = [phase |-> "commit", candidate |-> c]
    BY <1>7 DEF ResumePendingBackupCommit
  <2>2. c = record /\ c \in Seq(Op) /\ Ident(c) = IdOf[op]
    BY <1>5, <2>1 DEF PrimarySnapshot, PendingRecorded, WellRecorded
  <2>3. CallSound'
    BY <1>3, <2>1, <2>2 DEF CallSound
  <2>4. /\ call' \in [phase : RpcPhase \cup {"idle", "decide", "clear"},
                      candidate : Seq(Op)]
        /\ (call'.phase = "idle") <=> (call'.candidate = <<>>)
    BY <2>1, <2>2 DEF RpcPhase
  <2>. QED
    BY <1>1, <1>2, <1>3, <1>4, <2>1, <2>3, <2>4, StepInductive
<1>8. CASE PrepareOnSynchronousBackup(op)
  <2>. DEFINE h == primary.auction_store[AuctionOf[op]]
              c == Append(h, op)
  <2>1. /\ record = <<>> /\ acked' = acked
        /\ call' = [phase |-> "prepare", candidate |-> c]
    BY <1>8 DEF PrepareOnSynchronousBackup
  <2>2. /\ c \in Seq(Op) \ {<<>>} /\ Len(c) = Len(h) + 1
        /\ Last(c) = op /\ Pre(h, c)
    BY <1>5, AppendPre DEF PrimarySnapshot
  <2>. HIDE DEF c
  <2>3. Undecided(primary', c)
    BY <1>3, <2>1, <2>2 DEF Undecided, Ident, Target
  <2>4. call'.phase = "prepare" /\ call'.candidate = c
    BY <2>1
  <2>5. CallSound'
    BY <2>3, <2>4 DEF CallSound
  <2>6. /\ call' \in [phase : RpcPhase \cup {"idle", "decide", "clear"},
                      candidate : Seq(Op)]
        /\ (call'.phase = "idle") <=> (call'.candidate = <<>>)
    BY <2>1, <2>2 DEF RpcPhase
  <2>. QED
    BY <1>1, <1>2, <1>3, <1>4, <2>1, <2>5, <2>6, StepInductive
<1>. QED
  BY <1>6, <1>7, <1>8 DEF ApplyAuctionMutation

(* The answer to a preparation, or its loss, keeps the invariant.           *)
LEMMA PrepareInductive ==
    ASSUME IInv, PrepareAnswered \/ PrepareFailed
    PROVE  IInv'
<1>. DEFINE c == call.candidate
<1>1. call.phase = "prepare" /\ call.phase \in RpcPhase
  BY DEF PrepareAnswered, PrepareFailed, RpcPhase
<1>2. TypeOK /\ c \in Seq(Op) \ {<<>>} /\ Undecided(primary, c)
  BY <1>1, CallType DEF IInv, CallSound
<1>3. acked' = acked /\ answer' = answer /\ UNCHANGED primaryVars
  BY DEF PrepareAnswered, PrepareFailed, clientVars
<1>4. answer' \in [Op -> {"none", "success", "pending", "failed"}]
  BY <1>2, <1>3 DEF TypeOK
<1>5. CASE PrepareAnswered
  <2>1. PICK ok \in BOOLEAN :
          /\ PrepareAuctionMutation(c, ok)
          /\ call' = [call EXCEPT !.phase = IF ok THEN "decide" ELSE "abort"]
    BY <1>5 DEF PrepareAnswered
  <2>2. /\ BackupAdvances
        /\ ok => HeldBy(backup', c) /\ HeldBy(backupDisk', c)
    <3>1. PICK d \in Seq(Op) \ {<<>>} : d = c
      BY <1>2
    <3>2. PrepareAuctionMutation(d, ok)
      BY <2>1, <3>1
         DEF PrepareAuctionMutation, RefusesPreparation, NextVersion, Persist
    <3>3. primary.idempotency_records[Ident(d)] = <<>>
      BY <1>2, <3>1 DEF Undecided
    <3>4. /\ BackupAdvances
          /\ ok => HeldBy(backup', d) /\ HeldBy(backupDisk', d)
      BY <3>2, <3>3, PrepareAdvances
    <3>. QED
      BY <3>1, <3>4 DEF HeldBy
  <2>3. PrimaryAdvances /\ late' = late /\ primary' = primary
    BY <1>3, <1>5, <2>2, BackupAdvancesReplicas
       DEF PrepareAnswered, primaryVars
  <2>4. CASE ok
    <3>1. call' = [call EXCEPT !.phase = "decide"]
      BY <2>1, <2>4
    <3>2. CallSound'
      BY <1>1, <1>2, <2>2, <2>3, <2>4, <3>1, NextPhase DEF CallSound
    <3>. QED
      BY <1>1, <1>2, <1>3, <1>4, <2>3, <3>1, <3>2, NextPhase, StepInductive
  <2>5. CASE ~ok
    <3>1. call' = [call EXCEPT !.phase = "abort"]
      BY <2>1, <2>5
    <3>2. call'.phase = "abort"
      BY <1>1, <1>2, <3>1, NextPhase DEF RpcPhase
    <3>3. CallSound'
      BY <3>2 DEF CallSound
    <3>. QED
      BY <1>1, <1>2, <1>3, <1>4, <2>3, <3>1, <3>3, NextPhase, StepInductive
         DEF RpcPhase
  <2>. QED
    BY <2>4, <2>5
<1>6. CASE PrepareFailed
  <2>1. /\ call' = [call EXCEPT !.phase = "abort"]
        /\ late' = late \cup {CurrentRpc} /\ UNCHANGED backupVars
    BY <1>6 DEF PrepareFailed
  <2>2. call'.phase = "abort"
    BY <1>1, <1>2, <2>1, NextPhase DEF RpcPhase
  <2>3. PrimaryAdvances
    BY <1>3, <2>1, UnchangedReplicas
  <2>4. CallSound'
    BY <2>2 DEF CallSound
  <2>. QED
    BY <1>1, <1>2, <1>3, <1>4, <2>1, <2>3, <2>4, NextPhase, StepInductive
       DEF RpcPhase
<1>. QED
  BY <1>5, <1>6

(* The durable decision, or its failure, keeps the invariant.               *)
LEMMA DecideInductive ==
    ASSUME IInv, RecordCommitDecision
    PROVE  IInv'
<1>. DEFINE c == call.candidate
<1>1. call.phase = "decide" /\ call.phase \notin RpcPhase
  BY DEF RecordCommitDecision, RpcPhase
<1>2. acked' = acked /\ answer' = answer /\ late' = late
      /\ UNCHANGED backupVars
  BY DEF RecordCommitDecision, clientVars
<1>3. answer' \in [Op -> {"none", "success", "pending", "failed"}]
  BY <1>2 DEF IInv, TypeOK
<1>4. PICK ok \in BOOLEAN :
        /\ Persist(primary, primaryDisk,
                   [primary EXCEPT
                      !.auction_store[Target(c)] = c,
                      !.idempotency_records[Ident(c)] = c,
                      !.pending_backup_commits[Ident(c)] = c], ok)
        /\ call' = [call EXCEPT !.phase = IF ok THEN "commit" ELSE "abort"]
  BY DEF RecordCommitDecision
<1>5. /\ PrimaryAdvances
      /\ ok => primary'.idempotency_records[Ident(c)] = c
  BY <1>1, <1>2, <1>4, DecideAdvances
<1>6. CASE ok
  <2>1. call' = [call EXCEPT !.phase = "commit"]
    BY <1>4, <1>6
  <2>2. call'.phase = "commit" /\ call'.candidate = c
    BY <1>1, <2>1, NextPhase DEF IInv, RpcPhase
  <2>3. CallSound'
    BY <1>5, <1>6, <2>2 DEF CallSound
  <2>. QED
    BY <1>1, <1>2, <1>3, <1>5, <2>1, <2>3, NextPhase, StepInductive
       DEF IInv, RpcPhase
<1>7. CASE ~ok
  <2>1. call' = [call EXCEPT !.phase = "abort"]
    BY <1>4, <1>7
  <2>2. call'.phase = "abort"
    BY <1>1, <2>1, NextPhase DEF IInv, RpcPhase
  <2>3. CallSound'
    BY <2>2 DEF CallSound
  <2>. QED
    BY <1>1, <1>2, <1>3, <1>5, <2>1, <2>3, NextPhase, StepInductive
       DEF IInv, RpcPhase
<1>. QED
  BY <1>6, <1>7

(* The answer to a backup commit, or its loss, keeps the invariant.         *)
LEMMA CommitInductive ==
    ASSUME IInv, CommitAnswered \/ CommitFailed
    PROVE  IInv'
<1>. DEFINE c == call.candidate
            id == Ident(c)
<1>1. call.phase = "commit" /\ call.phase \in RpcPhase
  BY DEF CommitAnswered, CommitFailed, RpcPhase
<1>2. /\ TypeOK /\ c \in Seq(Op) \ {<<>>}
      /\ id \in Id /\ Target(c) \in Auction
      /\ primary.idempotency_records[id] = c
  BY <1>1, CallType DEF IInv, CallSound
<1>3. acked' = acked /\ UNCHANGED primaryVars
  BY DEF CommitAnswered, CommitFailed
<1>4. CASE CommitAnswered
  <2>1. PICK ok \in BOOLEAN :
          /\ CommitPreparedMutation(id, Target(c), ok)
          /\ IF ok /\ Len(backup'.idempotency_records[id]) = Len(c)
             THEN call' = [call EXCEPT !.phase = "clear"] /\ UNCHANGED answer
             ELSE Finish("pending")
    BY <1>4 DEF CommitAnswered
  <2>2. /\ BackupAdvances
        /\ ok => backup'.idempotency_records[id] # <<>>
    <3>1. PICK i \in Id, a \in Auction : i = id /\ a = Target(c)
      BY <1>2
    <3>2. CommitPreparedMutation(i, a, ok)
      BY <2>1, <3>1 DEF CommitPreparedMutation, NextVersion, Persist
    <3>3. primary.idempotency_records[i] # <<>>
      BY <1>2, <3>1
    <3>4. BackupAdvances /\ (ok => backup'.idempotency_records[i] # <<>>)
      BY <3>2, <3>3, CommitAdvances
    <3>. QED
      BY <3>1, <3>4
  <2>3. PrimaryAdvances /\ late' = late /\ primary' = primary
    BY <1>3, <1>4, <2>2, BackupAdvancesReplicas
       DEF CommitAnswered, primaryVars
  <2>4. ok => backup'.idempotency_records[id] = c
    BY <1>2, <2>2 DEF BackupAdvances, BackupOK, Keeps
  <2>5. CASE Finish("pending")
    BY <1>1, <1>3, <2>3, <2>5, FinishInductive
  <2>6. CASE ok /\ call' = [call EXCEPT !.phase = "clear"] /\ UNCHANGED answer
    <3>1. call'.phase = "clear" /\ call'.candidate = c
      BY <1>1, <1>2, <2>6, NextPhase
    <3>2. CallSound'
      BY <1>2, <2>3, <2>4, <2>6, <3>1 DEF CallSound
    <3>3. answer' \in [Op -> {"none", "success", "pending", "failed"}]
      BY <1>2, <2>6 DEF TypeOK
    <3>. QED
      BY <1>1, <1>2, <1>3, <2>3, <2>6, <3>2, <3>3, NextPhase, StepInductive
  <2>. QED
    BY <2>1, <2>5, <2>6
<1>5. CASE CommitFailed
  BY <1>1, <1>3, <1>5, UnchangedReplicas, FinishInductive DEF CommitFailed
<1>. QED
  BY <1>4, <1>5

(* Clearing the acknowledged decision keeps the invariant: only then is a   *)
(* mutation acknowledged, and both replicas record it.                      *)
LEMMA ClearInductive ==
    ASSUME IInv, ClearPendingDecision
    PROVE  IInv'
<1>. DEFINE c == call.candidate
<1>1. call.phase = "clear" /\ call.phase \notin RpcPhase
  BY DEF ClearPendingDecision, RpcPhase
<1>2. /\ c \in Seq(Op) \ {<<>>}
      /\ primary.idempotency_records[Ident(c)] = c
      /\ backup.idempotency_records[Ident(c)] = c
      /\ Ident(c) \in Id
  BY <1>1, CallType DEF IInv, CallSound
<1>3. late' = late /\ UNCHANGED backupVars
  BY DEF ClearPendingDecision
<1>4. PICK ok \in BOOLEAN :
        /\ Persist(primary, primaryDisk,
                   [primary EXCEPT
                      !.pending_backup_commits[Ident(c)] = <<>>], ok)
        /\ Finish(IF ok THEN "success" ELSE "pending")
        /\ acked' = IF ok THEN acked \cup {c} ELSE acked
  BY DEF ClearPendingDecision
<1>5. PrimaryAdvances
  BY <1>1, <1>3, <1>4, ClearAdvances
<1>6. /\ primary'.idempotency_records[Ident(c)] = c
      /\ backup'.idempotency_records[Ident(c)] = c
  BY <1>2, <1>5 DEF PrimaryAdvances, Keeps
<1>7. PICK outcome \in {"success", "pending", "failed"} : Finish(outcome)
  BY <1>4
<1>. QED
  BY <1>1, <1>2, <1>3, <1>4, <1>5, <1>6, <1>7, FinishInductive

(* The answer to an abort, or its loss, keeps the invariant.                *)
LEMMA AbortInductive ==
    ASSUME IInv, AbortAnswered \/ AbortFailed
    PROVE  IInv'
<1>1. call.phase = "abort" /\ call.phase \in RpcPhase
  BY DEF AbortAnswered, AbortFailed, RpcPhase
<1>2. acked' = acked /\ UNCHANGED primaryVars /\ Finish("failed")
  BY DEF AbortAnswered, AbortFailed
<1>3. CASE AbortAnswered
  <2>1. Ident(call.candidate) \in Id /\ Target(call.candidate) \in Auction
    BY <1>1, CallType DEF IInv
  <2>2. BackupAdvances /\ late' = late
    <3>1. PICK i \in Id, a \in Auction :
            i = Ident(call.candidate) /\ a = Target(call.candidate)
      BY <2>1
    <3>2. PICK ok \in BOOLEAN : AbortPreparedMutation(i, a, ok)
      BY <1>3, <3>1 DEF AbortAnswered, AbortPreparedMutation, Persist
    <3>. QED
      BY <1>3, <3>2, AbortAdvances DEF AbortAnswered
  <2>. QED
    BY <1>1, <1>2, <2>2, BackupAdvancesReplicas, FinishInductive
<1>4. CASE AbortFailed
  BY <1>1, <1>2, <1>4, UnchangedReplicas, FinishInductive DEF AbortFailed
<1>. QED
  BY <1>3, <1>4

(* A step of the backup alone leaves the call sound: what it holds of a     *)
(* candidate that is not decided it goes on holding.                        *)
LEMMA CallKept ==
    ASSUME IInv, BackupAdvances, UNCHANGED <<primaryVars, call>>
    PROVE  CallSound'
<1>1. /\ primary' = primary /\ call' = call
      /\ call.phase # "idle" => call.candidate \in Seq(Op) \ {<<>>}
                               /\ Ident(call.candidate) \in Id
  BY CallType DEF IInv, primaryVars
<1>2. call.phase = "decide" =>
        HeldBy(backup', call.candidate) /\ HeldBy(backupDisk', call.candidate)
  BY <1>1 DEF IInv, CallSound, BackupAdvances, Undecided
<1>3. call.phase = "clear" =>
        backup'.idempotency_records[Ident(call.candidate)] = call.candidate
  BY <1>1 DEF IInv, CallSound, BackupAdvances, Keeps
<1>. QED
  BY <1>1, <1>2, <1>3 DEF IInv, CallSound

(* An RPC whose handler runs after its caller gave up keeps the invariant.  *)
LEMMA LateInductive ==
    ASSUME IInv, NEW m \in late, LateHandler(m)
    PROVE  IInv'
<1>1. UNCHANGED <<primaryVars, call, late, clientVars>>
  BY DEF LateHandler
<1>2. m \in Message
  BY DEF IInv, TypeOK
<1>3. PICK ok \in BOOLEAN :
        \/ m.type = "prepare" /\ PrepareAuctionMutation(m.candidate, ok)
        \/ m.type = "commit" /\ CommitPreparedMutation(m.id, m.auction, ok)
        \/ m.type = "abort" /\ AbortPreparedMutation(m.id, m.auction, ok)
  BY DEF LateHandler
<1>4. BackupAdvances
  <2>1. CASE m.type = "prepare"
    BY <1>2, <1>3, <2>1, PrepareAdvances DEF Message
  <2>2. CASE m.type = "commit"
    <3>1. primary.idempotency_records[m.id] # <<>>
      BY <2>2 DEF IInv, LateSound
    <3>2. m.id \in Id /\ m.auction \in Auction
      BY <1>2, <2>2 DEF Message
    <3>. QED
      BY <1>3, <2>2, <3>1, <3>2, CommitAdvances
  <2>3. CASE m.type = "abort"
    BY <1>2, <1>3, <2>3, AbortAdvances DEF Message
  <2>. QED
    BY <1>3, <2>1, <2>2, <2>3
<1>5. PrimaryAdvances
  BY <1>1, <1>4, BackupAdvancesReplicas
<1>6. CallSound'
  BY <1>1, <1>4, CallKept
<1>. QED
  BY <1>1, <1>5, <1>6, StepInductive DEF IInv, TypeOK, clientVars

(* A restart of either replica from its snapshot keeps the invariant.       *)
LEMMA RestartInductive ==
    ASSUME IInv, PrimaryRestart \/ BackupRestart
    PROVE  IInv'
<1>1. CASE PrimaryRestart
  <2>1. /\ primary' = primaryDisk /\ primaryDisk' = primaryDisk
        /\ backup' = backup /\ backupDisk' = backupDisk
        /\ call' = Idle /\ acked' = acked /\ answer' = answer
        /\ call.phase \in RpcPhase => late' = late \cup {CurrentRpc}
        /\ call.phase \notin RpcPhase => late' = late
    BY <1>1 DEF PrimaryRestart, backupVars, clientVars
  <2>2. Keeps(backup, primaryDisk) /\ Keeps(backupDisk, primaryDisk)
    BY KeepsTransitive DEF IInv, ReplicasSound, BackupOK
  <2>3. PrimaryAdvances
    BY <2>1, <2>2, KeepsReflexive
       DEF IInv, ReplicasSound, BackupOK, PrimaryAdvances
  <2>4. answer' \in [Op -> {"none", "success", "pending", "failed"}]
    BY <2>1 DEF IInv, TypeOK
  <2>. QED
    BY <2>1, <2>3, <2>4, IdleCall, StepInductive
<1>2. CASE BackupRestart
  <2>1. /\ UNCHANGED primaryVars /\ primary' = primary
        /\ backup' = backupDisk /\ backupDisk' = backupDisk
        /\ call' = call /\ acked' = acked /\ answer' = answer /\ late' = {}
    BY <1>2 DEF BackupRestart, primaryVars, clientVars
  <2>2. BackupAdvances
    BY <2>1, KeepsReflexive, StagesReflexive
       DEF IInv, ReplicasSound, BackupAdvances
  <2>3. PrimaryAdvances /\ CallSound'
    BY <2>1, <2>2, BackupAdvancesReplicas, CallKept
  <2>4. /\ answer' \in [Op -> {"none", "success", "pending", "failed"}]
        /\ call' \in [phase : RpcPhase \cup {"idle", "decide", "clear"},
                      candidate : Seq(Op)]
        /\ (call'.phase = "idle") <=> (call'.candidate = <<>>)
    BY <2>1 DEF IInv, TypeOK
  <2>. QED
    BY <2>1, <2>3, <2>4, StepInductive
<1>. QED
  BY <1>1, <1>2

-----------------------------------------------------------------------------
(* Theorems *)

(* Every step of either replica, of the call under way, of a late handler   *)
(* or of a restart keeps the snapshots, the call and the acknowledgements   *)
(* sound together.                                                          *)
THEOREM Inductive == Spec => []IInv
<1>1. Init => IInv
  BY InitInductive
<1>2. IInv /\ [Next]_vars => IInv'
  <2>. SUFFICES ASSUME IInv, [Next]_vars PROVE IInv'
    OBVIOUS
  <2>1. CASE \E op \in Op : ApplyAuctionMutation(op)
    BY <2>1, ApplyInductive
  <2>2. CASE CoordinateSynchronousCommit
    BY <2>2, PrepareInductive, DecideInductive, CommitInductive,
       ClearInductive, AbortInductive DEF CoordinateSynchronousCommit
  <2>3. CASE \E m \in late : LateHandler(m)
    BY <2>3, LateInductive
  <2>4. CASE PrimaryRestart \/ BackupRestart
    BY <2>4, RestartInductive
  <2>5. CASE UNCHANGED vars
    BY <2>5 DEF vars, IInv, TypeOK, ReplicasSound, PrimaryOK, BackupOK,
       WellRecorded, PendingRecorded, Settled, Keeps, Stages, Exclusive,
       Covers, CallSound, Undecided, HeldBy, LateSound, AckSound,
       RpcPhase
  <2>. QED
    BY <2>1, <2>2, <2>3, <2>4, <2>5 DEF Next
<1>. QED
  BY <1>1, <1>2, PTL DEF Spec

(* Every variable keeps its shape in every session. *)
THEOREM TypeCorrect == Spec => []TypeOK
<1>1. IInv => TypeOK
  BY DEF IInv
<1>. QED
  BY <1>1, Inductive, PTL

(* A mutation ApplyAuctionMutation answered with success is committed, with *)
(* its record, in the memory and the snapshot of both replicas for ever.    *)
THEOREM AcknowledgedDurable == Spec => []AcknowledgedOnBothReplicas
<1>1. IInv => AcknowledgedOnBothReplicas
  <2>. SUFFICES ASSUME IInv, NEW c \in acked,
                       NEW s \in {primary, primaryDisk, backup, backupDisk}
                PROVE  CommittedOn(s, c)
    BY DEF AcknowledgedOnBothReplicas
  <2>1. c \in Seq(Op) \ {<<>>} /\ Ident(c) \in Id /\ Target(c) \in Auction
    BY CandidateType DEF IInv, TypeOK
  <2>2. s.idempotency_records[Ident(c)] = c
    BY <2>1 DEF IInv, AckSound, ReplicasSound, Keeps
  <2>3. /\ WellRecorded(s)
        /\ s.auction_store \in [Auction -> Seq(Op)]
    BY DEF IInv, ReplicasSound, PrimaryOK, BackupOK, PrimarySnapshot,
       BackupSnapshot
  <2>4. Pre(c, s.auction_store[Target(c)])
    BY <2>1, <2>2, <2>3 DEF WellRecorded
  <2>. QED
    BY <2>1, <2>2, <2>3, <2>4, PreIsPrefix DEF CommittedOn
<1>. QED
  BY <1>1, Inductive, PTL

(* Every history in the backup's memory or snapshot is a prefix of the one  *)
(* in the primary's memory and in its snapshot.                             *)
THEOREM BackupPrefix == Spec => []BackupFollowsPrimary
<1>1. IInv => BackupFollowsPrimary
  <2>. SUFFICES ASSUME IInv, NEW a \in Auction,
                       NEW t \in {backup, backupDisk},
                       NEW p \in {primary, primaryDisk}
                PROVE  IsPrefix(t.auction_store[a], p.auction_store[a])
    BY DEF BackupFollowsPrimary
  <2>1. /\ t \in BackupSnapshot /\ p \in PrimarySnapshot
        /\ WellRecorded(t) /\ WellRecorded(p)
    BY DEF IInv, ReplicasSound, PrimaryOK, BackupOK
  <2>2. Keeps(t, p)
    BY KeepsTransitive DEF IInv, ReplicasSound, BackupOK
  <2>3. /\ t.auction_store \in [Auction -> Seq(Op)]
        /\ p.auction_store \in [Auction -> Seq(Op)]
        /\ t.idempotency_records \in [Id -> Seq(Op)]
        /\ p.idempotency_records \in [Id -> Seq(Op)]
    BY <2>1 DEF BackupSnapshot, PrimarySnapshot
  <2>. QED
    BY <2>1, <2>2, <2>3, HistoryFollows, PreIsPrefix
<1>. QED
  BY <1>1, Inductive, PTL

(* No replica, and no snapshot a restart loads, holds two operations of one *)
(* request id, whatever is retried, delayed or restarted.                   *)
THEOREM AtMostOnce == Spec => []AppliedAtMostOnce
<1>1. IInv => AppliedAtMostOnce
  <2>. SUFFICES ASSUME IInv,
                       NEW s \in {primary, primaryDisk, backup, backupDisk},
                       NEW a \in Auction, NEW b \in Auction,
                       NEW i \in DOMAIN s.auction_store[a],
                       NEW j \in DOMAIN s.auction_store[b],
                       IdOf[s.auction_store[a][i]] = IdOf[s.auction_store[b][j]]
                PROVE  a = b /\ i = j
    BY DEF AppliedAtMostOnce
  <2>. DEFINE r == s.idempotency_records[IdOf[s.auction_store[a][i]]]
  <2>1. /\ WellRecorded(s)
        /\ s.auction_store \in [Auction -> Seq(Op)]
        /\ s.idempotency_records \in [Id -> Seq(Op)]
    BY DEF IInv, ReplicasSound, PrimaryOK, BackupOK, PrimarySnapshot,
       BackupSnapshot
  <2>2. i \in 1..Len(s.auction_store[a]) /\ j \in 1..Len(s.auction_store[b])
    BY <2>1
  <2>3. /\ AuctionOf[s.auction_store[a][i]] = a
        /\ Len(r) = i /\ Pre(r, s.auction_store[a])
        /\ AuctionOf[s.auction_store[b][j]] = b
        /\ Len(r) = j /\ Pre(r, s.auction_store[b])
    BY <2>1, <2>2 DEF WellRecorded
  <2>4. s.auction_store[a][i] = r[i] /\ s.auction_store[b][j] = r[i]
    BY <2>2, <2>3 DEF Pre
  <2>. QED
    BY <2>3, <2>4
<1>. QED
  BY <1>1, Inductive, PTL
=============================================================================
