--------------------------- MODULE SyncLedgerProofs ---------------------------
(***************************************************************************)
(* Two more theorems about SyncReplication, for every set of operations,   *)
(* request ids and auctions: a session implements AuctionLedger, and the   *)
(* replicas differ by at most one pending decision.                        *)
(*                                                                         *)
(* SyncReplicationProofs relates the four snapshots by what they record.   *)
(* Both theorems also need how far apart they are: the primary's snapshot  *)
(* is at most one undecided operation ahead of its memory (DiskFollows,    *)
(* the write that replaced the file and then failed), and nothing the      *)
(* primary stores, or the backup holds prepared, is more than the next     *)
(* version of the backup's history (Lag, Timely).                          *)
(***************************************************************************)
EXTENDS SyncReplicationProofs

(* After a failed save the primary's file may hold the decision that the    *)
(* memory rolled back.                                                      *)
AheadOn(disk, c) ==
    /\ Undecided(primary, c)
    /\ disk = [primary.auction_store EXCEPT ![Target(c)] = c]

DiskFollows ==
    \/ primaryDisk.auction_store = primary.auction_store
    \/ \E c \in Seq(Op) \ {<<>>} : AheadOn(primaryDisk.auction_store, c)

(* What t holds prepared is the next version of its auction, or an older. *)
Timely(t) ==
    \A id \in Id :
      LET c == t.prepared_mutations[id]
      IN c # <<>> => Len(c) <= NextVersion(t, Target(c))

(* p is at most one version ahead of t. *)
Lag(p, t) ==
    \A a \in Auction : Len(p.auction_store[a]) <= NextVersion(t, a)

Near ==
    /\ DiskFollows
    /\ Timely(backup) /\ Timely(backupDisk)
    /\ Lag(primary, backup) /\ Lag(primaryDisk, backup)
    /\ call.phase = "decide" =>
         Len(call.candidate) <= NextVersion(backup, Target(call.candidate))

-----------------------------------------------------------------------------
(* The backup's histories only grow *)

(* The maps of the four snapshots are functions of auctions and ids.        *)
LEMMA SnapshotTypes ==
    ASSUME IInv
    PROVE  \A s \in {primary, primaryDisk, backup, backupDisk} :
             /\ s.auction_store \in [Auction -> Seq(Op)]
             /\ s.idempotency_records \in [Id -> Seq(Op)]
             /\ WellRecorded(s)
BY DEF IInv, ReplicasSound, PrimaryOK, BackupOK, PrimarySnapshot, BackupSnapshot

(* A snapshot that keeps the records of another has versions as late.       *)
LEMMA KeepsLengths ==
    ASSUME NEW t, NEW u,
           t.auction_store \in [Auction -> Seq(Op)],
           u.auction_store \in [Auction -> Seq(Op)],
           t.idempotency_records \in [Id -> Seq(Op)],
           u.idempotency_records \in [Id -> Seq(Op)],
           WellRecorded(t), WellRecorded(u), Keeps(t, u)
    PROVE  \A a \in Auction : /\ NextVersion(t, a) \in Nat
                              /\ NextVersion(u, a) \in Nat
                              /\ NextVersion(t, a) <= NextVersion(u, a)
<1>. SUFFICES ASSUME NEW a \in Auction
              PROVE  /\ NextVersion(t, a) \in Nat
                     /\ NextVersion(u, a) \in Nat
                     /\ NextVersion(t, a) <= NextVersion(u, a)
  OBVIOUS
<1>1. Pre(t.auction_store[a], u.auction_store[a])
  BY HistoryFollows
<1>. QED
  BY <1>1 DEF Pre, NextVersion

(* A step that keeps the backup's records moves it no nearer to the         *)
(* versions the primary has.                                                *)
LEMMA BackupGrows ==
    ASSUME IInv, IInv', Keeps(backup, backup')
    PROVE  \A a \in Auction : /\ NextVersion(backup, a) \in Nat
                              /\ NextVersion(backup', a) \in Nat
                              /\ NextVersion(backup, a) <= NextVersion(backup', a)
<1>1. /\ backup.auction_store \in [Auction -> Seq(Op)]
      /\ backup.idempotency_records \in [Id -> Seq(Op)]
      /\ WellRecorded(backup)
  BY SnapshotTypes
<1>2. /\ backup'.auction_store \in [Auction -> Seq(Op)]
      /\ backup'.idempotency_records \in [Id -> Seq(Op)]
      /\ WellRecorded(backup')
  BY DEF IInv, ReplicasSound, PrimaryOK, BackupOK, BackupSnapshot, WellRecorded
<1>. QED
  BY <1>1, <1>2, KeepsLengths

-----------------------------------------------------------------------------
(* The handlers of the backup *)

(* A save of timely maps leaves both snapshots timely, however it ends.     *)
LEMMA PersistTimely ==
    ASSUME Timely(backup), Timely(backupDisk), NEW u, Timely(u),
           NEW ok \in BOOLEAN, Persist(backup, backupDisk, u, ok)
    PROVE  Timely(backup') /\ Timely(backupDisk')
<1>1. CASE ok
  BY <1>1 DEF Persist
<1>2. CASE ~ok
  BY <1>2 DEF Persist
<1>. QED
  BY <1>1, <1>2

(* A preparation is timely, and one that succeeds is of the next version of *)
(* its auction or of an older one.                                          *)
LEMMA PrepareTimely ==
    ASSUME IInv, Near, NEW c \in Seq(Op) \ {<<>>}, NEW ok \in BOOLEAN,
           PrepareAuctionMutation(c, ok)
    PROVE  /\ Timely(backup') /\ Timely(backupDisk')
           /\ ok => Len(c) <= NextVersion(backup', Target(c))
<1>. DEFINE id == Ident(c)
            u == [backup EXCEPT !.prepared_mutations[id] = c]
<1>1. id \in Id /\ backup \in BackupSnapshot
  BY CandidateType DEF IInv, TypeOK
<1>2. Timely(backup) /\ Timely(backupDisk)
  BY DEF Near
<1>3. CASE RefusesPreparation(c) /\ ~ok /\ UNCHANGED backupVars
  BY <1>2, <1>3 DEF backupVars
<1>4. CASE /\ ~RefusesPreparation(c) /\ backup.prepared_mutations[id] # <<>>
           /\ ok /\ UNCHANGED backupVars
  <2>1. backup.prepared_mutations[id] = c
    BY <1>4 DEF RefusesPreparation
  <2>. QED
    BY <1>1, <1>2, <1>4, <2>1 DEF Timely, backupVars
<1>5. CASE /\ ~RefusesPreparation(c) /\ backup.prepared_mutations[id] = <<>>
           /\ Persist(backup, backupDisk, u, ok)
  <2>1. Len(c) = NextVersion(backup, Target(c))
    BY <1>5 DEF RefusesPreparation
  <2>2. /\ u.auction_store = backup.auction_store
        /\ u.prepared_mutations[id] = c
        /\ \A i \in Id \ {id} :
             u.prepared_mutations[i] = backup.prepared_mutations[i]
    BY <1>1 DEF BackupSnapshot
  <2>3. NextVersion(u, Target(c)) = Len(c) /\ Len(c) \in Nat
    BY <2>1, <2>2 DEF NextVersion
  <2>4. Timely(u)
    BY <1>2, <2>2, <2>3 DEF Timely, NextVersion
  <2>5. ok => backup' = u
    BY <1>5 DEF Persist
  <2>. QED
    BY <1>2, <1>5, <2>3, <2>4, <2>5, PersistTimely
<1>. QED
  BY <1>3, <1>4, <1>5 DEF PrepareAuctionMutation

(* A commit lengthens one history and drops its preparation.                *)
LEMMA CommitTimely ==
    ASSUME IInv, Near, NEW id \in Id, NEW auction \in Auction,
           NEW ok \in BOOLEAN, CommitPreparedMutation(id, auction, ok)
    PROVE  Timely(backup') /\ Timely(backupDisk')
<1>. DEFINE c == backup.prepared_mutations[id]
            u == [backup EXCEPT !.auction_store[auction] = c,
                                !.idempotency_records[id] = c,
                                !.prepared_mutations[id] = <<>>]
<1>1. backup \in BackupSnapshot
  BY DEF IInv, TypeOK
<1>2. Timely(backup) /\ Timely(backupDisk)
  BY DEF Near
<1>3. CASE UNCHANGED backupVars
  BY <1>2, <1>3 DEF backupVars
<1>4. CASE /\ c # <<>> /\ Target(c) = auction
           /\ Len(c) = NextVersion(backup, auction)
           /\ Persist(backup, backupDisk, u, ok)
  <2>1. /\ u.auction_store = [backup.auction_store EXCEPT ![auction] = c]
        /\ u.prepared_mutations[id] = <<>>
        /\ \A i \in Id \ {id} :
             u.prepared_mutations[i] = backup.prepared_mutations[i]
        /\ c \in Seq(Op)
        /\ backup.auction_store \in [Auction -> Seq(Op)]
    BY <1>1 DEF BackupSnapshot
  <2>2. \A a \in Auction : /\ NextVersion(backup, a) \in Nat
                           /\ NextVersion(u, a) \in Nat
                           /\ NextVersion(backup, a) <= NextVersion(u, a)
    BY <1>4, <2>1 DEF NextVersion
  <2>3. ASSUME NEW i \in Id, u.prepared_mutations[i] # <<>>
        PROVE  Len(u.prepared_mutations[i])
                 <= NextVersion(u, Target(u.prepared_mutations[i]))
    <3>. DEFINE d == u.prepared_mutations[i]
    <3>1. i # id /\ d = backup.prepared_mutations[i] /\ d \in Seq(Op)
      BY <1>1, <2>1, <2>3 DEF BackupSnapshot
    <3>2. Len(d) <= NextVersion(backup, Target(d)) /\ Len(d) \in Nat
      BY <1>2, <2>3, <3>1 DEF Timely
    <3>3. Target(d) \in Auction
      BY <2>3, <3>1, CandidateType
    <3>. QED
      BY <2>2, <3>2, <3>3
  <2>4. Timely(u)
    BY <2>3 DEF Timely
  <2>. QED
    BY <1>2, <1>4, <2>4, PersistTimely
<1>. QED
  BY <1>3, <1>4 DEF CommitPreparedMutation

(* An abort drops a preparation and changes no history.                     *)
LEMMA AbortTimely ==
    ASSUME IInv, Near, NEW id \in Id, NEW auction \in Auction,
           NEW ok \in BOOLEAN, AbortPreparedMutation(id, auction, ok)
    PROVE  Timely(backup') /\ Timely(backupDisk')
<1>. DEFINE u == [backup EXCEPT !.prepared_mutations[id] = <<>>,
                                !.aborted_mutations[id] = auction]
<1>1. backup \in BackupSnapshot
  BY DEF IInv, TypeOK
<1>2. Timely(backup) /\ Timely(backupDisk)
  BY DEF Near
<1>3. CASE UNCHANGED backupVars
  BY <1>2, <1>3 DEF backupVars
<1>4. CASE Persist(backup, backupDisk, u, ok)
  <2>1. /\ u.auction_store = backup.auction_store
        /\ u.prepared_mutations[id] = <<>>
        /\ \A i \in Id \ {id} :
             u.prepared_mutations[i] = backup.prepared_mutations[i]
    BY <1>1 DEF BackupSnapshot
  <2>2. Timely(u)
    BY <1>2, <2>1 DEF Timely, NextVersion
  <2>. QED
    BY <1>2, <1>4, <2>2, PersistTimely
<1>. QED
  BY <1>3, <1>4 DEF AbortPreparedMutation

-----------------------------------------------------------------------------
(* Steps *)

(* A step that leaves the primary alone and the backup timely keeps the     *)
(* replicas near.                                                           *)
LEMMA BackupStepNear ==
    ASSUME IInv, IInv', Near, UNCHANGED primaryVars,
           Keeps(backup, backup'), Timely(backup'), Timely(backupDisk'),
           call'.phase = "decide" =>
             Len(call'.candidate)
               <= NextVersion(backup', Target(call'.candidate))
    PROVE  Near'
<1>1. primary' = primary /\ primaryDisk' = primaryDisk
  BY DEF primaryVars
<1>2. DiskFollows'
  BY <1>1 DEF Near, DiskFollows, AheadOn, Undecided
<1>3. \A a \in Auction : /\ NextVersion(backup, a) \in Nat
                         /\ NextVersion(backup', a) \in Nat
                         /\ NextVersion(backup, a) <= NextVersion(backup', a)
  BY BackupGrows
<1>4. ASSUME NEW p \in {primary, primaryDisk}
      PROVE  Lag(p, backup')
  <2>1. Lag(p, backup) /\ p.auction_store \in [Auction -> Seq(Op)]
    BY SnapshotTypes DEF Near
  <2>. QED
    BY <1>3, <2>1 DEF Lag
<1>. QED
  BY <1>1, <1>2, <1>4 DEF Near

(* A call that decides nothing keeps near replicas near when no snapshot    *)
(* changes.                                                                 *)
LEMMA QuietNear ==
    ASSUME IInv, IInv', Near, UNCHANGED primaryVars, UNCHANGED backupVars,
           call'.phase # "decide"
    PROVE  Near'
BY BackupStepNear, KeepsReflexive DEF Near, backupVars

(* The version a decision was prepared for stays within the backup's next.  *)
LEMMA CandidateStaysNear ==
    ASSUME IInv, IInv', Near, Keeps(backup, backup'), call' = call
    PROVE  call'.phase = "decide" =>
             Len(call'.candidate)
               <= NextVersion(backup', Target(call'.candidate))
<1>. SUFFICES ASSUME call.phase = "decide"
              PROVE  Len(call.candidate)
                       <= NextVersion(backup', Target(call.candidate))
  OBVIOUS
<1>1. call.candidate \in Seq(Op) /\ Target(call.candidate) \in Auction
  BY CallType DEF IInv
<1>2. Len(call.candidate) <= NextVersion(backup, Target(call.candidate))
  BY DEF Near
<1>. QED
  BY <1>1, <1>2, BackupGrows

(* A preparation decides only after the backup accepted it.                 *)
LEMMA PrepareNear ==
    ASSUME IInv, IInv', Near, PrepareAnswered \/ PrepareFailed
    PROVE  Near'
<1>. DEFINE c == call.candidate
<1>1. CASE PrepareAnswered
  <2>1. call.phase = "prepare" /\ UNCHANGED primaryVars
    BY <1>1 DEF PrepareAnswered
  <2>2. TypeOK /\ c \in Seq(Op) \ {<<>>}
    BY <2>1, CallType DEF IInv
  <2>3. PICK ok \in BOOLEAN :
          /\ PrepareAuctionMutation(c, ok)
          /\ call' = [call EXCEPT !.phase = IF ok THEN "decide" ELSE "abort"]
    BY <1>1 DEF PrepareAnswered
  <2>4. PICK d \in Seq(Op) \ {<<>>} : d = c
    BY <2>2
  <2>5. PrepareAuctionMutation(d, ok)
    BY <2>3, <2>4
       DEF PrepareAuctionMutation, RefusesPreparation, NextVersion, Persist
  <2>6. BackupAdvances
    BY <2>5, PrepareAdvances
  <2>7. /\ Timely(backup') /\ Timely(backupDisk')
        /\ ok => Len(d) <= NextVersion(backup', Target(d))
    BY <2>5, PrepareTimely
  <2>8. Keeps(backup, backup')
    BY <2>6 DEF BackupAdvances
  <2>9. call'.candidate = d /\ call'.phase = IF ok THEN "decide" ELSE "abort"
    BY <2>2, <2>3, <2>4 DEF TypeOK
  <2>. QED
    BY <2>1, <2>7, <2>8, <2>9, BackupStepNear
<1>2. CASE PrepareFailed
  <2>1. TypeOK /\ call' = [call EXCEPT !.phase = "abort"]
    BY <1>2 DEF PrepareFailed, IInv
  <2>2. call'.phase # "decide"
    BY <2>1 DEF TypeOK
  <2>. QED
    BY <1>2, <2>2, QuietNear DEF PrepareFailed
<1>. QED
  BY <1>1, <1>2

(* A decision moves the primary one version ahead of the backup; one whose  *)
(* save fails may stay in the file alone.                                   *)
LEMMA DecideNear ==
    ASSUME IInv, IInv', Near, RecordCommitDecision
    PROVE  Near'
<1>. DEFINE c == call.candidate
            u == [primary EXCEPT !.auction_store[Target(c)] = c,
                                 !.idempotency_records[Ident(c)] = c,
                                 !.pending_backup_commits[Ident(c)] = c]
<1>1. /\ call.phase = "decide" /\ TypeOK
      /\ backup' = backup /\ backupDisk' = backupDisk
  BY DEF RecordCommitDecision, IInv, backupVars
<1>2. /\ c \in Seq(Op) \ {<<>>} /\ Target(c) \in Auction
      /\ Undecided(primary, c)
      /\ Len(c) <= NextVersion(backup, Target(c))
  BY <1>1, CallType DEF IInv, CallSound, Near
<1>3. PICK ok \in BOOLEAN :
        /\ Persist(primary, primaryDisk, u, ok)
        /\ call' = [call EXCEPT !.phase = IF ok THEN "commit" ELSE "abort"]
  BY DEF RecordCommitDecision
<1>4. call'.phase # "decide"
  BY <1>1, <1>3 DEF TypeOK
<1>5. /\ u.auction_store = [primary.auction_store EXCEPT ![Target(c)] = c]
      /\ primary.auction_store \in [Auction -> Seq(Op)]
  BY <1>1 DEF TypeOK, PrimarySnapshot
<1>6. Lag(primary, backup) /\ Lag(primaryDisk, backup) /\ Lag(u, backup)
  BY <1>2, <1>5 DEF Near, Lag
<1>7. Lag(primary', backup') /\ Lag(primaryDisk', backup')
  BY <1>1, <1>3, <1>6 DEF Persist
<1>8. DiskFollows'
  <2>1. CASE ok
    BY <1>3, <2>1 DEF Persist, DiskFollows
  <2>2. CASE ~ok
    <3>1. primary' = primary /\ primaryDisk' \in {primaryDisk, u}
      BY <1>3, <2>2 DEF Persist
    <3>2. CASE primaryDisk' = primaryDisk
      BY <3>1, <3>2 DEF Near, DiskFollows, AheadOn, Undecided
    <3>3. CASE primaryDisk' = u
      BY <1>2, <1>5, <3>1, <3>3 DEF DiskFollows, AheadOn, Undecided
    <3>. QED
      BY <3>1, <3>2, <3>3
  <2>. QED
    BY <2>1, <2>2
<1>. QED
  BY <1>1, <1>4, <1>7, <1>8 DEF Near

(* The removal of a pending commit changes no history.                      *)
LEMMA ClearStores ==
    ASSUME IInv, ClearPendingDecision
    PROVE  primary'.auction_store = primary.auction_store
<1>1. TypeOK
  BY DEF IInv
<1>2. PICK ok \in BOOLEAN :
        Persist(primary, primaryDisk,
                [primary EXCEPT
                   !.pending_backup_commits[Ident(call.candidate)] = <<>>], ok)
  BY DEF ClearPendingDecision
<1>. QED
  BY <1>1, <1>2 DEF TypeOK, PrimarySnapshot, Persist

(* So the replicas are as near after it.                                    *)
LEMMA ClearNear ==
    ASSUME IInv, IInv', Near, ClearPendingDecision
    PROVE  Near'
<1>. DEFINE c == call.candidate
            u == [primary EXCEPT !.pending_backup_commits[Ident(c)] = <<>>]
<1>1. /\ TypeOK /\ backup' = backup /\ backupDisk' = backupDisk
  BY DEF ClearPendingDecision, IInv, backupVars
<1>2. PICK ok \in BOOLEAN :
        /\ Persist(primary, primaryDisk, u, ok)
        /\ call' = Idle
  BY DEF ClearPendingDecision, Finish
<1>3. u.auction_store = primary.auction_store
  BY <1>1 DEF TypeOK, PrimarySnapshot
<1>4. Lag(primary, backup) /\ Lag(primaryDisk, backup) /\ Lag(u, backup)
  BY <1>3 DEF Near, Lag
<1>5. Lag(primary', backup') /\ Lag(primaryDisk', backup')
  BY <1>1, <1>2, <1>4 DEF Persist
<1>6. DiskFollows' /\ primary'.auction_store = primary.auction_store
  <2>1. CASE ok
    BY <1>2, <1>3, <2>1 DEF Persist, DiskFollows
  <2>2. CASE ~ok
    <3>1. primary' = primary /\ primaryDisk' \in {primaryDisk, u}
      BY <1>2, <2>2 DEF Persist
    <3>. QED
      BY <1>3, <3>1 DEF Near, DiskFollows, AheadOn, Undecided
  <2>. QED
    BY <2>1, <2>2
<1>. QED
  BY <1>1, <1>2, <1>5, <1>6 DEF Near, Idle

(* The answer to a backup commit, or its loss, decides nothing.             *)
LEMMA CommitNear ==
    ASSUME IInv, IInv', Near, CommitAnswered \/ CommitFailed
    PROVE  Near'
<1>. DEFINE c == call.candidate
<1>1. CASE CommitAnswered
  <2>1. call.phase = "commit" /\ UNCHANGED primaryVars /\ TypeOK
    BY <1>1 DEF CommitAnswered, IInv
  <2>2. /\ c \in Seq(Op) \ {<<>>} /\ Ident(c) \in Id /\ Target(c) \in Auction
        /\ primary.idempotency_records[Ident(c)] = c
    BY <2>1, CallType DEF IInv, CallSound
  <2>3. PICK ok \in BOOLEAN :
          /\ CommitPreparedMutation(Ident(c), Target(c), ok)
          /\ \/ call' = [call EXCEPT !.phase = "clear"]
             \/ call' = Idle
    BY <1>1 DEF CommitAnswered, Finish
  <2>4. PICK id \in Id, auction \in Auction :
          id = Ident(c) /\ auction = Target(c)
    BY <2>2
  <2>5. CommitPreparedMutation(id, auction, ok)
    BY <2>3, <2>4 DEF CommitPreparedMutation, NextVersion, Persist
  <2>6. BackupAdvances
    BY <2>2, <2>4, <2>5, CommitAdvances
  <2>7. Timely(backup') /\ Timely(backupDisk')
    BY <2>5, CommitTimely
  <2>8. Keeps(backup, backup')
    BY <2>6 DEF BackupAdvances
  <2>9. call'.phase # "decide"
    BY <2>1, <2>3 DEF TypeOK, Idle
  <2>. QED
    BY <2>1, <2>7, <2>8, <2>9, BackupStepNear
<1>2. CASE CommitFailed
  <2>1. call'.phase # "decide"
    BY <1>2 DEF CommitFailed, Finish, Idle
  <2>. QED
    BY <1>2, <2>1, QuietNear DEF CommitFailed
<1>. QED
  BY <1>1, <1>2

(* The answer to an abort, or its loss, decides nothing.                    *)
LEMMA AbortNear ==
    ASSUME IInv, IInv', Near, AbortAnswered \/ AbortFailed
    PROVE  Near'
<1>. DEFINE c == call.candidate
<1>1. CASE AbortAnswered
  <2>1. call.phase = "abort" /\ UNCHANGED primaryVars /\ TypeOK
    BY <1>1 DEF AbortAnswered, IInv
  <2>2. Ident(c) \in Id /\ Target(c) \in Auction
    BY <2>1, CallType
  <2>3. PICK ok \in BOOLEAN : AbortPreparedMutation(Ident(c), Target(c), ok)
    BY <1>1 DEF AbortAnswered
  <2>4. PICK id \in Id, auction \in Auction :
          id = Ident(c) /\ auction = Target(c)
    BY <2>2
  <2>5. AbortPreparedMutation(id, auction, ok)
    BY <2>3, <2>4 DEF AbortPreparedMutation, Persist
  <2>6. BackupAdvances
    BY <2>5, AbortAdvances
  <2>7. Timely(backup') /\ Timely(backupDisk')
    BY <2>5, AbortTimely
  <2>8. Keeps(backup, backup')
    BY <2>6 DEF BackupAdvances
  <2>9. call'.phase # "decide"
    BY <1>1 DEF AbortAnswered, Finish, Idle
  <2>. QED
    BY <2>1, <2>7, <2>8, <2>9, BackupStepNear
<1>2. CASE AbortFailed
  <2>1. call'.phase # "decide"
    BY <1>2 DEF AbortFailed, Finish, Idle
  <2>. QED
    BY <1>2, <2>1, QuietNear DEF AbortFailed
<1>. QED
  BY <1>1, <1>2

(* A handler that outlived its caller leaves the call under way alone.      *)
LEMMA LateNear ==
    ASSUME IInv, IInv', Near, NEW m \in late, LateHandler(m)
    PROVE  Near'
<1>1. call' = call /\ UNCHANGED primaryVars /\ m \in Message
  BY DEF LateHandler, IInv, TypeOK
<1>2. PICK ok \in BOOLEAN :
        \/ m.type = "prepare" /\ PrepareAuctionMutation(m.candidate, ok)
        \/ m.type = "commit" /\ CommitPreparedMutation(m.id, m.auction, ok)
        \/ m.type = "abort" /\ AbortPreparedMutation(m.id, m.auction, ok)
  BY DEF LateHandler
<1>3. BackupAdvances /\ Timely(backup') /\ Timely(backupDisk')
  <2>1. CASE m.type = "prepare"
    BY <1>1, <1>2, <2>1, PrepareAdvances, PrepareTimely DEF Message
  <2>2. CASE m.type = "commit"
    <3>1. primary.idempotency_records[m.id] # <<>>
      BY <2>2 DEF IInv, LateSound
    <3>2. m.id \in Id /\ m.auction \in Auction
      BY <1>1, <2>2 DEF Message
    <3>. QED
      BY <1>2, <2>2, <3>1, <3>2, CommitAdvances, CommitTimely
  <2>3. CASE m.type = "abort"
    BY <1>1, <1>2, <2>3, AbortAdvances, AbortTimely DEF Message
  <2>. QED
    BY <1>2, <2>1, <2>2, <2>3
<1>4. Keeps(backup, backup')
  BY <1>3 DEF BackupAdvances
<1>. QED
  BY <1>1, <1>3, <1>4, CandidateStaysNear, BackupStepNear

(* A restart loads snapshots that are as near as the memories were.         *)
LEMMA RestartNear ==
    ASSUME IInv, IInv', Near, PrimaryRestart \/ BackupRestart
    PROVE  Near'
<1>1. CASE PrimaryRestart
  <2>1. /\ primary' = primaryDisk /\ primaryDisk' = primaryDisk
        /\ backup' = backup /\ backupDisk' = backupDisk /\ call' = Idle
    BY <1>1 DEF PrimaryRestart, backupVars
  <2>2. DiskFollows'
    BY <2>1 DEF DiskFollows
  <2>. QED
    BY <2>1, <2>2 DEF Near, Idle
<1>2. CASE BackupRestart
  <2>1. /\ backup' = backupDisk /\ backupDisk' = backupDisk
        /\ call' = call /\ UNCHANGED primaryVars
    BY <1>2 DEF BackupRestart
  <2>2. Keeps(backup, backup')
    BY <2>1 DEF IInv, ReplicasSound
  <2>. QED
    BY <2>1, <2>2, CandidateStaysNear, BackupStepNear DEF Near
<1>. QED
  BY <1>1, <1>2

(* Every step keeps the replicas near.                                      *)
LEMMA NextNear ==
    ASSUME IInv, IInv', Near, [Next]_vars
    PROVE  Near'
<1>1. CASE \E op \in Op : ApplyAuctionMutation(op)
  <2>1. UNCHANGED primaryVars /\ UNCHANGED backupVars
    BY <1>1 DEF ApplyAuctionMutation, ReplayRecordedResponse,
                ResumePendingBackupCommit, PrepareOnSynchronousBackup
  <2>2. call'.phase # "decide"
    BY <1>1 DEF ApplyAuctionMutation, ReplayRecordedResponse, Admissible,
                ResumePendingBackupCommit, PrepareOnSynchronousBackup, Idle
  <2>. QED
    BY <2>1, <2>2, QuietNear
<1>2. CASE CoordinateSynchronousCommit
  BY <1>2, PrepareNear, DecideNear, CommitNear, ClearNear, AbortNear
     DEF CoordinateSynchronousCommit
<1>3. CASE \E m \in late : LateHandler(m)
  BY <1>3, LateNear
<1>4. CASE PrimaryRestart \/ BackupRestart
  BY <1>4, RestartNear
<1>5. CASE UNCHANGED vars
  <2>1. UNCHANGED primaryVars /\ UNCHANGED backupVars /\ call' = call
    BY <1>5 DEF vars, primaryVars, backupVars
  <2>2. Keeps(backup, backup') /\ Timely(backup') /\ Timely(backupDisk')
    BY <2>1, KeepsReflexive DEF Near, backupVars
  <2>. QED
    BY <2>1, <2>2, CandidateStaysNear, BackupStepNear
<1>. QED
  BY <1>1, <1>2, <1>3, <1>4, <1>5 DEF Next

(* Empty replicas are near.                                                 *)
LEMMA InitNear ==
    ASSUME Init PROVE Near
<1>1. /\ \A a \in Auction : /\ primary.auction_store[a] = <<>>
                            /\ backup.auction_store[a] = <<>>
      /\ \A id \in Id : backup.prepared_mutations[id] = <<>>
      /\ primaryDisk = primary /\ backupDisk = backup
      /\ call.phase # "decide"
  BY DEF Init, EmptyStore, NoEntries, Idle
<1>2. Len(<<>>) = 0
  OBVIOUS
<1>. QED
  BY <1>1, <1>2 DEF Near, DiskFollows, Timely, Lag, NextVersion

(* Over any retries, late handlers, failed saves and restarts the replicas  *)
(* stay one pending decision apart, in memory and on disk.                  *)
THEOREM NearInductive == Spec => [](IInv /\ Near)
<1>1. Init => Near
  BY InitNear
<1>2. IInv /\ IInv' /\ Near /\ [Next]_vars => Near'
  BY NextNear
<1>. QED
  BY <1>1, <1>2, Inductive, PTL DEF Spec

(* Where the replicas differ the primary is exactly one decision ahead and  *)
(* still holds its pending commit, which a retry completes (the resumption  *)
(* in ApplyAuctionMutation, storage/service.py:411-446).                    *)
THEOREM OneDecisionAhead == Spec => []LagIsOnePendingDecision
<1>1. IInv /\ Near => LagIsOnePendingDecision
  <2>. SUFFICES ASSUME IInv, Near, NEW a \in Auction,
                       primary.auction_store[a] # backup.auction_store[a]
                PROVE  LET ahead == primary.auction_store[a]
                       IN /\ Len(ahead) = NextVersion(backup, a)
                          /\ primary.pending_backup_commits[Ident(ahead)] = ahead
    BY DEF LagIsOnePendingDecision
  <2>. DEFINE ahead == primary.auction_store[a]
              n == Len(ahead)
              x == ahead[n]
              r == primary.idempotency_records[IdOf[x]]
  <2>1. /\ primary.auction_store \in [Auction -> Seq(Op)]
        /\ backup.auction_store \in [Auction -> Seq(Op)]
        /\ primary.idempotency_records \in [Id -> Seq(Op)]
        /\ backup.idempotency_records \in [Id -> Seq(Op)]
        /\ WellRecorded(primary) /\ WellRecorded(backup)
    BY SnapshotTypes
  <2>2. Keeps(backup, primary) /\ Settled(primary, backup)
        /\ PendingRecorded(primary) /\ Lag(primary, backup)
    BY DEF IInv, Near, ReplicasSound, PrimaryOK, BackupOK
  <2>3. Pre(backup.auction_store[a], ahead)
    BY <2>1, <2>2, HistoryFollows
  <2>4. n > Len(backup.auction_store[a])
    <3>1. ahead \in Seq(Op) /\ backup.auction_store[a] \in Seq(Op)
      BY <2>1
    <3>2. n # Len(backup.auction_store[a])
      BY <2>3, <3>1, PreAntisymmetric
    <3>. QED
      BY <2>3, <3>1, <3>2 DEF Pre
  <2>5. n = NextVersion(backup, a)
    BY <2>1, <2>2, <2>4 DEF Lag, NextVersion
  <2>6. n \in 1..n /\ ahead \in Seq(Op) /\ ahead # <<>> /\ x \in Op
    BY <2>1, <2>4
  <2>7. /\ IdOf[x] \in Id /\ x = Last(ahead) /\ IdOf[x] = Ident(ahead)
    BY <2>6, OpAssumption DEF Last, Ident
  <2>8. AuctionOf[x] = a /\ Len(r) = n /\ Pre(r, ahead) /\ r \in Seq(Op)
    BY <2>1, <2>6, <2>7 DEF WellRecorded
  <2>9. r = ahead
    BY <2>6, <2>8, PreAntisymmetric
  <2>10. primary.pending_backup_commits[IdOf[x]] # <<>>
    <3>. SUFFICES ASSUME primary.pending_backup_commits[IdOf[x]] = <<>>
                  PROVE  FALSE
      OBVIOUS
    <3>1. backup.idempotency_records[IdOf[x]] = ahead
      BY <2>2, <2>6, <2>7, <2>9 DEF Settled
    <3>2. Target(ahead) = a
      BY <2>7, <2>8 DEF Target
    <3>3. Pre(ahead, backup.auction_store[a])
      BY <2>1, <2>6, <2>7, <3>1, <3>2 DEF WellRecorded
    <3>. QED
      BY <2>1, <2>4, <3>3 DEF Pre
  <2>. QED
    BY <2>2, <2>5, <2>7, <2>9, <2>10 DEF PendingRecorded
<1>. QED
  BY <1>1, NearInductive, PTL

-----------------------------------------------------------------------------
(* The refinement of AuctionLedger *)

(* A history one longer than its prefix is the prefix and one operation.    *)
LEMMA PreAppend ==
    ASSUME NEW S, NEW s \in Seq(S), NEW c \in Seq(S) \ {<<>>},
           Len(c) = Len(s) + 1, Pre(s, c)
    PROVE  c = Append(s, Last(c))
<1>1. Last(c) = c[Len(c)] /\ Last(c) \in S
  BY LastInSeq
<1>. DEFINE d == Append(s, Last(c))
<1>2. d \in Seq(S) /\ Len(d) = Len(c)
  BY <1>1
<1>3. ASSUME NEW i \in 1..Len(c) PROVE c[i] = d[i]
  BY <1>1, <1>3 DEF Pre
<1>. HIDE DEF d
<1>4. c = d
  BY <1>2, <1>3
<1>. QED
  BY <1>4 DEF d

(* A step that adds one undecided operation to the primary's histories is a *)
(* commit of the ledger.                                                    *)
LEMMA LedgerCommits ==
    ASSUME IInv, NEW c \in Seq(Op) \ {<<>>},
           AheadOn(primary'.auction_store, c), acked' = acked
    PROVE  Ledger!Next
<1>. DEFINE op == Last(c)
            h == primary.auction_store
<1>1. op \in Op /\ IdOf[op] \in Id /\ AuctionOf[op] \in Auction
      /\ Len(c) \in Nat \ {0} /\ op = c[Len(c)]
  BY LastInSeq, OpAssumption
<1>2. /\ h \in [Auction -> Seq(Op)] /\ WellRecorded(primary)
      /\ primary.idempotency_records \in [Id -> Seq(Op)]
  BY SnapshotTypes
<1>3. /\ primary.idempotency_records[IdOf[op]] = <<>>
      /\ Len(c) = Len(h[AuctionOf[op]]) + 1
      /\ Pre(h[AuctionOf[op]], c)
      /\ primary'.auction_store = [h EXCEPT ![AuctionOf[op]] = c]
  BY DEF AheadOn, Undecided, Ident, Target
<1>4. c = Append(h[AuctionOf[op]], op)
  <2>1. h[AuctionOf[op]] \in Seq(Op)
    BY <1>1, <1>2
  <2>. QED
    BY <1>3, <2>1, PreAppend
<1>5. ASSUME NEW a \in Auction, NEW i \in 1..Len(h[a])
      PROVE  IdOf[h[a][i]] # IdOf[op]
  <2>1. Len(primary.idempotency_records[IdOf[h[a][i]]]) = i
    BY <1>2, <1>5 DEF WellRecorded
  <2>. QED
    BY <1>3, <1>5, <2>1
<1>6. Ledger!Unused(op)
  BY <1>5 DEF Ledger!Unused
<1>7. Ledger!Commit(op)
  BY <1>3, <1>4, <1>6 DEF Ledger!Commit
<1>. QED
  BY <1>1, <1>7 DEF Ledger!Next

(* To answer success with a recorded candidate is an acknowledgement of the *)
(* ledger: the candidate is its auction's history up to it.                 *)
LEMMA LedgerAcknowledges ==
    ASSUME IInv, NEW c \in Seq(Op) \ {<<>>},
           primary.idempotency_records[Ident(c)] = c,
           primary'.auction_store = primary.auction_store,
           acked' = acked \cup {c}
    PROVE  Ledger!Next
<1>. DEFINE h == primary.auction_store[Target(c)]
<1>1. Target(c) \in Auction /\ Ident(c) \in Id /\ Len(c) \in Nat \ {0}
  BY CandidateType, LastInSeq
<1>2. primary.auction_store \in [Auction -> Seq(Op)] /\ WellRecorded(primary)
  BY SnapshotTypes
<1>3. Pre(c, h)
  BY <1>1, <1>2 DEF WellRecorded
<1>4. Len(c) \in 1..Len(h) /\ c = SubSeq(h, 1, Len(c))
  BY <1>1, <1>2, <1>3 DEF Pre
<1>5. Ledger!Acknowledge(Target(c), Len(c))
  BY <1>4 DEF Ledger!Acknowledge
<1>. QED
  BY <1>1, <1>4, <1>5 DEF Ledger!Next

(* Every step of a session is a step of the ledger, or none.                *)
LEMMA NextLedger ==
    ASSUME IInv, Near, [Next]_vars
    PROVE  [Ledger!Next]_Ledger!ledgerVars
<1>. DEFINE c == call.candidate
<1>1. CASE primary'.auction_store = primary.auction_store /\ acked' = acked
  BY <1>1 DEF Ledger!ledgerVars
<1>2. ASSUME NEW op \in Op, ReplayRecordedResponse(op)
      PROVE  Ledger!Next
  <2>1. PICK d \in Seq(Op) \ {<<>>} : d = primary.idempotency_records[IdOf[op]]
    BY <1>2, SnapshotTypes, OpAssumption DEF ReplayRecordedResponse
  <2>2. Last(d) = op /\ acked' = acked \cup {d} /\ primary' = primary
    BY <1>2, <2>1 DEF ReplayRecordedResponse, primaryVars
  <2>. QED
    BY <2>1, <2>2, LedgerAcknowledges DEF Ident
<1>3. CASE RecordCommitDecision
  <2>1. /\ call.phase = "decide" /\ acked' = acked /\ TypeOK
        /\ \/ primary' = primary
           \/ primary'.auction_store =
                [primary EXCEPT !.auction_store[Target(c)] = c,
                                !.idempotency_records[Ident(c)] = c,
                                !.pending_backup_commits[Ident(c)] = c].auction_store
    BY <1>3 DEF RecordCommitDecision, Persist, clientVars, IInv
  <2>2. c \in Seq(Op) \ {<<>>} /\ Undecided(primary, c)
    BY <2>1, CallType DEF IInv, CallSound
  <2>3. PICK d \in Seq(Op) \ {<<>>} : d = c
    BY <2>2
  <2>4. primary' = primary \/ AheadOn(primary'.auction_store, d)
    BY <2>1, <2>2, <2>3 DEF TypeOK, PrimarySnapshot, AheadOn
  <2>. QED
    BY <1>1, <2>1, <2>4, LedgerCommits
<1>4. CASE ClearPendingDecision
  <2>1. call.phase = "clear" /\ acked' \in {acked, acked \cup {c}} /\ TypeOK
    BY <1>4 DEF ClearPendingDecision, IInv
  <2>2. PICK d \in Seq(Op) \ {<<>>} : d = c
    BY <2>1, CallType
  <2>3. primary.idempotency_records[Ident(d)] = d
    BY <2>1, <2>2 DEF IInv, CallSound
  <2>4. primary'.auction_store = primary.auction_store
    BY <1>4, ClearStores
  <2>. QED
    BY <1>1, <2>1, <2>2, <2>3, <2>4, LedgerAcknowledges
<1>5. CASE PrimaryRestart
  <2>1. primary' = primaryDisk /\ acked' = acked
    BY <1>5 DEF PrimaryRestart, clientVars
  <2>2. \/ primaryDisk.auction_store = primary.auction_store
        \/ \E d \in Seq(Op) \ {<<>>} : AheadOn(primaryDisk.auction_store, d)
    BY DEF Near, DiskFollows
  <2>. QED
    BY <1>1, <2>1, <2>2, LedgerCommits
<1>6. ASSUME NEW op \in Op,
             ResumePendingBackupCommit(op) \/ PrepareOnSynchronousBackup(op)
      PROVE  [Ledger!Next]_Ledger!ledgerVars
  BY <1>1, <1>6 DEF ResumePendingBackupCommit, PrepareOnSynchronousBackup,
                    primaryVars
<1>7. CASE \/ PrepareAnswered \/ PrepareFailed \/ CommitAnswered
           \/ CommitFailed \/ AbortAnswered \/ AbortFailed
  BY <1>1, <1>7 DEF PrepareAnswered, PrepareFailed, CommitAnswered,
     CommitFailed, AbortAnswered, AbortFailed, primaryVars, clientVars
<1>8. CASE (\E m \in late : LateHandler(m)) \/ BackupRestart
  BY <1>1, <1>8 DEF LateHandler, BackupRestart, primaryVars, clientVars
<1>9. CASE UNCHANGED vars
  BY <1>1, <1>9 DEF vars
<1>. QED
  BY <1>2, <1>3, <1>4, <1>5, <1>6, <1>7, <1>8, <1>9
     DEF Next, ApplyAuctionMutation, CoordinateSynchronousCommit

(* A session implements AuctionLedger: one growing history per auction, no  *)
(* request id applied twice, success only for what the history holds, also  *)
(* over a restart that brings back a decision answered as failed            *)
(* (ApplyAuctionMutation and the coordination below it,                     *)
(* storage/service.py:370-745).                                             *)
THEOREM SessionRefinesLedger == Spec => LedgerSpec
<1>1. Init => Ledger!Init
  BY DEF Init, EmptyStore, Ledger!Init
<1>2. IInv /\ Near /\ [Next]_vars => [Ledger!Next]_Ledger!ledgerVars
  BY NextLedger
<1>. QED
  BY <1>1, <1>2, NearInductive, PTL DEF Spec, LedgerSpec, Ledger!Spec
=============================================================================
