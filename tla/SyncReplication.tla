--------------------------- MODULE SyncReplication ---------------------------
(***************************************************************************)
(* One replication session of backend/blindsided/storage/service.py: a     *)
(* ready primary and its designated synchronous backup in one epoch.       *)
(* Every auction mutation runs prepare, durable primary decision, backup   *)
(* commit; either process may crash and restart from its snapshot, every   *)
(* RPC may be lost or reach its handler after the caller gave up, and      *)
(* every snapshot write may fail before or after it replaced the file.     *)
(*                                                                         *)
(* A committed auction is the sequence of the operations that built it     *)
(* (candidate construction is a function of the stored auction and the     *)
(* request), so its version is the length and <<>> is "no such auction".   *)
(* A candidate determines the request id, the fingerprint and the          *)
(* idempotency record that travel with it; <<>> also stands for an absent  *)
(* map entry.                                                              *)
(***************************************************************************)
EXTENDS Naturals, Sequences, SequencesExt

CONSTANTS
    Id,          \* request ids
    Op,          \* request contents: one element per fingerprint
    Auction,     \* auction ids
    IdOf,        \* [Op -> Id]: a client may reuse an id for other contents
    AuctionOf,   \* [Op -> Auction]
    Tombstoned,  \* ids this primary had tombstoned while it was a backup
    NoAuction    \* absent abort tombstone

ASSUME OpAssumption ==
    /\ IdOf \in [Op -> Id]
    /\ AuctionOf \in [Op -> Auction]
    /\ NoAuction \notin Auction

VARIABLES
    primary,      \* auction_store, idempotency_records, pending_backup_commits
    primaryDisk,  \* the snapshot a restarted primary loads
    backup,       \* auction_store, idempotency_records, prepared and aborted
    backupDisk,   \* the snapshot a restarted backup loads
    call,         \* the ApplyAuctionMutation that holds the state lock
    late,         \* RPCs the primary gave up on whose handler may still run
    acked,        \* candidates a client has seen acknowledged with success
    answer        \* the latest attempt's answer for each operation

vars == <<primary, primaryDisk, backup, backupDisk, call, late, acked, answer>>

primaryVars == <<primary, primaryDisk>>
backupVars == <<backup, backupDisk>>
clientVars == <<acked, answer>>

-----------------------------------------------------------------------------
(* Values *)

EmptyStore == [a \in Auction |-> <<>>]
NoEntries == [id \in Id |-> <<>>]

Ident(c) == IdOf[Last(c)]
Target(c) == AuctionOf[Last(c)]

Idle == [phase |-> "idle", candidate |-> <<>>]

RpcPhase == {"prepare", "commit", "abort"}

PrepareRequest(c) == [type |-> "prepare", candidate |-> c]

DecisionRequest(type, c) ==
    [type |-> type, id |-> Ident(c), auction |-> Target(c)]

CurrentRpc ==
    IF call.phase = "prepare"
    THEN PrepareRequest(call.candidate)
    ELSE DecisionRequest(call.phase, call.candidate)

Message ==
         [type : {"prepare"}, candidate : Seq(Op) \ {<<>>}]
    \cup [type : {"commit", "abort"}, id : Id, auction : Auction]

PrimarySnapshot ==
    [auction_store          : [Auction -> Seq(Op)],
     idempotency_records    : [Id -> Seq(Op)],
     pending_backup_commits : [Id -> Seq(Op)]]

BackupSnapshot ==
    [auction_store       : [Auction -> Seq(Op)],
     idempotency_records : [Id -> Seq(Op)],
     prepared_mutations  : [Id -> Seq(Op)],
     aborted_mutations   : [Id -> Auction \cup {NoAuction}]]

(* Faults: the snapshot leaves out the idempotency records; a failed save   *)
(* is not rolled back in memory.                                            *)
PersistWithoutRecords(memory, disk, new, ok) ==
    \/ /\ ok /\ memory' = new
       /\ disk' = [new EXCEPT !.idempotency_records = NoEntries]
    \/ ~ok /\ memory' = memory /\ disk' = disk

PersistWithoutRollback(memory, disk, new, ok) ==
    /\ memory' = new
    /\ disk' = IF ok THEN new ELSE disk

(* A handler changes its maps and saves them.  A failed save is rolled back *)
(* in memory, but the exception may come after os.replace (the directory    *)
(* sync), when the file already holds the new state.                        *)
Persist(memory, disk, new, ok) ==
    \/ ok /\ memory' = new /\ disk' = new
    \/ ~ok /\ memory' = memory /\ disk' \in {disk, new}

-----------------------------------------------------------------------------
(* Backup handlers; ok is the success flag of the response *)

NextVersion(snapshot, a) == Len(snapshot.auction_store[a]) + 1

(* Fault: an id prepared with other contents counts as prepared. *)
RefusesTombstonedOrOld(c) ==
    \/ backup.aborted_mutations[Ident(c)] # NoAuction
    \/ backup.idempotency_records[Ident(c)] # <<>>
    \/ /\ backup.prepared_mutations[Ident(c)] = <<>>
       /\ Len(c) # NextVersion(backup, Target(c))

RefusesPreparation(c) ==
    LET existing == backup.prepared_mutations[Ident(c)]
    IN \/ backup.aborted_mutations[Ident(c)] # NoAuction
       \/ existing \notin {<<>>, c}
       \/ /\ existing = <<>>
          /\ \/ backup.idempotency_records[Ident(c)] # <<>>
             \/ Len(c) # NextVersion(backup, Target(c))

(* A preparation is refused, replayed or new. *)
PrepareAuctionMutation(c, ok) ==
    \/ RefusesPreparation(c) /\ ~ok /\ UNCHANGED backupVars
    \/ /\ ~RefusesPreparation(c)
       /\ backup.prepared_mutations[Ident(c)] # <<>>
       /\ ok /\ UNCHANGED backupVars
    \/ /\ ~RefusesPreparation(c)
       /\ backup.prepared_mutations[Ident(c)] = <<>>
       /\ Persist(backup, backupDisk,
                  [backup EXCEPT !.prepared_mutations[Ident(c)] = c], ok)

(* A response that succeeds carries the version of the committed record. *)
CommitPreparedMutation(id, auction, ok) ==
    LET c == backup.prepared_mutations[id]
        record == backup.idempotency_records[id]
        tombstoned == backup.aborted_mutations[id] # NoAuction
        committable == /\ Target(c) = auction
                       /\ Len(c) = NextVersion(backup, auction)
    IN \/ tombstoned /\ ~ok /\ UNCHANGED backupVars
       \/ /\ ~tombstoned /\ c = <<>>
          /\ ok = (record # <<>> /\ Target(record) = auction)
          /\ UNCHANGED backupVars
       \/ ~tombstoned /\ c # <<>> /\ ~committable /\ ~ok /\ UNCHANGED backupVars
       \/ /\ ~tombstoned /\ c # <<>> /\ committable
          /\ Persist(backup, backupDisk,
                     [backup EXCEPT !.auction_store[auction] = c,
                                    !.idempotency_records[id] = c,
                                    !.prepared_mutations[id] = <<>>], ok)

(* With nothing prepared the abort succeeds and leaves no tombstone. *)
AbortPreparedMutation(id, auction, ok) ==
    LET c == backup.prepared_mutations[id]
        tombstone == backup.aborted_mutations[id]
        committed == backup.idempotency_records[id] # <<>>
        mine == c # <<>> /\ Target(c) = auction
    IN \/ committed /\ ~ok /\ UNCHANGED backupVars
       \/ /\ ~committed /\ tombstone # NoAuction
          /\ ok = (tombstone = auction)
          /\ UNCHANGED backupVars
       \/ /\ ~committed /\ tombstone = NoAuction /\ ~mine
          /\ ok = (c = <<>>)
          /\ UNCHANGED backupVars
       \/ /\ ~committed /\ tombstone = NoAuction /\ mine
          /\ Persist(backup, backupDisk,
                     [backup EXCEPT !.prepared_mutations[id] = <<>>,
                                    !.aborted_mutations[id] = auction], ok)

-----------------------------------------------------------------------------
(* The primary.  ApplyAuctionMutation holds the state lock from the first   *)
(* check to the answer, so one call is in progress at a time.               *)

(* Fault: the finished call is not released. *)
FinishKeepingCandidate(outcome) ==
    /\ call' = [call EXCEPT !.phase = "idle"]
    /\ answer' = [answer EXCEPT ![Last(call.candidate)] = outcome]

Finish(outcome) ==
    /\ call' = Idle
    /\ answer' = [answer EXCEPT ![Last(call.candidate)] = outcome]

(* A refused request (authority, tombstone, fingerprint, domain rule) is a  *)
(* step that changes nothing.                                               *)
Admissible(op) == call = Idle /\ IdOf[op] \notin Tombstoned

(* Fault: the recorded response is replayed before the backup committed. *)
ReplayWhilePending(op) ==
    LET record == primary.idempotency_records[IdOf[op]]
    IN /\ Admissible(op)
       /\ record # <<>> /\ Last(record) = op
       /\ acked' = acked \cup {record}
       /\ answer' = [answer EXCEPT ![op] = "success"]
       /\ UNCHANGED <<primaryVars, backupVars, call, late>>

(* An acknowledged request replays its recorded response. *)
ReplayRecordedResponse(op) ==
    LET record == primary.idempotency_records[IdOf[op]]
    IN /\ Admissible(op)
       /\ record # <<>> /\ Last(record) = op
       /\ primary.pending_backup_commits[IdOf[op]] = <<>>
       /\ acked' = acked \cup {record}
       /\ answer' = [answer EXCEPT ![op] = "success"]
       /\ UNCHANGED <<primaryVars, backupVars, call, late>>

(* Fault: a retry reports the pending commit and does not complete it. *)
ResumeWithoutCommit(op) ==
    /\ Admissible(op)
    /\ primary.pending_backup_commits[IdOf[op]] # <<>>
    /\ answer' = [answer EXCEPT ![op] = "pending"]
    /\ UNCHANGED <<primaryVars, backupVars, call, late, acked>>

(* A retry of a decided request first completes its backup commit. *)
ResumePendingBackupCommit(op) ==
    LET record == primary.idempotency_records[IdOf[op]]
        decision == primary.pending_backup_commits[IdOf[op]]
    IN /\ Admissible(op)
       /\ record # <<>> /\ Last(record) = op /\ decision # <<>>
       /\ call' = [phase |-> "commit", candidate |-> decision]
       /\ answer' = [answer EXCEPT ![op] = "none"]
       /\ UNCHANGED <<primaryVars, backupVars, late, acked>>

(* A new request builds its candidate and sends it to the backup. *)
PrepareOnSynchronousBackup(op) ==
    /\ Admissible(op)
    /\ primary.idempotency_records[IdOf[op]] = <<>>
    /\ call' = [phase |-> "prepare",
                candidate |-> Append(primary.auction_store[AuctionOf[op]], op)]
    /\ answer' = [answer EXCEPT ![op] = "none"]
    /\ UNCHANGED <<primaryVars, backupVars, late, acked>>

PrepareAnswered ==
    /\ call.phase = "prepare"
    /\ \E ok \in BOOLEAN :
         /\ PrepareAuctionMutation(call.candidate, ok)
         /\ call' = [call EXCEPT !.phase = IF ok THEN "decide" ELSE "abort"]
    /\ UNCHANGED <<primaryVars, late, clientVars>>

PrepareFailed ==
    /\ call.phase = "prepare"
    /\ call' = [call EXCEPT !.phase = "abort"]
    /\ late' = late \cup {CurrentRpc}
    /\ UNCHANGED <<primaryVars, backupVars, clientVars>>

RecordCommitDecision ==
    LET c == call.candidate
    IN /\ call.phase = "decide"
       /\ \E ok \in BOOLEAN :
            /\ Persist(primary, primaryDisk,
                       [primary EXCEPT
                          !.auction_store[Target(c)] = c,
                          !.idempotency_records[Ident(c)] = c,
                          !.pending_backup_commits[Ident(c)] = c], ok)
            /\ call' = [call EXCEPT !.phase = IF ok THEN "commit" ELSE "abort"]
       /\ UNCHANGED <<backupVars, late, clientVars>>

CommitAnswered ==
    LET id == Ident(call.candidate)
    IN /\ call.phase = "commit"
       /\ \E ok \in BOOLEAN :
            /\ CommitPreparedMutation(id, Target(call.candidate), ok)
            /\ IF /\ ok
                  /\ Len(backup'.idempotency_records[id]) = Len(call.candidate)
               THEN call' = [call EXCEPT !.phase = "clear"] /\ UNCHANGED answer
               ELSE Finish("pending")
       /\ UNCHANGED <<primaryVars, late, acked>>

(* Fault: a commit without a response is taken for committed. *)
CommitTakenForGranted ==
    /\ call.phase = "commit"
    /\ call' = [call EXCEPT !.phase = "clear"]
    /\ late' = late \cup {CurrentRpc}
    /\ UNCHANGED <<primaryVars, backupVars, clientVars>>

CommitFailed ==
    /\ call.phase = "commit"
    /\ Finish("pending")
    /\ late' = late \cup {CurrentRpc}
    /\ UNCHANGED <<primaryVars, backupVars, acked>>

(* The acknowledged decision is removed durably before success is answered. *)
ClearPendingDecision ==
    LET c == call.candidate
    IN /\ call.phase = "clear"
       /\ \E ok \in BOOLEAN :
            /\ Persist(primary, primaryDisk,
                       [primary EXCEPT
                          !.pending_backup_commits[Ident(c)] = <<>>], ok)
            /\ Finish(IF ok THEN "success" ELSE "pending")
            /\ acked' = IF ok THEN acked \cup {c} ELSE acked
       /\ UNCHANGED <<backupVars, late>>

AbortAnswered ==
    /\ call.phase = "abort"
    /\ \E ok \in BOOLEAN :
         AbortPreparedMutation(Ident(call.candidate), Target(call.candidate), ok)
    /\ Finish("failed")
    /\ UNCHANGED <<primaryVars, late, acked>>

AbortFailed ==
    /\ call.phase = "abort"
    /\ Finish("failed")
    /\ late' = late \cup {CurrentRpc}
    /\ UNCHANGED <<primaryVars, backupVars, acked>>

-----------------------------------------------------------------------------
(* The environment *)

(* A handler that waited for the backup's state lock past the one-second    *)
(* deadline of its caller.  Each attempt of a retried request sends an      *)
(* equal RPC, so an element of late may stand for several of them.          *)
LateHandler(m) ==
    /\ \E ok \in BOOLEAN :
         \/ m.type = "prepare" /\ PrepareAuctionMutation(m.candidate, ok)
         \/ m.type = "commit" /\ CommitPreparedMutation(m.id, m.auction, ok)
         \/ m.type = "abort" /\ AbortPreparedMutation(m.id, m.auction, ok)
    /\ UNCHANGED <<primaryVars, call, late, clientVars>>

(* The handler dies with the process, the RPC it had sent does not. *)
PrimaryRestart ==
    /\ primary' = primaryDisk
    /\ call' = Idle
    /\ late' = IF call.phase \in RpcPhase THEN late \cup {CurrentRpc} ELSE late
    /\ UNCHANGED <<primaryDisk, backupVars, clientVars>>

BackupRestart ==
    /\ backup' = backupDisk
    /\ late' = {}
    /\ UNCHANGED <<primaryVars, backupDisk, call, clientVars>>

-----------------------------------------------------------------------------
Init ==
    /\ primary = [auction_store          |-> EmptyStore,
                  idempotency_records    |-> NoEntries,
                  pending_backup_commits |-> NoEntries]
    /\ primaryDisk = primary
    /\ backup = [auction_store       |-> EmptyStore,
                 idempotency_records |-> NoEntries,
                 prepared_mutations  |-> NoEntries,
                 aborted_mutations   |-> [id \in Id |-> NoAuction]]
    /\ backupDisk = backup
    /\ call = Idle
    /\ late = {}
    /\ acked = {}
    /\ answer = [op \in Op |-> "none"]

ApplyAuctionMutation(op) ==
    \/ ReplayRecordedResponse(op)
    \/ ResumePendingBackupCommit(op)
    \/ PrepareOnSynchronousBackup(op)

CoordinateSynchronousCommit ==
    \/ PrepareAnswered
    \/ PrepareFailed
    \/ RecordCommitDecision
    \/ CommitAnswered
    \/ CommitFailed
    \/ ClearPendingDecision
    \/ AbortAnswered
    \/ AbortFailed

Next ==
    \/ \E op \in Op : ApplyAuctionMutation(op)
    \/ CoordinateSynchronousCommit
    \/ \E m \in late : LateHandler(m)
    \/ PrimaryRestart
    \/ BackupRestart

Spec == Init /\ [][Next]_vars

(* The same session on disks whose failed writes leave the old snapshot. *)
SoundDiskSpec ==
    Init /\ [][Next /\ primaryDisk' = primary' /\ backupDisk' = backup']_vars
-----------------------------------------------------------------------------
(* Properties *)

(* Every variable keeps its shape: a candidate under way is not empty, the  *)
(* RPCs given up on are well-formed.                                        *)
TypeOK ==
    /\ primary \in PrimarySnapshot /\ primaryDisk \in PrimarySnapshot
    /\ backup \in BackupSnapshot /\ backupDisk \in BackupSnapshot
    /\ call \in [phase : RpcPhase \cup {"idle", "decide", "clear"},
                 candidate : Seq(Op)]
    /\ (call.phase = "idle") <=> (call.candidate = <<>>)
    /\ late \subseteq Message
    /\ acked \subseteq Seq(Op) \ {<<>>}
    /\ answer \in [Op -> {"none", "success", "pending", "failed"}]

CommittedOn(snapshot, c) ==
    /\ snapshot.idempotency_records[Ident(c)] = c
    /\ IsPrefix(c, snapshot.auction_store[Target(c)])

(* A mutation answered with success is committed, with its idempotency      *)
(* record, by both replicas, and stays so over any later retries, late      *)
(* handlers, failed snapshot writes and restarts (specification section 9). *)
AcknowledgedOnBothReplicas ==
    \A c \in acked :
      \A s \in {primary, primaryDisk, backup, backupDisk} : CommittedOn(s, c)

(* No request id is applied twice, to one auction or to two, on any replica *)
(* or in any snapshot a restart may load (specification section 7).         *)
AppliedAtMostOnce ==
    \A s \in {primary, primaryDisk, backup, backupDisk} :
      \A a, b \in Auction :
        \A i \in DOMAIN s.auction_store[a], j \in DOMAIN s.auction_store[b] :
          IdOf[s.auction_store[a][i]] = IdOf[s.auction_store[b][j]]
            => a = b /\ i = j

(* The backup commits only what the primary durably decided, in the order   *)
(* the primary decided it: prepared state never surfaces as committed.      *)
BackupFollowsPrimary ==
    \A t \in {backup, backupDisk}, p \in {primary, primaryDisk} :
      \A a \in Auction : IsPrefix(t.auction_store[a], p.auction_store[a])

(* Where the replicas differ the primary is one decision ahead, and holds   *)
(* the pending commit that a retry of the same request will complete.       *)
LagIsOnePendingDecision ==
    \A a \in Auction :
      LET ahead == primary.auction_store[a]
      IN ahead # backup.auction_store[a] =>
           /\ Len(ahead) = NextVersion(backup, a)
           /\ primary.pending_backup_commits[Ident(ahead)] = ahead

(* "After the commit decision is durable, the mutation is irrevocable": a   *)
(* request whose decision is pending is not aborted on the backup.  An      *)
(* abort of an earlier attempt that reaches its handler late breaks it.     *)
DecidedNeverTombstoned ==
    \A id \in Id :
      primary.pending_backup_commits[id] # <<>>
        => backup.aborted_mutations[id] = NoAuction

(* A mutation whose last attempt was answered as failed is not committed.   *)
(* A decision whose snapshot write failed after the file was replaced is    *)
(* rolled back, answered as failed, and committed by the next restart.      *)
FailedAttemptNotCommitted ==
    \A op \in Op :
      answer[op] = "failed" =>
        \A i \in DOMAIN primary.auction_store[AuctionOf[op]] :
          primary.auction_store[AuctionOf[op]][i] # op

-----------------------------------------------------------------------------
(* What the session promises its clients: one growing history per auction,  *)
(* in which an acknowledged candidate is a prefix.                          *)
Ledger == INSTANCE AuctionLedger WITH
            history <- primary.auction_store, acknowledged <- acked

LedgerSpec == Ledger!Spec

-----------------------------------------------------------------------------
(* Liveness.  Every RPC has a deadline and every handler ends, so a call    *)
(* under way ends; ADR-014 has clients retry an acknowledgement-pending     *)
(* request; the network and the disks do not fail for ever.                 *)

BackupCommits ==
    /\ CommitAnswered
    /\ call'.phase = "clear"

DecisionCleared ==
    /\ ClearPendingDecision
    /\ primary'.pending_backup_commits # primary.pending_backup_commits

Fairness ==
    /\ WF_vars(CoordinateSynchronousCommit)
    /\ \A op \in Op : SF_vars(ResumePendingBackupCommit(op))
    /\ SF_vars(BackupCommits)
    /\ SF_vars(DecisionCleared)

FairSpec == Spec /\ Fairness

(* Retries complete every pending backup commit, unless the backup holds    *)
(* an abort tombstone for the request.                                      *)
PendingCommitResolves ==
    \A id \in Id :
      primary.pending_backup_commits[id] # <<>> ~>
        \/ primary.pending_backup_commits[id] = <<>>
        \/ backup.aborted_mutations[id] # NoAuction
=============================================================================
