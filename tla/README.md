# Blindsided: TLA+ verification

Blindsided is a sealed-bid auction system: an auction service in front of a
primary storage replica, a synchronous backup and standbys, and a cluster
controller that watches the replicas and moves the primary and backup roles
between them (`backend/blindsided/`).  This directory holds TLA+ models of the
parts that keep auctions correct, the TLC configurations that check them, and
TLAPS proofs about them.  Paths below are relative to the repository root.

1. [The system](#1-the-system): inventory
2. [Modules and plan](#2-modules-and-plan)
3. [How the models correspond to the code](#3-how-the-models-correspond-to-the-code)
4. [Runs](#4-runs): what each shows, bounds, fairness
5. [Where the code and its documents disagree](#5-where-the-code-and-its-documents-disagree)
6. [Proofs](#6-proofs)
7. [What is not modelled](#7-what-is-not-modelled)
8. [Running](#8-running)

## 1. The system

| Component | State it keeps | Operations | Interacts with |
|---|---|---|---|
| Synchronous replication: `storage/service.py` (208-1148), `storage/replication_client.py` | auctions, idempotency records, prepared and aborted mutations, pending backup commits; role, epoch, readiness; all under one re-entrant `state_lock`, all but readiness in one snapshot file | `ApplyAuctionMutation` at the primary; `PrepareAuctionMutation`, `CommitPreparedMutation`, `AbortPreparedMutation` at the backup | RPCs primary to backup with a deadline each; called by the auction service |
| Auction domain: `storage/auction_domain.py` | none (a function of an auction, a request and the clock) | one candidate builder per mutation, validation of committed states | called by replication, promotion and the overdue sweep |
| Promotion and full-state synchronization: `storage/service.py` (1150-1663), `synchronization_client.py` | as replication | `BeginPrimaryPromotion`, `ConfirmPromotionState`, `CompletePrimaryPromotion`, `SyncFullState`, `SynchronizeFromPrimary` | called by the controller and by a backup that starts |
| Cluster controller: `controller/service.py` | membership, primary assignment, last epoch, election flag; all volatile | `RegisterNode`, `GetPrimary`, `ReportSynchronizationComplete`, heartbeat monitor, election, promotion and reprotection threads | RPCs to every replica outside its lock |
| Snapshot repository: `storage/snapshot_repository.py` | one file | `save` (temporary file, fsync, rename, directory fsync), `load` | replication, promotion |
| Overdue reveal: `storage/service.py` (465-556) | none | the reveal a primary sends itself, with a fixed request id, when it completes its promotion | `ApplyAuctionMutation`, through the backup |
| Storage start-up: `storage/server.py`, `service.py` (119-204) | | register, synchronize, re-register every 5 s | controller |
| Auction service: `auction_service/service.py` | none between calls; within one the attempt, the version to send and the assignment that failed | create, bid, withdraw, reveal with bounded retries; search, get, watch | controller (`GetPrimary`), primary |
| Web frontend: `frontend/src` | what it last showed | bid, confirm, watch with reconnection | auction service |
| Observability, configuration, generated protocol code, demo control, deployment | metrics and files | | |

What is hard, and what makes each component correct:

* **Replication.**  An RPC that timed out may still run at the backup, after
  the calls that followed it; requests are retried with the same id; either
  replica may restart at any point and a snapshot write may fail, before or
  after the file was replaced.  Correct means: an acknowledged mutation is
  committed on both replicas and stays so; the backup commits only what the
  primary durably decided, in its order; a request id is applied at most once;
  the replicas differ by at most one decision, which a retry completes.
* **Domain rules.**  Sequences of bids, replacements, withdrawals and
  rebids must keep acceptance orders dense and decide ties by acceptance; a
  revealed auction is final; no accepted sequence may produce a state that
  `committed_state_error` refuses, because the auction would then refuse every
  later mutation and a replica that holds it could not be promoted.
* **Controller.**  Every step of a recovery waits for an RPC outside the lock
  while heartbeats, registrations and other threads change the assignment.
  Correct means: epochs grow; a promotion or a replacement under way always has
  the thread that ends it; late answers activate nothing; the published primary
  holds the committed state and has a monitored backup.
* **Composition of the two.**  A full-state copy may be overtaken by mutations
  acknowledged with the old backup, a decision of the failed primary dropped by
  the promotion, the answer to `CompletePrimaryPromotion` lost; an old primary
  cut off from the controller goes on.  Correct means: the published primary
  finished its promotion and holds whatever was acknowledged, an epoch has one
  primary, and controller and primary agree on the backup.
* **Auction service.**  A call resends one request id to whichever primary is
  published, while an earlier request of it may still be handled, by a primary
  that is no longer the newest.  Correct means: over all attempts and calls the
  request is applied once; success is answered for what the next primary will
  still have, and failure for what no primary has, unless an earlier request
  was left unsettled; every call ends.  A read must not miss what was acknowledged
  before it began, although an old primary may still answer it; a watch must show the
  reveal.
* **Overdue reveal.**  No history of bids and withdrawals may leave an auction
  in a state in which its primary's own reveal is refused.

`PROJECT.json` lists every hazard at its line with the properties that cover it.

## 2. Modules and plan

| Module | Role |
|---|---|
| `SyncReplication` | one session of a ready primary and its backup in one epoch, detailed |
| `AuctionLedger` | what that session promises: one growing history per auction; acknowledged candidates are prefixes of it |
| `SyncReplicationProofs` | inductive invariant and theorems |
| `SyncLedgerProofs` | how far the snapshots may be apart; the refinement of `AuctionLedger` |
| `AuctionDomain` | the domain rules as operators |
| `AuctionLifecycle` | an auction driven by arbitrary requests, and its overdue reveal |
| `AuctionLifecycleProofs` | its inductive invariant and theorems |
| `Controller` | the controller's handlers and threads, as actions |
| `ControllerProofs` | lemmas about every action of `Controller`, whoever composes them |
| `ControllerEnvironment` | the controller against replicas that answer anything they may |
| `EnvironmentProofs` | its inductive invariant and theorems |
| `StorageReplica` | the handlers of a replica that change or hand over authority, as functions of its state |
| `Failover` | the controller composed with replicas that hold data, start, copy state and are promoted |
| `FailoverProofs` | its inductive invariants and theorems, on top of `ControllerProofs` |
| `DurabilityProofs` | what `Failover` keeps when one replica fails, whichever it is |
| `FailoverLedger` | what replicated storage promises over failovers: `AuctionLedger`, whose newest mutation a promotion may drop while nobody was told that it succeeded |
| `AuctionService` | mutation calls, reads and watches over the primaries of successive epochs, with the overdue reveal of a promotion |
| `AuctionServiceProofs` | its inductive invariant, theorems and refinement |
| `MC*` | instances for TLC |

The modules are joined by three refinements.  `SyncReplication` implements
`AuctionLedger`; `Failover` and `AuctionService` both implement
`FailoverLedger`, which extends it.  `AuctionService` therefore need not repeat
how storage replicates: it keeps of it what a client can tell apart, and what it
keeps makes the same promise as the composition of controller and replicas.

Left to do, in this order:

1. Liveness of `Failover` under periodic registration: a cluster with a
   reachable primary and standby becomes ready again.
2. `SnapshotStore`: the steps of `save`, with a crash between any two, shown to
   implement the `Persist` operator of `SyncReplication`.
3. The confirmation of mutations in the frontend.

No module meant for proofs declares a `RECURSIVE` operator; constants carry
named assumptions.

## 3. How the models correspond to the code

### SyncReplication

| Model | Code |
|---|---|
| `primary`, `backup`: record of maps | the dictionaries of `StorageReplicaService.__init__` |
| `primaryDisk`, `backupDisk` | what `_load_state_from_disk` would load now |
| `call` | the mutation inside `ApplyAuctionMutation`; one at a time, because `state_lock` is held across its RPCs |
| `late` | RPCs whose caller gave up and whose handler may still run |
| `acked`, `answer` | what clients were told |
| `PrepareAuctionMutation`, `CommitPreparedMutation`, `AbortPreparedMutation` | the three handlers |
| `ReplayRecordedResponse`, `ResumePendingBackupCommit`, `PrepareOnSynchronousBackup` | the outcomes of `_check_idempotency` in `ApplyAuctionMutation` |
| `PrepareAnswered` ... `AbortFailed` | the steps of `_coordinate_synchronous_commit` |
| `PrimaryRestart`, `BackupRestart` | a crash and `_load_state_from_disk` |

Abstractions.

* An auction is the sequence of the operations applied to it, its version the
  length; the empty sequence is an auction that does not exist.  A candidate is
  such a sequence: it names its last operation and through it the request id,
  the fingerprint and the idempotency record.  An element of `Op` stands for
  one request with one fingerprint, so two elements with one `IdOf` are an id
  reused for other contents.  Domain rules are left out: any operation may be
  accepted.
* A request the primary refuses changes nothing and is a stutter.
* An RPC is *answered* (its handler ran and the caller saw the reply: one step)
  or *failed*: the caller goes on and the message stays in `late`, from where
  its handler may run at any later time or never.  A message stays in `late`
  once handled, since a retry may send an equal one.  A restart of the backup
  drops the calls queued at it; a restart of the primary leaves the RPC it was
  waiting for in `late`.
* `Persist` gives what a save leaves: success writes the new snapshot; failure
  restores memory, and the file is the old snapshot or, when the exception came
  after `os.replace` (the directory fsync), the new one.
* `Tombstoned` names the ids the primary had tombstoned while it was a backup:
  it refuses them (`_mutation_request_error`).  The runs take it empty, the proofs any set.

### AuctionDomain, AuctionLifecycle

Bids are a total map from bidders to amount and order, or `NoBid`.  An amount
of 0 stands for every non-positive or non-finite amount, `NoOne` for a blank
id, `ended` for the clock past the deadline, which then stays so.  `Strip` is
what `strip()` makes of an id: blank ids only are made blank, and stripping twice
is stripping once.  The operators apply it where the code does: to the seller of
a reveal and to the bidder of a withdrawal, not to the stored seller nor to the
key of a bid.  Each
`build_*_candidate` is a chain of conditions, in the order of the code, that
gives `Rejected` or `Accepted` with the candidate.  `AuctionLifecycle` applies
any request of `Requests` to one auction and records accepted mutations in the
history variable `accepted`, against which results and orders are checked: the
history says who bid what and when, independently of the orders in the state.
`FinalizeOverdueAuction` is the request `_finalize_overdue_auction` builds, with
the seller and the version of the stored auction.

### Controller, ControllerEnvironment

An action is one region under the controller's lock, together with the outcome
of the RPC that precedes it.  `threads` holds where every handler and worker
thread is between two regions and the arguments it carries.

| Model | Code |
|---|---|
| `nodes`, `assignment`, `last_primary_epoch`, `election_in_progress` | the fields of `ControllerService`; a record is `SYNCHRONIZED` exactly when its `synchronized_epoch` is not 0 |
| `RegisterNode`, `ReportSynchronizationComplete`, `HeartbeatFails`, `HeartbeatAnswered`, `HandleReplicaFailure` | the handlers and `_check_heartbeats_once` |
| `Elect`, `StartPromotion`, `BeginPromotionAccepted`, `PromotionStateConfirmed`, `PromotionRpcFails`, `TryNextPromotionBackup`, `PromotionSynchronizationFails`, `Abandon`, `CandidateFailed` | `_elect_new_primary`, `_notify_promotion`, `_try_next_promotion_backup` and their failure paths |
| `TryNextReplacementBackup`, `ReplacementSynchronizationFails`, `RejectReplacement` | reprotection |
| `CompletionSucceeds`, `CompletionUnanswered`, `CompletionRejected` | the second half of `ReportSynchronizationComplete`, after `CompletePrimaryPromotion` |
| `ControllerRestart` | nothing is persisted |

`ControllerEnvironment` stands for the replicas: `Plausible` limits what a replica reports to
what it can have learnt (an epoch some primary was given, the role of primary
only where it was assigned it, readiness as a backup only after an accepted
report).  RPC outcomes are unconstrained, which includes an answer applied and
lost.  `owners`, `backups`, `holders` and `barrier` are history variables; only
`Plausible` and the properties read them.  Exceptions other than `RpcError`
take the paths of `RpcError` where the code catches them (`_notify_promotion`,
`_try_next_promotion_backup`) and are left out elsewhere.  The operators
commented `Fault` are mistakes planted for the sensitivity checks of
`PROJECT.json`; no specification uses them.

### StorageReplica, Failover

`StorageReplica` gives for each handler what it makes of a replica (its name is
the handler's) and whether it accepts (`PrepareAccepted`, `CommitAccepted`,
`BeginAccepted`, ...).  `Failover` joins these with the actions of
`Controller`: an RPC that is answered is one step of both sides.

| Model | Code |
|---|---|
| `replica`, `disk` | `StorageReplicaService` and its snapshot; `reported` is `_storage_metrics_ready` |
| `committing` | the mutation whose commit the primary waits for, holding `state_lock` |
| `booting` | where `_initialize_connection` is, with the controller's answer it has not applied yet |
| `syncs` | calls of `_synchronize_from_primary`: who called, what was fetched, what the report was answered |
| `PrepareAndDecide`, `PrepareRefused`, `PrepareUnanswered`, `CommitAnswered`, `CommitUnanswered`, `ResumePendingCommit`, `ReplayResponse` | `ApplyAuctionMutation` at a published primary |
| `Reregister`, `ProbeAnswered`, `ProbeUnanswered` | registration without storage taking note of the answer (the periodic one, or one at start-up whose answer is lost), and heartbeat |
| `Restart`, `BootRegister`, `BootRegistered`, `BootLookup` | a crash, and the start-up loop while the server already answers RPCs; it begins again after a lookup or a fetch without answer |
| `BeginPromotion` ... `CompleteUnanswered` | the promotion RPCs with what the controller does next |
| `StartSynchronization`, `Install`, `ReportCompletion`, `SynchronizationEnds` and their unanswered forms | `SynchronizeFromPrimary` |

Abstractions.

* One auction; an element of `Op` is a mutation with its request id.  The
  session on one epoch, with several auctions, reused ids and failing saves, is
  `SyncReplication`; here saves succeed.
* Preparing and deciding are one step: the primary's lock is held between them,
  and a step of the backup between them commutes with the decision.  A check at
  a replica and the fetch that follows it are one step for a similar reason: what
  changes in between is checked again on installation.
* A request that is not answered is lost or stays in `late`.  An unanswered
  commit followed by a restart stands for a crash of a primary that waits.
* A client sends mutations only to a primary and epoch that `GetPrimary` once
  answered (`published`), however old.
* The first state is a ready cluster with one standby, as a controller that
  was restarted rebuilds it; its own start-up is `ControllerEnvironment`'s.

`FailoverAssumption` asks for two replicas, because the first state has a primary
and a backup.

For `LedgerSpec` the history of the system is the store of the primary of the
newest epoch, or of the replica of the newest epoch while none is primary.

### AuctionService

| Model | Code |
|---|---|
| `primaries` | the replica that is primary of each epoch, as its clients see it: store, pending decisions, tombstones, and whether it serves (role and `promotion_ready`) |
| `stranded` in a primary | the pending decisions made under a former backup: `pending_backup_commits` keeps the address of its time |
| `backup` | of the newest primary: whether it lacks the newest decision, and its tombstones |
| `cluster` | what `GetPrimary` answers: a primary when it is "ready" |
| `calls` | where the retry loop of a mutation is: the attempt, the version it sends, the assignment |
| `unsettled` in a call | history: some request of it was not answered, or was answered as pending |
| `queued` | requests whose caller gave up and whose handler may still run |
| `acked` | history: what was answered with success, as the auction's history up to it |
| `StartCall`, `ResolveReadyPrimary`, `NoReadyPrimary` | `_resolve_ready_primary`, `_wait_for_ready_primary` in the loops of `CreateAuction`, `PlaceBid`, `WithdrawBid`, `RevealAuction` |
| `RequestAnswered`, `RequestInterrupted`, `RequestFailed` | the three ways an attempt ends: a response, a failover status, any other status |
| `LateHandler` | the handler of a request nobody waits for |
| `Handled`, `ApplyAuctionMutation`, `CompletePendingBackupCommit`, `CoordinateSynchronousCommit` | the handler of storage: the set of what it may make of primary and backup, and answer |
| `CompletePrimaryPromotion`, `Failover`, `BackupEvicted`, `Depose`, `ClosingTime` | the steps of controller, storage and clock a client can notice |
| `StartRead` ... `ReadFails` | `GetAuction` of the service, `GetAuction` of storage in `ReadAnswered` |
| `WatchResolved` ... `WatchFails`, `WatchReconnects` | `WatchAuction`, and the effect of `useAuctionWatch` that opens it again |

Abstractions.

* One auction; a bid or withdrawal is an operation that `DomainError` refuses
  for the reasons that involve time: the auction does not exist, exists
  already, is revealed, has ended, or has another version.
* The four mutation handlers run the same loop and differ in the request they
  build; `CreateAuction` sends version 0 and never meets a version conflict.
* The handler of a request at a primary is one step: `state_lock` is held over
  its RPCs to the backup.  What SyncReplication has between these steps appears
  as the set of outcomes: refused with or without a tombstone, decided with
  or without the backup's commit.
* An old primary is not told of its successor and serves requests and reads of
  its own epoch until it stops, registers or synchronizes (`Depose`).  It decides
  nothing more: the backup of its time has a newer epoch and refuses to prepare.
* The backup of a new primary, and a replacement, holds a copy of its state
  (`InStep`).  That the copy can be stale is a defect of the code that
  `failover_stale_copy` shows; it would break this model's properties too.
* A save that fails is `SyncReplication`'s.  `RequestFailed` stands for a
  handler that raised or never ran.
* `_wait_for_ready_primary` may answer the same assignment again; when it does
  is abstracted, since a resolved primary may in any case be the same one.
* Delays, deadlines and polling intervals are left out: a wait ends at any
  time, with a primary or without.
* `MaxQueued` bounds the requests nobody waits for.

## 4. Runs

Each run ends within about three minutes on two workers.

| Run | Instance | Shows |
|---|---|---|
| `sync_session` | three requests on one auction, two of them under one id | acknowledged mutations are on both replicas, in memory and on disk, for ever; one application per id; the backup is a prefix of the primary, and a preparation left over from one use of an id never commits for another; they differ by one pending decision; the session implements `AuctionLedger` |
| `sync_liveness` | two requests, fairness | a pending backup commit completes unless the backup tombstoned the request |
| `auction_lifecycle` | three bidders, two sellers, one id of each being another one with surrounding blanks, amounts up to 2, versions up to 5 | results, orders and finality against the history of accepted mutations; no accepted sequence corrupts the state, or decides whether the overdue reveal is accepted: only the stored seller id does (section 5) |
| `controller_restarts` | three replicas, two worker threads besides the monitor, restarts of the controller | recoveries keep their thread, also when assignments are rebuilt from registrations and generations start again; late answers activate nothing |
| `failover_primary` | three replicas, one mutation, the primary unreachable or restarting at any point | every variable keeps its shape, with a replica only ever in an epoch that was given out; acknowledged mutations survive; the old primary comes back as a backup without what it decided alone; the composition implements `FailoverLedger`, so a decision is dropped only when it is the newest and was not acknowledged |
| `failover_candidate` | the primary stopped for good, the candidate unreliable, no mutation | one primary per epoch and no publication before activation, whichever promotion RPC is unanswered or late |
| `service_calls` | a bid and a reveal, two attempts per call, calls repeated for ever, one failover, one request handled late | the service implements `FailoverLedger`; a failure without an unsettled request is true at every primary |
| `service_reads` | a bid, the overdue reveal, one read and one watch, one failover | the read shows what was acknowledged before it, the call ends, the watch shows the reveal |
| `controller_stale_candidate`, `failover_stale_copy`, `failover_stale_completion`, `service_false_failure` | as above; `failover_stale_completion` has no mutation, one epoch, and three worker threads for two replacements and a completion | section 5 |

**Bounds.**

* `SyncReplication` has no counter to bound: operations are applied at most
  once, so `Op` bounds the histories.  Two operations on one auction give a
  decision on top of a pending one, a stale preparation and version conflicts;
  a second use of the id of one of them meets its leftover preparation, record
  and tombstone.  The two uses are interchangeable, hence the symmetry.
* `MaxVersion = 5` allows create, three bids (bid, replacement, withdrawal and
  rebid in any mix) and the reveal; `MaxAmount = 2` and three bidders give ties
  and a higher late bid; `Reserve = 2` separates the sale, the unmet reserve
  and no bid.
* `Controller`: three replicas are a primary, a backup and a standby.
  `MaxEpoch = 3` gives two elections after the first assignment,
  `MaxGeneration = 1` one replacement candidate per assignment,
  `MaxRegistration = 4` one registration after all three.  Two
  worker threads let a replacement and a completion, or two replacements, run
  against each other and the monitor; a step that would start another thread
  waits for one to end.  `Eviction = 1` instead of 3: the count changes how
  often a replica is probed before it is evicted, not what eviction does.
* `Failover`: three replicas again.  `Unreliable` says which of them may miss a
  probe or have a part in an unanswered call, `Restarting` which may crash,
  `Stopped` which are gone from the start; without these limits two or three
  replicas fail together, which the guarantee of README.md:71 (one failure)
  excludes and TLC cannot explore.  `failover_candidate` has two, because a
  candidate exists only once a primary failed.  One mutation suffices for the
  properties, which compare whether a replica has it; `MaxLate` counts
  requests whose handler is yet to run; `MaxEpoch = 2` is one failover, 3 a
  failed candidate and its successor.  Late prepares, commits and aborts are
  beyond these runs and covered by `OneFailureIsDurable`, `OneFailureIsLedger`
  and `OneFailureIsAhead`.  In particular the exception that
  `ReadyBackupFollows` makes for a backup's newest mutation needs two mutations
  and a late prepare (section 5); in `failover_primary` it never applies, and
  the property says there that the backup's store is a prefix.
* `AuctionService`: `MaxEpoch = 2` is one failover, with the old primary beside
  the new one.  `RetryLimit = 2` is the least that retries; a client that calls
  again gives further requests.  `MaxQueued = 1` is a request handled after any
  later event.  The bid and the reveal compete for one version, so that a
  conflict, a refusal of the domain and a dropped mutation all occur.  The
  auction exists from the start: calls of `CreateAuction` are proved about, not
  checked.  `MayEnd` is false in `service_calls`, whose reveal is the seller's,
  and true in `service_reads`, whose reveal is the sweep's.

Deadlock is checked except in `auction_lifecycle`, where a revealed auction
past its deadline refuses everything, in the controller and failover runs,
where the bounds end behaviours, and in the service runs, where all calls may
have been answered.

**Fairness** (`FairSpec` of `SyncReplication`).  Weak fairness of the steps of
a call: each RPC has a deadline (`replication_client.py`) and handlers do not
block.  Strong fairness of a retry of each pending request: ADR-014 tells
clients to retry an acknowledgement-pending request, and the auction service
does.  Strong fairness of a successful commit and of the save that clears the
decision: the network and the disks do not fail for ever.  Strong, because
losses and restarts may come between two attempts.

`Spec` of `AuctionService` assumes weak fairness of the steps of a call: each
wait has a deadline (`failover_recovery_window`, `mutation_timeout`).  A stream
polls each second or two as long as it is open (service.py:952-1004): weak
fairness that a read is answered or fails, strong fairness that it finds a
primary when one is ready again and again and that not every read fails.
`WatchCompletes` has as its premise that some primary is ready again and again;
that the controller makes it so is not claimed.

## 5. Where the code and its documents disagree

Each of the first four is a run whose property restates the quoted sentence and
is violated; `PROJECT.json` has the quotations.

* `controller_stale_candidate`: an election records every member as eligible
  for a retry, so a standby that never held the state may be elected after the
  synchronized candidate failed.
* `failover_stale_copy`: the primary is not told that its backup was evicted.
  It acknowledges a mutation with it after the replacement fetched its copy, and
  the replacement becomes the backup without that mutation.
* `failover_stale_completion`: the primary takes its backup from every
  `CompletePrimaryPromotion` of its epoch.  One whose candidate was given up and
  replaced by another points the primary at the discarded replica when it is
  handled last.  The controller reports the cluster ready with the other one and
  watches that.  The comment at controller/service.py:543 says the guard after the
  call prevents this; it protects the controller's assignment only.  One replica
  that misses calls is enough.
* `service_false_failure`: a request is applied and its answer lost; the retry
  meets a refusal of storage that does not come from its idempotency record (the
  assignment is fenced, or no longer ready), and the service passes this on
  as a definitive failure.  It forgets that an earlier attempt was
  interrupted.  `SettledFailureIsFinal` says how far its failures can be trusted.

Eight more follow from the same modules.  No run is kept for them; to see one,
where a property is named check it under the specification and constants given.

* `DecidedNeverTombstoned` under `SoundDiskSpec` of `SyncReplication`, one
  operation: the abort of a timed-out attempt can be handled after a retry was
  prepared and durably decided; the backup tombstones the request and refuses its
  commit from then on.  Aborts carry no attempt number, so the handler cannot
  tell (ADR-014:56, "the mutation is irrevocable").
* `DecidedIsIrrevocable` under the constants of `failover_primary`: the primary
  fails between its durable decision and the backup's commit; the promotion of
  the backup drops the preparation, and the decision with it
  (docs/auction-specification.md:446).  The client was told only that it is
  pending; `LedgerSpec` says that nothing else is ever dropped.
* `PublishedIsActivated` of `Failover` with `Unreliable = {1, 2}`,
  `Stopped = {1}`, `Restarting = {2}`: the server of a starting replica answers
  RPCs while the answer to its registration is on its way; promoted in between,
  it falls back to backup of the old epoch when it applies the answer, even while
  it is the published primary.
* `FailedAttemptNotCommitted` under `Spec` of `SyncReplication`: a save whose
  directory fsync fails after `os.replace` (`snapshot_repository.py:43`) is
  rolled back in memory and answered as failed, and a restart commits it
  (docs/auction-specification.md:437, "MUST NOT be committed").  It holds under
  `SoundDiskSpec`, where a failed save leaves the old file.
* `ReadyBackupIsMember` under `StableSpec` of `ControllerEnvironment`: the
  heartbeat monitor removes the backup of a promotion from the membership in one
  step and gives up the attempt in a later one; a completion in between makes the
  assignment ready with a backup nobody probes.
* `NewPrimaryNewEpoch` under `Spec` of `ControllerEnvironment`: a restarted
  controller that hears first of a replica with epoch 0 gives out epoch 1 again
  (docs/auction-specification.md:548).
* A designated backup is not always a prefix of its primary, which is why
  `ReadyBackupFollows` of `Failover` makes an exception for its newest mutation.
  To see it, drop that exception and check two replicas, two mutations,
  `Unreliable = Restarting = {2}`, `MaxLate = 1`: the backup restarts and installs
  a copy; the prepare of an attempt that was given up is handled after that, and
  the commit of a later attempt finds it there.  The backup then holds `<<m1>>`
  where the primary has `<<m2, m1>>`, and refuses what the primary prepares from
  then on.  Nothing is lost as long as the primary can be reached.  With the
  exception the property holds however late requests are handled, as section 6
  proves.
* An auction created for a seller id with surrounding blanks is accepted and
  stored as it is (auction_domain.py:57-58, 69); the seller of a reveal is stripped
  and compared with it (line 115).  Neither its seller nor the sweep of a new
  primary, which resends the stored id, can reveal it.  `OverdueCanBeRevealed` says that
  this is the only such case.  Likewise a bid placed under a padded bidder id
  can be raised but not withdrawn, because a withdrawal strips the id first
  (lines 213-217).

`WatchCompletes` needs its second alternative: a stream that has shown a mutation
which the failover dropped takes the reveal, at the same version, for old and
stays open without an update (service.py:986).

## 6. Proofs

`SyncReplicationProofs` proves, for every set of operations, ids and auctions
and from the assumptions `SyncReplication` states of its constants:

| Theorem | Statement |
|---|---|
| `Inductive` | `Spec => []IInv` |
| `TypeCorrect` | `Spec => []TypeOK` |
| `AcknowledgedDurable` | `Spec => []AcknowledgedOnBothReplicas` |
| `BackupPrefix` | `Spec => []BackupFollowsPrimary` |
| `AtMostOnce` | `Spec => []AppliedAtMostOnce` |

None of the three properties is inductive.  That an acknowledged mutation stays
on the backup's disk depends on what the backup's memory may still do, that on
what messages may still arrive, and that on what the primary decided.  `IInv`
therefore says: every snapshot is well recorded (the idempotency record of a
request is the history of its auction up to it, and each operation of a history
has its record); the backup records only what the primary's memory *and* disk
record; every decision of the primary is recorded, prepared or tombstoned at
the backup, in memory and on disk, and recorded if it is no longer pending; the
candidate of the call under way extends the primary's history until it is
decided and is held by the backup when it is; a late commit was decided; an
acknowledged candidate is recorded everywhere.

The proof has two layers.  `*Advances` lemmas show that a handler, or a
successful or failed save, only moves a replica forward: records are kept and a
prepared mutation becomes a record or a tombstone, never another one.  From
these each action preserves `ReplicasSound` without looking at the handler
again; the call, the late messages and the acknowledgements are then one lemma
per action, and `StepInductive` assembles them.  The properties follow from
`IInv`, two histories of one auction that hold each other's records being
prefixes of one another.

`SyncLedgerProofs` goes on from `IInv` and proves, from the same assumptions:

| Theorem | Statement |
|---|---|
| `NearInductive` | `Spec => [](IInv /\ Near)` |
| `OneDecisionAhead` | `Spec => []LagIsOnePendingDecision` |
| `SessionRefinesLedger` | `Spec => LedgerSpec`: every step is a step of `AuctionLedger` or a stutter |

`IInv` says which records the snapshots share, not how many decisions apart they
are; `Near` does.  A save that fails after `os.replace` leaves the file one
undecided operation ahead of the rolled-back memory (`DiskFollows`), so that the
restart which loads it is a commit of the ledger and not a jump; the primary's
memory and file are at most one version ahead of the backup (`Lag`), because a
candidate is decided only after the backup prepared it as its next version or
an older one (`Timely`), and from then on the backup's histories only grow.

`AuctionServiceProofs` proves, for every set of mutations, calls, readers and
watches, any number of epochs, any retry limit and any number of queued
requests, from `ServiceAssumption`:

| Theorem | Statement |
|---|---|
| `Inductive` | `Spec => []IInv` |
| `TypeCorrect` | `Spec => []TypeOK` |
| `SettledFailures` | `Spec => []SettledFailureIsFinal` |
| `AuthoritativeReads` | `Spec => []ReadSeesAcknowledged` |
| `LedgerRefined` | `Spec => LedgerSpec`: every step is a step of `FailoverLedger` or a stutter |

What has to be strengthened is the relation of the primaries.  An old primary
may acknowledge a mutation long after its successor was promoted, and a read
sent to it before may be answered after.  `Carried` says what it still knows: a
mutation it holds, whose decision no longer depends on the backup of its time
(`Unsettled`), is at the same place, with the same history, in the newest
primary, and settled there too.  `InStepWith` says that a backup which lags lacks
exactly the newest decision and that this one is unsettled; so no one has been told
that it succeeded, and the promotion that drops it drops nothing
acknowledged (`AcknowledgedSound`).  A call without an unsettled request has
changed nothing (`CallsInv`), and a read sent to a primary that may answer it
will find what was acknowledged when it began (`ReadsInv`).

One lemma, `HandlerAdvances`, says what a request may make of a primary: it
applies that operation at most, only at the newest primary and only with a backup in
step.  Storage steps, calls, reads and streams then preserve their parts of
`IInv` separately, and the refinement uses the same lemma: what a handled
request acknowledges is the newest history up to it (`HandledLedger`).

`AuctionLifecycleProofs` proves every property of `AuctionLifecycle`, for any
finite set of bidders, any sellers, amounts and set of requests, from
`DomainAssumption` and `RequestsAssumption`:

| Theorem | Statement |
|---|---|
| `Inductive` | `Spec => []IInv` |
| `TypeCorrect` | `Spec => []TypeOK` |
| `Uncorrupted` | `Spec => []NeverCorrupted` |
| `OrdersCorrect` | `Spec => []OrdersFollowAcceptance` |
| `ResultCorrect` | `Spec => []ResultFollowsHistory` |
| `OverdueRevealed` | `Spec => []OverdueCanBeRevealed`: accepted exactly if the seller id was stored without surrounding blanks |
| `RevealFinal` | `Spec => RevealedIsFinal` |
| `ReplacementsMoveBack` | `Spec => ReplacementLosesItsPlace` |

`MutationCases` reduces `build_candidate` to its five outcomes.  `Mirrors` says
that the active bids are the active entries of the history, with their amounts
and in their order, and `Ranked` that the stored sequence is above every order in
use, which is what makes the next bid the last.  That the winner is the history's
needs that there is one: a finite set has a maximal element of any strict order
on it (`FiniteMaximum`).

`ControllerProofs` states for each action of `Controller`, for any finite set of
replicas, any workers and any `Eviction`, from `ControllerAssumption`, that it
keeps `CInv`.  It names neither the environment nor the replicas, so
`EnvironmentProofs` and `FailoverProofs` share it.  `CInv` is `PromotionIsDriven`,
`CandidateIsDriven` and what makes these two inductive: a thread that serves a
primary has one, in an epoch that was given out; the assignment is the one of
the newest epoch; a replica at its limit of failures is the one the monitor is
evicting; and the primary of a promotion is still a member, eligible and not its
own backup.  The last is why no thread that lost its promotion can match a later one:
the next election takes a new epoch.

`EnvironmentProofs`, for any number of registrations and restarts of the controller:

| Theorem | Statement |
|---|---|
| `Inductive` | `Spec => []IInv` |
| `TypeCorrect` | `Spec => []TypeOK` |
| `PromotionDriven` | `Spec => []PromotionIsDriven` |
| `CandidateDriven` | `Spec => []CandidateIsDriven` |
| `BarrierKept` | `Spec => BarrierBeforePublication` |
| `EpochsIncrease` | `StableSpec => NewPrimaryNewEpoch` |

`IInv` adds to `CInv` that a thread past `ConfirmPromotionState`, and an assignment
in promotion that already has a backup, belong to an epoch whose candidate
confirmed (`BarrierSound`).  `EpochsIncrease` needs that every epoch a replica may
report is at most `last_primary_epoch` (`OwnersKnown`).  A restart of the
controller, which forgets that number, breaks it (section 5), hence
`StableSpec`.

`FailoverProofs`, for any number of replicas all of which may be unreachable,
stop, restart and handle requests late, any mutations, epochs and `MaxLate`,
from `ControllerAssumption` and `FailoverAssumption`:

| Theorem | Statement |
|---|---|
| `Inductive` | `Spec => []FInv` |
| `TypeCorrect` | `Spec => []TypeOK` |
| `OnePrimary` | `Spec => []OnePrimaryPerEpoch` |
| `PublishedActivated` | `Restarting = {}` implies `Spec => []PublishedIsActivated` |

That an epoch has one primary is not inductive, because a replica takes the role
from something that was sent or stored earlier.  `Entitled(n, e)` lists all there is:
the role itself, a snapshot that restores it, the answer to a registration not
applied yet, a `BeginPrimaryPromotion` that may still be handled, a thread of the
controller or the assignment.  `OneEntitled` says that no epoch entitles two replicas and none
above `last_primary_epoch` entitles anybody.  Nearly all steps entitle nobody
new, and one lemma (`KeptInv`) turns that into the invariant; an election
entitles its candidate in an epoch that was nobody's (`ElectInvariant`), and
registrations rebuild only what the replica reports.  `Fit` ties the rest to it: a primary is entitled
to its epoch, and what it saves is restored as what it was.

`PublishedActivated` has one hypothesis, that no replica restarts.  The code
does not promise that: without it the property is false (section 5).  What is
proved is that nothing else endangers it.  The invariant is `FInv`, that no
start-up is under way, and the property itself.  No handler deactivates a primary
of the newest epoch (`HandlerStays`, `BeginStays`, `SyncStays`), and the controller
publishes in two places only: when a primary accepted its completion
(`CompletionPublishes`) and when one that reports itself activated registers
(`RegistrationPublishes`).

`DurabilityProofs` is about what holds while failures are few, for any number of
replicas, threads, mutations and epochs, from the same assumptions.  Each
theorem comes with two hypotheses: the first leader is reliable
(`Leader \notin Unreliable`) and any number of others fail, or one replica fails,
whichever it is (`Unreliable \subseteq {a}`).  A replica that fails may miss any
call in either role, restart from its snapshot and register again, as often as
it likes.

| Theorems | Statement under the hypothesis |
|---|---|
| `ReliablePrimaryIsDurable`, `OneFailureIsDurable` | `Spec => []AcknowledgedRecoverable` |
| `ReliablePrimaryIsLedger`, `OneFailureIsLedger` | `Spec => LedgerSpec`: every step is a step of `FailoverLedger` or a stutter |
| `ReliablePrimaryIsAhead`, `OneFailureIsAhead` | `Spec => []ReadyBackupFollows`, for any `MaxLate` |
| `ReliablePrimaryIsActivated`, `OneFailureIsActivated` | `Spec => []PublishedIsActivated`, with restarts |

These properties are false when two replicas fail in the wrong order, so their
invariants say which replica holds the history at every point, its *holder*.

* `Reigns`, for a reliable leader: the controller never replaces it.  The
  leader is primary of epoch 1 and holds what was acknowledged, and whoever was
  published before has nothing settled that the holder lacks (`Holds`).
  A step of any replica appends at most one mutation to the holder's store, or
  settles one (`HolderStep`), which is a step of the ledger (`MovesLedger`).
* `Succession`, for a leader that fails, is `Behind` until its backup handles
  `BeginPrimaryPromotion`, and `Inherited` from then on.  `Behind` says
  that the backup follows the leader's memory and snapshot (`Backed`: what the leader has
  settled the backup has, and at most the newest decision is only prepared there),
  that nothing else is published, and where the election is (`Before`,
  `Electing`).  `BeginPrimaryPromotion` drops the prepared mutation, hence the
  one step of the ledger that drops: the mutation was pending and nobody
  was told that it succeeded (`FollowerDrops`).  `Inherited` says that the follower is
  primary of epoch 2 and holds what was acknowledged, that the
  old leader, in memory or restored from its snapshot, has settled nothing the
  follower lacks (`FormerLeader`), and that every thread of the controller serves the follower.
* `Protected` and `Ahead`, for the stores.  The backup that the primary or
  the controller names, one that is being completed and one that reports its
  synchronization (`Designated`) trail the holder (`Trails`): their store is part of
  the holder's but for its newest mutation, which the holder has too (`Echoes`),
  and each of their preparations proposes its mutation after a part of the
  holder's history (`Proposed`).  So do the prepares still on their way, while a
  commit on its way is of a mutation the holder has (`Concerns`, `Underway`); hence
  whatever is handled late, and in whichever order, what a backup commits echoes
  the holder (`ProposalEchoes`).  A copy on its way is one of the holder's history
  (`Copies`), and a snapshot holds what its replica does (`SnapshotsCurrent`), so
  a restart gives back a store that trails as well.
* For activation the invariant is the property itself, beside `Reigns` or
  `Succession`: the published primary is the holder, which does not restart
  (`HolderStaysActivated`), or the first leader, whose snapshot restores the
  activated primary it was (`BehindIsActivated`).

Model-checked only: liveness (`PendingCommitResolves`, `CallsAreAnswered`,
`WatchCompletes`), since fairness and `ENABLED` are beyond the prover.  Every
other property of a passing run is stated by a theorem above, some under the
hypotheses named here.

## 7. What is not modelled

* Failed saves in promotion and synchronization, after which the handler
  restores memory.
* Search, which changes nothing and promises staleness only.
* Surrounding blanks of request and auction ids.  The backup strips them
  (service.py:858, 966, 1073) and the primary does not, so a mutation whose request id
  has them is never prepared, and the abort sent for it is one of the stripped
  id, which may be another request's.  The models have ids without them, and in
  `AuctionService` the seller whose id the sweep resends has none either.
* That the overdue sweep follows `CompletePrimaryPromotion` at once: it is a step of
  `AuctionService` and `AuctionLifecycle`, while the handler in `StorageReplica`
  and `Failover` ends before it; the reveal it applies there is a mutation like
  any other.
* The check that a request to create an auction carries no result
  (auction_domain.py:88): requests of the model have no result.
* That an overdue auction is revealed in the end: only a promotion sweeps, and
  a tombstone of its fixed request id, left by a failed prepare, makes later sweeps
  of that replica refuse.
* The frontend but for the reconnection of its watch.
* The encoding of fingerprints and snapshots: one element of `Op` per
  fingerprint; a load gives back what a save wrote.
* Observability, configuration, process start, generated code, deployment,
  demo control, evaluation scripts: no protocol decision reads their state.

## 8. Running

    tlc -workers 2 -config SyncSession.cfg MCSyncReplication.tla
    tlc -workers 2 -config AuctionLifecycle.cfg MCAuctionLifecycle.tla
    tlc -workers 2 -config ControllerRestarts.cfg MCController.tla
    tlc -workers 2 -config FailoverPrimary.cfg MCFailover.tla
    tlc -workers 2 -config ServiceCalls.cfg MCAuctionService.tla
    tlc -workers 2 -config ServiceReads.cfg MCAuctionService.tla
    tlapm SyncReplicationProofs.tla
    tlapm SyncLedgerProofs.tla
    tlapm AuctionLifecycleProofs.tla
    tlapm ControllerProofs.tla
    tlapm AuctionServiceProofs.tla
    tlapm EnvironmentProofs.tla
    tlapm FailoverProofs.tla
    tlapm DurabilityProofs.tla
