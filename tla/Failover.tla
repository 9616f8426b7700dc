------------------------------- MODULE Failover -------------------------------
(***************************************************************************)
(* The controller with replicas that hold data.  Each RPC of the           *)
(* controller and of the replicas is one step with the handler that        *)
(* answers it, or is unanswered: then the caller goes on, and the request  *)
(* stays in late, where its handler may still run.  Only unreliable        *)
(* replicas restart, miss a probe, or have a part in an unanswered call.   *)
(***************************************************************************)
EXTENDS Controller, Sequences

CONSTANTS
    Op,           \* mutations of one auction, each with its request id
    NoOp,
    Boot,         \* the caller of the synchronization of a starting replica
    Orphan,       \* a synchronization whose caller gave it up
    Unreliable,   \* the replicas that may be unreachable
    Restarting,   \* the replicas that may crash and restart
    Stopped,      \* the replicas that stopped for good
    MaxLate       \* bound on the requests whose handler has not run

ASSUME FailoverAssumption ==
    /\ NoOp \notin Op
    /\ {Boot, Orphan} \cap (Worker \cup {Monitor}) = {} /\ Boot # Orphan
    /\ Unreliable \subseteq Node
    /\ Stopped \subseteq Unreliable
    /\ Restarting \subseteq Unreliable \ Stopped
    /\ MaxLate \in Nat
    /\ \E a, b \in Node : a # b   \* Init is a ready cluster

VARIABLES
    replica,     \* [Node -> the state of StorageReplicaService]
    disk,        \* [Node -> its snapshot]
    committing,  \* [Node -> the mutation it decided and waits to commit]
    booting,     \* [Node -> where _initialize_connection is, and its answer]
    syncs,       \* calls of _synchronize_from_primary under way
    late,        \* requests whose caller gave up
    acked,       \* mutations answered with success
    published    \* <<primary, epoch>> that GetPrimary ever answered

storageVars == <<replica, disk, committing, acked>>
syncVars == <<booting, syncs>>
vars == <<controllerVars, storageVars, syncVars, late, published>>

INSTANCE StorageReplica

-----------------------------------------------------------------------------
(* Values *)

Record == [op : Op, version : Nat]

PreparedMutation ==
    [op : Op, primary : Node, epoch : 1..MaxEpoch, candidate : Seq(Op)]

Tombstone == [op : Op, primary : Node]

PendingCommit == [op : Op, version : Nat, backup : Node, epoch : 1..MaxEpoch]

Snapshot ==
    [epoch : 1..MaxEpoch, ready : BOOLEAN, backup : Address, store : Seq(Op),
     records : SUBSET Record, prepared : SUBSET PreparedMutation,
     aborted : SUBSET Tombstone, pending : SUBSET PendingCommit]

Replica ==
    [role : {"primary", "backup"}, reported : BOOLEAN,
     epoch : 1..MaxEpoch, ready : BOOLEAN, backup : Address, store : Seq(Op),
     records : SUBSET Record, prepared : SUBSET PreparedMutation,
     aborted : SUBSET Tombstone, pending : SUBSET PendingCommit]

(* Where a starting replica is, with the answer to its registration.        *)
Starting ==
    [phase : {"done", "start", "registered", "lookup", "sync"},
     is_primary : BOOLEAN, epoch : 0..MaxEpoch]

(* A synchronization keeps the state it fetched until it is installed.      *)
Synchronization ==
    [node : Node, source : Node, epoch : 1..MaxEpoch,
     caller : Worker \cup {Monitor, Boot, Orphan},
     phase : {"install", "report", "waiting", "told", "failed", "settled"},
     store : Seq(Op), records : SUBSET Record]

PrepareRequest ==
    [type : {"prepare"}, to : Node, op : Op, primary : Node,
     epoch : 1..MaxEpoch, candidate : Seq(Op)]

DecisionRequest ==
    [type : {"commit", "abort"}, to : Node, op : Op, primary : Node,
     epoch : 1..MaxEpoch]

BeginRequest == [type : {"begin"}, to : Node, epoch : 1..MaxEpoch]

CompleteRequest ==
    [type : {"complete"}, to : Node, epoch : 1..MaxEpoch, backup : Node]

Request ==
    PrepareRequest \cup DecisionRequest \cup BeginRequest \cup CompleteRequest

-----------------------------------------------------------------------------
(* state_lock is held while a decided mutation waits for its backup. *)
Serves(n) == n \notin Stopped /\ committing[n] = NoOp

(* The replica of n becomes r; a handler that changed anything saved it. *)
Save(n, r) ==
    /\ replica' = [replica EXCEPT ![n] = r]
    /\ disk' = IF r = replica[n] THEN disk
               ELSE [disk EXCEPT ![n] = Saved(r)]

(* A request without an answer is lost, or its handler runs later. *)
NeverAnswered(m) ==
    \/ UNCHANGED late
    \/ late' = late \cup {m} /\ Cardinality(late') <= MaxLate

Prepare(n, b, op) ==
    [type |-> "prepare", to |-> b, op |-> op, primary |-> n,
     epoch |-> replica[n].epoch, candidate |-> Append(replica[n].store, op)]

Preparation(m) ==
    [op |-> m.op, primary |-> m.primary, epoch |-> m.epoch,
     candidate |-> m.candidate]

Decision(type, n, b, op, epoch) ==
    [type |-> type, to |-> b, op |-> op, primary |-> n, epoch |-> epoch]

Handled(m) ==
    LET r == replica[m.to]
    IN CASE m.type = "prepare" -> PrepareAuctionMutation(r, Preparation(m))
         [] m.type = "commit" -> CommitPreparedMutation(r, m)
         [] m.type = "abort" -> AbortPreparedMutation(r, m)
         [] m.type = "begin" -> BeginPrimaryPromotion(r, m)
         [] m.type = "complete" -> CompletePrimaryPromotion(r, m)

LateHandler(m) ==
    /\ Serves(m.to)
    /\ Save(m.to, Handled(m))
    /\ late' = late \ {m}
    /\ UNCHANGED <<controllerVars, committing, acked, syncVars>>

-----------------------------------------------------------------------------
(* ApplyAuctionMutation, from a client that learnt primary and epoch from   *)
(* GetPrimary.  Preparing and deciding are one step: the primary's lock is  *)
(* held, and what the backup does between them it may do after them.        *)

Writable(n) ==
    /\ Serves(n)
    /\ replica[n].role = "primary" /\ replica[n].ready
    /\ <<n, replica[n].epoch>> \in published

New(n, op) ==
    /\ Writable(n)
    /\ ~Recorded(replica[n], op) /\ ~Tombstoned(replica[n], op)
    /\ replica[n].backup # NoNode

PrepareAndDecide(n, op) ==
    LET b == replica[n].backup
        p == Preparation(Prepare(n, b, op))
    IN /\ New(n, op)
       /\ Serves(b)
       /\ PrepareAccepted(replica[b], p)
       /\ replica' = [replica EXCEPT
                        ![b] = PrepareAuctionMutation(@, p),
                        ![n] = Decided(@, p)]
       /\ disk' = [disk EXCEPT ![b] = Saved(replica'[b]),
                               ![n] = Saved(replica'[n])]
       /\ committing' = [committing EXCEPT ![n] = op]
       /\ UNCHANGED <<controllerVars, acked, syncVars, late>>

PrepareRefused(n, op) ==
    LET b == replica[n].backup
        m == Prepare(n, b, op)
    IN /\ New(n, op)
       /\ Serves(b)
       /\ ~PrepareAccepted(replica[b], Preparation(m))
       /\ Save(b, AbortPreparedMutation(replica[b], m))
       /\ UNCHANGED <<controllerVars, committing, acked, syncVars, late>>

(* The abort that follows overtakes the preparation, or is late itself. *)
PrepareUnanswered(n, op) ==
    LET b == replica[n].backup
        prepare == Prepare(n, b, op)
        abort == Decision("abort", n, b, op, replica[n].epoch)
    IN /\ New(n, op)
       /\ {n, b} \cap Unreliable # {}
       /\ Serves(b)
       /\ \/ /\ Save(b, AbortPreparedMutation(replica[b], abort))
             /\ NeverAnswered(prepare)
          \/ /\ Save(b, PrepareAuctionMutation(replica[b], Preparation(prepare)))
             /\ NeverAnswered(abort)
       /\ UNCHANGED <<controllerVars, committing, acked, syncVars>>

ResumePendingCommit(n, op) ==
    /\ Writable(n)
    /\ PendingFor(replica[n], op) # {} /\ ~Tombstoned(replica[n], op)
    /\ committing' = [committing EXCEPT ![n] = op]
    /\ UNCHANGED <<controllerVars, replica, disk, acked, syncVars, late>>

(* Fault: a decided mutation is answered like a committed one.              *)
ReplayWhilePending(n, op) ==
    /\ Writable(n)
    /\ Recorded(replica[n], op)
    /\ ~Tombstoned(replica[n], op)
    /\ acked' = acked \cup {op}
    /\ UNCHANGED <<controllerVars, replica, disk, committing, syncVars,
                   late>>

ReplayResponse(n, op) ==
    /\ Writable(n)
    /\ Recorded(replica[n], op) /\ PendingFor(replica[n], op) = {}
    /\ ~Tombstoned(replica[n], op)
    /\ acked' = acked \cup {op}
    /\ UNCHANGED <<controllerVars, replica, disk, committing, syncVars,
                   late>>

(* _complete_pending_backup_commit, at the backup of the decision. *)
CommitAnswered(n) ==
    LET op == committing[n]
        d == CHOOSE x \in PendingFor(replica[n], op) : TRUE
        m == Decision("commit", n, d.backup, op, d.epoch)
        committed == CommitPreparedMutation(replica[d.backup], m)
        success == /\ CommitAccepted(replica[d.backup], m)
                   /\ [op |-> op, version |-> d.version] \in committed.records
    IN /\ op # NoOp
       /\ Serves(d.backup)
       /\ replica' = [replica EXCEPT
                        ![d.backup] = committed,
                        ![n] = IF success THEN Acknowledged(@, op) ELSE @]
       /\ disk' = [a \in Node |-> IF replica'[a] = replica[a] THEN disk[a]
                                  ELSE Saved(replica'[a])]
       /\ acked' = IF success THEN acked \cup {op} ELSE acked
       /\ committing' = [committing EXCEPT ![n] = NoOp]
       /\ UNCHANGED <<controllerVars, syncVars, late>>

(* Fault: no answer is taken for success. *)
CommitUnansweredAcknowledged(n) ==
    LET op == committing[n]
    IN /\ op # NoOp
       /\ n \in Unreliable \/ replica[n].backup \in Unreliable
       /\ acked' = acked \cup {op}
       /\ committing' = [committing EXCEPT ![n] = NoOp]
       /\ UNCHANGED <<controllerVars, replica, disk, syncVars, late>>

CommitUnanswered(n) ==
    LET op == committing[n]
        d == CHOOSE x \in PendingFor(replica[n], op) : TRUE
    IN /\ op # NoOp
       /\ {n, d.backup} \cap Unreliable # {}
       /\ NeverAnswered(Decision("commit", n, d.backup, op, d.epoch))
       /\ committing' = [committing EXCEPT ![n] = NoOp]
       /\ UNCHANGED <<controllerVars, replica, disk, acked, syncVars>>

-----------------------------------------------------------------------------
(* Membership *)

(* Each replica registers again every five seconds; so does one that starts *)
(* and gets no answer.                                                      *)
Reregister(n) ==
    /\ n \notin Stopped
    /\ booting[n].phase \in {"done", "start"}
    /\ RegisterNode(n, Reported(replica[n]))
    /\ UNCHANGED <<storageVars, syncVars, late>>

ProbeAnswered(n) ==
    /\ Serves(n)
    /\ HeartbeatAnswered(n, Reported(replica[n]))
    /\ UNCHANGED <<storageVars, syncVars, late>>

ProbeUnanswered(n) ==
    /\ n \in Unreliable
    /\ HeartbeatFails(n)
    /\ UNCHANGED <<storageVars, syncVars, late>>

(* A crash and restart.  A call the replica had sent is late, one it was    *)
(* handling fails, and the requests queued at it are gone.                  *)
Restart(n) ==
    /\ n \in Restarting
    /\ Serves(n)
    /\ replica' = [replica EXCEPT ![n] = Loaded(disk[n])]
    /\ booting' = [booting EXCEPT ![n].phase = "start"]
    /\ syncs' = {IF s.node = n THEN [s EXCEPT !.phase = "failed"] ELSE s :
                   s \in {x \in syncs : x.node # n \/ x.caller \in DOMAIN threads}}
    /\ late' = {m \in late : m.to # n}
    /\ UNCHANGED <<controllerVars, disk, committing, acked>>

Booted == [phase |-> "done", is_primary |-> FALSE, epoch |-> 0]

(* _initialize_connection: registration, its answer, GetPrimary. *)
BootRegister(n) ==
    /\ booting[n].phase = "start"
    /\ RegisterNode(n, Reported(replica[n]))
    /\ booting' = [booting EXCEPT ![n] =
         IF assignment' = NoAssignment
         THEN [phase |-> "registered", is_primary |-> FALSE,
               epoch |-> last_primary_epoch']
         ELSE [phase |-> "registered", is_primary |-> assignment'.primary = n,
               epoch |-> assignment'.epoch]]
    /\ UNCHANGED <<storageVars, syncs, late>>

BootRegistered(n) ==
    /\ booting[n].phase = "registered"
    /\ Serves(n)
    /\ replica' = [replica EXCEPT ![n] = Registered(@, booting[n])]
    /\ booting' = [booting EXCEPT ![n] =
         IF replica'[n].role = "backup" THEN [Booted EXCEPT !.phase = "lookup"]
         ELSE Booted]
    /\ UNCHANGED <<controllerVars, disk, committing, acked, syncs, late>>

Fetched(n, source, epoch, caller) ==
    [node |-> n, source |-> source, epoch |-> epoch, caller |-> caller,
     phase |-> "install", store |-> replica[source].store,
     records |-> replica[source].records]

(* Without an answer of the controller or of the primary, or with a refusal *)
(* of the primary, the start-up begins again.                               *)
BootLookup(n) ==
    LET p == PublishedPrimary
    IN /\ booting[n].phase = "lookup"
       /\ \/ /\ p \in {NoNode, n}
             /\ booting' = [booting EXCEPT ![n] = Booted]
             /\ UNCHANGED syncs
          \/ /\ p \notin {NoNode, n}
             /\ Serves(p)
             /\ ProvidesState(replica[p], assignment.epoch)
             /\ booting' = [booting EXCEPT ![n].phase = "sync"]
             /\ syncs' = syncs \cup {Fetched(n, p, assignment.epoch, Boot)}
          \/ /\ booting' = [booting EXCEPT ![n].phase = "start"]
             /\ UNCHANGED syncs
       /\ UNCHANGED <<controllerVars, storageVars, late>>

-----------------------------------------------------------------------------
(* Promotion *)

BeginPromotion(t) ==
    LET w == threads[t]
    IN /\ w.phase = "begin"
       /\ Serves(w.primary)
       /\ Save(w.primary, BeginPrimaryPromotion(replica[w.primary], w))
       /\ IF BeginAccepted(replica[w.primary], w)
          THEN BeginPromotionAccepted(t) ELSE PromotionRpcFails(t)
       /\ UNCHANGED <<committing, acked, syncVars, late>>

BeginUnanswered(t) ==
    LET w == threads[t]
    IN /\ w.phase = "begin"
       /\ w.primary \in Unreliable
       /\ NeverAnswered([type |-> "begin", to |-> w.primary,
                         epoch |-> w.epoch])
       /\ PromotionRpcFails(t)
       /\ UNCHANGED <<storageVars, syncVars>>

ConfirmPromotion(t) ==
    LET w == threads[t]
    IN /\ w.phase = "confirm"
       /\ Serves(w.primary)
       /\ IF PromotionStateConfirmable(replica[w.primary], w.epoch)
          THEN PromotionStateConfirmed(t) ELSE PromotionRpcFails(t)
       /\ UNCHANGED <<storageVars, syncVars, late>>

ConfirmUnanswered(t) ==
    /\ threads[t].phase = "confirm"
    /\ threads[t].primary \in Unreliable
    /\ PromotionRpcFails(t)
    /\ UNCHANGED <<storageVars, syncVars, late>>

Completion(w) ==
    [type |-> "complete", to |-> w.primary, epoch |-> w.epoch,
     backup |-> w.backup]

(* The report of the new backup is answered: phase is what it hears. *)
AnswerWaiting(w, phase) ==
    syncs' = {IF /\ s.phase = "waiting" /\ s.node = w.backup
                 /\ s.source = w.primary /\ s.epoch = w.epoch
              THEN [s EXCEPT !.phase = phase] ELSE s : s \in syncs}

CompletePromotion(t) ==
    LET w == threads[t]
        accepted == CompletionAccepted(replica[w.primary], Completion(w))
    IN /\ w.phase = "complete"
       /\ Serves(w.primary)
       /\ Save(w.primary,
               CompletePrimaryPromotion(replica[w.primary], Completion(w)))
       /\ AnswerWaiting(w, IF accepted /\ CompletionExpected(w) THEN "told"
                           ELSE "failed")
       /\ IF accepted THEN CompletionSucceeds(t) ELSE CompletionRejected(t)
       /\ UNCHANGED <<committing, acked, booting, late>>

(* Fault: the controller publishes without the primary's answer. *)
CompleteUnansweredPublished(t) ==
    /\ threads[t].phase = "complete"
    /\ threads[t].primary \in Unreliable
    /\ AnswerWaiting(threads[t], "told")
    /\ CompletionSucceeds(t)
    /\ UNCHANGED <<storageVars, booting, late>>

CompleteUnanswered(t) ==
    LET w == threads[t]
    IN /\ w.phase = "complete"
       /\ w.primary \in Unreliable
       /\ NeverAnswered(Completion(w))
       /\ AnswerWaiting(w, "failed")
       /\ CompletionUnanswered(t)
       /\ UNCHANGED <<storageVars, booting>>

-----------------------------------------------------------------------------
(* SynchronizeFromPrimary, called by worker t. *)

Synchronizing(t) == threads[t].phase \in {"sync_backup", "sync_replacement"}

SynchronizationFails(t) ==
    PromotionSynchronizationFails(t) \/ ReplacementSynchronizationFails(t)

(* The check at the replica and its fetch: what changes there between them  *)
(* is seen when the state is installed.                                     *)
StartSynchronization(t) ==
    LET w == threads[t]
    IN /\ Synchronizing(t)
       /\ \A s \in syncs : s.caller # t
       /\ Serves(w.backup) /\ Serves(w.primary)
       /\ IF /\ Synchronizable(replica[w.backup], w.epoch)
             /\ ProvidesState(replica[w.primary], w.epoch)
          THEN /\ syncs' = syncs \cup
                    {Fetched(w.backup, w.primary, w.epoch, t)}
               /\ UNCHANGED controllerVars
          ELSE SynchronizationFails(t) /\ UNCHANGED syncs
       /\ UNCHANGED <<storageVars, booting, late>>

(* The controller, or the replica that fetches, waits in vain; a call the   *)
(* controller gave up goes on.                                              *)
SynchronizationUnanswered(t) ==
    LET w == threads[t]
    IN /\ Synchronizing(t) \/ w.phase = "reported"
       /\ {w.backup, w.primary} \cap Unreliable # {}
       /\ syncs' = {IF s.caller = t THEN [s EXCEPT !.caller = Orphan] ELSE s :
                      s \in syncs}
       /\ SynchronizationFails(t)
       /\ UNCHANGED <<storageVars, booting, late>>

To(s, phase) == syncs' = (syncs \ {s}) \cup {[s EXCEPT !.phase = phase]}

Install(s) ==
    LET r == replica[s.node]
    IN /\ s.phase = "install"
       /\ Serves(s.node)
       /\ IF Synchronizable(r, s.epoch)
          THEN /\ replica' = [replica EXCEPT ![s.node] =
                    ReplaceWithFullState(r, s.epoch, s.store, s.records)]
               /\ disk' = [disk EXCEPT ![s.node] = Saved(replica'[s.node])]
               /\ syncs' = (syncs \ {s}) \cup
                    {[s EXCEPT !.phase = "report", !.store = <<>>,
                               !.records = {}]}
          ELSE To(s, "failed") /\ UNCHANGED <<replica, disk>>
       /\ UNCHANGED <<controllerVars, committing, acked, booting, late>>

(* The report names the source and the epoch of the state that was copied. *)
ReportMatches(s) ==
    /\ s.node \in Members
    /\ assignment # NoAssignment
    /\ assignment.primary = s.source
    /\ assignment.epoch = s.epoch
    /\ s.node # s.source

ReportExpected(s) ==
    /\ ReportMatches(s)
    /\ assignment.status # "ready"
    /\ s.node = IF assignment.status = "promoting" THEN assignment.backup
                ELSE assignment.candidate

ReportCompletion(s) ==
    /\ s.phase = "report"
    /\ IF ReportExpected(s)
       THEN ReportSynchronizationComplete(s.node) /\ To(s, "waiting")
       ELSE /\ To(s, IF ReportMatches(s) /\ assignment.status = "ready"
                     THEN "settled" ELSE "failed")
            /\ UNCHANGED controllerVars
    /\ UNCHANGED <<storageVars, booting, late>>

ReportUnanswered(s) ==
    /\ s.phase = "report"
    /\ s.node \in Unreliable
    /\ To(s, "failed")
    /\ \/ ReportExpected(s) /\ ReportSynchronizationComplete(s.node)
       \/ UNCHANGED controllerVars
    /\ UNCHANGED <<storageVars, booting, late>>

(* The thread that called has not given up. *)
Awaits(s) ==
    /\ s.caller \in DOMAIN threads
    /\ threads[s.caller].phase \in {"sync_backup", "sync_replacement",
                                    "reported"}
    /\ threads[s.caller].backup = s.node

(* The end of the call, at the replica and at its caller. *)
SynchronizationEnds(s) ==
    /\ s.phase \in {"told", "failed", "settled"}
    /\ s.phase = "told" => Serves(s.node)
    /\ syncs' = syncs \ {s}
    /\ replica' = IF s.phase = "told"
                  THEN [replica EXCEPT ![s.node] = Synchronized(@, s.epoch)]
                  ELSE replica
    /\ booting' = IF s.caller # Boot THEN booting
                  ELSE IF s.phase = "failed"
                  THEN [booting EXCEPT ![s.node].phase = "start"]
                  ELSE [booting EXCEPT ![s.node] = Booted]
    /\ \/ Awaits(s) /\ s.phase = "told" /\ SynchronizationSucceeds(s.caller)
       \/ Awaits(s) /\ s.phase # "told" /\ SynchronizationFails(s.caller)
       \/ ~Awaits(s) /\ UNCHANGED controllerVars
    /\ UNCHANGED <<disk, committing, acked, late>>

-----------------------------------------------------------------------------

ReplicaStep(n) ==
    \/ \E op \in Op : \/ PrepareAndDecide(n, op)
                      \/ PrepareRefused(n, op)
                      \/ PrepareUnanswered(n, op)
                      \/ ResumePendingCommit(n, op)
                      \/ ReplayResponse(n, op)
    \/ CommitAnswered(n)
    \/ CommitUnanswered(n)
    \/ Reregister(n)
    \/ ProbeAnswered(n)
    \/ ProbeUnanswered(n)
    \/ Restart(n)
    \/ BootRegister(n)
    \/ BootRegistered(n)
    \/ BootLookup(n)

RpcStep(t) ==
    \/ BeginPromotion(t)
    \/ BeginUnanswered(t)
    \/ ConfirmPromotion(t)
    \/ ConfirmUnanswered(t)
    \/ CompletePromotion(t)
    \/ CompleteUnanswered(t)
    \/ StartSynchronization(t)
    \/ SynchronizationUnanswered(t)

SyncStep(s) ==
    \/ Install(s)
    \/ ReportCompletion(s)
    \/ ReportUnanswered(s)
    \/ SynchronizationEnds(s)

ControllerStep ==
    /\ \/ HandleReplicaFailure
       \/ \E t \in DOMAIN threads :
            \/ Elect(t)
            \/ StartPromotion(t)
            \/ TryNextPromotionBackup(t)
            \/ SelectedBackupEvicted(t)
            \/ NoPromotionBackup(t)
            \/ TryNextReplacementBackup(t)
    /\ UNCHANGED <<storageVars, syncVars, late>>

Next ==
    /\ \/ \E n \in Node : ReplicaStep(n)
       \/ \E t \in DOMAIN threads : RpcStep(t)
       \/ \E s \in syncs : SyncStep(s)
       \/ \E m \in late : LateHandler(m)
       \/ ControllerStep
    /\ published' = published \cup
         IF Assigned("ready")' THEN {<<assignment'.primary, assignment'.epoch>>}
         ELSE {}

(* A ready cluster whose controller restarted: the first replica is primary *)
(* of epoch 1, the second its backup, the others are standbys.              *)
Leader == First(Node)
Follower == First(Node \ {Leader})

InitialReplica(n) ==
    [role |-> IF n = Leader THEN "primary" ELSE "backup",
     reported |-> n \in {Leader, Follower}, epoch |-> 1, ready |-> n = Leader,
     backup |-> IF n = Leader THEN Follower ELSE NoNode,
     store |-> <<>>, records |-> {}, prepared |-> {}, aborted |-> {},
     pending |-> {}]

Init ==
    /\ nodes = [n \in Node |-> [failures |-> 0,
                 synchronized_epoch |-> IF n = Follower THEN 1 ELSE 0]]
    /\ assignment = Assign(Leader, 1, "ready", Follower)
    /\ last_primary_epoch = 1
    /\ election_in_progress = FALSE
    /\ threads = [t \in Worker \cup {Monitor} |-> Free]
    /\ replica = [n \in Node |-> InitialReplica(n)]
    /\ disk = [n \in Node |-> Saved(InitialReplica(n))]
    /\ committing = [n \in Node |-> NoOp]
    /\ booting = [n \in Node |-> Booted]
    /\ syncs = {}
    /\ late = {}
    /\ acked = {}
    /\ published = {<<Leader, 1>>}

Spec == Init /\ [][Next]_vars

-----------------------------------------------------------------------------
(* Properties *)

(* Every variable keeps its shape; a replica is in an epoch some primary    *)
(* had.                                                                     *)
TypeOK ==
    /\ ControllerTypeOK
    /\ replica \in [Node -> Replica]
    /\ disk \in [Node -> Snapshot]
    /\ committing \in [Node -> Op \cup {NoOp}]
    /\ booting \in [Node -> Starting]
    /\ syncs \subseteq Synchronization
    /\ late \subseteq Request
    /\ acked \subseteq Op
    /\ published \subseteq Node \X (1..MaxEpoch)

(* README.md:71 promises acknowledged-write durability across the failure   *)
(* of a replica: the primary the controller publishes, whichever it is by   *)
(* now, has committed every mutation a client was told is committed.        *)
AcknowledgedRecoverable ==
    PublishedPrimary # NoNode =>
      \A op \in acked : Recorded(replica[PublishedPrimary], op)

(* The state of the system is the store of the primary of the newest epoch. *)
History ==
    LET primaries == {n \in Node : replica[n].role = "primary"}
        heirs == IF primaries = {} THEN Node ELSE primaries
        newest == CHOOSE n \in heirs :
                    \A m \in heirs : replica[m].epoch <= replica[n].epoch
    IN replica[newest].store

(* History up to op; nothing when it is not applied.                        *)
Through(op) ==
    LET applied == {i \in DOMAIN History : History[i] = op}
    IN SubSeq(History, 1, IF applied = {} THEN 0 ELSE CHOOSE i \in applied : TRUE)

(* Failover implements the ledger the auction service relies on             *)
(* (AuctionService!Ledger): through every promotion, restart and            *)
(* synchronization the state of the system changes by one applied mutation  *)
(* at a time, or by the loss of the newest one while no client was told     *)
(* that it succeeded.                                                       *)
Ledger ==
    INSTANCE FailoverLedger WITH
        Auction <- {NoOp},
        IdOf <- [op \in Op |-> op],
        AuctionOf <- [op \in Op |-> NoOp],
        history <- [a \in {NoOp} |-> History],
        acknowledged <- {Through(op) : op \in acked}

LedgerSpec == Ledger!FailoverSpec

(* Fencing: an epoch belongs to one primary, also while an old one restarts *)
(* from its snapshot, is cut off or registers again.                        *)
OnePrimaryPerEpoch ==
    \A m, n \in Node :
      /\ replica[m].role = "primary" /\ replica[n].role = "primary"
      /\ replica[m].epoch = replica[n].epoch
      => m = n

(* What GetPrimary answers has finished its promotion: storage is activated *)
(* before the controller publishes (docs/auction-specification.md:528-533)  *)
(* and stays so while it is published.                                      *)
PublishedIsActivated ==
    PublishedPrimary # NoNode =>
      LET r == replica[PublishedPrimary]
      IN r.role = "primary" /\ r.ready /\ r.epoch = assignment.epoch

(* Controller and primary agree which replica is the synchronous backup of  *)
(* a ready cluster, the one whose loss starts a reprotection                *)
(* (docs/architecture.md:87-92).                                            *)
AgreedBackup ==
    PublishedPrimary # NoNode =>
      replica[PublishedPrimary].backup = assignment.backup

(* The designated backup of a ready cluster can go on without its primary:  *)
(* it holds a prefix of the primary's store, but for its newest mutation,   *)
(* which the primary has decided too.  What a failed primary decided by     *)
(* itself is gone from every replica that joins again.                      *)
ReadyBackupFollows ==
    PublishedPrimary # NoNode =>
      LET p == replica[PublishedPrimary]
          b == replica[assignment.backup].store
      IN \A i \in DOMAIN b :
           \/ i \in DOMAIN p.store /\ b[i] = p.store[i]
           \/ i = Len(b) /\ Recorded(p, b[i])

(* docs/auction-specification.md:426: acknowledged means committed by the   *)
(* designated synchronous backup, hence also by the one that replaced it.   *)
ReadyBackupHoldsAcknowledged ==
    PublishedPrimary # NoNode =>
      \A op \in acked : Recorded(replica[assignment.backup], op)

(* docs/auction-specification.md:446: a mutation whose decision is durable  *)
(* is irrevocable, whoever is primary later.                                *)
DecidedIsIrrevocable ==
    PublishedPrimary # NoNode =>
      \A n \in Node : \A d \in disk[n].pending :
        Recorded(replica[PublishedPrimary], d.op)
=============================================================================
