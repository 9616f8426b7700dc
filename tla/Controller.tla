----------------------------- MODULE Controller -----------------------------
(***************************************************************************)
(* backend/blindsided/controller/service.py: membership, the primary       *)
(* assignment, elections, promotion and reprotection.  Handlers and worker *)
(* threads take the controller's lock for each step and wait for storage   *)
(* RPCs outside it, so an action is one locked region, with the outcome of *)
(* the RPC before it: any answer a storage node may give, or none.         *)
(*                                                                         *)
(* Addresses are naturals, compared as sorted() compares them.  A replica  *)
(* record is SYNCHRONIZED exactly when its synchronized_epoch is not 0.    *)
(***************************************************************************)
EXTENDS Naturals, FiniteSets

CONSTANTS
    Node,           \* replica addresses
    Worker,         \* handler and worker threads besides the monitor
    Monitor,        \* the thread of _monitor_heartbeats
    NoNode,         \* no address
    NotRegistered,
    NoAssignment,
    AnyEligible,    \* _elect_new_primary called without a list
    Eviction,       \* consecutive heartbeat failures that evict a replica
    MaxEpoch,       \* bound on elections
    MaxGeneration   \* bound on the replacement candidates of an assignment

ASSUME ControllerAssumption ==
    /\ Node \subseteq Nat /\ IsFiniteSet(Node)
    /\ NoNode \notin Node
    /\ Monitor \notin Worker
    /\ Eviction \in Nat \ {0} /\ MaxEpoch \in Nat \ {0}
    /\ MaxGeneration \in Nat

VARIABLES
    nodes,                 \* [Node -> replica record]
    assignment,            \* primary_assignment
    last_primary_epoch,
    election_in_progress,
    threads                \* [Worker or Monitor -> where it is]

controllerVars ==
    <<nodes, assignment, last_primary_epoch, election_in_progress, threads>>

-----------------------------------------------------------------------------
(* Values *)

Address == Node \cup {NoNode}

Status == {"promoting", "reprotecting", "ready"}

ReplicaRecord ==
    [synchronized_epoch : 0..MaxEpoch, failures : 0..Eviction]

PrimaryAssignment ==
    [primary : Node, epoch : 1..MaxEpoch, status : Status,
     backup : Address, candidate : Address, generation : 0..MaxGeneration,
     eligible : SUBSET Node, attempted : SUBSET Node]

(* None of the values that stand for None is one of those above. *)
ASSUME SentinelAssumption ==
    /\ NotRegistered \notin ReplicaRecord
    /\ NoAssignment \notin PrimaryAssignment

(* What a node says of itself when it registers or answers a heartbeat: the *)
(* controller reads no backup address of a backup, and treats an unready    *)
(* primary as one that names no backup.                                     *)
BackupReport ==
    [role : {"backup"}, epoch : 0..MaxEpoch, ready : BOOLEAN,
     backup : {NoNode}]

PrimaryReport ==
    [role : {"primary"}, epoch : 1..MaxEpoch, ready : {TRUE},
     backup : Address]

Report == BackupReport \cup PrimaryReport

Assign(primary, epoch, status, backup) ==
    [primary |-> primary, epoch |-> epoch, status |-> status,
     backup |-> backup, candidate |-> NoNode, generation |-> 0,
     eligible |-> {}, attempted |-> {}]

Phase == {"free", "validate", "begin", "confirm", "next_backup", "sync_backup",
          "abandon", "elect", "replace", "sync_replacement", "reported",
          "complete", "evict", "backup_failed"}

(* A thread: its arguments are those of the function it is in.              *)
Thread ==
    [phase : Phase, primary : Address, epoch : 0..MaxEpoch, backup : Address,
     generation : 0..MaxGeneration, status : Status \cup {"none"},
     eligible : (SUBSET Node) \cup {AnyEligible}]

Free ==
    [phase |-> "free", primary |-> NoNode, epoch |-> 0, backup |-> NoNode,
     generation |-> 0, status |-> "none", eligible |-> {}]

Working(phase, primary, epoch) ==
    [Free EXCEPT !.phase = phase, !.primary = primary, !.epoch = epoch]

Members == {a \in Node : nodes[a] # NotRegistered}

First(S) == CHOOSE a \in S : \A b \in S : a <= b

Unsynchronized(members) ==
    [a \in Node |->
       IF members[a] = NotRegistered THEN NotRegistered
       ELSE [members[a] EXCEPT !.synchronized_epoch = 0]]

(* The fields every entry into REPROTECTING resets. *)
Unprotected(a) ==
    [a EXCEPT !.status = "reprotecting", !.backup = NoNode,
              !.candidate = NoNode, !.attempted = {}]

AssignmentMatches(primary, epoch, status) ==
    /\ assignment # NoAssignment
    /\ assignment.primary = primary
    /\ assignment.epoch = epoch
    /\ assignment.status = status

(* threading.Thread(...).start() *)
Spawn(new) ==
    \E w \in Worker :
      /\ threads[w].phase = "free"
      /\ threads' = [threads EXCEPT ![w] = new]

Continue(t, next) == threads' = [threads EXCEPT ![t] = next]

ContinueAndSpawn(t, next, new) ==
    \E w \in Worker \ {t} :
      /\ threads[w].phase = "free"
      /\ threads' = [threads EXCEPT ![t] = next, ![w] = new]

-----------------------------------------------------------------------------
(* Registration *)

ReadyBackupReport(r, epoch) ==
    r.role = "backup" /\ r.ready /\ r.epoch = epoch

ReportsSynchronized(a, r) ==
    /\ r.role = "backup" /\ r.ready /\ r.epoch > 0
    /\ \/ assignment = NoAssignment
       \/ a \in {assignment.backup, assignment.candidate}

(* The primary a registration without a current assignment restores: itself *)
(* as a recovered primary, or the first replica of a new cluster.           *)
RecoveredAssignment(a, r, members, known) ==
    IF /\ r.role = "primary" /\ r.epoch > 0 /\ r.epoch = known /\ r.ready
       /\ r.backup \notin {NoNode, a}
       /\ members[r.backup] # NotRegistered
    THEN IF members[r.backup].synchronized_epoch = r.epoch
         THEN Assign(a, r.epoch, "ready", r.backup)
         ELSE Assign(a, r.epoch, "reprotecting", NoNode)
    ELSE IF known = 0
    THEN Assign(a, 1, "reprotecting", NoNode)
    ELSE NoAssignment

RegisterNode(a, r) ==
    LET members ==
          [nodes EXCEPT ![a] =
             [synchronized_epoch |->
                IF ReportsSynchronized(a, r) THEN r.epoch ELSE 0,
              failures |-> 0]]
        known == IF r.epoch > last_primary_epoch THEN r.epoch
                 ELSE last_primary_epoch
        invalidated == /\ assignment # NoAssignment
                       /\ r.epoch > assignment.epoch
        missing == assignment = NoAssignment \/ invalidated
        current == IF missing THEN RecoveredAssignment(a, r, members, known)
                   ELSE assignment
        assigned == current # NoAssignment
        lost == /\ assigned /\ current.status = "ready" /\ a = current.backup
                /\ ~ReadyBackupReport(r, current.epoch)
        waiting == /\ assigned /\ current.status = "reprotecting"
                   /\ current.candidate = NoNode /\ a # current.primary
        bare == /\ assigned /\ current.status = "ready"
                /\ current.backup = NoNode /\ a # current.primary
        restored == /\ missing /\ assigned /\ known > 0
                    /\ current.status = "reprotecting"
    IN /\ nodes' = members
       /\ last_primary_epoch' = IF assigned /\ known = 0 THEN 1 ELSE known
       /\ assignment' = IF lost \/ bare THEN Unprotected(current)
                        ELSE IF waiting
                        THEN [current EXCEPT !.attempted = @ \ {a}]
                        ELSE current
       /\ election_in_progress' = (election_in_progress /\ ~invalidated)
       /\ IF lost \/ waiting \/ bare \/ restored
          THEN Spawn(Working("replace", current.primary, current.epoch))
          ELSE UNCHANGED threads

(* GetPrimary publishes a ready assignment only. *)
PublishedPrimary ==
    IF assignment # NoAssignment /\ assignment.status = "ready"
    THEN assignment.primary ELSE NoNode

-----------------------------------------------------------------------------
(* Election and promotion *)

SelectPrimaryCandidate(eligible) ==
    LET candidates ==
          IF eligible = AnyEligible
          THEN {a \in Members : /\ nodes[a].synchronized_epoch > 0
                                /\ nodes[a].synchronized_epoch
                                     = last_primary_epoch}
          ELSE eligible \cap Members
    IN IF candidates = {} THEN NoNode ELSE First(candidates)

NextEpoch == last_primary_epoch + 1

Elect(t) ==
    LET candidate == SelectPrimaryCandidate(threads[t].eligible)
        epoch == NextEpoch
    IN /\ threads[t].phase = "elect"
       /\ IF \/ assignment # NoAssignment \/ election_in_progress
             \/ candidate = NoNode
          THEN /\ Continue(t, Free)
               /\ UNCHANGED <<nodes, assignment, last_primary_epoch,
                              election_in_progress>>
          ELSE /\ last_primary_epoch < MaxEpoch
               /\ last_primary_epoch' = epoch
               /\ assignment' =
                    [Assign(candidate, epoch, "promoting", NoNode)
                       EXCEPT !.eligible = Members]
               /\ election_in_progress' = TRUE
               /\ nodes' = Unsynchronized(nodes)
               /\ ContinueAndSpawn(t, Free,
                                   Working("validate", candidate, epoch))

PromotionContextValid(t) ==
    LET w == threads[t]
    IN /\ AssignmentMatches(w.primary, w.epoch, "promoting")
       /\ w.primary \in Members
       /\ \/ nodes[w.primary].synchronized_epoch > 0
          \/ w.primary \in assignment.eligible

(* The next step of a promotion, taken only while it is the current one. *)
Advance(t, phase) ==
    /\ Continue(t, IF PromotionContextValid(t)
                   THEN [threads[t] EXCEPT !.phase = phase] ELSE Free)
    /\ UNCHANGED <<nodes, assignment, last_primary_epoch,
                   election_in_progress>>

(* Fault: a failed candidate gives its epoch back. *)
CandidateFailedReturningEpoch(t) ==
    LET w == threads[t]
    IN /\ AssignmentMatches(w.primary, w.epoch, "promoting")
       /\ nodes' = [nodes EXCEPT ![w.primary] = NotRegistered]
       /\ assignment' = NoAssignment
       /\ election_in_progress' = FALSE
       /\ Continue(t, [Free EXCEPT !.phase = "elect",
                                   !.eligible = Members \ {w.primary}])
       /\ last_primary_epoch' = w.epoch - 1

(* _handle_candidate_promotion_failure, up to its call of an election. *)
CandidateFailed(t) ==
    LET w == threads[t]
    IN /\ IF AssignmentMatches(w.primary, w.epoch, "promoting")
          THEN /\ nodes' = [Unsynchronized(nodes) EXCEPT
                              ![w.primary] = NotRegistered]
               /\ assignment' = NoAssignment
               /\ election_in_progress' = FALSE
               /\ Continue(t, [Free EXCEPT
                    !.phase = "elect",
                    !.eligible = (assignment.eligible \ {w.primary})
                                   \cap Members])
          ELSE /\ Continue(t, Free)
               /\ UNCHANGED <<nodes, assignment, election_in_progress>>
       /\ UNCHANGED last_primary_epoch

StartPromotion(t) ==
    threads[t].phase = "validate" /\ Advance(t, "begin")

BeginPromotionAccepted(t) ==
    threads[t].phase = "begin" /\ Advance(t, "confirm")

PromotionStateConfirmed(t) ==
    /\ threads[t].phase = "confirm"
    /\ Continue(t, [threads[t] EXCEPT !.phase = "next_backup"])
    /\ UNCHANGED <<nodes, assignment, last_primary_epoch,
                   election_in_progress>>

(* Either RPC is refused or unanswered. *)
PromotionRpcFails(t) ==
    threads[t].phase \in {"begin", "confirm"} /\ CandidateFailed(t)

PromotionBackups(candidate) ==
    LET eligible == IF assignment.eligible # {} THEN assignment.eligible
                    ELSE {a \in Members : nodes[a].synchronized_epoch > 0}
    IN (eligible \cap Members) \ ({candidate} \cup assignment.attempted)

TryNextPromotionBackup(t) ==
    LET w == threads[t]
        choices == PromotionBackups(w.primary)
        backup == First(choices)
    IN /\ w.phase = "next_backup"
       /\ \/ /\ ~AssignmentMatches(w.primary, w.epoch, "promoting")
             /\ Continue(t, Free)
             /\ UNCHANGED <<nodes, assignment>>
          \/ /\ AssignmentMatches(w.primary, w.epoch, "promoting")
             /\ choices = {}
             /\ Continue(t, [w EXCEPT !.phase = "abandon"])
             /\ UNCHANGED <<nodes, assignment>>
          \/ /\ AssignmentMatches(w.primary, w.epoch, "promoting")
             /\ choices # {}
             /\ assignment' = [assignment EXCEPT !.attempted = @ \cup {backup},
                                                 !.backup = backup]
             /\ nodes' = [nodes EXCEPT ![backup].synchronized_epoch = 0]
             /\ Continue(t, [w EXCEPT !.phase = "sync_backup",
                                      !.backup = backup])
       /\ UNCHANGED <<last_primary_epoch, election_in_progress>>

IsCurrentCandidate(w) ==
    /\ AssignmentMatches(w.primary, w.epoch, "reprotecting")
    /\ assignment.candidate = w.backup
    /\ assignment.generation = w.generation

IsCurrentPromotionBackup(w) ==
    /\ AssignmentMatches(w.primary, w.epoch, "promoting")
    /\ assignment.backup = w.backup

(* Fault: the failure of a promotion's backup is not followed by a next try. *)
PromotionBackupDropped(t) ==
    LET w == threads[t]
    IN /\ IF IsCurrentPromotionBackup(w)
          THEN /\ nodes' = [nodes EXCEPT ![w.backup] = NotRegistered]
               /\ assignment' = [assignment EXCEPT !.backup = NoNode]
          ELSE UNCHANGED <<nodes, assignment>>
       /\ Continue(t, Free)
       /\ UNCHANGED <<last_primary_epoch, election_in_progress>>

(* _handle_promotion_backup_failure, up to its next attempt. *)
PromotionBackupFailed(t) ==
    LET w == threads[t]
    IN /\ IF IsCurrentPromotionBackup(w)
          THEN /\ nodes' = [nodes EXCEPT ![w.backup] = NotRegistered]
               /\ assignment' = [assignment EXCEPT !.backup = NoNode]
               /\ Continue(t, Working("next_backup", w.primary, w.epoch))
          ELSE Continue(t, Free) /\ UNCHANGED <<nodes, assignment>>
       /\ UNCHANGED <<last_primary_epoch, election_in_progress>>

(* SynchronizeFromPrimary succeeds at a replica whose report was answered   *)
(* success; after that, or after its attempt was given up, the call ends.   *)
SynchronizationSucceeds(t) ==
    LET w == threads[t]
    IN /\ \/ w.phase = "sync_backup" /\ ~IsCurrentPromotionBackup(w)
          \/ w.phase = "sync_replacement" /\ ~IsCurrentCandidate(w)
          \/ w.phase = "reported"
       /\ Continue(t, Free)
       /\ UNCHANGED <<nodes, assignment, last_primary_epoch,
                      election_in_progress>>

PromotionSynchronizationFails(t) ==
    threads[t].phase = "sync_backup" /\ PromotionBackupFailed(t)

SelectedBackupEvicted(t) ==
    threads[t].phase = "backup_failed" /\ PromotionBackupFailed(t)

(* _abandon_promotion_attempt *)
Abandon(t) ==
    LET w == threads[t]
    IN /\ IF AssignmentMatches(w.primary, w.epoch, "promoting")
          THEN /\ nodes' = Unsynchronized(nodes)
               /\ assignment' = NoAssignment
               /\ election_in_progress' = FALSE
          ELSE UNCHANGED <<nodes, assignment, election_in_progress>>
       /\ Continue(t, Free)
       /\ UNCHANGED last_primary_epoch

NoPromotionBackup(t) ==
    threads[t].phase = "abandon" /\ Abandon(t)

-----------------------------------------------------------------------------
(* Reprotection *)

ReplacementCandidates ==
    {a \in Members \ ({assignment.primary} \cup assignment.attempted) :
       nodes[a].failures = 0}

TryNextReplacementBackup(t) ==
    LET w == threads[t]
        backup == First(ReplacementCandidates)
        generation == assignment.generation + 1
    IN /\ w.phase = "replace"
       /\ IF \/ ~AssignmentMatches(w.primary, w.epoch, "reprotecting")
             \/ assignment.candidate # NoNode
             \/ ReplacementCandidates = {}
          THEN Continue(t, Free) /\ UNCHANGED <<nodes, assignment>>
          ELSE /\ assignment.generation < MaxGeneration
               /\ assignment' =
                    [assignment EXCEPT !.attempted = @ \cup {backup},
                                       !.generation = generation,
                                       !.candidate = backup]
               /\ nodes' = [nodes EXCEPT ![backup].synchronized_epoch = 0]
               /\ Continue(t, [w EXCEPT !.phase = "sync_replacement",
                                        !.backup = backup,
                                        !.generation = generation])
       /\ UNCHANGED <<last_primary_epoch, election_in_progress>>

(* Fault: the failed candidate is kept while the next one is tried. *)
ReplacementFailsKeepingCandidate(t) ==
    /\ threads[t].phase \in {"sync_replacement", "reported"}
    /\ Continue(t, Working("replace", threads[t].primary, threads[t].epoch))
    /\ UNCHANGED <<nodes, assignment, last_primary_epoch,
                   election_in_progress>>

ReplacementSynchronizationFails(t) ==
    LET w == threads[t]
    IN /\ w.phase \in {"sync_replacement", "reported"}
       /\ assignment' = IF IsCurrentCandidate(w)
                        THEN [assignment EXCEPT !.candidate = NoNode]
                        ELSE assignment
       /\ Continue(t, Working("replace", w.primary, w.epoch))
       /\ UNCHANGED <<nodes, last_primary_epoch, election_in_progress>>

(* _reject_replacement_candidate *)
RejectReplacement(t) ==
    LET w == threads[t]
    IN /\ IF IsCurrentCandidate(w)
          THEN /\ assignment' = [assignment EXCEPT !.candidate = NoNode]
               /\ nodes' = IF w.backup \in Members
                           THEN [nodes EXCEPT
                                   ![w.backup].synchronized_epoch = 0]
                           ELSE nodes
          ELSE UNCHANGED <<nodes, assignment>>
       /\ Continue(t, Free)
       /\ UNCHANGED <<last_primary_epoch, election_in_progress>>

-----------------------------------------------------------------------------
(* ReportSynchronizationComplete.  A refused report changes nothing. *)

ReportSynchronizationComplete(a) ==
    LET expected == IF assignment.status = "promoting" THEN assignment.backup
                    ELSE assignment.candidate
    IN /\ assignment # NoAssignment
       /\ assignment.status # "ready"
       /\ a \in Members \ {assignment.primary}
       /\ a = expected
       /\ nodes' = [nodes EXCEPT ![a].synchronized_epoch = assignment.epoch]
       /\ Spawn([Working("complete", assignment.primary, assignment.epoch)
                   EXCEPT !.backup = a, !.status = assignment.status,
                          !.generation = assignment.generation])
       /\ UNCHANGED <<assignment, last_primary_epoch, election_in_progress>>

(* Fault: a late answer is checked against the epoch only. *)
CompletionOfEpoch(w) ==
    /\ assignment # NoAssignment
    /\ assignment.primary = w.primary /\ assignment.epoch = w.epoch

(* The assignment a completion was sent for is still the current one. *)
CompletionExpected(w) ==
    /\ AssignmentMatches(w.primary, w.epoch, w.status)
    /\ assignment.generation = w.generation
    /\ w.backup = IF w.status = "promoting" THEN assignment.backup
                  ELSE assignment.candidate

(* The replica is told: its replacement thread hears of it, or of a timeout; *)
(* that of a promotion, now over, has nothing left to do.                   *)
AnswerReport(t) ==
    LET told(w) == /\ w.phase \in {"sync_backup", "sync_replacement"}
                   /\ w.backup = threads[t].backup
                   /\ w.primary = threads[t].primary
                   /\ w.epoch = threads[t].epoch
    IN threads' = [u \in DOMAIN threads |->
                     IF u = t THEN Free
                     ELSE IF ~told(threads[u]) THEN threads[u]
                     ELSE IF threads[u].phase = "sync_backup" THEN Free
                     ELSE [threads[u] EXCEPT !.phase = "reported"]]

CompletionSucceeds(t) ==
    LET w == threads[t]
    IN /\ w.phase = "complete"
       /\ IF CompletionExpected(w)
          THEN /\ assignment' = [assignment EXCEPT !.backup = w.backup,
                                                   !.candidate = NoNode,
                                                   !.status = "ready"]
               /\ AnswerReport(t)
          ELSE Continue(t, Free) /\ UNCHANGED assignment
       /\ UNCHANGED <<nodes, last_primary_epoch, election_in_progress>>

(* The completion was lost or timed out; it may have been applied. *)
CompletionUnanswered(t) ==
    /\ threads[t].phase = "complete"
    /\ \/ threads[t].status = "promoting" /\ Abandon(t)
       \/ threads[t].status = "reprotecting" /\ RejectReplacement(t)

CompletionRejected(t) ==
    /\ threads[t].phase = "complete"
    /\ \/ threads[t].status = "promoting" /\ CandidateFailed(t)
       \/ threads[t].status = "reprotecting" /\ RejectReplacement(t)

-----------------------------------------------------------------------------
(* The heartbeat monitor.  It evicts, elects and repairs in its own thread, *)
(* and probes nobody meanwhile.                                             *)

(* Fault: the replica is evicted one failure late. *)
HeartbeatFailsOnceMore(a) ==
    LET failures == nodes[a].failures + 1
    IN /\ threads[Monitor].phase = "free"
       /\ a \in Members
       /\ nodes' = [nodes EXCEPT ![a].failures = failures]
       /\ IF failures > Eviction
          THEN Continue(Monitor, [Free EXCEPT !.phase = "evict", !.backup = a])
          ELSE UNCHANGED threads
       /\ UNCHANGED <<assignment, last_primary_epoch, election_in_progress>>

HeartbeatFails(a) ==
    LET failures == nodes[a].failures + 1
    IN /\ threads[Monitor].phase = "free"
       /\ a \in Members
       /\ nodes' = [nodes EXCEPT ![a].failures = failures]
       /\ IF failures >= Eviction
          THEN Continue(Monitor, [Free EXCEPT !.phase = "evict", !.backup = a])
          ELSE UNCHANGED threads
       /\ UNCHANGED <<assignment, last_primary_epoch, election_in_progress>>

HeartbeatAnswered(a, r) ==
    LET lost == /\ assignment # NoAssignment
                /\ assignment.status = "ready" /\ a = assignment.backup
                /\ ~ReadyBackupReport(r, assignment.epoch)
    IN /\ threads[Monitor].phase = "free"
       /\ a \in Members
       /\ nodes' = [nodes EXCEPT ![a].failures = 0]
       /\ IF lost
          THEN /\ assignment' = Unprotected(assignment)
               /\ Spawn(Working("replace", assignment.primary,
                                assignment.epoch))
          ELSE UNCHANGED <<assignment, threads>>
       /\ UNCHANGED <<last_primary_epoch, election_in_progress>>

(* _handle_replica_failure, by what the evicted replica was; an assignment  *)
(* in reprotection names no backup.                                         *)
EvictUnassigned(a) ==
    /\ assignment = NoAssignment
    /\ Continue(Monitor,
                IF election_in_progress THEN Free
                ELSE [Free EXCEPT !.phase = "elect", !.eligible = AnyEligible])
    /\ UNCHANGED <<assignment, election_in_progress>>

EvictPrimary(a) ==
    /\ assignment # NoAssignment
    /\ assignment.primary = a
    /\ assignment' = NoAssignment
    /\ election_in_progress' = FALSE
    /\ Continue(Monitor,
                [Free EXCEPT
                   !.phase = "elect",
                   !.eligible = IF assignment.backup \in Members \ {a}
                                THEN {assignment.backup} ELSE AnyEligible])

EvictBackup(a) ==
    /\ assignment # NoAssignment
    /\ assignment.primary # a /\ assignment.backup = a
    /\ \/ /\ assignment.status = "promoting"
          /\ Continue(Monitor,
                      [Working("backup_failed", assignment.primary,
                               assignment.epoch) EXCEPT !.backup = a])
          /\ UNCHANGED assignment
       \/ /\ assignment.status = "ready"
          /\ assignment' = [assignment EXCEPT !.status = "reprotecting",
                                              !.backup = NoNode,
                                              !.attempted = {}]
          /\ ContinueAndSpawn(Monitor, Free,
                              Working("replace", assignment.primary,
                                      assignment.epoch))
    /\ UNCHANGED election_in_progress

EvictOther(a) ==
    /\ assignment # NoAssignment
    /\ a \notin {assignment.primary, assignment.backup}
    /\ IF assignment.status = "reprotecting" /\ assignment.candidate = a
       THEN /\ assignment' = [assignment EXCEPT !.candidate = NoNode]
            /\ ContinueAndSpawn(Monitor, Free,
                                Working("replace", assignment.primary,
                                        assignment.epoch))
       ELSE Continue(Monitor, Free) /\ UNCHANGED assignment
    /\ UNCHANGED election_in_progress

HandleReplicaFailure ==
    LET a == threads[Monitor].backup
    IN /\ threads[Monitor].phase = "evict"
       /\ IF a \in Members
          THEN /\ nodes' = [nodes EXCEPT ![a] = NotRegistered]
               /\ \/ EvictUnassigned(a)
                  \/ EvictPrimary(a)
                  \/ EvictBackup(a)
                  \/ EvictOther(a)
          ELSE /\ Continue(Monitor, Free)
               /\ UNCHANGED <<nodes, assignment, election_in_progress>>
       /\ UNCHANGED last_primary_epoch

-----------------------------------------------------------------------------

(* A restarted controller remembers nothing; the replicas remember. *)
ControllerRestart ==
    /\ nodes' = [a \in Node |-> NotRegistered]
    /\ assignment' = NoAssignment
    /\ last_primary_epoch' = 0
    /\ election_in_progress' = FALSE
    /\ threads' = [t \in Worker \cup {Monitor} |-> Free]

ControllerInit ==
    /\ nodes = [a \in Node |-> NotRegistered]
    /\ assignment = NoAssignment
    /\ last_primary_epoch = 0
    /\ election_in_progress = FALSE
    /\ threads = [t \in Worker \cup {Monitor} |-> Free]

-----------------------------------------------------------------------------
(* What the properties speak of *)

Assigned(status) ==
    assignment # NoAssignment /\ assignment.status = status

ControllerTypeOK ==
    /\ nodes \in [Node -> ReplicaRecord \cup {NotRegistered}]
    /\ assignment \in PrimaryAssignment \cup {NoAssignment}
    /\ last_primary_epoch \in 0..MaxEpoch
    /\ election_in_progress \in BOOLEAN
    /\ threads \in [Worker \cup {Monitor} -> Thread]
    /\ \A t \in DOMAIN threads : threads[t].phase = "free" => threads[t] = Free

(* An attempt to promote or to protect a primary succeeds. *)
RecoveryCompletes ==
    /\ Assigned("promoting") \/ Assigned("reprotecting")
    /\ Assigned("ready")'
    /\ assignment'.primary = assignment.primary
    /\ assignment'.epoch = assignment.epoch

-----------------------------------------------------------------------------
(* Properties *)

(* Thread t will move the current promotion on, whatever its RPC answers.   *)
DrivesPromotion(t) ==
    LET w == threads[t]
    IN /\ w.primary = assignment.primary /\ w.epoch = assignment.epoch
       /\ \/ w.phase \in {"validate", "begin", "confirm", "next_backup",
                           "abandon"}
          \/ /\ w.phase \in {"sync_backup", "backup_failed"}
             /\ w.backup = assignment.backup
          \/ w.phase = "complete" /\ CompletionExpected(w)

(* No wake-up is lost in an election: a promotion always has a thread that  *)
(* will complete or give it up, and while nobody is assigned the flag that  *)
(* forbids a second election is down.                                       *)
PromotionIsDriven ==
    /\ Assigned("promoting") => \E t \in DOMAIN threads : DrivesPromotion(t)
    /\ election_in_progress => assignment # NoAssignment

(* A replacement candidate, which keeps every other thread from choosing    *)
(* one, always has the thread that will activate or clear it.               *)
CandidateIsDriven ==
    Assigned("reprotecting") /\ assignment.candidate # NoNode =>
      \E t \in DOMAIN threads :
        /\ threads[t].phase = "sync_replacement"
        /\ IsCurrentCandidate(threads[t])
=============================================================================
