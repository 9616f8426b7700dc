------------------------ MODULE ControllerEnvironment ------------------------
(***************************************************************************)
(* The controller against replicas that answer anything a replica may.     *)
(* History variables remember what the replicas can have learnt; only      *)
(* Plausible and the properties read them.                                 *)
(***************************************************************************)
EXTENDS Controller

CONSTANT MaxRegistration  \* bound on registrations

ASSUME RegistrationAssumption == MaxRegistration \in Nat

VARIABLES
    registrations,  \* how many there were
    owners,         \* <<epoch, primary>> ever assigned
    backups,        \* <<epoch, replica>> whose report was accepted
    holders,        \* replicas that hold all state of the assignment
    barrier         \* epochs whose candidate confirmed its state

vars == <<controllerVars, registrations, owners, backups, holders, barrier>>

-----------------------------------------------------------------------------
(* A registration or a restart built this assignment from reports. *)
AssignmentRecovered ==
    /\ Assigned("ready")' \/ Assigned("reprotecting")'
    /\ assignment = NoAssignment \/ assignment'.epoch # assignment.epoch

Reporting ==
    {threads'[t].backup : t \in {u \in DOMAIN threads :
       threads[u].phase # "complete" /\ threads'[u].phase = "complete"}}

Confirmed ==
    {threads[t].epoch : t \in {u \in DOMAIN threads :
       threads[u].phase = "confirm" /\ threads'[u].phase = "next_backup"}}

Remember ==
    /\ owners' = IF assignment' = NoAssignment THEN owners
                 ELSE owners \cup {<<assignment'.epoch, assignment'.primary>>}
    /\ backups' = IF RecoveryCompletes
                  THEN backups \cup {<<assignment'.epoch, assignment'.backup>>}
                  ELSE backups
    /\ holders' = IF AssignmentRecovered \/ RecoveryCompletes
                  THEN {assignment'.primary, assignment'.backup} \ {NoNode}
                  ELSE holders \cup Reporting
    /\ barrier' = barrier \cup Confirmed

(* What a node may say: it knows an epoch from the controller only, calls   *)
(* itself primary of an epoch only if it was made primary in it, and a      *)
(* ready backup only if its report of a synchronization succeeded.          *)
Plausible(a, r) ==
    /\ r.epoch = 0 \/ \E o \in owners : o[1] = r.epoch
    /\ r.role = "primary" => <<r.epoch, a>> \in owners
    /\ r.role = "backup" /\ r.ready => <<r.epoch, a>> \in backups

Register(a, r) ==
    /\ Plausible(a, r)
    /\ registrations < MaxRegistration
    /\ registrations' = registrations + 1
    /\ RegisterNode(a, r)
    /\ Remember

ThreadStep(t) ==
    \/ Elect(t)
    \/ StartPromotion(t)
    \/ BeginPromotionAccepted(t)
    \/ PromotionStateConfirmed(t)
    \/ PromotionRpcFails(t)
    \/ TryNextPromotionBackup(t)
    \/ SynchronizationSucceeds(t)
    \/ PromotionSynchronizationFails(t)
    \/ SelectedBackupEvicted(t)
    \/ NoPromotionBackup(t)
    \/ TryNextReplacementBackup(t)
    \/ ReplacementSynchronizationFails(t)
    \/ CompletionSucceeds(t)
    \/ CompletionUnanswered(t)
    \/ CompletionRejected(t)

RunController ==
    /\ \/ \E a \in Node, r \in BackupReport :
            Plausible(a, r) /\ HeartbeatAnswered(a, r)
       \/ \E a \in Node : ReportSynchronizationComplete(a)
       \/ \E a \in Node : HeartbeatFails(a)
       \/ HandleReplicaFailure
       \/ \E t \in Worker \cup {Monitor} : ThreadStep(t)
    /\ Remember
    /\ UNCHANGED registrations

Step ==
    \/ \E a \in Node, r \in Report : Register(a, r)
    \/ RunController

Restart ==
    /\ ControllerRestart
    /\ UNCHANGED <<registrations, owners, backups, holders, barrier>>

Next == Step \/ Restart

Init ==
    /\ ControllerInit
    /\ registrations = 0
    /\ owners = {}
    /\ backups = {}
    /\ holders = {}
    /\ barrier = {}

Spec == Init /\ [][Next]_vars

(* A controller that does not restart. *)
StableSpec == Init /\ [][Step]_vars

-----------------------------------------------------------------------------
(* Properties *)

(* Every variable keeps its shape; a thread that ended keeps nothing.       *)
TypeOK ==
    /\ ControllerTypeOK
    /\ registrations \in 0..MaxRegistration
    /\ owners \subseteq (1..MaxEpoch) \X Node
    /\ backups \subseteq (1..MaxEpoch) \X Node
    /\ holders \subseteq Node
    /\ barrier \subseteq 1..MaxEpoch

(* A new primary comes with an epoch above all earlier ones (specification  *)
(* section 10, "Epoch values MUST increase monotonically").                 *)
NewPrimaryNewEpoch ==
    [][\A new \in owners' \ owners : \A old \in owners : new[1] > old[1]]_vars

(* An assignment becomes ready with the backup of its current attempt, and  *)
(* an elected one only after its candidate began the promotion and          *)
(* confirmed its state, however late or often reports and answers arrive    *)
(* ("Delayed responses from previous failover attempts are ignored").       *)
BarrierBeforePublication ==
    [][(Assigned("promoting") \/ Assigned("reprotecting")) /\ Assigned("ready")'
       =>
       /\ assignment'.primary = assignment.primary
       /\ assignment'.epoch = assignment.epoch
       /\ assignment'.backup = IF Assigned("promoting") THEN assignment.backup
                               ELSE assignment.candidate
       /\ Assigned("promoting") => assignment.epoch \in barrier]_vars

(* "Backup loss transitions the cluster into a reprotection workflow": the  *)
(* backup of a ready primary is a member, so its loss will be noticed.      *)
ReadyBackupIsMember ==
    PublishedPrimary # NoNode => assignment.backup \in Members

(* "A backup with missing, stale, or unverified committed state MUST NOT    *)
(* become primary": the elected primary that is published is one that had   *)
(* the state of the previous primary, or is that primary.                   *)
PublishedHeldState ==
    [][Assigned("promoting") /\ Assigned("ready")' =>
         assignment.primary \in holders]_vars
=============================================================================
