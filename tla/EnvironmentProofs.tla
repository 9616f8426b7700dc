-------------------------- MODULE EnvironmentProofs --------------------------
(***************************************************************************)
(* Proofs about ControllerEnvironment, for any finite set of replicas, any *)
(* workers and any eviction limit: the shape of the controller's state,    *)
(* that every promotion and every replacement under way has the thread     *)
(* that ends it, and the barrier before publication.                       *)
(***************************************************************************)
EXTENDS ControllerEnvironment, ControllerProofs, TLAPS

-----------------------------------------------------------------------------
(* The invariant *)

(* Where a promotion's thread can be only once its candidate has confirmed  *)
(* its state.                                                               *)
PastBarrier(w) ==
    \/ w.phase \in {"next_backup", "sync_backup", "abandon", "backup_failed"}
    \/ w.phase = "complete" /\ w.status = "promoting"

ThreadsBehindBarrier ==
    \A t \in Threads : PastBarrier(threads[t]) => threads[t].epoch \in barrier

BarrierSound ==
    /\ ThreadsBehindBarrier
    /\ Assigned("promoting") /\ assignment.backup # NoNode =>
         assignment.epoch \in barrier

HistorySound ==
    /\ registrations \in 0..MaxRegistration
    /\ owners \subseteq (1..MaxEpoch) \X Node
    /\ backups \subseteq (1..MaxEpoch) \X Node
    /\ holders \subseteq Node
    /\ barrier \subseteq 1..MaxEpoch

IInv == CInv /\ BarrierSound /\ HistorySound

(* What a step adds to the barrier, and what it may not do to it.           *)
BarrierStep ==
    /\ barrier \cup Confirmed \subseteq barrier'
    /\ ThreadsBehindBarrier'
    /\ \/ UNCHANGED assignment
       \/ Assigned("promoting")' /\ assignment'.backup # NoNode =>
            assignment'.epoch \in barrier'

-----------------------------------------------------------------------------
(* The barrier *)

(* A thread that goes on stays behind the barrier if its next step is.      *)
LEMMA BarrierContinues ==
    ASSUME IInv, NEW t \in Threads, NEW w, Continue(t, w),
           barrier \subseteq barrier',
           PastBarrier(w) => w.epoch \in barrier'
    PROVE  ThreadsBehindBarrier'
  BY DEF IInv, CInv, Shape, ThreadsSound, BarrierSound, ThreadsBehindBarrier,
         Continue, PastBarrier

LEMMA BarrierSpawns ==
    ASSUME IInv, NEW w, Spawn(w), barrier \subseteq barrier',
           PastBarrier(w) => w.epoch \in barrier'
    PROVE  ThreadsBehindBarrier'
  BY DEF IInv, CInv, Shape, ThreadsSound, BarrierSound, ThreadsBehindBarrier,
         Spawn, PastBarrier, Threads

LEMMA BarrierContinuesAndSpawns ==
    ASSUME IInv, NEW t \in Threads, NEW w, NEW x, ContinueAndSpawn(t, w, x),
           barrier \subseteq barrier', ~PastBarrier(w), ~PastBarrier(x)
    PROVE  ThreadsBehindBarrier'
  BY DEF IInv, CInv, Shape, ThreadsSound, BarrierSound, ThreadsBehindBarrier,
         ContinueAndSpawn, PastBarrier, Threads

LEMMA BarrierStutter ==
    ASSUME IInv, barrier \subseteq barrier', UNCHANGED threads
    PROVE  ThreadsBehindBarrier'
  BY DEF IInv, BarrierSound, ThreadsBehindBarrier, PastBarrier

LEMMA WorkingPhases ==
    ASSUME NEW primary, NEW epoch
    PROVE  /\ ~PastBarrier(Free)
           /\ ~PastBarrier(Working("validate", primary, epoch))
           /\ ~PastBarrier(Working("replace", primary, epoch))
           /\ \A e : ~PastBarrier([Free EXCEPT !.phase = "elect", !.eligible = e])
           /\ \A b : ~PastBarrier([Free EXCEPT !.phase = "evict", !.backup = b])
           /\ Working("next_backup", primary, epoch).epoch = epoch
  BY DEF PastBarrier, Free, Working

(* Each step keeps the current attempt behind the barrier.                  *)
LEMMA PromotionBehindBarrier ==
    ASSUME IInv, barrier \cup Confirmed \subseteq barrier',
           NEW t \in Threads,
           \/ StartPromotion(t) \/ BeginPromotionAccepted(t)
           \/ PromotionStateConfirmed(t) \/ SynchronizationSucceeds(t)
           \/ PromotionRpcFails(t) \/ NoPromotionBackup(t)
    PROVE  BarrierStep
<1>. DEFINE w == threads[t]
<1>1. w \in Thread /\ t \in DOMAIN threads /\ threads \in [Threads -> Thread]
  BY DEF IInv, CInv, Shape, ThreadsSound
<1>2. CASE StartPromotion(t) \/ BeginPromotionAccepted(t)
  <2>1. PICK phase \in {"begin", "confirm"} : Advance(t, phase)
    BY <1>2 DEF StartPromotion, BeginPromotionAccepted
  <2>2. ThreadsBehindBarrier'
    BY <1>1, <2>1, BarrierContinues, WorkingPhases
    DEF Advance, PastBarrier, Thread
  <2>. QED
    BY <2>1, <2>2 DEF BarrierStep, Advance
<1>3. CASE PromotionStateConfirmed(t)
  <2>1. threads' = [threads EXCEPT ![t] = [w EXCEPT !.phase = "next_backup"]]
    BY <1>3 DEF PromotionStateConfirmed, Continue
  <2>2. w.epoch \in Confirmed
    BY <1>1, <1>3, <2>1 DEF Confirmed, Thread, PromotionStateConfirmed
  <2>3. ThreadsBehindBarrier'
    BY <1>1, <1>3, <2>2, BarrierContinues DEF PromotionStateConfirmed, Thread
  <2>. QED
    BY <1>3, <2>3 DEF BarrierStep, PromotionStateConfirmed
<1>4. CASE SynchronizationSucceeds(t)
  BY <1>4, BarrierContinues, WorkingPhases
  DEF SynchronizationSucceeds, BarrierStep
<1>5. CASE PromotionRpcFails(t)
  <2>1. PICK n : Continue(t, n) /\ ~PastBarrier(n)
    BY <1>5, WorkingPhases DEF PromotionRpcFails, CandidateFailed
  <2>2. ThreadsBehindBarrier'
    BY <2>1, BarrierContinues
  <2>. QED
    BY <1>5, <2>2
    DEF PromotionRpcFails, CandidateFailed, BarrierStep, Assigned
<1>6. CASE NoPromotionBackup(t)
  BY <1>6, BarrierContinues, WorkingPhases
  DEF NoPromotionBackup, Abandon, BarrierStep, Assigned
<1>. QED
  BY <1>2, <1>3, <1>4, <1>5, <1>6

LEMMA AttemptsBehindBarrier ==
    ASSUME IInv, barrier \cup Confirmed \subseteq barrier',
           NEW t \in Threads,
           \/ Elect(t) \/ TryNextPromotionBackup(t)
           \/ PromotionSynchronizationFails(t) \/ SelectedBackupEvicted(t)
    PROVE  BarrierStep
<1>. DEFINE w == threads[t]
<1>1. w \in Thread /\ (PastBarrier(w) => w.epoch \in barrier')
  BY DEF IInv, CInv, Shape, ThreadsSound, BarrierSound, ThreadsBehindBarrier
<1>2. CASE Elect(t)
  <2>1. CASE UNCHANGED assignment /\ Continue(t, Free)
    BY <2>1, BarrierContinues, WorkingPhases DEF BarrierStep
  <2>2. CASE ~(UNCHANGED assignment /\ Continue(t, Free))
    <3>1. PICK candidate, epoch :
            /\ ContinueAndSpawn(t, Free, Working("validate", candidate, epoch))
            /\ assignment' = [Assign(candidate, epoch, "promoting", NoNode)
                                EXCEPT !.eligible = Members]
      BY <1>2, <2>2 DEF Elect
    <3>2. ThreadsBehindBarrier'
      BY <3>1, BarrierContinuesAndSpawns, WorkingPhases
    <3>3. assignment'.backup = NoNode
      BY <3>1 DEF Assign
    <3>. QED
      BY <3>2, <3>3 DEF BarrierStep
  <2>. QED
    BY <2>1, <2>2
<1>3. CASE TryNextPromotionBackup(t)
  <2>1. w.phase = "next_backup" /\ w.epoch \in barrier'
    BY <1>1, <1>3 DEF TryNextPromotionBackup, PastBarrier
  <2>2. PICK n : Continue(t, n) /\ (n = Free \/ n.epoch = w.epoch)
    <3>. DEFINE given == [w EXCEPT !.phase = "abandon"]
                tried == [w EXCEPT !.phase = "sync_backup",
                            !.backup = First(PromotionBackups(w.primary))]
    <3>1. given.epoch = w.epoch /\ tried.epoch = w.epoch
      BY <1>1 DEF Thread
    <3>2. \/ Continue(t, Free) \/ Continue(t, given) \/ Continue(t, tried)
      BY <1>3 DEF TryNextPromotionBackup
    <3>. QED
      BY <3>1, <3>2
  <2>3. ThreadsBehindBarrier'
    BY <2>1, <2>2, BarrierContinues, WorkingPhases
  <2>4. \/ UNCHANGED assignment
        \/ assignment'.epoch = w.epoch
    <3>1. CASE UNCHANGED assignment
      BY <3>1
    <3>2. CASE ~UNCHANGED assignment
      <4>1. AssignmentMatches(w.primary, w.epoch, "promoting")
        BY <1>3, <3>2 DEF TryNextPromotionBackup
      <4>2. PICK S, b : assignment' = [assignment EXCEPT !.attempted = S, !.backup = b]
        BY <1>3, <3>2 DEF TryNextPromotionBackup
      <4>. QED
        BY <4>1, <4>2
        DEF AssignmentMatches, IInv, CInv, Shape, AssignmentSound, PrimaryAssignment
    <3>. QED
      BY <3>1, <3>2
  <2>. QED
    BY <2>1, <2>3, <2>4 DEF BarrierStep
<1>4. CASE PromotionSynchronizationFails(t) \/ SelectedBackupEvicted(t)
  <2>1. PromotionBackupFailed(t) /\ w.epoch \in barrier'
    BY <1>1, <1>4
    DEF PromotionSynchronizationFails, SelectedBackupEvicted, PastBarrier
  <2>2. ThreadsBehindBarrier'
    <3>1. PICK n : Continue(t, n) /\ (n = Free \/ n.epoch = w.epoch)
      BY <2>1, WorkingPhases DEF PromotionBackupFailed
    <3>. QED
      BY <2>1, <3>1, BarrierContinues, WorkingPhases
  <2>3. \/ UNCHANGED assignment
        \/ assignment'.backup = NoNode
    BY <2>1
    DEF PromotionBackupFailed, IsCurrentPromotionBackup, AssignmentMatches, IInv,
        CInv, Shape, AssignmentSound, PrimaryAssignment
  <2>. QED
    BY <2>2, <2>3 DEF BarrierStep
<1>. QED
  BY <1>2, <1>3, <1>4

LEMMA ReplacementsBehindBarrier ==
    ASSUME IInv, barrier \cup Confirmed \subseteq barrier',
           NEW t \in Threads,
           \/ TryNextReplacementBackup(t) \/ ReplacementSynchronizationFails(t)
           \/ CompletionUnanswered(t) \/ CompletionRejected(t)
    PROVE  BarrierStep
<1>. DEFINE w == threads[t]
<1>1. w \in Thread
  BY DEF IInv, CInv, Shape, ThreadsSound
<1>2. assignment # NoAssignment => assignment \in PrimaryAssignment
  BY DEF IInv, CInv, Shape, AssignmentSound
<1>3. CASE TryNextReplacementBackup(t)
  <2>1. PICK n : Continue(t, n) /\ ~PastBarrier(n)
    <3>. DEFINE next == [w EXCEPT !.phase = "sync_replacement",
                           !.backup = First(ReplacementCandidates),
                           !.generation = assignment.generation + 1]
    <3>1. ~PastBarrier(next)
      BY <1>1 DEF PastBarrier, Thread
    <3>2. Continue(t, Free) \/ Continue(t, next)
      BY <1>3 DEF TryNextReplacementBackup
    <3>. QED
      BY <3>1, <3>2, WorkingPhases
  <2>2. UNCHANGED assignment \/ ~Assigned("promoting")'
    BY <1>2, <1>3
    DEF TryNextReplacementBackup, AssignmentMatches, PrimaryAssignment, Assigned
  <2>. QED
    BY <2>1, <2>2, BarrierContinues DEF BarrierStep
<1>4. CASE ReplacementSynchronizationFails(t)
  <2>1. UNCHANGED assignment \/ ~Assigned("promoting")'
    BY <1>2, <1>4
    DEF ReplacementSynchronizationFails, IsCurrentCandidate, AssignmentMatches,
        PrimaryAssignment, Assigned
  <2>. QED
    BY <1>4, <2>1, BarrierContinues, WorkingPhases
    DEF BarrierStep, ReplacementSynchronizationFails
<1>5. CASE RejectReplacement(t)
  <2>1. UNCHANGED assignment \/ ~Assigned("promoting")'
    BY <1>2, <1>5
    DEF RejectReplacement, IsCurrentCandidate, AssignmentMatches,
        PrimaryAssignment, Assigned
  <2>. QED
    BY <1>5, <2>1, BarrierContinues, WorkingPhases
    DEF BarrierStep, RejectReplacement
<1>6. CASE Abandon(t)
  BY <1>6, BarrierContinues, WorkingPhases DEF Abandon, BarrierStep, Assigned
<1>7. CASE CandidateFailed(t)
  <2>1. PICK n : Continue(t, n) /\ ~PastBarrier(n)
    BY <1>7, WorkingPhases DEF CandidateFailed
  <2>. QED
    BY <1>7, <2>1, BarrierContinues DEF CandidateFailed, BarrierStep, Assigned
<1>. QED
  BY <1>3, <1>4, <1>5, <1>6, <1>7 DEF CompletionUnanswered, CompletionRejected

LEMMA CompletionsBehindBarrier ==
    ASSUME IInv, barrier \cup Confirmed \subseteq barrier',
           NEW t \in Threads, CompletionSucceeds(t)
    PROVE  BarrierStep
<1>. DEFINE w == threads[t]
<1>1. CASE CompletionExpected(w)
  <2>1. /\ assignment' = [assignment EXCEPT !.backup = w.backup,
                                            !.candidate = NoNode,
                                            !.status = "ready"]
        /\ AnswerReport(t)
    BY <1>1 DEF CompletionSucceeds
  <2>2. ~Assigned("promoting")'
    BY <1>1, <2>1
    DEF Assigned, CompletionExpected, AssignmentMatches, IInv, CInv, Shape,
        AssignmentSound, PrimaryAssignment
  <2>3. ASSUME NEW u \in Threads, PastBarrier(threads'[u])
        PROVE  threads'[u] = threads[u]
    <3>1. threads[u] \in Thread /\ u \in DOMAIN threads
      BY DEF IInv, CInv, Shape, ThreadsSound
    <3>2. \/ threads'[u] = Free \/ threads'[u] = threads[u]
          \/ threads'[u] = [threads[u] EXCEPT !.phase = "reported"]
      BY <2>1, <3>1 DEF AnswerReport
    <3>. QED
      BY <2>3, <3>1, <3>2, WorkingPhases DEF PastBarrier, Thread
  <2>4. ThreadsBehindBarrier'
    BY <2>3 DEF IInv, BarrierSound, ThreadsBehindBarrier
  <2>. QED
    BY <2>2, <2>4 DEF BarrierStep
<1>2. CASE ~CompletionExpected(w)
  BY <1>2, BarrierContinues, WorkingPhases DEF CompletionSucceeds, BarrierStep
<1>. QED
  BY <1>1, <1>2

LEMMA ReportsBehindBarrier ==
    ASSUME IInv, barrier \cup Confirmed \subseteq barrier', NEW a \in Node,
           ReportSynchronizationComplete(a)
    PROVE  BarrierStep
<1>. DEFINE w == [Working("complete", assignment.primary, assignment.epoch)
                    EXCEPT !.backup = a, !.status = assignment.status,
                           !.generation = assignment.generation]
<1>1. Spawn(w) /\ UNCHANGED assignment /\ assignment # NoAssignment
  BY DEF ReportSynchronizationComplete
<1>2. w.status = assignment.status /\ w.epoch = assignment.epoch
  BY DEF Working, Free
<1>3. assignment.status = "promoting" => assignment.epoch \in barrier'
  BY ControllerAssumption
  DEF ReportSynchronizationComplete, IInv, BarrierSound, Assigned
<1>4. PastBarrier(w) => assignment.status = "promoting"
  BY <1>2 DEF PastBarrier, Working, Free
<1>. QED
  BY <1>1, <1>2, <1>3, <1>4, BarrierSpawns DEF BarrierStep

LEMMA HeartbeatsBehindBarrier ==
    ASSUME IInv, barrier \cup Confirmed \subseteq barrier', NEW a \in Node,
           HeartbeatFails(a) \/ (\E r \in BackupReport : HeartbeatAnswered(a, r))
    PROVE  BarrierStep
<1>1. CASE HeartbeatFails(a)
  BY <1>1, BarrierContinues, BarrierStutter, WorkingPhases, MonitorThread
  DEF HeartbeatFails, BarrierStep
<1>2. ASSUME NEW r \in BackupReport, HeartbeatAnswered(a, r)
      PROVE  BarrierStep
  <2>1. CASE UNCHANGED <<assignment, threads>>
    BY <2>1, BarrierStutter DEF BarrierStep
  <2>2. CASE ~UNCHANGED <<assignment, threads>>
    <3>1. /\ assignment # NoAssignment
          /\ assignment' = Unprotected(assignment)
          /\ Spawn(Working("replace", assignment.primary, assignment.epoch))
      BY <1>2, <2>2 DEF HeartbeatAnswered
    <3>2. assignment'.backup = NoNode
      BY <3>1
      DEF Unprotected, IInv, CInv, Shape, AssignmentSound, PrimaryAssignment
    <3>3. ThreadsBehindBarrier'
      BY <3>1, BarrierSpawns, WorkingPhases
    <3>. QED
      BY <3>2, <3>3 DEF BarrierStep
  <2>. QED
    BY <2>1, <2>2
<1>. QED
  BY <1>1, <1>2

LEMMA EvictionsBehindBarrier ==
    ASSUME IInv, barrier \cup Confirmed \subseteq barrier', HandleReplicaFailure
    PROVE  BarrierStep
<1>. DEFINE a == threads[Monitor].backup
<1>1. Monitor \in Threads
  BY MonitorThread
<1>2. CASE Continue(Monitor, Free) /\ UNCHANGED assignment
  BY <1>1, <1>2, BarrierContinues, WorkingPhases DEF BarrierStep
<1>3. CASE EvictUnassigned(a)
  BY <1>1, <1>3, BarrierContinues, WorkingPhases DEF EvictUnassigned, BarrierStep
<1>4. CASE EvictPrimary(a)
  BY <1>1, <1>4, BarrierContinues, WorkingPhases
  DEF EvictPrimary, BarrierStep, Assigned
<1>5. CASE EvictBackup(a) /\ a \in Node
  <2>1. CASE assignment.status = "promoting" /\ UNCHANGED assignment
    <3>. DEFINE w == [Working("backup_failed", assignment.primary,
                              assignment.epoch) EXCEPT !.backup = a]
    <3>1. Continue(Monitor, w)
      BY <1>5, <2>1 DEF EvictBackup
    <3>2. w.epoch = assignment.epoch
      BY DEF Working, Free
    <3>3. assignment.epoch \in barrier'
      BY <1>5, <2>1, ControllerAssumption
      DEF EvictBackup, IInv, BarrierSound, Assigned
    <3>. QED
      BY <1>1, <2>1, <3>1, <3>2, <3>3, BarrierContinues DEF BarrierStep
  <2>2. CASE assignment.status = "ready"
    <3>1. PICK p, e : ContinueAndSpawn(Monitor, Free, Working("replace", p, e))
      BY <1>5, <2>2 DEF EvictBackup
    <3>2. ThreadsBehindBarrier'
      BY <1>1, <3>1, BarrierContinuesAndSpawns, WorkingPhases
    <3>3. ~Assigned("promoting")'
      BY <1>5, <2>2
      DEF EvictBackup, IInv, CInv, Shape, AssignmentSound, PrimaryAssignment,
          Assigned
    <3>. QED
      BY <3>2, <3>3 DEF BarrierStep
  <2>. QED
    BY <1>5, <2>1, <2>2 DEF EvictBackup
<1>6. CASE EvictOther(a) /\ ~(Continue(Monitor, Free) /\ UNCHANGED assignment)
  <2>1. /\ assignment.status = "reprotecting" /\ assignment # NoAssignment
        /\ assignment' = [assignment EXCEPT !.candidate = NoNode]
        /\ ContinueAndSpawn(Monitor, Free,
                            Working("replace", assignment.primary,
                                    assignment.epoch))
    BY <1>6 DEF EvictOther
  <2>2. ThreadsBehindBarrier'
    BY <1>1, <2>1, BarrierContinuesAndSpawns, WorkingPhases
  <2>3. ~Assigned("promoting")'
    BY <2>1
    DEF Assigned, IInv, CInv, Shape, AssignmentSound, PrimaryAssignment
  <2>. QED
    BY <2>2, <2>3 DEF BarrierStep
<1>. QED
  BY <1>2, <1>3, <1>4, <1>5, <1>6 DEF HandleReplicaFailure, Members

LEMMA RegistrationsBehindBarrier ==
    ASSUME IInv, barrier \cup Confirmed \subseteq barrier',
           NEW a \in Node, NEW r \in Report, RegisterNode(a, r)
    PROVE  BarrierStep
<1>1. /\ RegistrationOutcome
      /\ \/ UNCHANGED threads
         \/ \E b \in PrimaryAssignment :
              Spawn(Working("replace", b.primary, b.epoch))
  BY Registration DEF IInv
<1>2. ThreadsBehindBarrier'
  BY <1>1, BarrierStutter, BarrierSpawns, WorkingPhases
<1>. QED
  BY <1>1, <1>2 DEF BarrierStep, RegistrationOutcome, Assigned

-----------------------------------------------------------------------------
(* Publication *)

LEMMA Typed ==
    ASSUME IInv
    PROVE  /\ assignment # NoAssignment => assignment \in PrimaryAssignment
           /\ threads \in [Threads -> Thread]
  BY DEF IInv, CInv, Shape, AssignmentSound, ThreadsSound

(* A thread publishes the primary its completion was for. *)
Publishes(t) == CompletionSucceeds(t) /\ CompletionExpected(threads[t])

(* An assignment becomes ready in no other way.                             *)
LEMMA ThreadPublishes ==
    ASSUME IInv, NEW t \in Threads, ThreadStep(t),
           Assigned("promoting") \/ Assigned("reprotecting"), Assigned("ready")'
    PROVE  Publishes(t)
<1>. USE Typed DEF Assigned
<1>1. ~Elect(t) /\ ~StartPromotion(t) /\ ~BeginPromotionAccepted(t)
  BY DEF Elect, StartPromotion, BeginPromotionAccepted, Advance
<1>2. ~PromotionStateConfirmed(t) /\ ~SynchronizationSucceeds(t)
  BY DEF PromotionStateConfirmed, SynchronizationSucceeds
<1>3. ~CandidateFailed(t) /\ ~Abandon(t)
  BY DEF CandidateFailed, Abandon
<1>4. ~TryNextPromotionBackup(t)
  BY DEF TryNextPromotionBackup, PrimaryAssignment
<1>5. ~PromotionBackupFailed(t)
  BY DEF PromotionBackupFailed, PrimaryAssignment
<1>6. ~TryNextReplacementBackup(t)
  BY DEF TryNextReplacementBackup, PrimaryAssignment
<1>7. ~ReplacementSynchronizationFails(t) /\ ~RejectReplacement(t)
  BY DEF ReplacementSynchronizationFails, RejectReplacement, PrimaryAssignment
<1>. QED
  BY <1>1, <1>2, <1>3, <1>4, <1>5, <1>6, <1>7
  DEF ThreadStep, PromotionRpcFails, NoPromotionBackup,
      PromotionSynchronizationFails, SelectedBackupEvicted,
      CompletionUnanswered, CompletionRejected, CompletionSucceeds, Publishes

LEMMA Publication ==
    ASSUME IInv, Next,
           Assigned("promoting") \/ Assigned("reprotecting"), Assigned("ready")'
    PROVE  \E t \in Threads : Publishes(t)
<1>. USE Typed DEF Assigned
<1>1. ASSUME NEW a \in Node, NEW r \in Report PROVE ~RegisterNode(a, r)
  BY <1>1, Registration DEF RegistrationOutcome, IInv
<1>2. ASSUME NEW a \in Node PROVE ~ReportSynchronizationComplete(a)
  BY DEF ReportSynchronizationComplete
<1>3. ASSUME NEW a \in Node, NEW r \in BackupReport PROVE ~HeartbeatAnswered(a, r)
  BY DEF HeartbeatAnswered
<1>4. ASSUME NEW a \in Node PROVE ~HeartbeatFails(a)
  BY DEF HeartbeatFails
<1>5. ~HandleReplicaFailure
  BY DEF HandleReplicaFailure, EvictUnassigned, EvictPrimary, EvictBackup,
         EvictOther, PrimaryAssignment
<1>6. ~ControllerRestart
  BY DEF ControllerRestart
<1>. QED
  BY <1>1, <1>2, <1>3, <1>4, <1>5, <1>6, ThreadPublishes
  DEF Next, Step, Restart, Register, RunController, Threads

(* What is published is what the current attempt agreed on.                 *)
LEMMA Published ==
    ASSUME IInv, NEW t \in Threads, Publishes(t)
    PROVE  /\ assignment' = [assignment EXCEPT !.backup = threads[t].backup,
                                               !.candidate = NoNode,
                                               !.status = "ready"]
           /\ assignment # NoAssignment
           /\ threads[t].backup \in Node
           /\ threads[t].backup = IF Assigned("promoting") THEN assignment.backup
                                  ELSE assignment.candidate
           /\ Assigned("promoting") => assignment.epoch \in barrier
<1>1. /\ threads[t].phase = "complete" /\ assignment # NoAssignment
      /\ threads[t].epoch = assignment.epoch
      /\ threads[t].status = assignment.status
      /\ threads[t].backup = IF threads[t].status = "promoting"
                             THEN assignment.backup ELSE assignment.candidate
      /\ assignment' = [assignment EXCEPT !.backup = threads[t].backup,
                                          !.candidate = NoNode,
                                          !.status = "ready"]
  BY DEF Publishes, CompletionSucceeds, CompletionExpected, AssignmentMatches
<1>2. threads[t].backup \in Node
  BY <1>1 DEF IInv, CInv, Shape, ThreadsSound, SoundThread, Attending
<1>3. Assigned("promoting") => assignment.epoch \in barrier
  BY <1>1
  DEF Assigned, IInv, BarrierSound, ThreadsBehindBarrier, PastBarrier
<1>. QED
  BY <1>1, <1>2, <1>3 DEF Assigned

-----------------------------------------------------------------------------
(* The invariant is inductive *)

LEMMA ThreadStepsInv ==
    ASSUME IInv, NEW t \in Threads, ThreadStep(t),
           barrier \cup Confirmed \subseteq barrier'
    PROVE  CInv' /\ BarrierStep
<1>1. CInv
  BY DEF IInv
<1>2. CASE Elect(t) \/ TryNextPromotionBackup(t)
  BY <1>1, <1>2, ElectInv, TryNextPromotionBackupInv, AttemptsBehindBarrier
<1>3. CASE StartPromotion(t) \/ BeginPromotionAccepted(t)
  <2>1. CInv'
    BY <1>1, <1>3, AdvanceInv DEF StartPromotion, BeginPromotionAccepted
  <2>. QED
    BY <1>3, <2>1, PromotionBehindBarrier
<1>4. CASE PromotionStateConfirmed(t) \/ SynchronizationSucceeds(t)
  BY <1>1, <1>4, PromotionStateConfirmedInv, SynchronizationSucceedsInv,
     PromotionBehindBarrier
<1>5. CASE PromotionRpcFails(t) \/ NoPromotionBackup(t)
  <2>1. CInv'
    BY <1>1, <1>5, CandidateFailedInv, AbandonInv
    DEF PromotionRpcFails, NoPromotionBackup
  <2>. QED
    BY <1>5, <2>1, PromotionBehindBarrier
<1>6. CASE PromotionSynchronizationFails(t) \/ SelectedBackupEvicted(t)
  <2>1. CInv'
    BY <1>1, <1>6, PromotionBackupFailedInv
    DEF PromotionSynchronizationFails, SelectedBackupEvicted
  <2>. QED
    BY <1>6, <2>1, AttemptsBehindBarrier
<1>7. CASE TryNextReplacementBackup(t) \/ ReplacementSynchronizationFails(t)
  BY <1>1, <1>7, TryNextReplacementBackupInv,
     ReplacementSynchronizationFailsInv, ReplacementsBehindBarrier
<1>8. CASE CompletionSucceeds(t)
  BY <1>1, <1>8, CompletionSucceedsInv, CompletionsBehindBarrier
<1>9. CASE CompletionUnanswered(t) \/ CompletionRejected(t)
  BY <1>1, <1>9, CompletionFailsInv, ReplacementsBehindBarrier
<1>. QED
  BY <1>2, <1>3, <1>4, <1>5, <1>6, <1>7, <1>8, <1>9 DEF ThreadStep

LEMMA StepsInv ==
    ASSUME IInv, Step
    PROVE  CInv' /\ BarrierStep
<1>1. CInv /\ barrier \cup Confirmed \subseteq barrier'
  BY DEF IInv, Step, Register, RunController, Remember
<1>2. ASSUME NEW a \in Node, NEW r \in Report, Register(a, r)
      PROVE  CInv' /\ BarrierStep
  BY <1>1, <1>2, RegisterNodeInv, RegistrationsBehindBarrier DEF Register
<1>3. ASSUME NEW a \in Node, NEW r \in BackupReport, HeartbeatAnswered(a, r)
      PROVE  CInv' /\ BarrierStep
  BY <1>1, <1>3, HeartbeatAnsweredInv, HeartbeatsBehindBarrier
<1>4. ASSUME NEW a \in Node, HeartbeatFails(a)
      PROVE  CInv' /\ BarrierStep
  BY <1>1, <1>4, HeartbeatFailsInv, HeartbeatsBehindBarrier
<1>5. ASSUME NEW a \in Node, ReportSynchronizationComplete(a)
      PROVE  CInv' /\ BarrierStep
  BY <1>1, <1>5, ReportSynchronizationCompleteInv, ReportsBehindBarrier
<1>6. CASE HandleReplicaFailure
  BY <1>1, <1>6, HandleReplicaFailureInv, EvictionsBehindBarrier
<1>. QED
  BY <1>1, <1>2, <1>3, <1>4, <1>5, <1>6, ThreadStepsInv
  DEF Step, RunController, Threads

(* What the history variables remember stays among epochs and replicas.     *)
LEMMA HistoryInv ==
    ASSUME IInv, Step, CInv'
    PROVE  HistorySound'
<1>1. Remember /\ HistorySound
  BY DEF IInv, Step, Register, RunController
<1>2. registrations' \in 0..MaxRegistration
  BY <1>1, RegistrationAssumption
  DEF HistorySound, Step, Register, RunController
<1>3. assignment' # NoAssignment => assignment' \in PrimaryAssignment
  BY DEF CInv, Shape, AssignmentSound
<1>4. owners' \subseteq (1..MaxEpoch) \X Node
  BY <1>1, <1>3 DEF HistorySound, Remember, PrimaryAssignment
<1>5. RecoveryCompletes => assignment'.backup \in Node
  <2>. SUFFICES ASSUME RecoveryCompletes PROVE assignment'.backup \in Node
    OBVIOUS
  <2>1. PICK t \in Threads : Publishes(t)
    BY Publication DEF RecoveryCompletes, Next
  <2>. QED
    BY <2>1, Published, Typed DEF PrimaryAssignment
<1>6. backups' \subseteq (1..MaxEpoch) \X Node
  <2>1. RecoveryCompletes => assignment' # NoAssignment
    BY DEF RecoveryCompletes, Assigned
  <2>. QED
    BY <1>1, <1>3, <1>5, <2>1 DEF HistorySound, Remember, PrimaryAssignment
<1>7. Reporting \subseteq Node
  <2>. SUFFICES ASSUME NEW t \in Threads, threads'[t].phase = "complete"
                PROVE  threads'[t].backup \in Node
    BY Typed DEF Reporting
  <2>. QED
    BY DEF CInv, Shape, ThreadsSound, SoundThread, Attending
<1>8. holders' \subseteq Node
  <2>1. AssignmentRecovered \/ RecoveryCompletes =>
          {assignment'.primary, assignment'.backup} \ {NoNode} \subseteq Node
    BY <1>3
    DEF AssignmentRecovered, RecoveryCompletes, Assigned, PrimaryAssignment,
        Address
  <2>. QED
    BY <1>1, <1>7, <2>1 DEF HistorySound, Remember
<1>9. barrier' \subseteq 1..MaxEpoch
  <2>1. Confirmed \subseteq 1..MaxEpoch
    BY Typed
    DEF Confirmed, IInv, CInv, Shape, ThreadsSound, SoundThread, Detached
  <2>. QED
    BY <1>1, <2>1 DEF HistorySound, Remember
<1>. QED
  BY <1>2, <1>4, <1>6, <1>8, <1>9 DEF HistorySound

LEMMA InitInv == Init => IInv
<1>. SUFFICES ASSUME Init PROVE IInv
  OBVIOUS
<1>1. CInv
  BY ControllerInitInv DEF Init
<1>2. BarrierSound
  BY WorkingPhases
  DEF Init, ControllerInit, BarrierSound, ThreadsBehindBarrier, Threads, Assigned
<1>3. HistorySound
  BY RegistrationAssumption DEF Init, HistorySound
<1>. QED
  BY <1>1, <1>2, <1>3 DEF IInv

LEMMA NextInv == IInv /\ [Next]_vars => IInv'
<1>. SUFFICES ASSUME IInv, [Next]_vars PROVE IInv'
  OBVIOUS
<1>1. CASE Step
  <2>1. CInv' /\ BarrierStep /\ HistorySound'
    BY <1>1, StepsInv, HistoryInv
  <2>2. BarrierSound'
    BY <2>1 DEF BarrierStep, BarrierSound, IInv, Assigned
  <2>. QED
    BY <2>1, <2>2 DEF IInv
<1>2. CASE Restart
  <2>1. CInv'
    BY <1>2, ControllerRestartInv DEF Restart
  <2>2. BarrierSound'
    BY <1>2, WorkingPhases
    DEF Restart, ControllerRestart, BarrierSound, ThreadsBehindBarrier, Threads,
        Assigned
  <2>3. HistorySound'
    BY <1>2 DEF Restart, HistorySound, IInv
  <2>. QED
    BY <2>1, <2>2, <2>3 DEF IInv
<1>3. CASE UNCHANGED vars
  <2>1. CInv'
    BY <1>3, StutterInv DEF vars, IInv
  <2>2. BarrierSound' /\ HistorySound'
    BY <1>3
    DEF vars, controllerVars, IInv, BarrierSound, ThreadsBehindBarrier,
        PastBarrier, Assigned, HistorySound
  <2>. QED
    BY <2>1, <2>2 DEF IInv
<1>. QED
  BY <1>1, <1>2, <1>3 DEF Next

-----------------------------------------------------------------------------
(* The theorems *)

(* The invariant holds in every reachable state: controller restarts, any   *)
(* plausible report, RPCs refused, unanswered or answered late.             *)
THEOREM Inductive == Spec => []IInv
  BY InitInv, NextInv, PTL DEF Spec

(* Every variable keeps its shape; a thread that ended keeps nothing.       *)
THEOREM TypeCorrect == Spec => []TypeOK
<1>1. IInv => TypeOK
  BY ControllerTyped DEF IInv, HistorySound, TypeOK
<1>. QED
  BY <1>1, Inductive, PTL

(* A promotion always has a thread that will complete it or give it up, and *)
(* the election flag is never left up with nobody assigned.                 *)
THEOREM PromotionDriven == Spec => []PromotionIsDriven
<1>1. IInv => PromotionIsDriven
  BY DEF IInv, CInv
<1>. QED
  BY <1>1, Inductive, PTL

(* A replacement candidate always has the thread that will activate it or   *)
(* clear it.                                                                *)
THEOREM CandidateDriven == Spec => []CandidateIsDriven
<1>1. IInv => CandidateIsDriven
  BY DEF IInv, CInv
<1>. QED
  BY <1>1, Inductive, PTL

(* An assignment becomes ready with the primary, epoch and backup of its    *)
(* current attempt, and an elected one only past its candidate's barrier.   *)
THEOREM BarrierKept == Spec => BarrierBeforePublication
<1>. DEFINE Kept ==
       (Assigned("promoting") \/ Assigned("reprotecting")) /\ Assigned("ready")'
       =>
       /\ assignment'.primary = assignment.primary
       /\ assignment'.epoch = assignment.epoch
       /\ assignment'.backup = IF Assigned("promoting") THEN assignment.backup
                               ELSE assignment.candidate
       /\ Assigned("promoting") => assignment.epoch \in barrier
<1>1. IInv /\ [Next]_vars => [Kept]_vars
  <2>. SUFFICES ASSUME IInv, Next,
                       Assigned("promoting") \/ Assigned("reprotecting"),
                       Assigned("ready")'
                PROVE  Kept
    OBVIOUS
  <2>1. PICK t \in Threads : Publishes(t)
    BY Publication
  <2>2. /\ assignment \in PrimaryAssignment
        /\ assignment' = [assignment EXCEPT !.backup = threads[t].backup,
                                            !.candidate = NoNode,
                                            !.status = "ready"]
        /\ threads[t].backup = IF Assigned("promoting") THEN assignment.backup
                               ELSE assignment.candidate
        /\ Assigned("promoting") => assignment.epoch \in barrier
    BY <2>1, Published, Typed
  <2>3. /\ assignment'.backup = threads[t].backup
        /\ assignment'.primary = assignment.primary
        /\ assignment'.epoch = assignment.epoch
    BY <2>2 DEF PrimaryAssignment
  <2>. QED
    BY <2>2, <2>3
<1>. QED
  BY <1>1, Inductive, PTL DEF Spec, BarrierBeforePublication

-----------------------------------------------------------------------------
(* A controller that does not restart *)

(* Every epoch given is at most the last one, and the assignment is among   *)
(* those that were.                                                         *)
OwnersKnown ==
    /\ \A o \in owners : o[1] <= last_primary_epoch
    /\ assignment # NoAssignment =>
         <<assignment.epoch, assignment.primary>> \in owners

(* The primary is one that was assigned this epoch before, or it comes with *)
(* an epoch that is new.                                                    *)
OwnerStep ==
    /\ last_primary_epoch' >= last_primary_epoch
    /\ assignment' # NoAssignment =>
         \/ <<assignment'.epoch, assignment'.primary>> \in owners
         \/ assignment'.epoch > last_primary_epoch

LEMMA EpochsAreNumbers ==
    ASSUME IInv
    PROVE  last_primary_epoch \in Nat
  BY ControllerAssumption DEF IInv, CInv, Shape, AssignmentSound

LEMMA NobodyNewOwner ==
    ASSUME IInv, OwnersKnown, NobodyNew
    PROVE  OwnerStep
  BY EpochsAreNumbers DEF NobodyNew, SameOwner, OwnersKnown, OwnerStep

LEMMA ThreadOwner ==
    ASSUME IInv, OwnersKnown, NEW t \in Threads, ThreadStep(t)
    PROVE  OwnerStep
<1>1. CInv
  BY DEF IInv
<1>2. CASE Elect(t)
  <2>1. CASE NobodyNew
    BY <2>1, NobodyNewOwner
  <2>2. CASE ~NobodyNew
    BY <1>1, <1>2, <2>2, ElectionServed, EpochsAreNumbers DEF OwnerStep
  <2>. QED
    BY <2>1, <2>2
<1>3. CASE \/ StartPromotion(t) \/ BeginPromotionAccepted(t)
           \/ PromotionStateConfirmed(t) \/ SynchronizationSucceeds(t)
           \/ CandidateFailed(t) \/ Abandon(t)
  BY <1>1, <1>3, PromotionServed, NobodyNewOwner
<1>4. CASE TryNextPromotionBackup(t) \/ PromotionSynchronizationFails(t)
           \/ SelectedBackupEvicted(t)
  <2>1. threads[t].phase \notin Detached
    BY <1>4
    DEF TryNextPromotionBackup, PromotionSynchronizationFails,
        SelectedBackupEvicted, Detached
  <2>. QED
    BY <1>1, <1>4, <2>1, BackupsServed, NobodyNewOwner
    DEF PromotionSynchronizationFails, SelectedBackupEvicted
<1>5. CASE \/ TryNextReplacementBackup(t) \/ ReplacementSynchronizationFails(t)
           \/ threads[t].phase = "complete" /\ RejectReplacement(t)
  <2>1. threads[t].phase \notin Detached
    BY <1>5
    DEF TryNextReplacementBackup, ReplacementSynchronizationFails, Detached
  <2>. QED
    BY <1>1, <1>5, <2>1, ReplacementsServed, NobodyNewOwner
<1>6. CASE CompletionSucceeds(t)
  BY <1>1, <1>6, CompletionsServed, NobodyNewOwner
<1>. QED
  BY <1>2, <1>3, <1>4, <1>5, <1>6
  DEF ThreadStep, PromotionRpcFails, NoPromotionBackup, CompletionUnanswered,
      CompletionRejected

LEMMA StepOwner ==
    ASSUME IInv, OwnersKnown, Step
    PROVE  OwnerStep
<1>1. CInv
  BY DEF IInv
<1>2. ASSUME NEW a \in Node, NEW r \in Report, Register(a, r) PROVE OwnerStep
  <2>1. /\ RegisterNode(a, r)
        /\ r.role = "primary" => <<r.epoch, a>> \in owners
    BY <1>2 DEF Register, Plausible
  <2>. QED
    BY <1>1, <2>1, RegistrationServed, EpochsAreNumbers
    DEF OwnersKnown, OwnerStep, SameOwner
<1>3. CASE NobodyNew
  BY <1>3, NobodyNewOwner
<1>. QED
  BY <1>1, <1>2, <1>3, ThreadOwner, ReportsServed, HeartbeatsServed,
     EvictionsServed
  DEF Step, RunController, Threads

(* While the controller runs, a new primary comes with an epoch above every *)
(* epoch ever assigned (specification section 10).                          *)
THEOREM EpochsIncrease == StableSpec => NewPrimaryNewEpoch
<1>. DEFINE Known == IInv /\ OwnersKnown
            Grows == \A new \in owners' \ owners : \A old \in owners :
                       new[1] > old[1]
<1>1. Init => Known
  BY InitInv DEF Init, ControllerInit, OwnersKnown
<1>2. ASSUME Known, Step PROVE OwnersKnown' /\ Grows
  <2>1. CASE assignment' = NoAssignment
    <3>1. owners' = owners /\ last_primary_epoch' >= last_primary_epoch
      BY <1>2, <2>1, StepOwner
      DEF OwnerStep, Step, Register, RunController, Remember
    <3>2. \A o \in owners : o[1] \in Nat /\ o[1] <= last_primary_epoch
      BY <1>2, ControllerAssumption DEF OwnersKnown, IInv, HistorySound
    <3>3. last_primary_epoch \in Nat /\ last_primary_epoch' \in Nat
      BY <1>2, EpochsAreNumbers, NextInv, ControllerAssumption
      DEF Next, IInv, CInv, Shape, AssignmentSound
    <3>. QED
      BY <2>1, <3>1, <3>2, <3>3 DEF OwnersKnown
  <2>2. CASE assignment' # NoAssignment
    <3>. DEFINE new == <<assignment'.epoch, assignment'.primary>>
    <3>1. owners' = owners \cup {new}
      BY <1>2, <2>2 DEF Step, Register, RunController, Remember
    <3>2. /\ last_primary_epoch' >= last_primary_epoch
          /\ new \in owners \/ new[1] > last_primary_epoch
      BY <1>2, <2>2, StepOwner DEF OwnerStep
    <3>3. /\ \A o \in owners : o[1] \in Nat /\ o[1] <= last_primary_epoch
          /\ last_primary_epoch \in Nat
      BY <1>2, EpochsAreNumbers, ControllerAssumption
      DEF OwnersKnown, IInv, HistorySound
    <3>4. new[1] \in Nat /\ new[1] = last_primary_epoch'
      <4>1. IInv'
        BY <1>2, NextInv DEF Next
      <4>. QED
        BY <2>2, <4>1, ControllerAssumption
        DEF IInv, CInv, Shape, AssignmentSound, PrimaryAssignment
    <3>. HIDE DEF new
    <3>5. Grows
      BY <3>1, <3>2, <3>3, <3>4
    <3>6. \A o \in owners' : o[1] <= last_primary_epoch'
      BY <3>1, <3>2, <3>3, <3>4
    <3>. QED
      BY <2>2, <3>1, <3>5, <3>6 DEF OwnersKnown, new
  <2>. QED
    BY <2>1, <2>2
<1>3. Known /\ [Step]_vars => Known'
  <2>. SUFFICES ASSUME Known, [Step]_vars PROVE Known'
    OBVIOUS
  <2>1. IInv'
    BY NextInv DEF Next
  <2>2. CASE UNCHANGED vars
    BY <2>1, <2>2 DEF vars, controllerVars, OwnersKnown
  <2>. QED
    BY <1>2, <2>1, <2>2
<1>4. Known /\ [Step]_vars => [Grows]_vars
  BY <1>2
<1>. QED
  BY <1>1, <1>3, <1>4, PTL DEF StableSpec, NewPrimaryNewEpoch
=============================================================================
