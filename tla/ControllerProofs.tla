--------------------------- MODULE ControllerProofs ---------------------------
(***************************************************************************)
(* Proofs about the operations of Controller, for any finite set of        *)
(* replicas, any workers and any eviction limit, whoever takes their       *)
(* steps: they keep the shape of the state, and a promotion or a           *)
(* replacement under way always has the thread that ends it.               *)
(***************************************************************************)
EXTENDS Controller, FiniteSetTheorems, WellFoundedInduction, TLAPS

-----------------------------------------------------------------------------
(* The invariant *)

Threads == Worker \cup {Monitor}

(* Phases in which a thread serves no primary, and those in which it has a  *)
(* backup to care for.                                                      *)
Detached == {"free", "elect", "evict"}

Attending == {"sync_backup", "sync_replacement", "reported", "complete",
              "evict", "backup_failed"}

SoundThread(w) ==
    /\ w \in Thread
    /\ w.phase = "free" => w = Free
    /\ w.phase \notin Detached => w.primary \in Node /\ w.epoch \in 1..MaxEpoch
    /\ w.phase \in Attending => w.backup \in Node

ThreadsSound ==
    /\ threads \in [Threads -> Thread]
    /\ \A t \in Threads : SoundThread(threads[t])

(* No member claims more than the last election gave, and one at its limit  *)
(* of failures is being evicted.                                            *)
NodesSound ==
    /\ nodes \in [Node -> ReplicaRecord \cup {NotRegistered}]
    /\ \A a \in Members :
         /\ nodes[a].synchronized_epoch <= last_primary_epoch
         /\ \/ nodes[a].failures < Eviction
            \/ threads[Monitor].phase = "evict" /\ threads[Monitor].backup = a

(* The current assignment is the newest one, and its elected primary stays  *)
(* a member, eligible and without itself as backup.                         *)
AssignmentSound ==
    /\ assignment \in PrimaryAssignment \cup {NoAssignment}
    /\ last_primary_epoch \in 0..MaxEpoch
    /\ election_in_progress \in BOOLEAN
    /\ assignment # NoAssignment =>
         /\ assignment.epoch = last_primary_epoch
         /\ assignment.status # "reprotecting" => assignment.candidate = NoNode
         /\ assignment.status = "promoting" =>
              /\ assignment.primary \in Members \cap assignment.eligible
              /\ assignment.backup # assignment.primary

Shape == ThreadsSound /\ NodesSound /\ AssignmentSound

CInv == Shape /\ PromotionIsDriven /\ CandidateIsDriven

-----------------------------------------------------------------------------
(* Operators *)

(* First picks the least of any replicas.                                   *)
LEMMA FirstIsLeast ==
    ASSUME NEW S \in SUBSET Node, S # {}
    PROVE  First(S) \in S /\ \A b \in S : First(S) <= b
<1>. DEFINE R == OpToRel(<, Nat)
<1>1. S \subseteq Nat
  BY ControllerAssumption
<1>2. PICK a \in S : \A b \in S : <<b, a>> \notin R
  BY <1>1, NatLessThanWellFounded, WFMin
<1>3. \A x, y \in Nat : x < y => <<x, y>> \in R
  BY DEF OpToRel
<1>. HIDE DEF R
<1>4. ASSUME NEW b \in S PROVE a <= b
  <2>1. a \in Nat /\ b \in Nat /\ ~(b < a)
    BY <1>1, <1>2, <1>3
  <2>. QED
    BY <2>1
<1>. QED
  BY <1>4 DEF First

LEMMA FirstMember ==
    ASSUME NEW S \in SUBSET Node, S # {}
    PROVE  First(S) \in S
  BY FirstIsLeast

LEMMA FreeSound == SoundThread(Free)
  BY ControllerAssumption
  DEF SoundThread, Free, Thread, Phase, Address, Status, Detached, Attending

LEMMA WorkingSound ==
    ASSUME NEW phase \in Phase \ (Detached \cup Attending),
           NEW primary \in Node, NEW epoch \in 1..MaxEpoch
    PROVE  /\ SoundThread(Working(phase, primary, epoch))
           /\ Working(phase, primary, epoch).phase = phase
           /\ Working(phase, primary, epoch).primary = primary
           /\ Working(phase, primary, epoch).epoch = epoch
<1>1. Free \in Thread
  BY FreeSound DEF SoundThread
<1>2. epoch \in 0..MaxEpoch /\ primary \in Address
  BY ControllerAssumption DEF Address
<1>. QED
  BY <1>1, <1>2 DEF Working, SoundThread, Thread, Detached

LEMMA ElectSound ==
    ASSUME NEW eligible \in (SUBSET Node) \cup {AnyEligible}
    PROVE  /\ SoundThread([Free EXCEPT !.phase = "elect", !.eligible = eligible])
           /\ [Free EXCEPT !.phase = "elect", !.eligible = eligible].phase
                = "elect"
<1>1. Free \in Thread
  BY FreeSound DEF SoundThread
<1>. QED
  BY <1>1 DEF SoundThread, Thread, Phase, Detached, Attending

(* What a thread does to the threads: it goes on, starts another, or both.  *)
LEMMA Continues ==
    ASSUME ThreadsSound, NEW t \in Threads, NEW w, Continue(t, w), SoundThread(w)
    PROVE  /\ ThreadsSound' /\ threads'[t] = w
           /\ \A u \in Threads \ {t} : threads'[u] = threads[u]
  BY DEF ThreadsSound, SoundThread, Continue

LEMMA Spawns ==
    ASSUME ThreadsSound, NEW w, Spawn(w), SoundThread(w)
    PROVE  /\ ThreadsSound'
           /\ \E u \in Worker :
                /\ threads[u].phase = "free" /\ threads'[u] = w
                /\ \A v \in Threads \ {u} : threads'[v] = threads[v]
  BY DEF ThreadsSound, SoundThread, Spawn, Threads

LEMMA ContinuesAndSpawns ==
    ASSUME ThreadsSound, NEW t \in Threads, NEW w, NEW x,
           ContinueAndSpawn(t, w, x), SoundThread(w), SoundThread(x)
    PROVE  /\ ThreadsSound' /\ threads'[t] = w
           /\ \E u \in Worker \ {t} :
                /\ threads[u].phase = "free" /\ threads'[u] = x
                /\ \A v \in Threads \ {t, u} : threads'[v] = threads[v]
  BY DEF ThreadsSound, SoundThread, ContinueAndSpawn, Threads

(* A thread that advances to another phase keeps its arguments.             *)
LEMMA AdvanceSound ==
    ASSUME NEW w, SoundThread(w), w.phase \notin Detached,
           NEW phase \in Phase \ Detached,
           phase \in Attending => w.phase \in Attending
    PROVE  SoundThread([w EXCEPT !.phase = phase])
  BY DEF SoundThread, Thread, Detached

(* Thread t will activate or clear the current replacement candidate. *)
DrivesReplacement(t) ==
    threads[t].phase = "sync_replacement" /\ IsCurrentCandidate(threads[t])

(* A step that leaves the assignment alone keeps its recovery driven, when   *)
(* the thread that takes it goes on driving what it drove.                  *)
LEMMA OthersDrive ==
    ASSUME CInv, NEW t \in Threads, ThreadsSound',
           UNCHANGED <<assignment, election_in_progress>>,
           \A u \in Threads \ {t} :
             threads'[u] = threads[u] \/ threads[u].phase = "free",
           Assigned("promoting") /\ DrivesPromotion(t) => DrivesPromotion(t)',
           DrivesReplacement(t) => DrivesReplacement(t)'
    PROVE  PromotionIsDriven' /\ CandidateIsDriven'
<1>1. DOMAIN threads = Threads /\ DOMAIN threads' = Threads
  BY DEF CInv, Shape, ThreadsSound
<1>2. ASSUME Assigned("promoting")
      PROVE  \E u \in Threads : DrivesPromotion(u)'
  <2>1. PICK u \in Threads : DrivesPromotion(u)
    BY <1>1, <1>2 DEF CInv, PromotionIsDriven
  <2>2. threads[u].phase # "free"
    BY <2>1 DEF DrivesPromotion
  <2>3. CASE u # t
    BY <2>1, <2>2, <2>3 DEF DrivesPromotion, CompletionExpected, AssignmentMatches
  <2>. QED
    BY <1>2, <2>1, <2>3
<1>3. ASSUME Assigned("reprotecting"), assignment.candidate # NoNode
      PROVE  \E u \in Threads : DrivesReplacement(u)'
  <2>1. PICK u \in Threads : DrivesReplacement(u)
    BY <1>1, <1>3 DEF CInv, CandidateIsDriven, DrivesReplacement
  <2>2. CASE u # t
    BY <2>1, <2>2 DEF DrivesReplacement, IsCurrentCandidate, AssignmentMatches
  <2>. QED
    BY <2>1, <2>2
<1>. QED
  BY <1>1, <1>2, <1>3
  DEF CInv, PromotionIsDriven, CandidateIsDriven, Assigned, DrivesReplacement

(* Members may go, and lose what they were synchronized with. *)
LEMMA NodesShrink ==
    ASSUME Shape, nodes' \in [Node -> ReplicaRecord \cup {NotRegistered}],
           UNCHANGED last_primary_epoch,
           \A a \in Members' :
             /\ a \in Members
             /\ \/ nodes'[a] = nodes[a]
                \/ nodes'[a] = [nodes[a] EXCEPT !.synchronized_epoch = 0],
           threads[Monitor].phase = "evict" => threads'[Monitor] = threads[Monitor]
    PROVE  NodesSound'
<1>1. ASSUME NEW a \in Members'
      PROVE  /\ nodes'[a].synchronized_epoch <= last_primary_epoch
             /\ nodes'[a].failures = nodes[a].failures
  <2>1. nodes[a] \in ReplicaRecord
    BY <1>1, SentinelAssumption DEF Shape, NodesSound, Members
  <2>2. /\ last_primary_epoch \in Nat
        /\ nodes[a].synchronized_epoch <= last_primary_epoch
    <3>1. a \in Members
      BY <1>1
    <3>2. last_primary_epoch \in Nat
      BY ControllerAssumption DEF Shape, AssignmentSound
    <3>. QED
      BY <3>1, <3>2 DEF Shape, NodesSound
  <2>3. \/ nodes'[a] = nodes[a]
        \/ nodes'[a] = [nodes[a] EXCEPT !.synchronized_epoch = 0]
    BY <1>1
  <2>. QED
    BY <2>1, <2>2, <2>3 DEF ReplicaRecord
<1>. QED
  BY <1>1 DEF Shape, NodesSound

LEMMA UnsynchronizedNodes ==
    ASSUME NodesSound
    PROVE  /\ Unsynchronized(nodes) \in [Node -> ReplicaRecord \cup {NotRegistered}]
           /\ \A a \in Node :
                Unsynchronized(nodes)[a] =
                  IF a \in Members THEN [nodes[a] EXCEPT !.synchronized_epoch = 0]
                  ELSE NotRegistered
  BY ControllerAssumption DEF NodesSound, Unsynchronized, ReplicaRecord, Members

LEMMA NodeUnsynchronized ==
    ASSUME Shape, NEW a \in Members,
           nodes' = [nodes EXCEPT ![a].synchronized_epoch = 0],
           UNCHANGED last_primary_epoch,
           threads[Monitor].phase = "evict" => threads'[Monitor] = threads[Monitor]
    PROVE  NodesSound' /\ Members' = Members
<1>1. nodes[a] \in ReplicaRecord
  BY SentinelAssumption DEF Shape, NodesSound, Members
<1>2. [nodes[a] EXCEPT !.synchronized_epoch = 0] \in ReplicaRecord
  BY <1>1, ControllerAssumption DEF ReplicaRecord
<1>3. /\ nodes' \in [Node -> ReplicaRecord \cup {NotRegistered}]
      /\ nodes'[a] = [nodes[a] EXCEPT !.synchronized_epoch = 0]
      /\ \A b \in Node \ {a} : nodes'[b] = nodes[b]
  BY <1>2 DEF Shape, NodesSound, Members
<1>4. Members' = Members
  BY <1>2, <1>3, SentinelAssumption DEF Members
<1>. QED
  BY <1>3, <1>4, NodesShrink DEF Members

(* A step that changes threads only. *)
LEMMA ThreadStepInv ==
    ASSUME CInv, NEW t \in Threads, ThreadsSound',
           UNCHANGED <<nodes, assignment, last_primary_epoch,
                       election_in_progress>>,
           \A u \in Threads \ {t} :
             threads'[u] = threads[u] \/ threads[u].phase = "free",
           threads[t].phase # "evict",
           Assigned("promoting") /\ DrivesPromotion(t) => DrivesPromotion(t)',
           DrivesReplacement(t) => DrivesReplacement(t)'
    PROVE  CInv'
<1>1. NodesSound' /\ AssignmentSound'
  BY DEF CInv, Shape, NodesSound, AssignmentSound, Members, Threads
<1>. QED
  BY <1>1, OthersDrive DEF CInv, Shape

-----------------------------------------------------------------------------
(* Promotion *)

(* What drives the current promotion has a valid context. *)
LEMMA DriverMatches ==
    ASSUME CInv, NEW t \in Threads, Assigned("promoting"), DrivesPromotion(t)
    PROVE  /\ AssignmentMatches(threads[t].primary, threads[t].epoch, "promoting")
           /\ PromotionContextValid(t)
  BY DEF PromotionContextValid, DrivesPromotion, Assigned, CInv, Shape,
         AssignmentSound, AssignmentMatches

LEMMA AdvanceInv ==
    ASSUME CInv, NEW t \in Threads, NEW phase \in {"begin", "confirm"},
           threads[t].phase \in {"validate", "begin"}, Advance(t, phase)
    PROVE  CInv'
<1>. DEFINE w == threads[t]
<1>1. SoundThread(w)
  BY DEF CInv, Shape, ThreadsSound
<1>2. SoundThread([w EXCEPT !.phase = phase])
  BY <1>1, AdvanceSound DEF Phase, Detached, Attending
<1>3. /\ ThreadsSound'
      /\ threads'[t] = IF PromotionContextValid(t)
                       THEN [w EXCEPT !.phase = phase] ELSE Free
      /\ \A u \in Threads \ {t} : threads'[u] = threads[u]
  BY <1>2, FreeSound, Continues DEF CInv, Shape, Advance
<1>4. ASSUME Assigned("promoting"), DrivesPromotion(t)
      PROVE  DrivesPromotion(t)'
  <2>1. threads'[t] = [w EXCEPT !.phase = phase]
    BY <1>3, <1>4, DriverMatches
  <2>. QED
    BY <1>1, <1>4, <2>1 DEF DrivesPromotion, Advance, SoundThread, Thread
<1>. QED
  BY <1>3, <1>4, ThreadStepInv DEF Advance, DrivesReplacement

LEMMA PromotionStateConfirmedInv ==
    ASSUME CInv, NEW t \in Threads, PromotionStateConfirmed(t)
    PROVE  CInv'
<1>. DEFINE w == threads[t]
<1>1. SoundThread(w)
  BY DEF CInv, Shape, ThreadsSound
<1>2. SoundThread([w EXCEPT !.phase = "next_backup"])
  BY <1>1, AdvanceSound DEF Phase, Detached, Attending, PromotionStateConfirmed
<1>3. /\ ThreadsSound' /\ threads'[t] = [w EXCEPT !.phase = "next_backup"]
      /\ \A u \in Threads \ {t} : threads'[u] = threads[u]
  BY <1>2, Continues DEF CInv, Shape, PromotionStateConfirmed
<1>4. ASSUME DrivesPromotion(t) PROVE DrivesPromotion(t)'
  BY <1>1, <1>3, <1>4
  DEF DrivesPromotion, PromotionStateConfirmed, SoundThread, Thread
<1>. QED
  BY <1>3, <1>4, ThreadStepInv DEF PromotionStateConfirmed, DrivesReplacement

LEMMA CandidateFailedInv ==
    ASSUME CInv, NEW t \in Threads,
           threads[t].phase \in {"begin", "confirm", "complete"},
           CandidateFailed(t)
    PROVE  CInv'
<1>. DEFINE w == threads[t]
            eligible == (assignment.eligible \ {w.primary}) \cap Members
<1>1. CASE AssignmentMatches(w.primary, w.epoch, "promoting")
  <2>1. SoundThread([Free EXCEPT !.phase = "elect", !.eligible = eligible])
    BY ElectSound DEF Members
  <2>2. ThreadsSound' /\ (\A u \in Threads \ {t} : threads'[u] = threads[u])
    BY <1>1, <2>1, Continues DEF CInv, Shape, CandidateFailed
  <2>3. /\ nodes' = [Unsynchronized(nodes) EXCEPT ![w.primary] = NotRegistered]
        /\ assignment' = NoAssignment /\ election_in_progress' = FALSE
        /\ last_primary_epoch' = last_primary_epoch
    BY <1>1 DEF CandidateFailed
  <2>4. /\ nodes' \in [Node -> ReplicaRecord \cup {NotRegistered}]
        /\ \A a \in Members' :
             a \in Members /\ nodes'[a] = [nodes[a] EXCEPT !.synchronized_epoch = 0]
    BY <2>3, UnsynchronizedNodes DEF CInv, Shape, Members
  <2>5. NodesSound'
    BY <2>2, <2>3, <2>4, NodesShrink DEF CInv, Shape, Threads
  <2>6. AssignmentSound' /\ PromotionIsDriven' /\ CandidateIsDriven'
    BY <2>3 DEF CInv, Shape, AssignmentSound, PromotionIsDriven, CandidateIsDriven, Assigned
  <2>. QED
    BY <2>2, <2>5, <2>6 DEF CInv, Shape
<1>2. CASE ~AssignmentMatches(w.primary, w.epoch, "promoting")
  <2>1. ThreadsSound' /\ (\A u \in Threads \ {t} : threads'[u] = threads[u])
    BY <1>2, FreeSound, Continues DEF CInv, Shape, CandidateFailed
  <2>. QED
    BY <1>2, <2>1, DriverMatches, ThreadStepInv DEF CandidateFailed, DrivesReplacement
<1>. QED
  BY <1>1, <1>2

LEMMA AbandonInv ==
    ASSUME CInv, NEW t \in Threads,
           threads[t].phase \in {"abandon", "complete"}, Abandon(t)
    PROVE  CInv'
<1>. DEFINE w == threads[t]
<1>1. ThreadsSound' /\ (\A u \in Threads \ {t} : threads'[u] = threads[u])
  BY FreeSound, Continues DEF CInv, Shape, Abandon
<1>2. CASE AssignmentMatches(w.primary, w.epoch, "promoting")
  <2>1. /\ nodes' = Unsynchronized(nodes)
        /\ assignment' = NoAssignment /\ election_in_progress' = FALSE
        /\ last_primary_epoch' = last_primary_epoch
    BY <1>2 DEF Abandon
  <2>2. /\ nodes' \in [Node -> ReplicaRecord \cup {NotRegistered}]
        /\ \A a \in Members' :
             a \in Members /\ nodes'[a] = [nodes[a] EXCEPT !.synchronized_epoch = 0]
    BY <2>1, UnsynchronizedNodes DEF CInv, Shape, Members
  <2>3. NodesSound'
    BY <1>1, <2>1, <2>2, NodesShrink DEF CInv, Shape, Threads
  <2>4. AssignmentSound' /\ PromotionIsDriven' /\ CandidateIsDriven'
    BY <2>1
    DEF CInv, Shape, AssignmentSound, PromotionIsDriven, CandidateIsDriven, Assigned
  <2>. QED
    BY <1>1, <2>3, <2>4 DEF CInv, Shape
<1>3. CASE ~AssignmentMatches(w.primary, w.epoch, "promoting")
  BY <1>1, <1>3, DriverMatches, ThreadStepInv DEF Abandon, DrivesReplacement
<1>. QED
  BY <1>2, <1>3

LEMMA SynchronizationSucceedsInv ==
    ASSUME CInv, NEW t \in Threads, SynchronizationSucceeds(t)
    PROVE  CInv'
<1>1. ThreadsSound' /\ (\A u \in Threads \ {t} : threads'[u] = threads[u])
  BY FreeSound, Continues DEF CInv, Shape, SynchronizationSucceeds
<1>2. ASSUME Assigned("promoting") PROVE ~DrivesPromotion(t)
  BY <1>2, DriverMatches
  DEF SynchronizationSucceeds, DrivesPromotion, IsCurrentPromotionBackup
<1>3. ~DrivesReplacement(t)
  BY DEF SynchronizationSucceeds, DrivesReplacement
<1>. QED
  BY <1>1, <1>2, <1>3, ThreadStepInv DEF SynchronizationSucceeds

(* A step that changes the assignment keeps a promotion driven when the     *)
(* thread that takes it drives the new one.                                 *)
LEMMA PromotionBackupFailedInv ==
    ASSUME CInv, NEW t \in Threads,
           threads[t].phase \in {"sync_backup", "backup_failed"},
           PromotionBackupFailed(t)
    PROVE  CInv'
<1>. DEFINE w == threads[t]
            next == Working("next_backup", w.primary, w.epoch)
<1>1. w.primary \in Node /\ w.epoch \in 1..MaxEpoch /\ w.backup \in Node
  BY DEF CInv, Shape, ThreadsSound, SoundThread, Detached, Attending
<1>2. /\ SoundThread(next) /\ next.phase = "next_backup"
      /\ next.primary = w.primary /\ next.epoch = w.epoch
  BY <1>1, WorkingSound DEF Phase, Detached, Attending
<1>3. CASE IsCurrentPromotionBackup(w)
  <2>1. /\ nodes' = [nodes EXCEPT ![w.backup] = NotRegistered]
        /\ assignment' = [assignment EXCEPT !.backup = NoNode]
        /\ UNCHANGED <<last_primary_epoch, election_in_progress>>
        /\ Continue(t, next)
    BY <1>3 DEF PromotionBackupFailed
  <2>2. /\ ThreadsSound' /\ threads'[t] = next
        /\ \A u \in Threads \ {t} : threads'[u] = threads[u]
    BY <1>2, <2>1, Continues DEF CInv, Shape
  <2>3. /\ assignment # NoAssignment /\ assignment.status = "promoting"
        /\ assignment.primary = w.primary /\ assignment.epoch = w.epoch
        /\ assignment.backup = w.backup
    BY <1>3 DEF IsCurrentPromotionBackup, AssignmentMatches
  <2>4. NodesSound'
    BY <2>1, <2>2, NodesShrink DEF CInv, Shape, NodesSound, Members, Threads
  <2>5. /\ assignment' \in PrimaryAssignment /\ assignment' # NoAssignment
        /\ assignment'.backup = NoNode
        /\ assignment'.primary = w.primary /\ assignment'.epoch = w.epoch
        /\ assignment'.status = "promoting"
        /\ assignment'.candidate = assignment.candidate
        /\ assignment'.eligible = assignment.eligible
    BY <2>1, <2>3, SentinelAssumption
    DEF CInv, Shape, AssignmentSound, PrimaryAssignment, Address
  <2>6. AssignmentSound'
    BY <1>1, <2>1, <2>3, <2>5, ControllerAssumption
    DEF CInv, Shape, AssignmentSound, NodesSound, Members
  <2>7. DrivesPromotion(t)'
    BY <1>2, <2>2, <2>5 DEF DrivesPromotion
  <2>8. PromotionIsDriven' /\ CandidateIsDriven'
    BY <2>2, <2>5, <2>7
    DEF ThreadsSound, PromotionIsDriven, CandidateIsDriven, Assigned
  <2>. QED
    BY <2>2, <2>4, <2>6, <2>8 DEF CInv, Shape
<1>4. CASE ~IsCurrentPromotionBackup(w)
  <2>1. ThreadsSound' /\ (\A u \in Threads \ {t} : threads'[u] = threads[u])
    BY <1>4, FreeSound, Continues DEF CInv, Shape, PromotionBackupFailed
  <2>2. ASSUME Assigned("promoting") PROVE ~DrivesPromotion(t)
    BY <1>4, <2>2, DriverMatches DEF DrivesPromotion, IsCurrentPromotionBackup
  <2>. QED
    BY <1>4, <2>1, <2>2, ThreadStepInv DEF PromotionBackupFailed, DrivesReplacement
<1>. QED
  BY <1>3, <1>4

LEMMA TryNextPromotionBackupInv ==
    ASSUME CInv, NEW t \in Threads, TryNextPromotionBackup(t)
    PROVE  CInv'
<1>. DEFINE w == threads[t]
            choices == PromotionBackups(w.primary)
            backup == First(choices)
            next == [w EXCEPT !.phase = "sync_backup", !.backup = backup]
<1>1. SoundThread(w) /\ w.phase = "next_backup"
  BY DEF CInv, Shape, ThreadsSound, TryNextPromotionBackup
<1>2. CASE AssignmentMatches(w.primary, w.epoch, "promoting") /\ choices # {}
  <2>1. backup \in Members /\ backup # w.primary
    <3>1. /\ choices \subseteq Members /\ w.primary \notin choices
          /\ Members \subseteq Node
      BY DEF PromotionBackups, Members
    <3>2. First(choices) \in choices
      BY <1>2, <3>1, FirstMember
    <3>. QED
      BY <3>1, <3>2
  <2>2. /\ assignment' = [assignment EXCEPT !.attempted = @ \cup {backup},
                                            !.backup = backup]
        /\ nodes' = [nodes EXCEPT ![backup].synchronized_epoch = 0]
        /\ Continue(t, next)
        /\ UNCHANGED <<last_primary_epoch, election_in_progress>>
    BY <1>2 DEF TryNextPromotionBackup
  <2>. HIDE DEF backup
  <2>3. /\ SoundThread(next) /\ next.phase = "sync_backup"
        /\ next.primary = w.primary /\ next.epoch = w.epoch
        /\ next.backup = backup
    BY <1>1, <2>1
    DEF SoundThread, Thread, Phase, Detached, Attending, Members, Address
  <2>4. /\ ThreadsSound' /\ threads'[t] = next
        /\ \A u \in Threads \ {t} : threads'[u] = threads[u]
    BY <2>2, <2>3, Continues DEF CInv, Shape
  <2>5. /\ assignment # NoAssignment /\ assignment.status = "promoting"
        /\ assignment.primary = w.primary /\ assignment.epoch = w.epoch
    BY <1>2 DEF AssignmentMatches
  <2>6. NodesSound' /\ Members' = Members
    BY <1>1, <2>1, <2>2, <2>4, NodeUnsynchronized DEF CInv, Shape, Threads
  <2>7. /\ assignment' \in PrimaryAssignment /\ assignment' # NoAssignment
        /\ assignment'.backup = backup
        /\ assignment'.primary = w.primary /\ assignment'.epoch = w.epoch
        /\ assignment'.status = "promoting"
        /\ assignment'.candidate = assignment.candidate
        /\ assignment'.eligible = assignment.eligible
    <3>1. assignment \in PrimaryAssignment
      BY <2>5 DEF CInv, Shape, AssignmentSound
    <3>2. /\ backup \in Node /\ backup \in Address
          /\ assignment.attempted \cup {backup} \in SUBSET Node
      BY <2>1, <3>1 DEF Members, Address, PrimaryAssignment
    <3>3. /\ assignment' \in PrimaryAssignment
          /\ assignment'.backup = backup
          /\ assignment'.primary = assignment.primary
          /\ assignment'.epoch = assignment.epoch
          /\ assignment'.status = assignment.status
          /\ assignment'.candidate = assignment.candidate
          /\ assignment'.eligible = assignment.eligible
      BY <2>2, <3>1, <3>2 DEF PrimaryAssignment
    <3>. QED
      BY <2>5, <3>3, SentinelAssumption
  <2>8. AssignmentSound'
    BY <2>1, <2>2, <2>5, <2>6, <2>7 DEF CInv, Shape, AssignmentSound
  <2>9. DrivesPromotion(t)'
    BY <2>3, <2>4, <2>7 DEF DrivesPromotion
  <2>10. PromotionIsDriven' /\ CandidateIsDriven'
    BY <2>4, <2>7, <2>9
    DEF ThreadsSound, PromotionIsDriven, CandidateIsDriven, Assigned
  <2>. QED
    BY <2>4, <2>6, <2>8, <2>10 DEF CInv, Shape
<1>3. CASE AssignmentMatches(w.primary, w.epoch, "promoting") /\ choices = {}
  <2>. DEFINE abandon == [w EXCEPT !.phase = "abandon"]
  <2>1. /\ Continue(t, abandon)
        /\ UNCHANGED <<nodes, assignment, last_primary_epoch,
                       election_in_progress>>
    BY <1>3 DEF TryNextPromotionBackup
  <2>2. SoundThread(abandon)
    BY <1>1, AdvanceSound DEF Phase, Detached, Attending
  <2>3. /\ ThreadsSound' /\ threads'[t] = abandon
        /\ \A u \in Threads \ {t} : threads'[u] = threads[u]
    BY <2>1, <2>2, Continues DEF CInv, Shape
  <2>4. ASSUME DrivesPromotion(t) PROVE DrivesPromotion(t)'
    BY <1>1, <2>1, <2>3, <2>4 DEF DrivesPromotion, SoundThread, Thread
  <2>. QED
    BY <1>1, <2>1, <2>3, <2>4, ThreadStepInv DEF DrivesReplacement
<1>4. CASE ~AssignmentMatches(w.primary, w.epoch, "promoting")
  <2>1. /\ Continue(t, Free)
        /\ UNCHANGED <<nodes, assignment, last_primary_epoch,
                       election_in_progress>>
    BY <1>4 DEF TryNextPromotionBackup
  <2>2. ThreadsSound' /\ (\A u \in Threads \ {t} : threads'[u] = threads[u])
    BY <2>1, FreeSound, Continues DEF CInv, Shape
  <2>. QED
    BY <1>1, <1>4, <2>1, <2>2, DriverMatches, ThreadStepInv DEF DrivesReplacement
<1>. QED
  BY <1>2, <1>3, <1>4

-----------------------------------------------------------------------------
(* Election *)

LEMMA CandidateMember ==
    ASSUME NEW eligible, SelectPrimaryCandidate(eligible) # NoNode
    PROVE  SelectPrimaryCandidate(eligible) \in Members
<1>. DEFINE candidates ==
              IF eligible = AnyEligible
              THEN {a \in Members : /\ nodes[a].synchronized_epoch > 0
                                    /\ nodes[a].synchronized_epoch
                                         = last_primary_epoch}
              ELSE eligible \cap Members
<1>1. candidates \subseteq Members /\ Members \subseteq Node
  BY DEF Members
<1>2. candidates # {} /\ SelectPrimaryCandidate(eligible) = First(candidates)
  BY DEF SelectPrimaryCandidate
<1>. HIDE DEF candidates
<1>. QED
  BY <1>1, <1>2, FirstMember

LEMMA AssignTyped ==
    ASSUME NEW primary \in Node, NEW epoch \in 1..MaxEpoch,
           NEW status \in Status, NEW backup \in Address,
           NEW eligible \in SUBSET Node
    PROVE  /\ Assign(primary, epoch, status, backup) \in PrimaryAssignment
           /\ [Assign(primary, epoch, status, backup)
                 EXCEPT !.eligible = eligible] \in PrimaryAssignment
           /\ [Assign(primary, epoch, status, backup)
                 EXCEPT !.eligible = eligible]
                = [primary |-> primary, epoch |-> epoch, status |-> status,
                   backup |-> backup, candidate |-> NoNode, generation |-> 0,
                   eligible |-> eligible, attempted |-> {}]
  BY ControllerAssumption DEF Assign, PrimaryAssignment, Address

LEMMA ElectInv ==
    ASSUME CInv, NEW t \in Threads, Elect(t)
    PROVE  CInv'
<1>. DEFINE candidate == SelectPrimaryCandidate(threads[t].eligible)
            next == Working("validate", candidate, NextEpoch)
<1>1. CASE \/ assignment # NoAssignment \/ election_in_progress
           \/ candidate = NoNode
  <2>1. /\ Continue(t, Free)
        /\ UNCHANGED <<nodes, assignment, last_primary_epoch,
                       election_in_progress>>
    BY <1>1 DEF Elect
  <2>2. ThreadsSound' /\ (\A u \in Threads \ {t} : threads'[u] = threads[u])
    BY <2>1, FreeSound, Continues DEF CInv, Shape
  <2>. QED
    BY <2>1, <2>2, ThreadStepInv DEF Elect, DrivesPromotion, DrivesReplacement
<1>2. CASE ~(\/ assignment # NoAssignment \/ election_in_progress
             \/ candidate = NoNode)
  <2>1. /\ last_primary_epoch < MaxEpoch
        /\ last_primary_epoch' = NextEpoch
        /\ assignment' = [Assign(candidate, NextEpoch, "promoting", NoNode)
                            EXCEPT !.eligible = Members]
        /\ election_in_progress' = TRUE
        /\ nodes' = Unsynchronized(nodes)
        /\ ContinueAndSpawn(t, Free, next)
    BY <1>2 DEF Elect
  <2>2. candidate \in Members /\ candidate \in Node /\ Members \in SUBSET Node
    BY <1>2, CandidateMember DEF Members
  <2>3. NextEpoch \in 1..MaxEpoch /\ last_primary_epoch < NextEpoch
    BY <2>1, ControllerAssumption DEF NextEpoch, CInv, Shape, AssignmentSound
  <2>. HIDE DEF candidate
  <2>4. /\ SoundThread(next) /\ next.phase = "validate"
        /\ next.primary = candidate /\ next.epoch = NextEpoch
    BY <2>2, <2>3, WorkingSound DEF Phase, Detached, Attending
  <2>5. /\ ThreadsSound' /\ threads'[t] = Free
        /\ \E u \in Worker \ {t} :
             /\ threads[u].phase = "free" /\ threads'[u] = next
             /\ \A v \in Threads \ {t, u} : threads'[v] = threads[v]
    BY <2>1, <2>4, FreeSound, ContinuesAndSpawns DEF CInv, Shape
  <2>6. /\ assignment' \in PrimaryAssignment /\ assignment' # NoAssignment
        /\ assignment'.primary = candidate /\ assignment'.epoch = NextEpoch
        /\ assignment'.status = "promoting" /\ assignment'.backup = NoNode
        /\ assignment'.candidate = NoNode /\ assignment'.eligible = Members
    <3>1. /\ assignment' \in PrimaryAssignment
          /\ assignment' = [primary |-> candidate, epoch |-> NextEpoch,
                            status |-> "promoting", backup |-> NoNode,
                            candidate |-> NoNode, generation |-> 0,
                            eligible |-> Members, attempted |-> {}]
      BY <2>1, <2>2, <2>3, AssignTyped DEF Status, Address
    <3>. QED
      BY <3>1, SentinelAssumption
  <2>7. NodesSound' /\ Members' = Members
    <3>1. /\ nodes' \in [Node -> ReplicaRecord \cup {NotRegistered}]
          /\ \A a \in Node :
               nodes'[a] = IF a \in Members
                           THEN [nodes[a] EXCEPT !.synchronized_epoch = 0]
                           ELSE NotRegistered
      BY <2>1, UnsynchronizedNodes DEF CInv, Shape
    <3>2. ASSUME NEW a \in Members
          PROVE  /\ nodes'[a] # NotRegistered
                 /\ nodes'[a].synchronized_epoch = 0
                 /\ nodes'[a].failures = nodes[a].failures
      <4>1. nodes[a] \in ReplicaRecord /\ nodes'[a] \in ReplicaRecord \cup {NotRegistered}
        BY <3>1, SentinelAssumption DEF CInv, Shape, NodesSound, Members
      <4>2. nodes'[a] = [nodes[a] EXCEPT !.synchronized_epoch = 0] /\ a \in Node
        BY <3>1 DEF Members
      <4>3. [nodes[a] EXCEPT !.synchronized_epoch = 0] \in ReplicaRecord
        BY <4>1, ControllerAssumption DEF ReplicaRecord
      <4>. QED
        BY <4>1, <4>2, <4>3, SentinelAssumption DEF ReplicaRecord
    <3>3. Members' = Members
      BY <3>1, <3>2 DEF Members
    <3>4. threads[Monitor].phase = "evict" => threads'[Monitor] = threads[Monitor]
      BY <2>5 DEF Elect, Threads
    <3>. QED
      BY <2>1, <2>3, <3>1, <3>2, <3>3, <3>4 DEF CInv, Shape, NodesSound
  <2>8. AssignmentSound'
    BY <2>1, <2>2, <2>3, <2>6, <2>7, ControllerAssumption DEF AssignmentSound
  <2>9. PromotionIsDriven' /\ CandidateIsDriven'
    BY <2>4, <2>5, <2>6
    DEF ThreadsSound, Threads, PromotionIsDriven, CandidateIsDriven, Assigned,
        DrivesPromotion
  <2>. QED
    BY <2>5, <2>7, <2>8, <2>9 DEF CInv, Shape
<1>. QED
  BY <1>1, <1>2

-----------------------------------------------------------------------------
(* Reprotection *)

(* An assignment whose fields other than those of a promotion change.       *)
LEMMA ReassignedInv ==
    ASSUME CInv, NEW b \in PrimaryAssignment,
           assignment # NoAssignment, assignment' = b,
           UNCHANGED <<last_primary_epoch, election_in_progress>>,
           b.epoch = assignment.epoch, b.status \in {"ready", "reprotecting"},
           b.status = "ready" => b.candidate = NoNode,
           ThreadsSound', NodesSound',
           b.status = "reprotecting" /\ b.candidate # NoNode =>
             \E t \in Threads : DrivesReplacement(t)'
    PROVE  CInv'
<1>1. b # NoAssignment
  BY SentinelAssumption
<1>2. AssignmentSound'
  BY <1>1 DEF CInv, Shape, AssignmentSound
<1>3. PromotionIsDriven'
  BY <1>1 DEF PromotionIsDriven, Assigned
<1>4. CandidateIsDriven'
  BY <1>1 DEF CandidateIsDriven, Assigned, ThreadsSound, DrivesReplacement
<1>. QED
  BY <1>2, <1>3, <1>4 DEF CInv, Shape

LEMMA TryNextReplacementBackupInv ==
    ASSUME CInv, NEW t \in Threads, TryNextReplacementBackup(t)
    PROVE  CInv'
<1>. DEFINE w == threads[t]
            backup == First(ReplacementCandidates)
            generation == assignment.generation + 1
            next == [w EXCEPT !.phase = "sync_replacement", !.backup = backup,
                              !.generation = generation]
            b == [assignment EXCEPT !.attempted = @ \cup {backup},
                                    !.generation = generation,
                                    !.candidate = backup]
            none == \/ ~AssignmentMatches(w.primary, w.epoch, "reprotecting")
                    \/ assignment.candidate # NoNode
                    \/ ReplacementCandidates = {}
<1>1. SoundThread(w) /\ w.phase = "replace"
  BY DEF CInv, Shape, ThreadsSound, TryNextReplacementBackup
<1>2. CASE none
  <2>1. /\ Continue(t, Free)
        /\ UNCHANGED <<nodes, assignment, last_primary_epoch,
                       election_in_progress>>
    BY <1>2 DEF TryNextReplacementBackup
  <2>2. ThreadsSound' /\ (\A u \in Threads \ {t} : threads'[u] = threads[u])
    BY <2>1, FreeSound, Continues DEF CInv, Shape
  <2>. QED
    BY <1>1, <2>1, <2>2, ThreadStepInv DEF DrivesPromotion, DrivesReplacement
<1>3. CASE ~none
  <2>1. /\ assignment.generation < MaxGeneration
        /\ assignment' = b
        /\ nodes' = [nodes EXCEPT ![backup].synchronized_epoch = 0]
        /\ Continue(t, next)
        /\ UNCHANGED <<last_primary_epoch, election_in_progress>>
    BY <1>3 DEF TryNextReplacementBackup
  <2>2. backup \in Members /\ backup \in Node
    <3>1. ReplacementCandidates \in SUBSET Node
      BY DEF ReplacementCandidates, Members
    <3>2. backup \in ReplacementCandidates
      BY <1>3, <3>1, FirstMember
    <3>. QED
      BY <3>1, <3>2 DEF ReplacementCandidates
  <2>. HIDE DEF backup
  <2>3. /\ assignment # NoAssignment /\ assignment.status = "reprotecting"
        /\ assignment.primary = w.primary /\ assignment.epoch = w.epoch
    BY <1>3 DEF AssignmentMatches
  <2>4. assignment \in PrimaryAssignment
    BY <2>3 DEF CInv, Shape, AssignmentSound
  <2>5. generation \in 0..MaxGeneration
    BY <2>1, <2>4, ControllerAssumption DEF PrimaryAssignment
  <2>. HIDE DEF generation
  <2>6. /\ b \in PrimaryAssignment /\ b.epoch = w.epoch /\ b.primary = w.primary
        /\ b.status = "reprotecting" /\ b.candidate = backup
        /\ b.generation = generation
    <3>1. backup \in Address /\ assignment.attempted \cup {backup} \in SUBSET Node
      BY <2>2, <2>4 DEF Address, PrimaryAssignment
    <3>. QED
      BY <2>3, <2>4, <2>5, <3>1 DEF PrimaryAssignment
  <2>7. /\ SoundThread(next) /\ next.phase = "sync_replacement"
        /\ next.primary = w.primary /\ next.epoch = w.epoch
        /\ next.backup = backup /\ next.generation = generation
    BY <1>1, <2>2, <2>5 DEF SoundThread, Thread, Phase, Detached, Attending, Address
  <2>8. /\ ThreadsSound' /\ threads'[t] = next
        /\ \A u \in Threads \ {t} : threads'[u] = threads[u]
    BY <2>1, <2>7, Continues DEF CInv, Shape
  <2>9. NodesSound'
    BY <1>1, <2>1, <2>2, <2>8, NodeUnsynchronized DEF CInv, Shape, Threads
  <2>10. DrivesReplacement(t)'
    BY <2>1, <2>6, <2>7, <2>8, SentinelAssumption
    DEF DrivesReplacement, IsCurrentCandidate, AssignmentMatches
  <2>. QED
    BY <2>1, <2>3, <2>6, <2>8, <2>9, <2>10, ReassignedInv
<1>. QED
  BY <1>2, <1>3

(* The current assignment after its replacement candidate was given up. *)
LEMMA CandidateCleared ==
    ASSUME CInv, NEW w, IsCurrentCandidate(w)
    PROVE  /\ assignment # NoAssignment
           /\ [assignment EXCEPT !.candidate = NoNode] \in PrimaryAssignment
           /\ [assignment EXCEPT !.candidate = NoNode].epoch = assignment.epoch
           /\ [assignment EXCEPT !.candidate = NoNode].status = "reprotecting"
           /\ [assignment EXCEPT !.candidate = NoNode].candidate = NoNode
<1>1. assignment \in PrimaryAssignment /\ assignment.status = "reprotecting"
  BY DEF IsCurrentCandidate, AssignmentMatches, CInv, Shape, AssignmentSound
<1>. QED
  BY <1>1 DEF IsCurrentCandidate, AssignmentMatches, PrimaryAssignment, Address

LEMMA ReplacementSynchronizationFailsInv ==
    ASSUME CInv, NEW t \in Threads, ReplacementSynchronizationFails(t)
    PROVE  CInv'
<1>. DEFINE w == threads[t]
            next == Working("replace", w.primary, w.epoch)
<1>1. /\ w.primary \in Node /\ w.epoch \in 1..MaxEpoch
      /\ w.phase \in {"sync_replacement", "reported"}
  BY DEF CInv, Shape, ThreadsSound, SoundThread, Detached,
         ReplacementSynchronizationFails
<1>2. SoundThread(next)
  BY <1>1, WorkingSound DEF Phase, Detached, Attending
<1>3. ThreadsSound' /\ (\A u \in Threads \ {t} : threads'[u] = threads[u])
  BY <1>2, Continues DEF CInv, Shape, ReplacementSynchronizationFails
<1>4. CASE IsCurrentCandidate(w)
  <2>1. /\ assignment' = [assignment EXCEPT !.candidate = NoNode]
        /\ UNCHANGED <<nodes, last_primary_epoch, election_in_progress>>
    BY <1>4 DEF ReplacementSynchronizationFails
  <2>2. NodesSound'
    BY <1>1, <1>3, <2>1 DEF CInv, Shape, NodesSound, Members, Threads
  <2>. QED
    BY <1>3, <1>4, <2>1, <2>2, CandidateCleared, ReassignedInv
<1>5. CASE ~IsCurrentCandidate(w)
  BY <1>1, <1>3, <1>5, ThreadStepInv
  DEF ReplacementSynchronizationFails, DrivesPromotion, DrivesReplacement
<1>. QED
  BY <1>4, <1>5

LEMMA RejectReplacementInv ==
    ASSUME CInv, NEW t \in Threads, threads[t].phase = "complete",
           threads[t].status = "reprotecting", RejectReplacement(t)
    PROVE  CInv'
<1>. DEFINE w == threads[t]
<1>1. ThreadsSound' /\ (\A u \in Threads \ {t} : threads'[u] = threads[u])
  BY FreeSound, Continues DEF CInv, Shape, RejectReplacement
<1>2. CASE IsCurrentCandidate(w)
  <2>1. /\ assignment' = [assignment EXCEPT !.candidate = NoNode]
        /\ UNCHANGED <<last_primary_epoch, election_in_progress>>
        /\ nodes' = IF w.backup \in Members
                    THEN [nodes EXCEPT ![w.backup].synchronized_epoch = 0]
                    ELSE nodes
    BY <1>2 DEF RejectReplacement
  <2>2. NodesSound'
    <3>1. CASE w.backup \in Members
      BY <1>1, <2>1, <3>1, NodeUnsynchronized DEF CInv, Shape, Threads
    <3>2. CASE w.backup \notin Members
      BY <1>1, <2>1, <3>2 DEF CInv, Shape, NodesSound, Members, Threads
    <3>. QED
      BY <3>1, <3>2
  <2>. QED
    BY <1>1, <1>2, <2>1, <2>2, CandidateCleared, ReassignedInv
<1>3. CASE ~IsCurrentCandidate(w)
  <2>1. ASSUME Assigned("promoting") PROVE ~DrivesPromotion(t)
    BY <2>1, DriverMatches DEF DrivesPromotion, CompletionExpected, AssignmentMatches
  <2>. QED
    BY <1>1, <1>3, <2>1, ThreadStepInv DEF RejectReplacement, DrivesReplacement
<1>. QED
  BY <1>2, <1>3

-----------------------------------------------------------------------------
(* Completion *)

LEMMA AttendingSound ==
    ASSUME NEW phase \in Phase \ Detached, NEW primary \in Node,
           NEW epoch \in 1..MaxEpoch, NEW backup \in Node
    PROVE  SoundThread([Working(phase, primary, epoch) EXCEPT !.backup = backup])
<1>1. Free \in Thread
  BY FreeSound DEF SoundThread
<1>2. epoch \in 0..MaxEpoch /\ primary \in Address /\ backup \in Address
  BY ControllerAssumption DEF Address
<1>. DEFINE w == Working(phase, primary, epoch)
<1>3. /\ w \in Thread /\ w.phase = phase /\ w.primary = primary
      /\ w.epoch = epoch
  BY <1>1, <1>2 DEF Working, Thread
<1>. HIDE DEF w
<1>4. SoundThread([w EXCEPT !.backup = backup])
  BY <1>2, <1>3 DEF SoundThread, Detached, Thread
<1>. QED
  BY <1>4 DEF w

LEMMA CompletingSound ==
    ASSUME NEW w, SoundThread(w), w.phase \in Attending \ Detached,
           NEW status \in Status, NEW generation \in 0..MaxGeneration
    PROVE  SoundThread([w EXCEPT !.status = status, !.generation = generation])
  BY DEF SoundThread, Detached, Thread

LEMMA ReportSynchronizationCompleteInv ==
    ASSUME CInv, NEW a \in Node, ReportSynchronizationComplete(a)
    PROVE  CInv'
<1>. DEFINE next == [Working("complete", assignment.primary, assignment.epoch)
                       EXCEPT !.backup = a, !.status = assignment.status,
                              !.generation = assignment.generation]
<1>1. /\ assignment \in PrimaryAssignment /\ a \in Members
      /\ assignment.epoch = last_primary_epoch
      /\ last_primary_epoch \in 0..MaxEpoch
  BY DEF ReportSynchronizationComplete, CInv, Shape, AssignmentSound
<1>2. SoundThread(next)
  <2>. DEFINE w == Working("complete", assignment.primary, assignment.epoch)
              x == [w EXCEPT !.backup = a]
              status == assignment.status
              generation == assignment.generation
  <2>1. /\ SoundThread(x) /\ status \in Status
        /\ generation \in 0..MaxGeneration
    BY <1>1, AttendingSound DEF PrimaryAssignment, Phase, Detached
  <2>2. w \in Thread /\ w.phase = "complete"
    <3>1. Free \in Thread
      BY FreeSound DEF SoundThread
    <3>. QED
      BY <1>1, <3>1, ControllerAssumption
      DEF Working, Thread, Phase, PrimaryAssignment, Address
  <2>. HIDE DEF w, status, generation
  <2>3. x.phase = "complete"
    BY <2>2 DEF Thread
  <2>4. SoundThread([x EXCEPT !.status = status, !.generation = generation])
    <3>. HIDE DEF x
    <3>. QED
      BY <2>1, <2>3, CompletingSound DEF Attending, Detached
  <2>5. [x EXCEPT !.status = status, !.generation = generation]
          = [w EXCEPT !.backup = a, !.status = status, !.generation = generation]
    OBVIOUS
  <2>. QED
    BY <2>4, <2>5 DEF w, status, generation
<1>3. /\ ThreadsSound' /\ threads'[Monitor] = threads[Monitor]
      /\ \A u \in Threads \ {Monitor} :
           threads'[u] = threads[u] \/ threads[u].phase = "free"
  <2>1. Spawn(next)
    BY DEF ReportSynchronizationComplete
  <2>2. /\ ThreadsSound'
        /\ \E u \in Worker :
             /\ threads[u].phase = "free" /\ threads'[u] = next
             /\ \A v \in Threads \ {u} : threads'[v] = threads[v]
    BY <1>2, <2>1, Spawns DEF CInv, Shape
  <2>. QED
    BY <2>2, ControllerAssumption DEF Threads
<1>4. /\ nodes' = [nodes EXCEPT ![a].synchronized_epoch = assignment.epoch]
      /\ UNCHANGED <<assignment, last_primary_epoch, election_in_progress>>
  BY DEF ReportSynchronizationComplete
<1>5. NodesSound' /\ Members' = Members
  <2>1. nodes[a] \in ReplicaRecord /\ a \in Node
    BY <1>1, SentinelAssumption DEF CInv, Shape, NodesSound, Members
  <2>2. /\ [nodes[a] EXCEPT !.synchronized_epoch = assignment.epoch]
             \in ReplicaRecord
        /\ [nodes[a] EXCEPT !.synchronized_epoch = assignment.epoch]
             .synchronized_epoch = last_primary_epoch
        /\ [nodes[a] EXCEPT !.synchronized_epoch = assignment.epoch].failures
             = nodes[a].failures
    BY <1>1, <2>1 DEF ReplicaRecord
  <2>3. /\ nodes' \in [Node -> ReplicaRecord \cup {NotRegistered}]
        /\ nodes'[a] = [nodes[a] EXCEPT !.synchronized_epoch = assignment.epoch]
        /\ \A b \in Node \ {a} : nodes'[b] = nodes[b]
    BY <1>4, <2>1, <2>2 DEF CInv, Shape, NodesSound
  <2>4. Members' = Members
    BY <1>1, <2>2, <2>3, SentinelAssumption DEF Members
  <2>5. ASSUME NEW b \in Members
        PROVE  /\ nodes'[b].synchronized_epoch <= last_primary_epoch
               /\ nodes'[b].failures = nodes[b].failures
    <3>1. b \in Node /\ nodes[b].synchronized_epoch <= last_primary_epoch
      BY DEF Members, CInv, Shape, NodesSound
    <3>2. last_primary_epoch \in Nat
      BY <1>1, ControllerAssumption
    <3>3. CASE b = a
      <4>1. /\ nodes'[b].synchronized_epoch = last_primary_epoch
            /\ nodes'[b].failures = nodes[b].failures
        BY <2>2, <2>3, <3>3
      <4>. QED
        BY <3>2, <4>1
    <3>4. CASE b # a
      BY <2>3, <3>1, <3>4
    <3>. QED
      BY <3>3, <3>4
  <2>. QED
    BY <1>3, <1>4, <2>3, <2>4, <2>5 DEF CInv, Shape, NodesSound
<1>6. AssignmentSound'
  BY <1>4, <1>5 DEF CInv, Shape, AssignmentSound
<1>7. DrivesPromotion(Monitor) => DrivesPromotion(Monitor)'
  BY <1>3, <1>4 DEF DrivesPromotion, CompletionExpected, AssignmentMatches
<1>8. DrivesReplacement(Monitor) => DrivesReplacement(Monitor)'
  BY <1>3, <1>4 DEF DrivesReplacement, IsCurrentCandidate, AssignmentMatches
<1>9. Monitor \in Threads
  BY DEF Threads
<1>. QED
  BY <1>3, <1>4, <1>5, <1>6, <1>7, <1>8, <1>9, OthersDrive DEF CInv, Shape

(* The thread that waits for the answer to a report hears it. *)
LEMMA AnswerReportSound ==
    ASSUME ThreadsSound, NEW t \in Threads, AnswerReport(t)
    PROVE  /\ ThreadsSound' /\ threads'[t] = Free
           /\ \A u \in Threads \ {t} :
                \/ threads'[u] = threads[u]
                \/ /\ threads[u].phase \in {"sync_backup", "sync_replacement"}
                   /\ threads[u].backup = threads[t].backup
                   /\ threads[u].primary = threads[t].primary
                   /\ threads[u].epoch = threads[t].epoch
                   /\ threads'[u] = IF threads[u].phase = "sync_backup" THEN Free
                                    ELSE [threads[u] EXCEPT !.phase = "reported"]
<1>1. DOMAIN threads = Threads
  BY DEF ThreadsSound
<1>2. /\ DOMAIN threads' = Threads /\ threads' = [u \in Threads |-> threads'[u]]
      /\ threads'[t] = Free
  BY <1>1 DEF AnswerReport
<1>3. ASSUME NEW u \in Threads \ {t}
      PROVE  \/ threads'[u] = threads[u]
             \/ /\ threads[u].phase \in {"sync_backup", "sync_replacement"}
                /\ threads[u].backup = threads[t].backup
                /\ threads[u].primary = threads[t].primary
                /\ threads[u].epoch = threads[t].epoch
                /\ threads'[u] = IF threads[u].phase = "sync_backup" THEN Free
                                 ELSE [threads[u] EXCEPT !.phase = "reported"]
  BY <1>1 DEF AnswerReport
<1>4. ASSUME NEW u \in Threads
      PROVE  SoundThread(threads'[u])
  <2>1. SoundThread(threads[u])
    BY DEF ThreadsSound
  <2>2. CASE threads[u].phase = "sync_replacement"
    <3>1. SoundThread([threads[u] EXCEPT !.phase = "reported"])
      BY <2>1, <2>2, AdvanceSound DEF Phase, Detached, Attending
    <3>. QED
      BY <1>2, <1>3, <2>1, <2>2, <3>1, FreeSound
  <2>3. CASE threads[u].phase # "sync_replacement"
    BY <1>2, <1>3, <2>1, <2>3, FreeSound
  <2>. QED
    BY <2>2, <2>3
<1>5. ThreadsSound'
  BY <1>2, <1>4 DEF ThreadsSound, SoundThread
<1>. QED
  BY <1>2, <1>3, <1>5

LEMMA CompletionSucceedsInv ==
    ASSUME CInv, NEW t \in Threads, CompletionSucceeds(t)
    PROVE  CInv'
<1>. DEFINE w == threads[t]
            b == [assignment EXCEPT !.backup = w.backup, !.candidate = NoNode,
                                    !.status = "ready"]
<1>1. SoundThread(w) /\ w.phase = "complete"
  BY DEF CInv, Shape, ThreadsSound, CompletionSucceeds
<1>2. CASE CompletionExpected(w)
  <2>1. /\ assignment' = b /\ AnswerReport(t)
        /\ UNCHANGED <<nodes, last_primary_epoch, election_in_progress>>
    BY <1>2 DEF CompletionSucceeds
  <2>2. assignment # NoAssignment /\ assignment \in PrimaryAssignment
    BY <1>2 DEF CompletionExpected, AssignmentMatches, CInv, Shape, AssignmentSound
  <2>3. /\ b \in PrimaryAssignment /\ b.epoch = assignment.epoch
        /\ b.status = "ready" /\ b.candidate = NoNode
    BY <1>1, <2>2
    DEF SoundThread, Attending, PrimaryAssignment, Address, Status
  <2>4. /\ ThreadsSound'
        /\ threads[Monitor].phase = "evict" => threads'[Monitor] = threads[Monitor]
    BY <1>1, <2>1, AnswerReportSound DEF CInv, Shape, Threads
  <2>5. NodesSound'
    BY <2>1, <2>4 DEF CInv, Shape, NodesSound, Members
  <2>. QED
    BY <2>1, <2>2, <2>3, <2>4, <2>5, ReassignedInv
<1>3. CASE ~CompletionExpected(w)
  <2>1. /\ Continue(t, Free)
        /\ UNCHANGED <<nodes, assignment, last_primary_epoch,
                       election_in_progress>>
    BY <1>3 DEF CompletionSucceeds
  <2>2. ThreadsSound' /\ (\A u \in Threads \ {t} : threads'[u] = threads[u])
    BY <2>1, FreeSound, Continues DEF CInv, Shape
  <2>. QED
    BY <1>1, <1>3, <2>1, <2>2, ThreadStepInv DEF DrivesPromotion, DrivesReplacement
<1>. QED
  BY <1>2, <1>3

LEMMA CompletionFailsInv ==
    ASSUME CInv, NEW t \in Threads, CompletionUnanswered(t) \/ CompletionRejected(t)
    PROVE  CInv'
  BY AbandonInv, RejectReplacementInv, CandidateFailedInv
  DEF CompletionUnanswered, CompletionRejected

-----------------------------------------------------------------------------
(* The heartbeat monitor *)

LEMMA MonitorThread == Monitor \in Threads
  BY DEF Threads

LEMMA EvictSound ==
    ASSUME NEW a \in Node
    PROVE  LET w == [Free EXCEPT !.phase = "evict", !.backup = a]
           IN SoundThread(w) /\ w.phase = "evict" /\ w.backup = a
<1>1. Free \in Thread
  BY FreeSound DEF SoundThread
<1>. QED
  BY <1>1 DEF SoundThread, Thread, Phase, Detached, Attending, Address

(* A probe changes the failures of one member. *)
LEMMA Probed ==
    ASSUME NodesSound, NEW a \in Members, NEW failures \in 0..Eviction,
           nodes' = [nodes EXCEPT ![a].failures = failures]
    PROVE  /\ nodes' \in [Node -> ReplicaRecord \cup {NotRegistered}]
           /\ Members' = Members
           /\ nodes'[a].failures = failures
           /\ nodes'[a].synchronized_epoch = nodes[a].synchronized_epoch
           /\ \A b \in Members \ {a} : nodes'[b] = nodes[b]
<1>1. nodes[a] \in ReplicaRecord /\ a \in Node
  BY SentinelAssumption DEF NodesSound, Members
<1>2. /\ [nodes[a] EXCEPT !.failures = failures] \in ReplicaRecord
      /\ [nodes[a] EXCEPT !.failures = failures].failures = failures
      /\ [nodes[a] EXCEPT !.failures = failures].synchronized_epoch
           = nodes[a].synchronized_epoch
  BY <1>1 DEF ReplicaRecord
<1>3. /\ nodes' \in [Node -> ReplicaRecord \cup {NotRegistered}]
      /\ nodes'[a] = [nodes[a] EXCEPT !.failures = failures]
      /\ \A b \in Node \ {a} : nodes'[b] = nodes[b]
  BY <1>1, <1>2 DEF NodesSound
<1>4. Members' = Members
  BY <1>2, <1>3, SentinelAssumption DEF Members
<1>. QED
  BY <1>2, <1>3, <1>4 DEF Members

LEMMA HeartbeatFailsInv ==
    ASSUME CInv, NEW a \in Node, HeartbeatFails(a)
    PROVE  CInv'
<1>. DEFINE failures == nodes[a].failures + 1
            evict == [Free EXCEPT !.phase = "evict", !.backup = a]
<1>1. /\ a \in Members /\ threads[Monitor].phase = "free"
      /\ nodes' = [nodes EXCEPT ![a].failures = failures]
      /\ UNCHANGED <<assignment, last_primary_epoch, election_in_progress>>
      /\ IF failures >= Eviction THEN Continue(Monitor, evict)
         ELSE UNCHANGED threads
  BY DEF HeartbeatFails
<1>2. nodes[a] \in ReplicaRecord /\ nodes[a].failures < Eviction
  BY <1>1, SentinelAssumption DEF CInv, Shape, NodesSound, Members
<1>3. failures \in 0..Eviction
  BY <1>2, ControllerAssumption DEF ReplicaRecord
<1>. HIDE DEF failures
<1>4. /\ nodes' \in [Node -> ReplicaRecord \cup {NotRegistered}]
      /\ Members' = Members
      /\ nodes'[a].failures = failures
      /\ nodes'[a].synchronized_epoch = nodes[a].synchronized_epoch
      /\ \A b \in Members \ {a} : nodes'[b] = nodes[b]
  BY <1>1, <1>3, Probed DEF CInv, Shape
<1>5. /\ ThreadsSound'
      /\ \A u \in Threads \ {Monitor} : threads'[u] = threads[u]
      /\ \/ failures < Eviction
         \/ threads'[Monitor].phase = "evict" /\ threads'[Monitor].backup = a
  <2>1. CASE failures >= Eviction
    <3>1. SoundThread(evict) /\ evict.phase = "evict" /\ evict.backup = a
      BY EvictSound
    <3>. QED
      BY <1>1, <2>1, <3>1, MonitorThread, Continues DEF CInv, Shape
  <2>2. CASE ~(failures >= Eviction)
    BY <1>1, <1>3, <2>2, ControllerAssumption DEF CInv, Shape, ThreadsSound
  <2>. QED
    BY <2>1, <2>2
<1>6. NodesSound'
  <2>1. ASSUME NEW b \in Members, b # a
        PROVE  nodes'[b] = nodes[b] /\ nodes[b].failures < Eviction
    BY <1>1, <1>4, <2>1 DEF CInv, Shape, NodesSound
  <2>. QED
    BY <1>1, <1>4, <1>5, <2>1 DEF CInv, Shape, NodesSound
<1>7. AssignmentSound'
  BY <1>1, <1>4 DEF CInv, Shape, AssignmentSound
<1>8. ~DrivesPromotion(Monitor) /\ ~DrivesReplacement(Monitor)
  BY <1>1 DEF DrivesPromotion, DrivesReplacement
<1>. QED
  BY <1>1, <1>5, <1>6, <1>7, <1>8, MonitorThread, OthersDrive DEF CInv, Shape

(* A ready assignment that is unprotected again, and the thread that will   *)
(* look for a backup.                                                       *)
LEMMA UnprotectedTyped ==
    ASSUME NEW b \in PrimaryAssignment
    PROVE  /\ Unprotected(b) \in PrimaryAssignment
           /\ Unprotected(b).epoch = b.epoch /\ Unprotected(b).primary = b.primary
           /\ Unprotected(b).status = "reprotecting"
           /\ Unprotected(b).candidate = NoNode
           /\ Unprotected(b).backup = NoNode
  BY DEF Unprotected, PrimaryAssignment, Status, Address

LEMMA ReplaceSpawned ==
    ASSUME ThreadsSound, NEW b \in PrimaryAssignment,
           Spawn(Working("replace", b.primary, b.epoch))
    PROVE  /\ ThreadsSound' /\ threads'[Monitor] = threads[Monitor]
           /\ \E u \in Worker :
                /\ threads[u].phase = "free"
                /\ threads'[u] = Working("replace", b.primary, b.epoch)
                /\ \A v \in Threads \ {u} : threads'[v] = threads[v]
<1>1. SoundThread(Working("replace", b.primary, b.epoch))
  BY WorkingSound DEF PrimaryAssignment, Phase, Detached, Attending
<1>. QED
  BY <1>1, Spawns, MonitorThread, ControllerAssumption

LEMMA HeartbeatAnsweredInv ==
    ASSUME CInv, NEW a \in Node, NEW r, HeartbeatAnswered(a, r)
    PROVE  CInv'
<1>. DEFINE lost == /\ assignment # NoAssignment
                    /\ assignment.status = "ready" /\ a = assignment.backup
                    /\ ~ReadyBackupReport(r, assignment.epoch)
<1>1. /\ a \in Members /\ threads[Monitor].phase = "free"
      /\ nodes' = [nodes EXCEPT ![a].failures = 0]
      /\ UNCHANGED <<last_primary_epoch, election_in_progress>>
  BY DEF HeartbeatAnswered
<1>2. /\ nodes' \in [Node -> ReplicaRecord \cup {NotRegistered}]
      /\ Members' = Members
      /\ nodes'[a].failures = 0
      /\ nodes'[a].synchronized_epoch = nodes[a].synchronized_epoch
      /\ \A b \in Members \ {a} : nodes'[b] = nodes[b]
  <2>1. 0 \in 0..Eviction
    BY ControllerAssumption
  <2>. QED
    BY <1>1, <2>1, Probed DEF CInv, Shape
<1>3. ASSUME NEW b \in Members
      PROVE  /\ nodes'[b].synchronized_epoch <= last_primary_epoch
             /\ nodes'[b].failures < Eviction
  BY <1>1, <1>2, ControllerAssumption DEF CInv, Shape, NodesSound
<1>4. NodesSound'
  BY <1>1, <1>2, <1>3 DEF NodesSound
<1>5. CASE lost
  <2>1. /\ assignment' = Unprotected(assignment)
        /\ Spawn(Working("replace", assignment.primary, assignment.epoch))
        /\ assignment # NoAssignment
    BY <1>5 DEF HeartbeatAnswered
  <2>2. assignment \in PrimaryAssignment
    BY <2>1 DEF CInv, Shape, AssignmentSound
  <2>3. ThreadsSound'
    BY <2>1, <2>2, ReplaceSpawned DEF CInv, Shape
  <2>. QED
    BY <1>1, <1>4, <2>1, <2>2, <2>3, UnprotectedTyped, ReassignedInv
<1>6. CASE ~lost
  <2>1. UNCHANGED <<assignment, threads>>
    BY <1>6 DEF HeartbeatAnswered
  <2>2. AssignmentSound' /\ ThreadsSound'
    BY <1>1, <1>2, <2>1 DEF CInv, Shape, AssignmentSound, ThreadsSound
  <2>3. ~DrivesPromotion(Monitor) /\ ~DrivesReplacement(Monitor)
    BY <1>1 DEF DrivesPromotion, DrivesReplacement
  <2>. QED
    BY <1>1, <1>4, <2>1, <2>2, <2>3, MonitorThread, OthersDrive DEF CInv, Shape
<1>. QED
  BY <1>5, <1>6

(* The evicted replica is gone, and nobody else is at the limit. *)
LEMMA Evicted ==
    ASSUME Shape, NEW a, threads[Monitor].phase = "evict",
           a = threads[Monitor].backup,
           nodes' = [nodes EXCEPT ![a] = NotRegistered],
           UNCHANGED last_primary_epoch
    PROVE  NodesSound' /\ Members' = Members \ {a}
<1>1. /\ nodes' \in [Node -> ReplicaRecord \cup {NotRegistered}]
      /\ Members' = Members \ {a}
      /\ \A b \in Members' : nodes'[b] = nodes[b]
  BY DEF Shape, NodesSound, Members
<1>. QED
  BY <1>1 DEF Shape, NodesSound

LEMMA EvictBackupInv ==
    ASSUME CInv, NEW a \in Node, threads[Monitor].phase = "evict",
           NodesSound', Members' = Members \ {a}, EvictBackup(a),
           UNCHANGED last_primary_epoch
    PROVE  CInv'
<1>1. /\ assignment \in PrimaryAssignment /\ assignment # NoAssignment
      /\ assignment.primary # a /\ assignment.backup = a
      /\ election_in_progress' = election_in_progress
  BY DEF EvictBackup, CInv, Shape, AssignmentSound
<1>2. /\ assignment.primary \in Node /\ assignment.epoch \in 1..MaxEpoch
  BY <1>1 DEF PrimaryAssignment
<1>3. CASE assignment.status = "promoting"
  <2>. DEFINE next == [Working("backup_failed", assignment.primary,
                               assignment.epoch) EXCEPT !.backup = a]
  <2>1. Continue(Monitor, next) /\ assignment' = assignment
    BY <1>3 DEF EvictBackup
  <2>2. /\ SoundThread(next) /\ next.phase = "backup_failed"
        /\ next.primary = assignment.primary /\ next.epoch = assignment.epoch
        /\ next.backup = a
    <3>1. Free \in Thread
      BY FreeSound DEF SoundThread
    <3>2. SoundThread(next)
      BY <1>2, AttendingSound, ControllerAssumption DEF Phase, Detached, Status
    <3>. QED
      BY <3>1, <3>2 DEF Working, Thread
  <2>3. ThreadsSound' /\ threads'[Monitor] = next
    BY <2>1, <2>2, MonitorThread, Continues DEF CInv, Shape
  <2>4. AssignmentSound'
    BY <1>1, <2>1 DEF CInv, Shape, AssignmentSound
  <2>5. DrivesPromotion(Monitor)'
    BY <1>1, <2>1, <2>2, <2>3 DEF DrivesPromotion
  <2>6. PromotionIsDriven' /\ CandidateIsDriven'
    BY <1>1, <1>3, <2>1, <2>3, <2>5, MonitorThread
    DEF ThreadsSound, PromotionIsDriven, CandidateIsDriven, Assigned
  <2>. QED
    BY <2>3, <2>4, <2>6 DEF CInv, Shape
<1>4. CASE assignment.status = "ready"
  <2>. DEFINE b == [assignment EXCEPT !.status = "reprotecting",
                                      !.backup = NoNode, !.attempted = {}]
              next == Working("replace", assignment.primary, assignment.epoch)
  <2>1. assignment' = b /\ ContinueAndSpawn(Monitor, Free, next)
    BY <1>4 DEF EvictBackup
  <2>2. /\ b \in PrimaryAssignment /\ b.epoch = assignment.epoch
        /\ b.status = "reprotecting" /\ b.candidate = assignment.candidate
        /\ assignment.candidate = NoNode
    BY <1>1, <1>4
    DEF PrimaryAssignment, Status, Address, CInv, Shape, AssignmentSound
  <2>3. SoundThread(next)
    BY <1>2, WorkingSound DEF Phase, Detached, Attending
  <2>4. ThreadsSound'
    BY <2>1, <2>3, FreeSound, MonitorThread, ContinuesAndSpawns DEF CInv, Shape
  <2>. QED
    BY <1>1, <2>1, <2>2, <2>4, ReassignedInv
<1>. QED
  BY <1>3, <1>4 DEF EvictBackup

LEMMA EvictOtherInv ==
    ASSUME CInv, NEW a \in Node, threads[Monitor].phase = "evict",
           NodesSound', Members' = Members \ {a}, EvictOther(a),
           UNCHANGED last_primary_epoch
    PROVE  CInv'
<1>1. /\ assignment \in PrimaryAssignment /\ assignment # NoAssignment
      /\ assignment.primary # a
      /\ election_in_progress' = election_in_progress
  BY DEF EvictOther, CInv, Shape, AssignmentSound
<1>2. /\ assignment.primary \in Node /\ assignment.epoch \in 1..MaxEpoch
  BY <1>1 DEF PrimaryAssignment
<1>3. CASE assignment.status = "reprotecting" /\ assignment.candidate = a
  <2>. DEFINE b == [assignment EXCEPT !.candidate = NoNode]
              next == Working("replace", assignment.primary, assignment.epoch)
  <2>1. assignment' = b /\ ContinueAndSpawn(Monitor, Free, next)
    BY <1>3 DEF EvictOther
  <2>2. /\ b \in PrimaryAssignment /\ b.epoch = assignment.epoch
        /\ b.status = "reprotecting" /\ b.candidate = NoNode
    BY <1>1, <1>3 DEF PrimaryAssignment, Address
  <2>3. SoundThread(next)
    BY <1>2, WorkingSound DEF Phase, Detached, Attending
  <2>4. ThreadsSound'
    BY <2>1, <2>3, FreeSound, MonitorThread, ContinuesAndSpawns DEF CInv, Shape
  <2>. QED
    BY <1>1, <2>1, <2>2, <2>4, ReassignedInv
<1>4. CASE ~(assignment.status = "reprotecting" /\ assignment.candidate = a)
  <2>1. Continue(Monitor, Free) /\ assignment' = assignment
    BY <1>4 DEF EvictOther
  <2>2. /\ ThreadsSound'
        /\ \A u \in Threads \ {Monitor} : threads'[u] = threads[u]
    BY <2>1, FreeSound, MonitorThread, Continues DEF CInv, Shape
  <2>3. AssignmentSound'
    BY <1>1, <2>1 DEF CInv, Shape, AssignmentSound
  <2>. QED
    BY <1>1, <2>1, <2>2, <2>3, MonitorThread, OthersDrive
    DEF CInv, Shape, DrivesPromotion, DrivesReplacement
<1>. QED
  BY <1>3, <1>4

LEMMA HandleReplicaFailureInv ==
    ASSUME CInv, HandleReplicaFailure
    PROVE  CInv'
<1>. DEFINE a == threads[Monitor].backup
<1>1. /\ threads[Monitor].phase = "evict" /\ a \in Node
      /\ UNCHANGED last_primary_epoch
  BY MonitorThread
  DEF HandleReplicaFailure, CInv, Shape, ThreadsSound, SoundThread, Attending
<1>2. ~DrivesPromotion(Monitor) /\ ~DrivesReplacement(Monitor)
  BY <1>1 DEF DrivesPromotion, DrivesReplacement
<1>3. CASE a \notin Members
  <2>1. /\ Continue(Monitor, Free)
        /\ UNCHANGED <<nodes, assignment, election_in_progress>>
    BY <1>3 DEF HandleReplicaFailure
  <2>2. /\ ThreadsSound'
        /\ \A u \in Threads \ {Monitor} : threads'[u] = threads[u]
    BY <2>1, FreeSound, MonitorThread, Continues DEF CInv, Shape
  <2>3. NodesSound' /\ AssignmentSound'
    BY <1>1, <1>3, <2>1 DEF CInv, Shape, NodesSound, AssignmentSound, Members
  <2>. QED
    BY <1>2, <2>1, <2>2, <2>3, MonitorThread, OthersDrive DEF CInv, Shape
<1>4. CASE a \in Members
  <2>1. nodes' = [nodes EXCEPT ![a] = NotRegistered]
    BY <1>4 DEF HandleReplicaFailure
  <2>2. NodesSound' /\ Members' = Members \ {a}
    BY <1>1, <2>1, Evicted DEF CInv, Shape
  <2>3. CASE EvictUnassigned(a)
    <3>1. ThreadsSound' /\ \A u \in Threads \ {Monitor} : threads'[u] = threads[u]
      <4>1. SoundThread([Free EXCEPT !.phase = "elect", !.eligible = AnyEligible])
        BY ElectSound
      <4>. QED
        BY <2>3, <4>1, FreeSound, MonitorThread, Continues
        DEF EvictUnassigned, CInv, Shape
    <3>2. AssignmentSound' /\ UNCHANGED <<assignment, election_in_progress>>
      BY <1>1, <2>3 DEF EvictUnassigned, CInv, Shape, AssignmentSound
    <3>. QED
      BY <1>2, <2>2, <3>1, <3>2, MonitorThread, OthersDrive DEF CInv, Shape
  <2>4. CASE EvictPrimary(a)
    <3>1. /\ assignment' = NoAssignment /\ election_in_progress' = FALSE
      BY <2>4 DEF EvictPrimary
    <3>2. ThreadsSound'
      <4>1. PICK e \in (SUBSET Node) \cup {AnyEligible} :
              Continue(Monitor, [Free EXCEPT !.phase = "elect", !.eligible = e])
        <5>1. CASE assignment.backup \in Members \ {a}
          BY <2>4, <5>1 DEF EvictPrimary, Members
        <5>2. CASE assignment.backup \notin Members \ {a}
          BY <2>4, <5>2 DEF EvictPrimary
        <5>. QED
          BY <5>1, <5>2
      <4>2. SoundThread([Free EXCEPT !.phase = "elect", !.eligible = e])
        BY ElectSound
      <4>. QED
        BY <4>1, <4>2, MonitorThread, Continues DEF CInv, Shape
    <3>3. AssignmentSound' /\ PromotionIsDriven' /\ CandidateIsDriven'
      BY <1>1, <3>1
      DEF CInv, Shape, AssignmentSound, PromotionIsDriven, CandidateIsDriven,
          Assigned
    <3>. QED
      BY <2>2, <3>2, <3>3 DEF CInv, Shape
  <2>. QED
    BY <1>1, <1>4, <2>2, <2>3, <2>4, EvictBackupInv, EvictOtherInv
    DEF HandleReplicaFailure
<1>. QED
  BY <1>3, <1>4

-----------------------------------------------------------------------------
(* Registration and restart *)

(* A registration leaves the assignment alone, takes it away, or makes one  *)
(* without a promotion and without a candidate; one that was not there      *)
(* before is ready only if there was none.                                  *)
RegistrationOutcome ==
    \/ UNCHANGED <<assignment, last_primary_epoch, election_in_progress>>
    \/ /\ assignment' = NoAssignment /\ election_in_progress' = FALSE
       /\ last_primary_epoch' \in 0..MaxEpoch
       /\ last_primary_epoch' >= last_primary_epoch
    \/ /\ assignment' \in PrimaryAssignment
       /\ assignment'.epoch = last_primary_epoch'
       /\ last_primary_epoch' >= last_primary_epoch
       /\ assignment'.status \in {"ready", "reprotecting"}
       /\ assignment'.candidate = NoNode
       /\ election_in_progress' \in BOOLEAN
       /\ assignment'.status = "ready" =>
            assignment = NoAssignment \/ assignment' = assignment

LEMMA Registration ==
    ASSUME CInv, NEW a \in Node, NEW r \in Report, RegisterNode(a, r)
    PROVE  /\ RegistrationOutcome
           /\ \/ UNCHANGED threads
              \/ \E b \in PrimaryAssignment :
                   Spawn(Working("replace", b.primary, b.epoch))
           /\ nodes' \in [Node -> ReplicaRecord \cup {NotRegistered}]
           /\ Members' = Members \cup {a}
           /\ nodes'[a].failures = 0
           /\ nodes'[a].synchronized_epoch <= last_primary_epoch'
           /\ \A b \in Members \ {a} : nodes'[b] = nodes[b]
<1>. DEFINE record == [synchronized_epoch |->
                         IF ReportsSynchronized(a, r) THEN r.epoch ELSE 0,
                       failures |-> 0]
            members == [nodes EXCEPT ![a] = record]
            known == IF r.epoch > last_primary_epoch THEN r.epoch
                     ELSE last_primary_epoch
            invalidated == /\ assignment # NoAssignment
                           /\ r.epoch > assignment.epoch
            missing == assignment = NoAssignment \/ invalidated
            current == IF missing THEN RecoveredAssignment(a, r, members, known)
                       ELSE assignment
            assigned == current # NoAssignment
            lost == /\ assigned /\ current.status = "ready" /\ a = current.backup
                    /\ ~ReadyBackupReport(r, current.epoch)
            waiting == /\ assigned /\ current.status = "reprotecting"
                       /\ current.candidate = NoNode /\ a # current.primary
            bare == /\ assigned /\ current.status = "ready"
                    /\ current.backup = NoNode /\ a # current.primary
            restored == /\ missing /\ assigned /\ known > 0
                        /\ current.status = "reprotecting"
            started == lost \/ waiting \/ bare \/ restored
<1>1. /\ nodes' = members
      /\ last_primary_epoch' = IF assigned /\ known = 0 THEN 1 ELSE known
      /\ assignment' = IF lost \/ bare THEN Unprotected(current)
                       ELSE IF waiting
                       THEN [current EXCEPT !.attempted = @ \ {a}]
                       ELSE current
      /\ election_in_progress' = (election_in_progress /\ ~invalidated)
      /\ IF started THEN Spawn(Working("replace", current.primary, current.epoch))
         ELSE UNCHANGED threads
  BY DEF RegisterNode
<1>2. /\ r.epoch \in 0..MaxEpoch /\ r.backup \in Address
      /\ r.epoch \in Nat /\ MaxEpoch \in Nat \ {0}
      /\ last_primary_epoch \in 0..MaxEpoch /\ last_primary_epoch \in Nat
      /\ election_in_progress \in BOOLEAN
  <2>1. r.epoch \in 0..MaxEpoch /\ r.backup \in Address
    <3>1. CASE r \in BackupReport
      BY <3>1 DEF BackupReport, Address
    <3>2. CASE r \in PrimaryReport
      BY <3>2, ControllerAssumption DEF PrimaryReport
    <3>. QED
      BY <3>1, <3>2 DEF Report
  <2>2. last_primary_epoch \in 0..MaxEpoch /\ election_in_progress \in BOOLEAN
    BY DEF CInv, Shape, AssignmentSound
  <2>3. MaxEpoch \in Nat \ {0}
    BY ControllerAssumption
  <2>. QED
    BY <2>1, <2>2, <2>3
<1>3. /\ known \in 0..MaxEpoch /\ known >= last_primary_epoch /\ known >= r.epoch
      /\ known \in Nat
  BY <1>2
<1>4. /\ record \in ReplicaRecord /\ record.failures = 0
      /\ record.synchronized_epoch <= r.epoch
  BY <1>2, ControllerAssumption DEF ReplicaRecord
<1>. HIDE DEF record
<1>5. /\ members \in [Node -> ReplicaRecord \cup {NotRegistered}]
      /\ members[a] = record
      /\ \A b \in Node \ {a} : members[b] = nodes[b]
  BY <1>4 DEF CInv, Shape, NodesSound
<1>6. Members' = Members \cup {a}
  BY <1>1, <1>4, <1>5, SentinelAssumption DEF Members
<1>. HIDE DEF members
<1>7. CASE missing
  <2>1. current = RecoveredAssignment(a, r, members, known)
    BY <1>7
  <2>2. assigned =>
          /\ current \in PrimaryAssignment
          /\ current.status \in {"ready", "reprotecting"}
          /\ current.candidate = NoNode
          /\ current.epoch = IF known = 0 THEN 1 ELSE known
          /\ current.status = "ready" =>
               /\ r.backup \in Node \ {a} /\ members[r.backup] # NotRegistered
               /\ members[r.backup].synchronized_epoch = r.epoch
    <3>. DEFINE recovers == /\ r.role = "primary" /\ r.epoch > 0
                            /\ r.epoch = known /\ r.ready
                            /\ r.backup \notin {NoNode, a}
                            /\ members[r.backup] # NotRegistered
    <3>1. CASE recovers
      <4>1. /\ r.epoch \in 1..MaxEpoch /\ r.backup \in Node \ {a}
            /\ known = r.epoch /\ known # 0
        BY <1>2, <3>1 DEF Address
      <4>2. CASE members[r.backup].synchronized_epoch = r.epoch
        <5>1. current = Assign(a, r.epoch, "ready", r.backup)
          BY <2>1, <3>1, <4>2 DEF RecoveredAssignment
        <5>. QED
          BY <3>1, <4>1, <4>2, <5>1, AssignTyped DEF Status, Address, Assign
      <4>3. CASE members[r.backup].synchronized_epoch # r.epoch
        <5>1. current = Assign(a, r.epoch, "reprotecting", NoNode)
          BY <2>1, <3>1, <4>3 DEF RecoveredAssignment
        <5>. QED
          BY <4>1, <5>1, AssignTyped DEF Status, Address, Assign
      <4>. QED
        BY <4>2, <4>3
    <3>2. CASE ~recovers /\ known = 0
      <4>1. current = Assign(a, 1, "reprotecting", NoNode)
        BY <2>1, <3>2 DEF RecoveredAssignment
      <4>. QED
        BY <1>2, <3>2, <4>1, AssignTyped DEF Status, Address, Assign
    <3>3. CASE ~recovers /\ known # 0
      BY <2>1, <3>3 DEF RecoveredAssignment
    <3>. QED
      BY <3>1, <3>2, <3>3
  <2>3. assigned /\ current.status = "ready" => assignment = NoAssignment
    <3>. SUFFICES ASSUME assigned, current.status = "ready", invalidated
                  PROVE  FALSE
      BY <1>7
    <3>1. r.backup \in Members /\ nodes[r.backup].synchronized_epoch = r.epoch
      BY <1>5, <2>2 DEF Members
    <3>2. nodes[r.backup].synchronized_epoch <= last_primary_epoch
      BY <3>1 DEF CInv, Shape, NodesSound
    <3>3. assignment.epoch = last_primary_epoch
      BY DEF CInv, Shape, AssignmentSound
    <3>. QED
      BY <1>2, <3>1, <3>2, <3>3
  <2>. HIDE DEF current
  <2>4. CASE assigned
    <3>1. current # NoAssignment /\ current \in PrimaryAssignment
      BY <2>2, <2>4
    <3>2. [current EXCEPT !.attempted = @ \ {a}] \in PrimaryAssignment
      BY <3>1 DEF PrimaryAssignment
    <3>3. /\ assignment' \in PrimaryAssignment
          /\ assignment'.epoch = current.epoch /\ assignment'.candidate = NoNode
          /\ assignment'.status \in {"ready", "reprotecting"}
          /\ assignment'.status = "ready" => current.status = "ready"
      <4>1. CASE lost \/ bare
        BY <1>1, <3>1, <4>1, UnprotectedTyped
      <4>2. CASE waiting /\ ~(lost \/ bare)
        BY <1>1, <2>2, <3>1, <3>2, <4>2 DEF PrimaryAssignment
      <4>3. CASE ~waiting /\ ~(lost \/ bare)
        BY <1>1, <2>2, <3>1, <4>3
      <4>. QED
        BY <4>1, <4>2, <4>3
    <3>4. last_primary_epoch' = current.epoch
      BY <1>1, <2>2, <2>4
    <3>5. last_primary_epoch' >= last_primary_epoch
      BY <1>1, <1>2, <1>3
    <3>6. RegistrationOutcome
      BY <1>1, <1>2, <2>3, <2>4, <3>3, <3>4, <3>5 DEF RegistrationOutcome
    <3>7. record.synchronized_epoch <= last_primary_epoch'
      BY <1>1, <1>2, <1>3, <1>4 DEF ReplicaRecord
    <3>. QED
      BY <1>1, <1>4, <1>5, <1>6, <3>1, <3>6, <3>7 DEF Members
  <2>5. CASE ~assigned
    <3>1. /\ assignment' = NoAssignment /\ last_primary_epoch' = known
          /\ UNCHANGED threads
      BY <1>1, <2>5
    <3>2. election_in_progress' = FALSE
      BY <1>1, <1>2, <1>7 DEF CInv, PromotionIsDriven
    <3>3. RegistrationOutcome
      BY <1>3, <3>1, <3>2 DEF RegistrationOutcome
    <3>4. record.synchronized_epoch <= last_primary_epoch'
      BY <1>2, <1>3, <1>4, <3>1 DEF ReplicaRecord
    <3>. QED
      BY <1>1, <1>4, <1>5, <1>6, <3>1, <3>3, <3>4 DEF Members
  <2>. QED
    BY <2>4, <2>5
<1>8. CASE ~missing
  <2>1. /\ current = assignment /\ assigned /\ assignment \in PrimaryAssignment
        /\ assignment.epoch = last_primary_epoch /\ ~invalidated
    BY <1>8 DEF CInv, Shape, AssignmentSound
  <2>2. /\ last_primary_epoch' = last_primary_epoch
        /\ election_in_progress' = election_in_progress
        /\ r.epoch <= last_primary_epoch
    <3>1. assignment.epoch \in 1..MaxEpoch
      BY <2>1 DEF PrimaryAssignment
    <3>2. r.epoch <= last_primary_epoch /\ last_primary_epoch # 0
      BY <1>2, <2>1, <3>1
    <3>. QED
      BY <1>1, <1>2, <2>1, <3>2
  <2>. HIDE DEF current
  <2>3. RegistrationOutcome
    <3>1. CASE lost \/ bare
      <4>1. assignment' = Unprotected(assignment)
        BY <1>1, <2>1, <3>1
      <4>. QED
        BY <1>2, <2>1, <2>2, <4>1, UnprotectedTyped DEF RegistrationOutcome
    <3>2. CASE waiting /\ ~(lost \/ bare)
      <4>1. assignment' = [assignment EXCEPT !.attempted = @ \ {a}]
        BY <1>1, <2>1, <3>2
      <4>2. /\ assignment' \in PrimaryAssignment
            /\ assignment'.epoch = assignment.epoch
            /\ assignment'.status = "reprotecting"
            /\ assignment'.candidate = NoNode
        BY <2>1, <3>2, <4>1 DEF PrimaryAssignment
      <4>. QED
        BY <1>2, <2>1, <2>2, <4>2 DEF RegistrationOutcome
    <3>3. CASE ~waiting /\ ~(lost \/ bare)
      BY <1>1, <2>1, <2>2, <3>3 DEF RegistrationOutcome
    <3>. QED
      BY <3>1, <3>2, <3>3
  <2>4. record.synchronized_epoch <= last_primary_epoch'
    BY <1>2, <1>4, <2>2 DEF ReplicaRecord
  <2>. QED
    BY <1>1, <1>4, <1>5, <1>6, <2>1, <2>3, <2>4 DEF Members
<1>. QED
  BY <1>7, <1>8

LEMMA RegisterNodeInv ==
    ASSUME CInv, NEW a \in Node, NEW r \in Report, RegisterNode(a, r)
    PROVE  CInv'
<1>1. /\ nodes' \in [Node -> ReplicaRecord \cup {NotRegistered}]
      /\ Members' = Members \cup {a}
      /\ nodes'[a].failures = 0
      /\ nodes'[a].synchronized_epoch <= last_primary_epoch'
      /\ \A b \in Members \ {a} : nodes'[b] = nodes[b]
      /\ RegistrationOutcome
  BY Registration
<1>2. /\ ThreadsSound' /\ threads'[Monitor] = threads[Monitor]
      /\ \A u \in Threads \ {Monitor} :
           threads'[u] = threads[u] \/ threads[u].phase = "free"
  <2>1. CASE UNCHANGED threads
    BY <2>1 DEF CInv, Shape, ThreadsSound
  <2>2. ASSUME NEW b \in PrimaryAssignment,
               Spawn(Working("replace", b.primary, b.epoch))
        PROVE  /\ ThreadsSound' /\ threads'[Monitor] = threads[Monitor]
               /\ \A u \in Threads \ {Monitor} :
                    threads'[u] = threads[u] \/ threads[u].phase = "free"
    BY <2>2, ReplaceSpawned DEF CInv, Shape
  <2>. QED
    BY <2>1, <2>2, Registration
<1>3. NodesSound'
  <2>1. /\ last_primary_epoch \in Nat /\ last_primary_epoch' \in Nat
        /\ last_primary_epoch <= last_primary_epoch'
    <3>1. last_primary_epoch \in 0..MaxEpoch
      BY DEF CInv, Shape, AssignmentSound
    <3>. QED
      BY <1>1, <3>1, ControllerAssumption
      DEF RegistrationOutcome, PrimaryAssignment
  <2>2. ASSUME NEW b \in Members, b # a
        PROVE  nodes'[b].synchronized_epoch <= last_primary_epoch'
    <3>1. nodes[b] \in ReplicaRecord /\ nodes'[b] = nodes[b]
      BY <1>1, <2>2, SentinelAssumption DEF CInv, Shape, NodesSound, Members
    <3>2. nodes[b].synchronized_epoch <= last_primary_epoch
      BY DEF CInv, Shape, NodesSound
    <3>. QED
      BY <2>1, <3>1, <3>2, ControllerAssumption DEF ReplicaRecord
  <2>3. ASSUME NEW b \in Members, b # a
        PROVE  \/ nodes'[b].failures < Eviction
               \/ threads'[Monitor].phase = "evict" /\ threads'[Monitor].backup = b
    BY <1>1, <1>2, <2>3 DEF CInv, Shape, NodesSound
  <2>4. nodes'[a].failures < Eviction
    BY <1>1, ControllerAssumption
  <2>. QED
    BY <1>1, <2>2, <2>3, <2>4 DEF NodesSound
<1>4. CASE UNCHANGED <<assignment, last_primary_epoch, election_in_progress>>
  <2>1. AssignmentSound'
    BY <1>1, <1>4 DEF CInv, Shape, AssignmentSound
  <2>2. DrivesPromotion(Monitor) => DrivesPromotion(Monitor)'
    BY <1>2, <1>4 DEF DrivesPromotion, CompletionExpected, AssignmentMatches
  <2>3. DrivesReplacement(Monitor) => DrivesReplacement(Monitor)'
    BY <1>2, <1>4 DEF DrivesReplacement, IsCurrentCandidate, AssignmentMatches
  <2>. QED
    BY <1>2, <1>3, <1>4, <2>1, <2>2, <2>3, MonitorThread, OthersDrive
    DEF CInv, Shape
<1>5. CASE /\ assignment' = NoAssignment /\ election_in_progress' = FALSE
           /\ last_primary_epoch' \in 0..MaxEpoch
  BY <1>2, <1>3, <1>5
  DEF CInv, Shape, AssignmentSound, PromotionIsDriven, CandidateIsDriven, Assigned
<1>6. CASE /\ assignment' \in PrimaryAssignment
           /\ assignment'.epoch = last_primary_epoch'
           /\ assignment'.status \in {"ready", "reprotecting"}
           /\ assignment'.candidate = NoNode
           /\ election_in_progress' \in BOOLEAN
  <2>1. assignment' # NoAssignment /\ last_primary_epoch' \in 0..MaxEpoch
    BY <1>6, SentinelAssumption, ControllerAssumption DEF PrimaryAssignment
  <2>2. AssignmentSound'
    BY <1>6, <2>1 DEF AssignmentSound
  <2>3. PromotionIsDriven' /\ CandidateIsDriven'
    BY <1>6, <2>1 DEF PromotionIsDriven, CandidateIsDriven, Assigned
  <2>. QED
    BY <1>2, <1>3, <2>2, <2>3 DEF CInv, Shape
<1>. QED
  BY <1>1, <1>4, <1>5, <1>6 DEF RegistrationOutcome

(* A controller that starts knows nothing. *)
LEMMA ControllerInitInv ==
    ASSUME ControllerInit
    PROVE  CInv
<1>1. ThreadsSound
  BY FreeSound DEF ControllerInit, ThreadsSound, Threads, SoundThread
<1>2. NodesSound
  BY DEF ControllerInit, NodesSound, Members
<1>3. AssignmentSound /\ PromotionIsDriven /\ CandidateIsDriven
  <2>1. 0 \in 0..MaxEpoch
    BY ControllerAssumption
  <2>2. AssignmentSound
    BY <2>1 DEF ControllerInit, AssignmentSound
  <2>3. PromotionIsDriven /\ CandidateIsDriven
    BY DEF ControllerInit, PromotionIsDriven, CandidateIsDriven, Assigned
  <2>. QED
    BY <2>2, <2>3
<1>. QED
  BY <1>1, <1>2, <1>3 DEF CInv, Shape

LEMMA ControllerRestartInv ==
    ASSUME ControllerRestart
    PROVE  CInv'
<1>1. ThreadsSound'
  BY FreeSound DEF ControllerRestart, ThreadsSound, Threads, SoundThread
<1>2. NodesSound'
  BY DEF ControllerRestart, NodesSound, Members
<1>3. AssignmentSound' /\ PromotionIsDriven' /\ CandidateIsDriven'
  <2>1. 0 \in 0..MaxEpoch
    BY ControllerAssumption
  <2>2. AssignmentSound'
    BY <2>1 DEF ControllerRestart, AssignmentSound
  <2>3. PromotionIsDriven' /\ CandidateIsDriven'
    BY DEF ControllerRestart, PromotionIsDriven, CandidateIsDriven, Assigned
  <2>. QED
    BY <2>2, <2>3
<1>. QED
  BY <1>1, <1>2, <1>3 DEF CInv, Shape

LEMMA StutterInv ==
    ASSUME CInv, UNCHANGED controllerVars
    PROVE  CInv'
<1>1. ThreadsSound' /\ NodesSound' /\ AssignmentSound'
  BY DEF CInv, Shape, ThreadsSound, NodesSound, AssignmentSound, Members,
         controllerVars
<1>2. PromotionIsDriven' /\ CandidateIsDriven'
  BY DEF CInv, PromotionIsDriven, CandidateIsDriven, Assigned, DrivesPromotion,
         CompletionExpected, AssignmentMatches, IsCurrentCandidate, controllerVars
<1>. QED
  BY <1>1, <1>2 DEF CInv, Shape

(* The invariant holds the type of the controller's state.                  *)
LEMMA ControllerTyped ==
    ASSUME CInv
    PROVE  ControllerTypeOK
  BY DEF CInv, Shape, ThreadsSound, SoundThread, NodesSound, AssignmentSound,
         ControllerTypeOK, Threads

-----------------------------------------------------------------------------
(* Whom the steps are about *)

(* The assignment or a thread is about primary p of epoch e.                *)
Served(e, p) ==
    \/ /\ assignment # NoAssignment
       /\ assignment.epoch = e /\ assignment.primary = p
    \/ \E t \in Threads :
         /\ threads[t].phase \notin Detached
         /\ threads[t].epoch = e /\ threads[t].primary = p

(* A step assigns no other primary than before, *)
SameOwner ==
    assignment' # NoAssignment =>
      /\ assignment # NoAssignment
      /\ assignment'.epoch = assignment.epoch
      /\ assignment'.primary = assignment.primary

(* and sets no thread on another one.                                       *)
ThreadsServed ==
    \A t \in Threads :
      threads'[t].phase \notin Detached =>
        Served(threads'[t].epoch, threads'[t].primary)

NobodyNew == SameOwner /\ ThreadsServed /\ UNCHANGED last_primary_epoch

LEMMA AssignmentTyped ==
    ASSUME CInv, assignment # NoAssignment
    PROVE  assignment \in PrimaryAssignment
  BY DEF CInv, Shape, AssignmentSound

LEMMA ContinuesServed ==
    ASSUME CInv, NEW t \in Threads, NEW w, Continue(t, w),
           w.phase \notin Detached => Served(w.epoch, w.primary)
    PROVE  ThreadsServed
  BY DEF CInv, Shape, ThreadsSound, Continue, ThreadsServed, Served

LEMMA SpawnsServed ==
    ASSUME CInv, NEW w, Spawn(w), Served(w.epoch, w.primary)
    PROVE  ThreadsServed
  BY DEF CInv, Shape, ThreadsSound, Spawn, ThreadsServed, Served, Threads

LEMMA ContinuesAndSpawnsServed ==
    ASSUME CInv, NEW t \in Threads, NEW w, NEW x, ContinueAndSpawn(t, w, x),
           w.phase \in Detached, Served(x.epoch, x.primary)
    PROVE  ThreadsServed
  BY DEF CInv, Shape, ThreadsSound, ContinueAndSpawn, ThreadsServed, Served,
         Threads

LEMMA StutterServed ==
    ASSUME CInv, UNCHANGED threads
    PROVE  ThreadsServed
  BY DEF ThreadsServed, Served

LEMMA WorkingFields ==
    ASSUME NEW phase, NEW e, NEW p
    PROVE  /\ Free.phase \in Detached
           /\ Working(phase, p, e).epoch = e /\ Working(phase, p, e).primary = p
           /\ \A s : [Free EXCEPT !.phase = "elect", !.eligible = s].phase
                      \in Detached
           /\ \A b : [Free EXCEPT !.phase = "evict", !.backup = b].phase
                      \in Detached
  BY DEF Free, Working, Detached

(* Editing an assignment keeps its owner.                                   *)
LEMMA EditKeepsOwner ==
    ASSUME NEW a \in PrimaryAssignment
    PROVE  /\ Unprotected(a).epoch = a.epoch /\ Unprotected(a).primary = a.primary
           /\ \A x, y, z :
                /\ [a EXCEPT !.status = x, !.backup = y, !.attempted = z].epoch
                     = a.epoch
                /\ [a EXCEPT !.status = x, !.backup = y, !.attempted = z].primary
                     = a.primary
                /\ [a EXCEPT !.backup = x, !.candidate = y, !.status = z].epoch
                     = a.epoch
                /\ [a EXCEPT !.backup = x, !.candidate = y, !.status = z].primary
                     = a.primary
                /\ [a EXCEPT !.attempted = x, !.generation = y,
                             !.candidate = z].epoch = a.epoch
                /\ [a EXCEPT !.attempted = x, !.generation = y,
                             !.candidate = z].primary = a.primary
  BY DEF Unprotected, PrimaryAssignment

LEMMA PromotionServed ==
    ASSUME CInv, NEW t \in Threads,
           \/ StartPromotion(t) \/ BeginPromotionAccepted(t)
           \/ PromotionStateConfirmed(t) \/ SynchronizationSucceeds(t)
           \/ CandidateFailed(t) \/ Abandon(t)
    PROVE  NobodyNew
<1>. DEFINE w == threads[t]
<1>1. w \in Thread
  BY DEF CInv, Shape, ThreadsSound
<1>2. CASE StartPromotion(t) \/ BeginPromotionAccepted(t)
  <2>1. PICK phase \in {"begin", "confirm"} : Advance(t, phase)
    BY <1>2 DEF StartPromotion, BeginPromotionAccepted
  <2>2. w.phase \notin Detached
    BY <1>2 DEF StartPromotion, BeginPromotionAccepted, Detached
  <2>3. Served(w.epoch, w.primary)
    BY <2>2 DEF Served
  <2>4. ThreadsServed
    BY <1>1, <2>1, <2>3, ContinuesServed, WorkingFields DEF Advance, Thread
  <2>. QED
    BY <2>1, <2>4 DEF NobodyNew, SameOwner, Advance
<1>3. CASE PromotionStateConfirmed(t)
  <2>1. Served(w.epoch, w.primary)
    BY <1>3 DEF Served, PromotionStateConfirmed, Detached
  <2>2. ThreadsServed
    BY <1>1, <1>3, <2>1, ContinuesServed DEF PromotionStateConfirmed, Thread
  <2>. QED
    BY <1>3, <2>2 DEF NobodyNew, SameOwner, PromotionStateConfirmed
<1>4. CASE SynchronizationSucceeds(t)
  BY <1>4, ContinuesServed, WorkingFields
  DEF NobodyNew, SameOwner, SynchronizationSucceeds
<1>5. CASE CandidateFailed(t)
  <2>1. PICK n : Continue(t, n) /\ n.phase \in Detached
    BY <1>5, WorkingFields DEF CandidateFailed
  <2>2. ThreadsServed
    BY <2>1, ContinuesServed
  <2>. QED
    BY <1>5, <2>2 DEF NobodyNew, SameOwner, CandidateFailed
<1>6. CASE Abandon(t)
  BY <1>6, ContinuesServed, WorkingFields DEF NobodyNew, SameOwner, Abandon
<1>. QED
  BY <1>2, <1>3, <1>4, <1>5, <1>6

LEMMA BackupsServed ==
    ASSUME CInv, NEW t \in Threads, threads[t].phase \notin Detached,
           TryNextPromotionBackup(t) \/ PromotionBackupFailed(t)
    PROVE  NobodyNew
<1>. DEFINE w == threads[t]
<1>1. w \in Thread /\ Served(w.epoch, w.primary)
  BY DEF CInv, Shape, ThreadsSound, Served
<1>2. CASE TryNextPromotionBackup(t)
  <2>. DEFINE given == [w EXCEPT !.phase = "abandon"]
              tried == [w EXCEPT !.phase = "sync_backup",
                          !.backup = First(PromotionBackups(w.primary))]
  <2>1. /\ given.epoch = w.epoch /\ tried.epoch = w.epoch
        /\ given.primary = w.primary /\ tried.primary = w.primary
    BY <1>1 DEF Thread
  <2>2. Continue(t, Free) \/ Continue(t, given) \/ Continue(t, tried)
    BY <1>2 DEF TryNextPromotionBackup
  <2>. HIDE DEF given, tried
  <2>3. ThreadsServed
    BY <1>1, <2>1, <2>2, ContinuesServed, WorkingFields
  <2>4. SameOwner
    <3>1. \/ UNCHANGED assignment
          \/ /\ assignment # NoAssignment
             /\ \E x, y : assignment' =
                            [assignment EXCEPT !.attempted = x, !.backup = y]
      BY <1>2 DEF TryNextPromotionBackup, AssignmentMatches
    <3>. QED
      BY <3>1, AssignmentTyped DEF SameOwner, PrimaryAssignment
  <2>. QED
    BY <1>2, <2>3, <2>4 DEF NobodyNew, TryNextPromotionBackup
<1>3. CASE PromotionBackupFailed(t)
  <2>1. ThreadsServed
    BY <1>1, <1>3, ContinuesServed, WorkingFields DEF PromotionBackupFailed
  <2>2. SameOwner
    <3>1. \/ UNCHANGED assignment
          \/ /\ assignment # NoAssignment
             /\ assignment' = [assignment EXCEPT !.backup = NoNode]
      BY <1>3
      DEF PromotionBackupFailed, IsCurrentPromotionBackup, AssignmentMatches
    <3>. QED
      BY <3>1, AssignmentTyped DEF SameOwner, PrimaryAssignment
  <2>. QED
    BY <1>3, <2>1, <2>2 DEF NobodyNew, PromotionBackupFailed
<1>. QED
  BY <1>2, <1>3

LEMMA ReplacementsServed ==
    ASSUME CInv, NEW t \in Threads, threads[t].phase \notin Detached,
           \/ TryNextReplacementBackup(t) \/ ReplacementSynchronizationFails(t)
           \/ RejectReplacement(t)
    PROVE  NobodyNew
<1>. DEFINE w == threads[t]
<1>1. w \in Thread /\ Served(w.epoch, w.primary)
  BY DEF CInv, Shape, ThreadsSound, Served
<1>2. CASE TryNextReplacementBackup(t)
  <2>. DEFINE backup == First(ReplacementCandidates)
              generation == assignment.generation + 1
              next == [w EXCEPT !.phase = "sync_replacement", !.backup = backup,
                                !.generation = generation]
  <2>1. Continue(t, Free) \/ Continue(t, next)
    BY <1>2 DEF TryNextReplacementBackup
  <2>2. \/ UNCHANGED assignment
        \/ /\ assignment # NoAssignment
           /\ assignment' =
                [assignment EXCEPT !.attempted = @ \cup {backup},
                                   !.generation = generation,
                                   !.candidate = backup]
    BY <1>2 DEF TryNextReplacementBackup, AssignmentMatches
  <2>. HIDE DEF backup, generation
  <2>3. next.epoch = w.epoch /\ next.primary = w.primary
    BY <1>1 DEF Thread
  <2>4. ThreadsServed
    BY <1>1, <2>1, <2>3, ContinuesServed, WorkingFields
  <2>5. SameOwner
    <3>. DEFINE S == assignment.attempted \cup {backup}
    <3>1. assignment # NoAssignment =>
            LET b == [assignment EXCEPT !.attempted = S, !.generation = generation,
                                        !.candidate = backup]
            IN b.epoch = assignment.epoch /\ b.primary = assignment.primary
      BY AssignmentTyped, EditKeepsOwner
    <3>. QED
      BY <2>2, <3>1 DEF SameOwner
  <2>. QED
    BY <1>2, <2>4, <2>5 DEF NobodyNew, TryNextReplacementBackup
<1>3. CASE ReplacementSynchronizationFails(t) \/ RejectReplacement(t)
  <2>1. ThreadsServed
    BY <1>1, <1>3, ContinuesServed, WorkingFields
    DEF ReplacementSynchronizationFails, RejectReplacement
  <2>2. SameOwner
    <3>1. \/ UNCHANGED assignment
          \/ /\ assignment # NoAssignment
             /\ assignment' = [assignment EXCEPT !.candidate = NoNode]
      BY <1>3
      DEF ReplacementSynchronizationFails, RejectReplacement,
          IsCurrentCandidate, AssignmentMatches
    <3>. QED
      BY <3>1, AssignmentTyped DEF SameOwner, PrimaryAssignment
  <2>. QED
    BY <1>3, <2>1, <2>2
    DEF NobodyNew, ReplacementSynchronizationFails, RejectReplacement
<1>. QED
  BY <1>2, <1>3

LEMMA CompletionsServed ==
    ASSUME CInv, NEW t \in Threads, CompletionSucceeds(t)
    PROVE  NobodyNew
<1>. DEFINE w == threads[t]
<1>1. CASE CompletionExpected(w)
  <2>1. /\ assignment # NoAssignment
        /\ assignment' = [assignment EXCEPT !.backup = w.backup,
                                            !.candidate = NoNode,
                                            !.status = "ready"]
        /\ AnswerReport(t)
    BY <1>1 DEF CompletionSucceeds, CompletionExpected, AssignmentMatches
  <2>2. SameOwner
    BY <2>1, AssignmentTyped, EditKeepsOwner DEF SameOwner
  <2>3. ASSUME NEW u \in Threads, threads'[u].phase \notin Detached
        PROVE  /\ threads[u].phase \notin Detached
               /\ threads'[u].epoch = threads[u].epoch
               /\ threads'[u].primary = threads[u].primary
    <3>1. threads[u] \in Thread /\ u \in DOMAIN threads
      BY DEF CInv, Shape, ThreadsSound
    <3>2. \/ threads'[u] = Free \/ threads'[u] = threads[u]
          \/ /\ threads[u].phase \in {"sync_backup", "sync_replacement"}
             /\ threads'[u] = [threads[u] EXCEPT !.phase = "reported"]
      BY <2>1, <3>1 DEF AnswerReport
    <3>. QED
      BY <2>3, <3>1, <3>2, WorkingFields DEF Thread, Detached
  <2>4. ThreadsServed
    BY <2>3 DEF ThreadsServed, Served
  <2>. QED
    BY <2>2, <2>4 DEF NobodyNew, CompletionSucceeds
<1>2. CASE ~CompletionExpected(w)
  <2>1. ThreadsServed
    BY <1>2, ContinuesServed, WorkingFields DEF CompletionSucceeds
  <2>. QED
    BY <1>2, <2>1 DEF NobodyNew, SameOwner, CompletionSucceeds
<1>. QED
  BY <1>1, <1>2

LEMMA ReportsServed ==
    ASSUME CInv, NEW a, ReportSynchronizationComplete(a)
    PROVE  NobodyNew
<1>. DEFINE w == [Working("complete", assignment.primary, assignment.epoch)
                    EXCEPT !.backup = a, !.status = assignment.status,
                           !.generation = assignment.generation]
<1>1. Spawn(w) /\ UNCHANGED assignment /\ assignment # NoAssignment
  BY DEF ReportSynchronizationComplete
<1>2. w.epoch = assignment.epoch /\ w.primary = assignment.primary
  BY DEF Working, Free
<1>3. ThreadsServed
  BY <1>1, <1>2, SpawnsServed DEF Served
<1>. QED
  BY <1>1, <1>3 DEF NobodyNew, SameOwner, ReportSynchronizationComplete

LEMMA HeartbeatsServed ==
    ASSUME CInv, NEW a, HeartbeatFails(a) \/ (\E r : HeartbeatAnswered(a, r))
    PROVE  NobodyNew
<1>1. CASE HeartbeatFails(a)
  <2>1. ThreadsServed
    BY <1>1, ContinuesServed, StutterServed, WorkingFields, MonitorThread
    DEF HeartbeatFails
  <2>. QED
    BY <1>1, <2>1 DEF NobodyNew, SameOwner, HeartbeatFails
<1>2. ASSUME NEW r, HeartbeatAnswered(a, r)
      PROVE  NobodyNew
  <2>1. last_primary_epoch' = last_primary_epoch
    BY <1>2 DEF HeartbeatAnswered
  <2>2. CASE UNCHANGED <<assignment, threads>>
    BY <2>1, <2>2, StutterServed DEF NobodyNew, SameOwner
  <2>3. CASE ~UNCHANGED <<assignment, threads>>
    <3>1. /\ assignment # NoAssignment
          /\ assignment' = Unprotected(assignment)
          /\ Spawn(Working("replace", assignment.primary, assignment.epoch))
      BY <1>2, <2>3 DEF HeartbeatAnswered
    <3>2. SameOwner
      BY <3>1, AssignmentTyped, EditKeepsOwner DEF SameOwner
    <3>3. Served(assignment.epoch, assignment.primary)
      BY <3>1 DEF Served
    <3>4. ThreadsServed
      BY <3>1, <3>3, SpawnsServed, WorkingFields
    <3>. QED
      BY <2>1, <3>2, <3>4 DEF NobodyNew
  <2>. QED
    BY <2>2, <2>3
<1>. QED
  BY <1>1, <1>2

LEMMA EvictionsServed ==
    ASSUME CInv, HandleReplicaFailure
    PROVE  NobodyNew
<1>. DEFINE a == threads[Monitor].backup
<1>1. Monitor \in Threads /\ last_primary_epoch' = last_primary_epoch
  BY MonitorThread DEF HandleReplicaFailure
<1>2. CASE Continue(Monitor, Free) /\ UNCHANGED assignment
  BY <1>1, <1>2, ContinuesServed, WorkingFields DEF NobodyNew, SameOwner
<1>3. CASE EvictUnassigned(a)
  <2>1. ThreadsServed
    BY <1>1, <1>3, ContinuesServed, WorkingFields DEF EvictUnassigned
  <2>. QED
    BY <1>1, <1>3, <2>1 DEF EvictUnassigned, NobodyNew, SameOwner
<1>4. CASE EvictPrimary(a)
  <2>1. ThreadsServed
    BY <1>1, <1>4, ContinuesServed, WorkingFields DEF EvictPrimary
  <2>. QED
    BY <1>1, <1>4, <2>1 DEF EvictPrimary, NobodyNew, SameOwner
<1>5. CASE EvictBackup(a)
  <2>1. assignment # NoAssignment /\ Served(assignment.epoch, assignment.primary)
    BY <1>5 DEF EvictBackup, Served
  <2>2. CASE assignment.status = "promoting" /\ UNCHANGED assignment
    <3>. DEFINE w == [Working("backup_failed", assignment.primary,
                              assignment.epoch) EXCEPT !.backup = a]
    <3>1. Continue(Monitor, w)
      BY <1>5, <2>2 DEF EvictBackup
    <3>2. w.epoch = assignment.epoch /\ w.primary = assignment.primary
      BY DEF Working, Free
    <3>3. ThreadsServed
      BY <1>1, <2>1, <3>1, <3>2, ContinuesServed
    <3>. QED
      BY <1>1, <2>2, <3>3 DEF NobodyNew, SameOwner
  <2>3. CASE ~(assignment.status = "promoting" /\ UNCHANGED assignment)
    <3>1. /\ assignment' = [assignment EXCEPT !.status = "reprotecting",
                                              !.backup = NoNode,
                                              !.attempted = {}]
          /\ ContinueAndSpawn(Monitor, Free,
                              Working("replace", assignment.primary,
                                      assignment.epoch))
      BY <1>5, <2>3 DEF EvictBackup
    <3>2. ThreadsServed
      BY <1>1, <2>1, <3>1, ContinuesAndSpawnsServed, WorkingFields
    <3>3. SameOwner
      BY <2>1, <3>1, AssignmentTyped, EditKeepsOwner DEF SameOwner
    <3>. QED
      BY <1>1, <3>2, <3>3 DEF NobodyNew
  <2>. QED
    BY <2>2, <2>3
<1>6. CASE EvictOther(a) /\ ~(Continue(Monitor, Free) /\ UNCHANGED assignment)
  <2>1. /\ assignment # NoAssignment
        /\ assignment' = [assignment EXCEPT !.candidate = NoNode]
        /\ ContinueAndSpawn(Monitor, Free,
                            Working("replace", assignment.primary,
                                    assignment.epoch))
    BY <1>6 DEF EvictOther
  <2>2. Served(assignment.epoch, assignment.primary)
    BY <2>1 DEF Served
  <2>3. ThreadsServed
    BY <1>1, <2>1, <2>2, ContinuesAndSpawnsServed, WorkingFields
  <2>4. SameOwner
    BY <2>1, AssignmentTyped DEF SameOwner, PrimaryAssignment
  <2>. QED
    BY <1>1, <2>3, <2>4 DEF NobodyNew
<1>. QED
  BY <1>2, <1>3, <1>4, <1>5, <1>6 DEF HandleReplicaFailure

(* An election serves the winner of a new epoch, or changes nothing.        *)
LEMMA ElectionServed ==
    ASSUME CInv, NEW t \in Threads, Elect(t)
    PROVE  \/ NobodyNew
           \/ /\ last_primary_epoch' = last_primary_epoch + 1
              /\ assignment' # NoAssignment
              /\ assignment'.epoch = last_primary_epoch'
              /\ \A u \in Threads :
                   threads'[u].phase \notin Detached =>
                     \/ Served(threads'[u].epoch, threads'[u].primary)
                     \/ /\ threads'[u].epoch = assignment'.epoch
                        /\ threads'[u].primary = assignment'.primary
<1>1. CASE Continue(t, Free) /\ UNCHANGED <<assignment, last_primary_epoch>>
  <2>1. ThreadsServed
    BY <1>1, ContinuesServed, WorkingFields
  <2>. QED
    BY <1>1, <2>1 DEF NobodyNew, SameOwner
<1>2. CASE ~(Continue(t, Free) /\ UNCHANGED <<assignment, last_primary_epoch>>)
  <2>. DEFINE candidate == SelectPrimaryCandidate(threads[t].eligible)
              w == Working("validate", candidate, NextEpoch)
  <2>1. /\ last_primary_epoch' = NextEpoch
        /\ assignment' = [Assign(candidate, NextEpoch, "promoting", NoNode)
                            EXCEPT !.eligible = Members]
        /\ ContinueAndSpawn(t, Free, w)
    BY <1>2 DEF Elect
  <2>. HIDE DEF candidate
  <2>2. assignment'.epoch = NextEpoch /\ assignment'.primary = candidate
    BY <2>1 DEF Assign
  <2>3. assignment' # NoAssignment
    <3>1. CInv' /\ election_in_progress'
      BY <1>2, ElectInv DEF Elect
    <3>. QED
      BY <3>1 DEF CInv, PromotionIsDriven
  <2>4. w.epoch = NextEpoch /\ w.primary = candidate
    BY WorkingFields
  <2>. HIDE DEF w
  <2>5. ASSUME NEW u \in Threads, threads'[u].phase \notin Detached
        PROVE  threads'[u] = w \/ Served(threads'[u].epoch, threads'[u].primary)
    BY <2>1, <2>5, WorkingFields
    DEF ContinueAndSpawn, CInv, Shape, ThreadsSound, Served, Threads
  <2>. QED
    BY <2>1, <2>2, <2>3, <2>4, <2>5 DEF NextEpoch
<1>. QED
  BY <1>1, <1>2

(* A registration serves whoever was served, a primary that calls itself    *)
(* primary of the newest epoch, or the first replica of a new cluster.      *)
LEMMA RegistrationServed ==
    ASSUME CInv, NEW a \in Node, NEW r \in Report, RegisterNode(a, r)
    PROVE  /\ last_primary_epoch' >= last_primary_epoch
           /\ last_primary_epoch > 0 /\ r.epoch <= last_primary_epoch =>
                last_primary_epoch' = last_primary_epoch
           /\ \/ SameOwner
              \/ /\ r.role = "primary"
                 /\ assignment'.epoch = r.epoch /\ assignment'.primary = a
              \/ /\ last_primary_epoch = 0
                 /\ assignment'.epoch = 1 /\ assignment'.primary = a
           /\ \A t \in Threads :
                threads'[t].phase \notin Detached =>
                  \/ Served(threads'[t].epoch, threads'[t].primary)
                  \/ /\ assignment' # NoAssignment
                     /\ threads'[t].epoch = assignment'.epoch
                     /\ threads'[t].primary = assignment'.primary
<1>. DEFINE members ==
              [nodes EXCEPT ![a] =
                 [synchronized_epoch |->
                    IF ReportsSynchronized(a, r) THEN r.epoch ELSE 0,
                  failures |-> 0]]
            known == IF r.epoch > last_primary_epoch THEN r.epoch
                     ELSE last_primary_epoch
            recovered == RecoveredAssignment(a, r, members, known)
            invalidated == /\ assignment # NoAssignment
                           /\ r.epoch > assignment.epoch
            missing == assignment = NoAssignment \/ invalidated
            current == IF missing THEN recovered ELSE assignment
<1>1. /\ last_primary_epoch \in Nat /\ r.epoch \in Nat
      /\ last_primary_epoch' >= last_primary_epoch
  <2>1. last_primary_epoch \in Nat /\ r.epoch \in Nat
    <3>1. CASE r \in BackupReport
      BY <3>1, ControllerAssumption DEF BackupReport, CInv, Shape, AssignmentSound
    <3>2. CASE r \in PrimaryReport
      BY <3>2, ControllerAssumption DEF PrimaryReport, CInv, Shape, AssignmentSound
    <3>. QED
      BY <3>1, <3>2 DEF Report
  <2>2. RegistrationOutcome
    BY Registration
  <2>. QED
    BY <2>1, <2>2 DEF RegistrationOutcome
<1>2. last_primary_epoch > 0 /\ r.epoch <= last_primary_epoch =>
        last_primary_epoch' = last_primary_epoch
  BY <1>1 DEF RegisterNode
<1>3. /\ \/ assignment' = current
         \/ /\ current # NoAssignment
            /\ \/ assignment' = Unprotected(current)
               \/ assignment' = [current EXCEPT !.attempted = @ \ {a}]
      /\ \/ UNCHANGED threads
         \/ /\ current # NoAssignment
            /\ Spawn(Working("replace", current.primary, current.epoch))
  BY DEF RegisterNode
<1>4. \/ recovered = NoAssignment
      \/ /\ r.role = "primary" /\ recovered.primary = a
         /\ recovered.epoch = r.epoch
      \/ recovered.primary = a /\ recovered.epoch = 1 /\ known = 0
  BY DEF RecoveredAssignment, Assign
<1>5. recovered # NoAssignment => recovered \in PrimaryAssignment
  <2>1. /\ Assign(a, 1, "reprotecting", NoNode) \in PrimaryAssignment
        /\ r \in PrimaryReport =>
             /\ Assign(a, r.epoch, "ready", r.backup) \in PrimaryAssignment
             /\ Assign(a, r.epoch, "reprotecting", NoNode) \in PrimaryAssignment
    <3>1. 1 \in 1..MaxEpoch /\ NoNode \in Address
      BY ControllerAssumption DEF Address
    <3>2. r \in PrimaryReport => r.epoch \in 1..MaxEpoch /\ r.backup \in Address
      BY DEF PrimaryReport
    <3>. QED
      BY <3>1, <3>2, AssignTyped DEF Status
  <2>2. \/ recovered = NoAssignment
        \/ recovered = Assign(a, 1, "reprotecting", NoNode)
        \/ /\ r.role = "primary"
           /\ recovered \in {Assign(a, r.epoch, "ready", r.backup),
                             Assign(a, r.epoch, "reprotecting", NoNode)}
    BY DEF RecoveredAssignment
  <2>3. r.role = "primary" => r \in PrimaryReport
    BY DEF Report, BackupReport
  <2>. HIDE DEF recovered
  <2>. QED
    BY <2>1, <2>2, <2>3
<1>. HIDE DEF recovered
<1>6. current # NoAssignment => current \in PrimaryAssignment
  BY <1>5, AssignmentTyped
<1>7. current # NoAssignment =>
        \/ /\ assignment # NoAssignment
           /\ current.epoch = assignment.epoch
           /\ current.primary = assignment.primary
        \/ /\ r.role = "primary"
           /\ current.epoch = r.epoch /\ current.primary = a
        \/ /\ last_primary_epoch = 0
           /\ current.epoch = 1 /\ current.primary = a
  BY <1>1, <1>4
<1>. HIDE DEF current
<1>8. current # NoAssignment =>
        /\ assignment'.epoch = current.epoch
        /\ assignment'.primary = current.primary
        /\ assignment' # NoAssignment
  <2>. SUFFICES ASSUME current # NoAssignment
                PROVE  /\ assignment'.epoch = current.epoch
                       /\ assignment'.primary = current.primary
                       /\ assignment' # NoAssignment
    OBVIOUS
  <2>1. CASE assignment' = current
    BY <2>1
  <2>2. CASE assignment' = Unprotected(current)
    BY <1>6, <2>2, EditKeepsOwner, UnprotectedTyped, SentinelAssumption
  <2>3. CASE assignment' = [current EXCEPT !.attempted = @ \ {a}]
    <3>1. assignment' \in PrimaryAssignment
      BY <1>6, <2>3 DEF PrimaryAssignment
    <3>. QED
      BY <1>6, <2>3, <3>1, SentinelAssumption DEF PrimaryAssignment
  <2>. QED
    BY <1>3, <2>1, <2>2, <2>3
<1>9. ASSUME NEW t \in Threads, threads'[t].phase \notin Detached
      PROVE  \/ Served(threads'[t].epoch, threads'[t].primary)
             \/ /\ assignment' # NoAssignment
                /\ threads'[t].epoch = assignment'.epoch
                /\ threads'[t].primary = assignment'.primary
  <2>1. CASE UNCHANGED threads
    BY <1>9, <2>1 DEF Served
  <2>2. CASE ~UNCHANGED threads
    <3>. DEFINE w == Working("replace", current.primary, current.epoch)
    <3>1. current # NoAssignment /\ Spawn(w)
      BY <1>3, <2>2
    <3>2. w.epoch = current.epoch /\ w.primary = current.primary
      BY WorkingFields
    <3>. HIDE DEF w
    <3>3. threads'[t] = w \/ threads'[t] = threads[t]
      BY <3>1 DEF Spawn, CInv, Shape, ThreadsSound
    <3>. QED
      BY <1>8, <1>9, <3>1, <3>2, <3>3 DEF Served
  <2>. QED
    BY <2>1, <2>2
<1>. QED
  BY <1>1, <1>2, <1>3, <1>7, <1>8, <1>9 DEF SameOwner
=============================================================================
