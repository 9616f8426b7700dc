---------------------------- MODULE FailoverProofs ----------------------------
(***************************************************************************)
(* Proofs about Failover, for any finite set of replicas any of which may  *)
(* be unreachable, restart and handle requests late: the shape of the      *)
(* state, that an epoch belongs to one primary, and, while none restarts,  *)
(* that a published primary is activated.                                  *)
(***************************************************************************)
EXTENDS Failover, ControllerProofs, TLAPS

-----------------------------------------------------------------------------
(* The invariant *)

(* Replica n is primary of epoch e, or something under way can make it so:  *)
(* its snapshot, the answer to its registration, a promotion that may still *)
(* reach it, or the controller.                                             *)
Entitled(n, e) ==
    \/ replica[n].role = "primary" /\ replica[n].epoch = e
    \/ disk[n].ready /\ disk[n].backup # NoNode /\ disk[n].epoch = e
    \/ /\ booting[n].phase = "registered" /\ booting[n].is_primary
       /\ booting[n].epoch = e
    \/ \E m \in late : m.type = "begin" /\ m.to = n /\ m.epoch = e
    \/ Served(e, n)

OneEntitled ==
    \A n \in Node, e \in Nat :
      Entitled(n, e) =>
        /\ e <= last_primary_epoch
        /\ \A m \in Node : Entitled(m, e) => m = n

(* What replica n may hold: an epoch that was given out, authority it is    *)
(* entitled to, and, when it saves this, a snapshot that is read as written.*)
Fit(n, r) ==
    /\ r \in Replica
    /\ r.epoch <= last_primary_epoch
    /\ r.role = "primary" => /\ r.reported = r.ready
                             /\ Entitled(n, r.epoch)
    /\ r.ready /\ r.backup # NoNode => r.role = "primary"

FitSnapshot(n, s) ==
    /\ s \in Snapshot
    /\ s.epoch <= last_primary_epoch
    /\ s.ready /\ s.backup # NoNode => Entitled(n, s.epoch)

FitStart(n, b) ==
    /\ b \in Starting
    /\ b.phase = "registered" => /\ b.epoch \in 1..last_primary_epoch
                                 /\ b.is_primary => Entitled(n, b.epoch)

FitRequest(m) ==
    /\ m \in Request
    /\ m.type = "begin" => Entitled(m.to, m.epoch)

FitSynchronization(s) ==
    s \in Synchronization /\ s.epoch <= last_primary_epoch

ReplicasFit ==
    /\ replica \in [Node -> Replica]
    /\ disk \in [Node -> Snapshot]
    /\ \A n \in Node : Fit(n, replica[n]) /\ FitSnapshot(n, disk[n])

StartsFit ==
    /\ booting \in [Node -> Starting]
    /\ \A n \in Node : FitStart(n, booting[n])

(* A replica that waits for a commit remembers the decision.                *)
DecisionsKept ==
    /\ committing \in [Node -> Op \cup {NoOp}]
    /\ \A n \in Node :
         committing[n] # NoOp => PendingFor(replica[n], committing[n]) # {}

ClientsTyped ==
    /\ acked \subseteq Op
    /\ published \subseteq Node \X (1..MaxEpoch)

FInv ==
    /\ CInv
    /\ last_primary_epoch > 0
    /\ ReplicasFit
    /\ StartsFit
    /\ \A s \in syncs : FitSynchronization(s)
    /\ \A m \in late : FitRequest(m)
    /\ DecisionsKept
    /\ ClientsTyped
    /\ OneEntitled

-----------------------------------------------------------------------------
(* The handlers of a replica *)

(* Replication changes what a replica stores, and not its authority.        *)
SameAuthority(r, q) ==
    /\ q.role = r.role /\ q.reported = r.reported /\ q.epoch = r.epoch
    /\ q.ready = r.ready /\ q.backup = r.backup

LEMMA PreparationStored ==
    ASSUME NEW r \in Replica, NEW p \in PreparedMutation
    PROVE  /\ PrepareAuctionMutation(r, p) \in Replica
           /\ SameAuthority(r, PrepareAuctionMutation(r, p))
  BY DEF PrepareAuctionMutation, Replica, SameAuthority

LEMMA MutationPublished ==
    ASSUME NEW r \in Replica, NEW op \in Op, NEW candidate \in Seq(Op)
    PROVE  /\ Published(r, op, candidate) \in Replica
           /\ SameAuthority(r, Published(r, op, candidate))
<1>1. Len(candidate) \in Nat
  OBVIOUS
<1>2. r.records \cup {[op |-> op, version |-> Len(candidate)]}
        \in SUBSET Record
  BY <1>1 DEF Replica, Record
<1>. QED
  BY <1>2 DEF Published, Replica, SameAuthority

LEMMA CommitStored ==
    ASSUME NEW r \in Replica, NEW d, d.op \in Op
    PROVE  /\ CommitPreparedMutation(r, d) \in Replica
           /\ SameAuthority(r, CommitPreparedMutation(r, d))
<1>1. CASE CommitAccepted(r, d) /\ PreparedFor(r, d.op) # {}
  <2>. DEFINE p == CHOOSE q \in Committable(r, d) : TRUE
              q == Published(r, d.op, p.candidate)
  <2>1. p \in PreparedMutation
    BY <1>1 DEF CommitAccepted, Committable, PreparedFor, Replica
  <2>2. q \in Replica /\ SameAuthority(r, q)
    BY <2>1, MutationPublished DEF PreparedMutation
  <2>3. CommitPreparedMutation(r, d) = [q EXCEPT !.prepared = @ \ {p}]
    BY <1>1 DEF CommitPreparedMutation
  <2>. HIDE DEF p, q
  <2>. QED
    BY <2>2, <2>3 DEF Replica, SameAuthority
<1>2. CASE ~(CommitAccepted(r, d) /\ PreparedFor(r, d.op) # {})
  BY <1>2 DEF CommitPreparedMutation, SameAuthority
<1>. QED
  BY <1>1, <1>2

LEMMA AbortStored ==
    ASSUME NEW r \in Replica, NEW d, d.op \in Op, d.primary \in Node
    PROVE  /\ AbortPreparedMutation(r, d) \in Replica
           /\ SameAuthority(r, AbortPreparedMutation(r, d))
<1>1. [op |-> d.op, primary |-> d.primary] \in Tombstone
  BY DEF Tombstone
<1>. QED
  BY <1>1 DEF AbortPreparedMutation, Replica, SameAuthority

LEMMA DecisionStored ==
    ASSUME NEW r \in Replica, NEW p \in PreparedMutation, r.backup \in Node
    PROVE  /\ Decided(r, p) \in Replica
           /\ SameAuthority(r, Decided(r, p))
           /\ PendingFor(Decided(r, p), p.op) # {}
<1>. DEFINE q == Published(r, p.op, p.candidate)
            d == [op |-> p.op, version |-> Len(p.candidate),
                  backup |-> r.backup, epoch |-> r.epoch]
<1>1. p.op \in Op /\ p.candidate \in Seq(Op)
  BY DEF PreparedMutation
<1>2. q \in Replica /\ SameAuthority(r, q)
  BY <1>1, MutationPublished
<1>3. d \in PendingCommit
  BY <1>1 DEF PendingCommit, Replica
<1>4. Decided(r, p) = [q EXCEPT !.pending = @ \cup {d}]
  BY DEF Decided
<1>5. d.op = p.op
  OBVIOUS
<1>. HIDE DEF q, d
<1>6. Decided(r, p) \in Replica /\ SameAuthority(r, Decided(r, p))
  <2>1. q.pending \cup {d} \in SUBSET PendingCommit
    BY <1>2, <1>3 DEF Replica
  <2>. QED
    BY <1>2, <1>4, <2>1 DEF Replica, SameAuthority
<1>7. d \in Decided(r, p).pending
  BY <1>2, <1>4 DEF Replica
<1>. QED
  BY <1>5, <1>6, <1>7 DEF PendingFor

LEMMA AcknowledgmentStored ==
    ASSUME NEW r \in Replica, NEW op
    PROVE  Acknowledged(r, op) \in Replica /\ SameAuthority(r, Acknowledged(r, op))
  BY DEF Acknowledged, Replica, SameAuthority

(* What keeps the authority of a fit replica is fit.                        *)
LEMMA SameAuthorityFit ==
    ASSUME NEW n \in Node, NEW r, NEW q, Fit(n, r), q \in Replica,
           SameAuthority(r, q)
    PROVE  Fit(n, q)
  BY DEF Fit, SameAuthority

(* A snapshot is fit when the replica is, and restores a fit replica.       *)
LEMMA SnapshotFit ==
    ASSUME NEW n \in Node, NEW r, Fit(n, r)
    PROVE  FitSnapshot(n, Saved(r))
  BY DEF Fit, FitSnapshot, Saved, Replica, Snapshot

LEMMA LoadedFit ==
    ASSUME NEW n \in Node, NEW s, FitSnapshot(n, s)
    PROVE  Fit(n, Loaded(s))
  BY DEF Fit, FitSnapshot, Loaded, Replica, Snapshot

(* Promotion and synchronization *)
LEMMA BeginFit ==
    ASSUME NEW n \in Node, NEW r, Fit(n, r), NEW m,
           m.epoch \in 1..MaxEpoch, m.epoch <= last_primary_epoch,
           Entitled(n, m.epoch)
    PROVE  Fit(n, BeginPrimaryPromotion(r, m))
  BY DEF Fit, BeginPrimaryPromotion, Replica

LEMMA CompletionFit ==
    ASSUME NEW n \in Node, NEW r, Fit(n, r), NEW m, m.backup \in Node
    PROVE  Fit(n, CompletePrimaryPromotion(r, m))
  BY DEF Fit, CompletePrimaryPromotion, CompletionAccepted, Replica, Address

LEMMA InstalledFit ==
    ASSUME NEW n \in Node, NEW r, Fit(n, r), r.role = "backup",
           NEW s, FitSynchronization(s)
    PROVE  Fit(n, ReplaceWithFullState(r, s.epoch, s.store, s.records))
  BY DEF Fit, ReplaceWithFullState, Replica, FitSynchronization, Synchronization

LEMMA SynchronizedFit ==
    ASSUME NEW n \in Node, NEW r, Fit(n, r), NEW epoch
    PROVE  Fit(n, Synchronized(r, epoch))
  BY DEF Fit, Synchronized, Replica

LEMMA RegisteredFit ==
    ASSUME NEW n \in Node, NEW r, Fit(n, r), NEW b, FitStart(n, b),
           b.phase = "registered"
    PROVE  Fit(n, Registered(r, b))
<1>. DEFINE recovering == /\ r.role = "primary" /\ r.ready /\ r.epoch > 0
                          /\ b.epoch = r.epoch
            primary == b.is_primary \/ recovering
            q == Registered(r, b)
<1>1. /\ b.epoch \in 1..MaxEpoch /\ b.epoch <= last_primary_epoch
      /\ b.is_primary \in BOOLEAN /\ b.is_primary => Entitled(n, b.epoch)
  BY DEF FitStart, Starting
<1>2. /\ q = [r EXCEPT !.role = IF primary THEN "primary" ELSE "backup",
                       !.epoch = b.epoch,
                       !.ready = IF recovering THEN @ ELSE primary,
                       !.reported = IF recovering THEN @ ELSE primary]
  BY DEF Registered
<1>3. r \in Replica
  BY DEF Fit
<1>4. /\ q.role = (IF primary THEN "primary" ELSE "backup")
      /\ q.epoch = b.epoch
      /\ q.ready = (IF recovering THEN r.ready ELSE primary)
      /\ q.reported = (IF recovering THEN r.reported ELSE primary)
      /\ q \in Replica
  BY <1>1, <1>2, <1>3 DEF Replica
<1>. HIDE DEF q
<1>5. Fit(n, q)
  <2>1. CASE recovering
    BY <1>1, <1>3, <1>4, <2>1 DEF Fit
  <2>2. CASE ~recovering
    BY <1>1, <1>4, <2>2 DEF Fit
  <2>. QED
    BY <2>1, <2>2
<1>. QED
  BY <1>5 DEF q

(* What a replica says of itself is what the controller can read.           *)
LEMMA ReportRead ==
    ASSUME NEW n \in Node, NEW r, Fit(n, r)
    PROVE  /\ Reported(r) \in Report /\ Reported(r).epoch = r.epoch
           /\ Reported(r).role = r.role
<1>1. r.epoch \in 0..MaxEpoch
  BY ControllerAssumption DEF Fit, Replica
<1>. QED
  BY <1>1 DEF Fit, Replica, Reported, Report, BackupReport, PrimaryReport, Address
-----------------------------------------------------------------------------
(* What a step keeps: whatever comes into the state is fit by the           *)
(* entitlements there were before it.                                       *)

ControllerKept ==
    /\ CInv'
    /\ UNCHANGED last_primary_epoch
    /\ \A n \in Node, e \in Nat : Served(e, n)' => Entitled(n, e)

ReplicasKept ==
    /\ replica' \in [Node -> Replica]
    /\ disk' \in [Node -> Snapshot]
    /\ \A n \in Node : Fit(n, replica'[n]) /\ FitSnapshot(n, disk'[n])

StorageKept == ReplicasKept /\ DecisionsKept' /\ acked' \subseteq Op

StartsKept ==
    /\ booting' \in [Node -> Starting]
    /\ \A n \in Node : FitStart(n, booting'[n])

SyncsKept == StartsKept /\ \A s \in syncs' : FitSynchronization(s)

RequestsKept == \A m \in late' : FitRequest(m)

Kept == ControllerKept /\ StorageKept /\ SyncsKept /\ RequestsKept

Publication ==
    published' = published \cup
      IF Assigned("ready")' THEN {<<assignment'.primary, assignment'.epoch>>}
      ELSE {}

LEMMA PublicationTyped ==
    ASSUME FInv, CInv', acked' \subseteq Op, Publication
    PROVE  ClientsTyped'
<1>1. assignment' # NoAssignment =>
        assignment'.primary \in Node /\ assignment'.epoch \in 1..MaxEpoch
  BY DEF CInv, Shape, AssignmentSound, PrimaryAssignment
<1>2. published' \subseteq Node \X (1..MaxEpoch)
  BY <1>1 DEF FInv, ClientsTyped, Publication, Assigned
<1>. QED
  BY <1>2 DEF ClientsTyped

(* No step that keeps all of it entitles a replica anew.                    *)
LEMMA NobodyEntitled ==
    ASSUME FInv, Kept, NEW n \in Node, NEW e \in Nat, Entitled(n, e)'
    PROVE  Entitled(n, e)
<1>1. CASE replica'[n].role = "primary" /\ replica'[n].epoch = e
  BY <1>1 DEF Kept, StorageKept, ReplicasKept, Fit
<1>2. CASE disk'[n].ready /\ disk'[n].backup # NoNode /\ disk'[n].epoch = e
  BY <1>2 DEF Kept, StorageKept, ReplicasKept, FitSnapshot
<1>3. CASE /\ booting'[n].phase = "registered" /\ booting'[n].is_primary
           /\ booting'[n].epoch = e
  BY <1>3 DEF Kept, SyncsKept, StartsKept, FitStart
<1>4. CASE \E m \in late' : m.type = "begin" /\ m.to = n /\ m.epoch = e
  BY <1>4 DEF Kept, RequestsKept, FitRequest
<1>5. CASE Served(e, n)'
  BY <1>5 DEF Kept, ControllerKept
<1>. QED
  BY <1>1, <1>2, <1>3, <1>4, <1>5 DEF Entitled

LEMMA KeptInv ==
    ASSUME FInv, Kept, Publication
    PROVE  FInv'
<1>1. /\ CInv' /\ last_primary_epoch' > 0
      /\ last_primary_epoch' = last_primary_epoch
  BY DEF FInv, Kept, ControllerKept
<1>2. OneEntitled'
  <2>. SUFFICES ASSUME NEW n \in Node, NEW e \in Nat, Entitled(n, e)'
                PROVE  /\ e <= last_primary_epoch'
                       /\ \A m \in Node : Entitled(m, e)' => m = n
    BY DEF OneEntitled
  <2>1. Entitled(n, e)
    BY NobodyEntitled
  <2>2. \A m \in Node : Entitled(m, e)' => Entitled(m, e)
    BY NobodyEntitled
  <2>. QED
    BY <1>1, <2>1, <2>2 DEF FInv, OneEntitled
<1>3. ReplicasFit'
  <2>1. ASSUME NEW n \in Node
        PROVE  Fit(n, replica[n])' /\ FitSnapshot(n, disk[n])'
    <3>1. Fit(n, replica'[n]) /\ FitSnapshot(n, disk'[n])
      BY DEF Kept, StorageKept, ReplicasKept
    <3>. QED
      BY <1>1, <3>1 DEF Fit, FitSnapshot, Entitled
  <2>. QED
    BY <2>1 DEF ReplicasFit, Kept, StorageKept, ReplicasKept
<1>4. StartsFit'
  <2>1. ASSUME NEW n \in Node PROVE FitStart(n, booting[n])'
    <3>1. FitStart(n, booting'[n])
      BY DEF Kept, SyncsKept, StartsKept
    <3>. QED
      BY <1>1, <3>1 DEF FitStart, Entitled
  <2>. QED
    BY <2>1 DEF StartsFit, Kept, SyncsKept, StartsKept
<1>5. \A s \in syncs' : FitSynchronization(s)'
  BY <1>1 DEF Kept, SyncsKept, FitSynchronization
<1>6. ASSUME NEW m \in late' PROVE FitRequest(m)'
  <2>1. FitRequest(m)
    BY <1>6 DEF Kept, RequestsKept
  <2>. QED
    BY <1>6, <2>1 DEF FitRequest, Entitled
<1>7. ClientsTyped' /\ DecisionsKept'
  BY <1>1, PublicationTyped DEF Kept, StorageKept
<1>. QED
  BY <1>1, <1>2, <1>3, <1>4, <1>5, <1>6, <1>7 DEF FInv

-----------------------------------------------------------------------------
(* The parts of a step *)

LEMMA NobodyNewKept ==
    ASSUME FInv, CInv', NobodyNew
    PROVE  ControllerKept
<1>. SUFFICES ASSUME NEW n \in Node, NEW e \in Nat, Served(e, n)'
              PROVE  Served(e, n)
  BY DEF ControllerKept, NobodyNew, Entitled
<1>1. CASE /\ assignment' # NoAssignment
           /\ assignment'.epoch = e /\ assignment'.primary = n
  BY <1>1 DEF NobodyNew, SameOwner, Served
<1>2. CASE \E t \in Threads :
             /\ threads'[t].phase \notin Detached
             /\ threads'[t].epoch = e /\ threads'[t].primary = n
  BY <1>2 DEF NobodyNew, ThreadsServed
<1>. QED
  BY <1>1, <1>2 DEF Served

LEMMA ControllerWaits ==
    ASSUME FInv, UNCHANGED controllerVars
    PROVE  ControllerKept
<1>1. CInv'
  BY StutterInv DEF FInv
<1>. QED
  BY <1>1 DEF ControllerKept, Served, Entitled, controllerVars

LEMMA ReplicasWait ==
    ASSUME FInv, UNCHANGED <<replica, disk>>
    PROVE  ReplicasKept
  BY DEF FInv, ReplicasFit, ReplicasKept

LEMMA SyncsWait ==
    ASSUME FInv, UNCHANGED syncVars
    PROVE  SyncsKept
  BY DEF FInv, StartsFit, SyncsKept, StartsKept, syncVars

LEMMA RequestsWait ==
    ASSUME FInv, late' \subseteq late
    PROVE  RequestsKept
  BY DEF FInv, RequestsKept

LEMMA RequestAdded ==
    ASSUME FInv, NEW m, NeverAnswered(m), FitRequest(m)
    PROVE  RequestsKept
  BY DEF FInv, RequestsKept, NeverAnswered

(* Handlers run only where no decided mutation waits.                       *)
LEMMA ServingReplicas ==
    ASSUME FInv, UNCHANGED committing,
           \A n \in Node : committing[n] # NoOp => replica'[n] = replica[n]
    PROVE  DecisionsKept'
  BY DEF FInv, DecisionsKept

LEMMA StorageWaits ==
    ASSUME FInv, UNCHANGED storageVars
    PROVE  StorageKept
  BY ReplicasWait, ServingReplicas
  DEF StorageKept, storageVars, FInv, ClientsTyped

(* A fit replica is saved.                                                  *)
LEMMA SaveKept ==
    ASSUME FInv, NEW n \in Node, NEW r, Serves(n), Save(n, r), Fit(n, r),
           UNCHANGED <<committing, acked>>
    PROVE  StorageKept
<1>1. /\ replica' = [replica EXCEPT ![n] = r]
      /\ disk' = IF r = replica[n] THEN disk ELSE [disk EXCEPT ![n] = Saved(r)]
      /\ r \in Replica /\ FitSnapshot(n, Saved(r))
  BY SnapshotFit DEF Save, Fit
<1>2. Saved(r) \in Snapshot
  BY <1>1 DEF FitSnapshot
<1>3. ReplicasKept
  BY <1>1, <1>2 DEF FInv, ReplicasFit, ReplicasKept
<1>4. DecisionsKept'
  BY <1>1, ServingReplicas DEF Serves, FInv, ReplicasFit
<1>. QED
  BY <1>3, <1>4 DEF StorageKept, FInv, ClientsTyped

LEMMA ReplicaFit ==
    ASSUME FInv, NEW n \in Node
    PROVE  /\ Fit(n, replica[n]) /\ FitSnapshot(n, disk[n])
           /\ FitStart(n, booting[n])
           /\ replica[n] \in Replica
           /\ replica[n].epoch \in 1..MaxEpoch /\ replica[n].backup \in Address
           /\ replica[n].store \in Seq(Op)
  BY DEF FInv, ReplicasFit, StartsFit, Replica

(* A thread that serves a primary, and one that has a backup.               *)
LEMMA ServingThread ==
    ASSUME FInv, NEW t \in Threads, threads[t].phase \notin Detached
    PROVE  /\ threads[t].primary \in Node /\ threads[t].epoch \in 1..MaxEpoch
           /\ threads[t].epoch <= last_primary_epoch
           /\ Entitled(threads[t].primary, threads[t].epoch)
           /\ threads[t].phase \in Attending => threads[t].backup \in Node
<1>1. /\ threads[t].primary \in Node /\ threads[t].epoch \in 1..MaxEpoch
      /\ threads[t].phase \in Attending => threads[t].backup \in Node
  BY DEF FInv, CInv, Shape, ThreadsSound, SoundThread
<1>2. Entitled(threads[t].primary, threads[t].epoch)
  BY DEF Entitled, Served
<1>. QED
  BY <1>1, <1>2 DEF FInv, OneEntitled
-----------------------------------------------------------------------------
(* Clients *)

LEMMA PrepareTyped ==
    ASSUME FInv, NEW n \in Node, NEW b \in Node, NEW op \in Op
    PROVE  /\ Prepare(n, b, op) \in PrepareRequest
           /\ Preparation(Prepare(n, b, op)) \in PreparedMutation
           /\ FitRequest(Prepare(n, b, op))
           /\ Preparation(Prepare(n, b, op)).op = op
<1>1. Prepare(n, b, op) \in PrepareRequest
  BY ReplicaFit DEF Prepare, PrepareRequest
<1>. QED
  BY <1>1 DEF Preparation, PrepareRequest, PreparedMutation, FitRequest, Request,
              Prepare

LEMMA DecisionTyped ==
    ASSUME NEW type \in {"commit", "abort"}, NEW n \in Node, NEW b \in Node,
           NEW op \in Op, NEW epoch \in 1..MaxEpoch
    PROVE  /\ FitRequest(Decision(type, n, b, op, epoch))
           /\ Decision(type, n, b, op, epoch).op = op
           /\ Decision(type, n, b, op, epoch).primary = n
  BY DEF Decision, FitRequest, Request, DecisionRequest

LEMMA NewBackup ==
    ASSUME FInv, NEW n \in Node, NEW op \in Op, New(n, op)
    PROVE  replica[n].backup \in Node
  BY ReplicaFit DEF New, Address

LEMMA PrepareAndDecideKept ==
    ASSUME FInv, NEW n \in Node, NEW op \in Op, PrepareAndDecide(n, op)
    PROVE  Kept
<1>. DEFINE b == replica[n].backup
            p == Preparation(Prepare(n, b, op))
            prepared == PrepareAuctionMutation(replica[b], p)
            decided == Decided(replica[n], p)
<1>1. b \in Node /\ p \in PreparedMutation /\ p.op = op
  BY NewBackup, PrepareTyped DEF PrepareAndDecide
<1>2. b # n /\ committing[b] = NoOp
  BY DEF PrepareAndDecide, New, Writable, PrepareAccepted, Serves
<1>3. Fit(b, prepared)
  BY <1>1, ReplicaFit, PreparationStored, SameAuthorityFit
<1>4. Fit(n, decided) /\ PendingFor(decided, op) # {}
  BY <1>1, ReplicaFit, DecisionStored, SameAuthorityFit
<1>5. replica' = [replica EXCEPT ![b] = prepared, ![n] = decided]
  BY <1>2 DEF PrepareAndDecide
<1>6. disk' = [disk EXCEPT ![b] = Saved(replica'[b]), ![n] = Saved(replica'[n])]
  BY DEF PrepareAndDecide
<1>7. committing' = [committing EXCEPT ![n] = op]
  BY DEF PrepareAndDecide
<1>. HIDE DEF b, p, prepared, decided
<1>8. /\ replica'[b] = prepared /\ replica'[n] = decided
      /\ replica' \in [Node -> Replica]
      /\ \A m \in Node \ {b, n} : replica'[m] = replica[m]
  BY <1>1, <1>2, <1>3, <1>4, <1>5 DEF FInv, ReplicasFit, Fit
<1>9. FitSnapshot(b, Saved(prepared)) /\ FitSnapshot(n, Saved(decided))
  BY <1>1, <1>3, <1>4, SnapshotFit
<1>10. /\ disk'[b] = Saved(prepared) /\ disk'[n] = Saved(decided)
       /\ disk' \in [Node -> Snapshot]
       /\ \A m \in Node \ {b, n} : disk'[m] = disk[m]
  BY <1>1, <1>2, <1>6, <1>8, <1>9 DEF FInv, ReplicasFit, FitSnapshot
<1>11. ReplicasKept
  BY <1>1, <1>3, <1>4, <1>8, <1>9, <1>10, ReplicaFit DEF ReplicasKept
<1>12. DecisionsKept'
  BY <1>2, <1>4, <1>7, <1>8 DEF FInv, DecisionsKept
<1>. QED
  BY <1>11, <1>12, ControllerWaits, SyncsWait, RequestsWait
  DEF Kept, StorageKept, PrepareAndDecide, FInv, ClientsTyped

LEMMA PrepareRefusedKept ==
    ASSUME FInv, NEW n \in Node, NEW op \in Op, PrepareRefused(n, op)
    PROVE  Kept
<1>. DEFINE b == replica[n].backup
            m == Prepare(n, b, op)
            aborted == AbortPreparedMutation(replica[b], m)
<1>1. b \in Node /\ m \in PrepareRequest
  BY NewBackup, PrepareTyped DEF PrepareRefused
<1>2. Fit(b, aborted)
  BY <1>1, ReplicaFit, AbortStored, SameAuthorityFit DEF PrepareRequest
<1>3. Serves(b) /\ Save(b, aborted)
  BY DEF PrepareRefused
<1>. HIDE DEF b, aborted
<1>4. StorageKept
  BY <1>1, <1>2, <1>3, SaveKept DEF PrepareRefused
<1>. QED
  BY <1>4, ControllerWaits, SyncsWait, RequestsWait DEF Kept, PrepareRefused

LEMMA PrepareUnansweredKept ==
    ASSUME FInv, NEW n \in Node, NEW op \in Op, PrepareUnanswered(n, op)
    PROVE  Kept
<1>. DEFINE b == replica[n].backup
            prepare == Prepare(n, b, op)
            p == Preparation(prepare)
            abort == Decision("abort", n, b, op, replica[n].epoch)
            aborted == AbortPreparedMutation(replica[b], abort)
            prepared == PrepareAuctionMutation(replica[b], p)
<1>1. /\ b \in Node /\ p \in PreparedMutation /\ FitRequest(prepare)
      /\ FitRequest(abort) /\ abort.op = op /\ abort.primary = n
  BY NewBackup, PrepareTyped, DecisionTyped, ReplicaFit DEF PrepareUnanswered
<1>2. Fit(b, aborted) /\ Fit(b, prepared)
  BY <1>1, ReplicaFit, AbortStored, PreparationStored, SameAuthorityFit
<1>3. /\ Serves(b)
      /\ \/ Save(b, aborted) /\ NeverAnswered(prepare)
         \/ Save(b, prepared) /\ NeverAnswered(abort)
  BY DEF PrepareUnanswered
<1>. HIDE DEF b, prepare, abort, aborted, prepared
<1>4. StorageKept
  BY <1>1, <1>2, <1>3, SaveKept DEF PrepareUnanswered
<1>5. RequestsKept
  BY <1>1, <1>3, RequestAdded
<1>. QED
  BY <1>4, <1>5, ControllerWaits, SyncsWait DEF Kept, PrepareUnanswered

LEMMA ResumePendingCommitKept ==
    ASSUME FInv, NEW n \in Node, NEW op \in Op, ResumePendingCommit(n, op)
    PROVE  Kept
<1>1. DecisionsKept'
  BY DEF FInv, DecisionsKept, ResumePendingCommit
<1>. QED
  BY <1>1, ReplicasWait, ControllerWaits, SyncsWait, RequestsWait
  DEF Kept, StorageKept, ResumePendingCommit, FInv, ClientsTyped

LEMMA ReplayResponseKept ==
    ASSUME FInv, NEW n \in Node, NEW op \in Op, ReplayResponse(n, op)
    PROVE  Kept
<1>1. DecisionsKept'
  BY ServingReplicas DEF ReplayResponse
<1>. QED
  BY <1>1, ReplicasWait, ControllerWaits, SyncsWait, RequestsWait
  DEF Kept, StorageKept, ReplayResponse, FInv, ClientsTyped

(* The decision that waits at n is one its backup was told of.              *)
LEMMA WaitingDecision ==
    ASSUME FInv, NEW n \in Node, committing[n] # NoOp
    PROVE  LET d == CHOOSE x \in PendingFor(replica[n], committing[n]) : TRUE
           IN d \in PendingCommit
<1>1. PendingFor(replica[n], committing[n]) # {}
  BY DEF FInv, DecisionsKept
<1>2. PendingFor(replica[n], committing[n]) \subseteq PendingCommit
  BY ReplicaFit DEF PendingFor, Replica
<1>. QED
  BY <1>1, <1>2

LEMMA CommitAnsweredKept ==
    ASSUME FInv, NEW n \in Node, CommitAnswered(n)
    PROVE  Kept
<1>. DEFINE op == committing[n]
            d == CHOOSE x \in PendingFor(replica[n], op) : TRUE
            m == Decision("commit", n, d.backup, op, d.epoch)
            committed == CommitPreparedMutation(replica[d.backup], m)
            success == /\ CommitAccepted(replica[d.backup], m)
                       /\ [op |-> op, version |-> d.version]
                            \in committed.records
            acknowledged == Acknowledged(replica[n], op)
<1>1. /\ op # NoOp /\ op \in Op /\ d \in PendingCommit
      /\ committing[d.backup] = NoOp
  BY WaitingDecision DEF CommitAnswered, Serves, FInv, DecisionsKept
<1>2. d.backup \in Node /\ d.epoch \in 1..MaxEpoch /\ d.backup # n
  BY <1>1 DEF PendingCommit
<1>3. Fit(d.backup, committed)
  BY <1>1, <1>2, DecisionTyped, ReplicaFit, CommitStored, SameAuthorityFit
<1>4. Fit(n, acknowledged)
  BY ReplicaFit, AcknowledgmentStored, SameAuthorityFit
<1>5. /\ replica' = [replica EXCEPT ![d.backup] = committed,
                       ![n] = IF success THEN Acknowledged(@, op) ELSE @]
      /\ disk' = [a \in Node |-> IF replica'[a] = replica[a] THEN disk[a]
                                 ELSE Saved(replica'[a])]
      /\ acked' = IF success THEN acked \cup {op} ELSE acked
      /\ committing' = [committing EXCEPT ![n] = NoOp]
  BY DEF CommitAnswered
<1>. DEFINE b == d.backup
<1>6. b \in Node /\ b # n
  BY <1>2
<1>7. /\ replica' \in [Node -> Replica]
      /\ \A a \in Node : Fit(a, replica'[a])
      /\ \A a \in Node \ {b, n} : replica'[a] = replica[a]
  <2>1. replica' = [replica EXCEPT ![b] = committed,
                      ![n] = IF success THEN acknowledged ELSE replica[n]]
    BY <1>5, <1>6, ReplicaFit DEF FInv, ReplicasFit
  <2>. HIDE DEF committed, acknowledged, success, b
  <2>2. /\ replica'[b] = committed
        /\ replica'[n] \in {acknowledged, replica[n]}
        /\ \A a \in Node \ {b, n} : replica'[a] = replica[a]
    BY <1>6, <2>1 DEF FInv, ReplicasFit
  <2>3. ASSUME NEW a \in Node PROVE Fit(a, replica'[a])
    BY <1>3, <1>4, <2>2, ReplicaFit DEF b
  <2>4. replica' \in [Node -> Replica]
    BY <1>6, <2>1, <2>3 DEF FInv, ReplicasFit, Fit
  <2>. QED
    BY <2>2, <2>3, <2>4
<1>. HIDE DEF committed, acknowledged, success, b
<1>8. ASSUME NEW a \in Node
      PROVE  FitSnapshot(a, disk'[a]) /\ disk'[a] \in Snapshot
  <2>1. FitSnapshot(a, disk'[a])
    BY <1>5, <1>7, ReplicaFit, SnapshotFit
  <2>. QED
    BY <2>1 DEF FitSnapshot
<1>9. disk' \in [Node -> Snapshot]
  BY <1>5, <1>8
<1>10. ReplicasKept
  BY <1>7, <1>8, <1>9 DEF ReplicasKept
<1>11. DecisionsKept'
  <2>1. ASSUME NEW a \in Node, committing'[a] # NoOp
        PROVE  committing'[a] = committing[a] /\ replica'[a] = replica[a]
    BY <1>1, <1>5, <1>7, <2>1 DEF FInv, DecisionsKept, b
  <2>. QED
    BY <1>5, <2>1 DEF FInv, DecisionsKept
<1>12. acked' \subseteq Op
  BY <1>1, <1>5 DEF FInv, ClientsTyped
<1>. QED
  BY <1>10, <1>11, <1>12, ControllerWaits, SyncsWait, RequestsWait
  DEF Kept, StorageKept, CommitAnswered

LEMMA CommitUnansweredKept ==
    ASSUME FInv, NEW n \in Node, CommitUnanswered(n)
    PROVE  Kept
<1>. DEFINE op == committing[n]
            d == CHOOSE x \in PendingFor(replica[n], op) : TRUE
            m == Decision("commit", n, d.backup, op, d.epoch)
<1>1. op \in Op /\ d \in PendingCommit
  BY WaitingDecision DEF CommitUnanswered, FInv, DecisionsKept
<1>2. FitRequest(m)
  BY <1>1, DecisionTyped DEF PendingCommit
<1>3. NeverAnswered(m)
  BY DEF CommitUnanswered
<1>. HIDE DEF m
<1>4. RequestsKept
  BY <1>2, <1>3, RequestAdded
<1>5. DecisionsKept'
  BY DEF FInv, DecisionsKept, CommitUnanswered
<1>. QED
  BY <1>4, <1>5, ReplicasWait, ControllerWaits, SyncsWait
  DEF Kept, StorageKept, CommitUnanswered, FInv, ClientsTyped

(* A request that is handled late is fit still.                             *)
LEMMA LateHandlerKept ==
    ASSUME FInv, NEW m \in late, LateHandler(m)
    PROVE  Kept
<1>1. FitRequest(m) /\ m \in Request
  BY DEF FInv, FitRequest
<1>2. m.to \in Node
  BY <1>1 DEF Request, PrepareRequest, DecisionRequest, BeginRequest,
              CompleteRequest
<1>3. Fit(m.to, Handled(m))
  <2>. DEFINE r == replica[m.to]
  <2>1. Fit(m.to, r) /\ r \in Replica
    BY <1>2, ReplicaFit
  <2>2. CASE m \in PrepareRequest
    <3>1. m.type = "prepare" /\ Preparation(m) \in PreparedMutation
      BY <2>2 DEF PrepareRequest, Preparation, PreparedMutation
    <3>2. Handled(m) = PrepareAuctionMutation(r, Preparation(m))
      BY <3>1 DEF Handled
    <3>. QED
      BY <1>2, <2>1, <3>1, <3>2, PreparationStored, SameAuthorityFit
  <2>3. CASE m \in DecisionRequest
    <3>1. m.type \in {"commit", "abort"} /\ m.op \in Op /\ m.primary \in Node
      BY <2>3 DEF DecisionRequest
    <3>2. \/ Handled(m) = CommitPreparedMutation(r, m)
          \/ Handled(m) = AbortPreparedMutation(r, m)
      BY <3>1 DEF Handled
    <3>. QED
      BY <1>2, <2>1, <3>1, <3>2, CommitStored, AbortStored, SameAuthorityFit
  <2>4. CASE m \in BeginRequest
    <3>1. m.type = "begin" /\ m.epoch \in 1..MaxEpoch
      BY <2>4 DEF BeginRequest
    <3>2. Entitled(m.to, m.epoch) /\ m.epoch <= last_primary_epoch
      BY <1>1, <1>2, <3>1 DEF FitRequest, FInv, OneEntitled
    <3>3. Handled(m) = BeginPrimaryPromotion(r, m)
      BY <3>1 DEF Handled
    <3>. QED
      BY <1>2, <2>1, <3>1, <3>2, <3>3, BeginFit
  <2>5. CASE m \in CompleteRequest
    <3>1. m.type = "complete" /\ m.backup \in Node
      BY <2>5 DEF CompleteRequest
    <3>2. Handled(m) = CompletePrimaryPromotion(r, m)
      BY <3>1 DEF Handled
    <3>. QED
      BY <1>2, <2>1, <3>1, <3>2, CompletionFit
  <2>. QED
    BY <1>1, <2>2, <2>3, <2>4, <2>5 DEF Request
<1>4. StorageKept
  BY <1>2, <1>3, SaveKept DEF LateHandler
<1>. QED
  BY <1>4, ControllerWaits, SyncsWait, RequestsWait DEF Kept, LateHandler
-----------------------------------------------------------------------------
(* Membership *)

LEMMA RegistrationKept ==
    ASSUME FInv, NEW n \in Node, RegisterNode(n, Reported(replica[n]))
    PROVE  ControllerKept
<1>. DEFINE r == Reported(replica[n])
<1>1. /\ r \in Report /\ r.epoch = replica[n].epoch /\ r.role = replica[n].role
      /\ r.epoch <= last_primary_epoch
  BY ReplicaFit, ReportRead DEF Fit
<1>2. CInv'
  BY <1>1, RegisterNodeInv DEF FInv
<1>. HIDE DEF r
<1>3. RegisterNode(n, r)
  BY DEF r
<1>4. last_primary_epoch > 0 /\ last_primary_epoch # 0
  BY DEF FInv, CInv, Shape, AssignmentSound
<1>5. /\ last_primary_epoch' = last_primary_epoch
      /\ \/ SameOwner
         \/ /\ r.role = "primary"
            /\ assignment'.epoch = r.epoch /\ assignment'.primary = n
      /\ \A t \in Threads :
           threads'[t].phase \notin Detached =>
             \/ Served(threads'[t].epoch, threads'[t].primary)
             \/ /\ assignment' # NoAssignment
                /\ threads'[t].epoch = assignment'.epoch
                /\ threads'[t].primary = assignment'.primary
  BY <1>1, <1>3, <1>4, RegistrationServed DEF FInv
<1>6. ASSUME NEW m \in Node, NEW e \in Nat, assignment' # NoAssignment,
             assignment'.epoch = e, assignment'.primary = m
      PROVE  Entitled(m, e)
  BY <1>1, <1>5, <1>6 DEF SameOwner, Entitled, Served
<1>7. ASSUME NEW m \in Node, NEW e \in Nat, NEW t \in Threads,
             threads'[t].phase \notin Detached,
             threads'[t].epoch = e, threads'[t].primary = m
      PROVE  Entitled(m, e)
  <2>1. CASE Served(threads'[t].epoch, threads'[t].primary)
    BY <1>7, <2>1 DEF Entitled
  <2>2. CASE /\ assignment' # NoAssignment
             /\ threads'[t].epoch = assignment'.epoch
             /\ threads'[t].primary = assignment'.primary
    BY <1>6, <1>7, <2>2
  <2>. QED
    BY <1>5, <1>7, <2>1, <2>2
<1>. QED
  BY <1>2, <1>5, <1>6, <1>7 DEF ControllerKept, Served

LEMMA ReregisterKept ==
    ASSUME FInv, NEW n \in Node, Reregister(n)
    PROVE  Kept
  BY RegistrationKept, StorageWaits, SyncsWait, RequestsWait
  DEF Kept, Reregister

LEMMA ProbeKept ==
    ASSUME FInv, NEW n \in Node, ProbeAnswered(n) \/ ProbeUnanswered(n)
    PROVE  Kept
<1>1. HeartbeatFails(n) \/ HeartbeatAnswered(n, Reported(replica[n]))
  BY DEF ProbeAnswered, ProbeUnanswered
<1>2. CInv'
  BY <1>1, HeartbeatFailsInv, HeartbeatAnsweredInv DEF FInv
<1>3. NobodyNew
  BY <1>1, HeartbeatsServed DEF FInv
<1>4. ControllerKept
  BY <1>2, <1>3, NobodyNewKept
<1>. QED
  BY <1>4, StorageWaits, SyncsWait, RequestsWait
  DEF Kept, ProbeAnswered, ProbeUnanswered

(* A restarted replica is what its snapshot makes of it.                    *)
LEMMA RestartKept ==
    ASSUME FInv, NEW n \in Node, Restart(n)
    PROVE  Kept
<1>1. Fit(n, Loaded(disk[n])) /\ Loaded(disk[n]) \in Replica
  BY ReplicaFit, LoadedFit DEF Fit
<1>2. ReplicasKept
  BY <1>1, ReplicaFit DEF FInv, ReplicasFit, ReplicasKept, Restart
<1>3. DecisionsKept'
  <2>1. \A m \in Node : committing[m] # NoOp => replica'[m] = replica[m]
    BY DEF Restart, Serves, FInv, ReplicasFit
  <2>. QED
    BY <2>1, ServingReplicas DEF Restart
<1>4. StartsKept
  <2>1. [booting[n] EXCEPT !.phase = "start"] \in Starting
    BY ReplicaFit DEF FitStart, Starting
  <2>2. FitStart(n, [booting[n] EXCEPT !.phase = "start"])
    BY <2>1, ReplicaFit DEF FitStart, Starting
  <2>. QED
    BY <2>1, <2>2, ReplicaFit DEF FInv, StartsFit, StartsKept, Restart
<1>5. \A s \in syncs' : FitSynchronization(s)
  <2>1. ASSUME NEW s \in syncs
        PROVE  FitSynchronization([s EXCEPT !.phase = "failed"])
    BY DEF FInv, FitSynchronization, Synchronization
  <2>. QED
    BY <2>1 DEF FInv, Restart
<1>6. RequestsKept
  BY RequestsWait DEF Restart
<1>. QED
  BY <1>2, <1>3, <1>4, <1>5, <1>6, ControllerWaits
  DEF Kept, StorageKept, SyncsKept, Restart, FInv, ClientsTyped

(* The answer to a registration names the primary of the assignment.        *)
LEMMA BootRegisterKept ==
    ASSUME FInv, NEW n \in Node, BootRegister(n)
    PROVE  Kept
<1>. DEFINE answer ==
         IF assignment' = NoAssignment
         THEN [phase |-> "registered", is_primary |-> FALSE,
               epoch |-> last_primary_epoch']
         ELSE [phase |-> "registered", is_primary |-> assignment'.primary = n,
               epoch |-> assignment'.epoch]
<1>1. ControllerKept
  BY RegistrationKept DEF BootRegister
<1>2. /\ last_primary_epoch' = last_primary_epoch
      /\ last_primary_epoch \in 1..MaxEpoch
      /\ assignment' # NoAssignment => /\ assignment' \in PrimaryAssignment
                                       /\ assignment'.epoch = last_primary_epoch'
  BY <1>1 DEF ControllerKept, FInv, CInv, Shape, AssignmentSound
<1>3. \E primary \in BOOLEAN :
         /\ primary => assignment' # NoAssignment /\ assignment'.primary = n
         /\ answer = [phase |-> "registered", is_primary |-> primary,
                      epoch |-> last_primary_epoch']
  <2>1. CASE assignment' = NoAssignment
    BY <2>1
  <2>2. CASE assignment' # NoAssignment
    <3>1. answer = [phase |-> "registered",
                    is_primary |-> assignment'.primary = n,
                    epoch |-> last_primary_epoch']
      BY <1>2, <2>2
    <3>2. CASE assignment'.primary = n
      <4>1. (assignment'.primary = n) = TRUE
        BY <3>2
      <4>. QED
        BY <2>2, <3>1, <3>2, <4>1
    <3>3. CASE assignment'.primary # n
      <4>1. (assignment'.primary = n) = FALSE
        BY <3>3
      <4>. QED
        BY <3>1, <4>1
    <3>. QED
      BY <3>2, <3>3
  <2>. QED
    BY <2>1, <2>2
<1>4. booting' = [booting EXCEPT ![n] = answer]
  BY DEF BootRegister
<1>. HIDE DEF answer
<1>5. answer \in Starting /\ FitStart(n, answer)
  <2>1. PICK primary \in BOOLEAN :
           /\ primary => assignment' # NoAssignment /\ assignment'.primary = n
           /\ answer = [phase |-> "registered", is_primary |-> primary,
                        epoch |-> last_primary_epoch]
    BY <1>2, <1>3
  <2>2. answer \in Starting
    BY <1>2, <2>1, ControllerAssumption DEF Starting
  <2>3. PICK e \in Nat : e = last_primary_epoch
    BY <1>2
  <2>4. primary => Served(e, n)'
    BY <1>2, <2>1, <2>3 DEF Served
  <2>5. primary => Entitled(n, e)
    BY <1>1, <2>4 DEF ControllerKept
  <2>6. answer.phase = "registered" /\ answer.epoch = e
        /\ answer.is_primary = primary /\ e \in 1..last_primary_epoch
    BY <1>2, <2>1, <2>3, ControllerAssumption
  <2>. QED
    BY <2>2, <2>5, <2>6 DEF FitStart
<1>6. StartsKept
  BY <1>4, <1>5, ReplicaFit DEF FInv, StartsFit, StartsKept
<1>. QED
  BY <1>1, <1>6, StorageWaits, RequestsWait DEF Kept, SyncsKept, BootRegister, FInv

LEMMA BootedStarting ==
    /\ Booted \in Starting /\ Booted.phase = "done"
    /\ [Booted EXCEPT !.phase = "lookup"] \in Starting
    /\ [Booted EXCEPT !.phase = "lookup"].phase = "lookup"
<1>1. Booted \in Starting /\ Booted.phase = "done"
  BY ControllerAssumption DEF Booted, Starting
<1>. QED
  BY <1>1 DEF Starting

LEMMA BootRegisteredKept ==
    ASSUME FInv, NEW n \in Node, BootRegistered(n)
    PROVE  Kept
<1>. DEFINE r == Registered(replica[n], booting[n])
            next == IF replica'[n].role = "backup"
                    THEN [Booted EXCEPT !.phase = "lookup"] ELSE Booted
<1>1. Fit(n, r) /\ r \in Replica
  BY ReplicaFit, RegisteredFit DEF BootRegistered, Fit
<1>2. replica' = [replica EXCEPT ![n] = r]
  BY DEF BootRegistered
<1>3. booting' = [booting EXCEPT ![n] = next]
  BY DEF BootRegistered
<1>4. next \in Starting /\ FitStart(n, next)
  <2>1. next = Booted \/ next = [Booted EXCEPT !.phase = "lookup"]
    OBVIOUS
  <2>2. Booted \in Starting /\ [Booted EXCEPT !.phase = "lookup"] \in Starting
    BY BootedStarting
  <2>3. next.phase # "registered"
    BY <2>1, BootedStarting
  <2>. QED
    BY <2>1, <2>2, <2>3 DEF FitStart
<1>. HIDE DEF r, next
<1>5. ReplicasKept
  BY <1>1, <1>2, ReplicaFit DEF FInv, ReplicasFit, ReplicasKept, BootRegistered
<1>6. DecisionsKept'
  <2>1. \A m \in Node : committing[m] # NoOp => replica'[m] = replica[m]
    BY <1>2 DEF BootRegistered, Serves, FInv, ReplicasFit
  <2>. QED
    BY <2>1, ServingReplicas DEF BootRegistered
<1>7. StartsKept
  BY <1>3, <1>4, ReplicaFit DEF FInv, StartsFit, StartsKept
<1>. QED
  BY <1>5, <1>6, <1>7, ControllerWaits, RequestsWait
  DEF Kept, StorageKept, SyncsKept, BootRegistered, FInv, ClientsTyped

LEMMA FetchedFit ==
    ASSUME FInv, NEW n \in Node, NEW source \in Node, NEW epoch \in 1..MaxEpoch,
           epoch <= last_primary_epoch,
           NEW caller \in Worker \cup {Monitor, Boot, Orphan}
    PROVE  FitSynchronization(Fetched(n, source, epoch, caller))
  BY ReplicaFit DEF FitSynchronization, Fetched, Synchronization, Replica

LEMMA BootLookupKept ==
    ASSUME FInv, NEW n \in Node, BootLookup(n)
    PROVE  Kept
<1>. DEFINE s == Fetched(n, PublishedPrimary, assignment.epoch, Boot)
<1>1. PublishedPrimary # NoNode =>
        /\ PublishedPrimary \in Node /\ assignment.epoch \in 1..MaxEpoch
        /\ assignment.epoch <= last_primary_epoch
  BY DEF FInv, CInv, Shape, AssignmentSound, PublishedPrimary, PrimaryAssignment
<1>2. PublishedPrimary # NoNode => FitSynchronization(s)
  BY <1>1, FetchedFit
<1>3. /\ syncs' = syncs \/ (PublishedPrimary # NoNode /\ syncs' = syncs \cup {s})
      /\ \/ booting' = [booting EXCEPT ![n] = Booted]
         \/ booting' = [booting EXCEPT ![n].phase = "sync"]
         \/ booting' = [booting EXCEPT ![n].phase = "start"]
  BY DEF BootLookup
<1>. HIDE DEF s
<1>4. \A x \in syncs' : FitSynchronization(x)
  BY <1>2, <1>3 DEF FInv
<1>5. /\ Booted \in Starting /\ FitStart(n, Booted)
      /\ \A phase \in {"sync", "start"} :
           /\ [booting[n] EXCEPT !.phase = phase] \in Starting
           /\ FitStart(n, [booting[n] EXCEPT !.phase = phase])
  BY ReplicaFit, BootedStarting DEF Starting, FitStart
<1>6. StartsKept
  BY <1>3, <1>5, ReplicaFit DEF FInv, StartsFit, StartsKept
<1>. QED
  BY <1>4, <1>6, ControllerWaits, StorageWaits, RequestsWait
  DEF Kept, SyncsKept, BootLookup
-----------------------------------------------------------------------------
(* Promotion *)

LEMMA ThreadsAre == FInv => DOMAIN threads = Threads
  BY DEF FInv, CInv, Shape, ThreadsSound

(* No step of the controller between two elections entitles anybody.        *)
LEMMA PromotionStepKept ==
    ASSUME FInv, NEW t \in Threads,
           \/ StartPromotion(t) \/ BeginPromotionAccepted(t)
           \/ PromotionStateConfirmed(t) \/ PromotionRpcFails(t)
           \/ TryNextPromotionBackup(t) \/ PromotionSynchronizationFails(t)
           \/ SelectedBackupEvicted(t) \/ NoPromotionBackup(t)
           \/ SynchronizationSucceeds(t)
    PROVE  ControllerKept
<1>1. CASE StartPromotion(t) \/ BeginPromotionAccepted(t)
  <2>1. CInv'
    BY <1>1, AdvanceInv DEF StartPromotion, BeginPromotionAccepted, FInv
  <2>. QED
    BY <1>1, <2>1, PromotionServed, NobodyNewKept DEF FInv
<1>2. CASE PromotionStateConfirmed(t) \/ SynchronizationSucceeds(t)
  <2>1. CInv'
    BY <1>2, PromotionStateConfirmedInv, SynchronizationSucceedsInv DEF FInv
  <2>. QED
    BY <1>2, <2>1, PromotionServed, NobodyNewKept DEF FInv
<1>3. CASE PromotionRpcFails(t) \/ NoPromotionBackup(t)
  <2>1. CInv' /\ (CandidateFailed(t) \/ Abandon(t))
    BY <1>3, CandidateFailedInv, AbandonInv
    DEF FInv, PromotionRpcFails, NoPromotionBackup
  <2>. QED
    BY <2>1, PromotionServed, NobodyNewKept DEF FInv
<1>4. CASE TryNextPromotionBackup(t)
  <2>1. CInv' /\ threads[t].phase \notin Detached
    BY <1>4, TryNextPromotionBackupInv DEF FInv, TryNextPromotionBackup, Detached
  <2>. QED
    BY <1>4, <2>1, BackupsServed, NobodyNewKept DEF FInv
<1>5. CASE PromotionSynchronizationFails(t) \/ SelectedBackupEvicted(t)
  <2>1. CInv' /\ threads[t].phase \notin Detached /\ PromotionBackupFailed(t)
    BY <1>5, PromotionBackupFailedInv
    DEF FInv, PromotionSynchronizationFails, SelectedBackupEvicted, Detached
  <2>. QED
    BY <2>1, BackupsServed, NobodyNewKept DEF FInv
<1>. QED
  BY <1>1, <1>2, <1>3, <1>4, <1>5

LEMMA ReplacementStepKept ==
    ASSUME FInv, NEW t \in Threads,
           TryNextReplacementBackup(t) \/ ReplacementSynchronizationFails(t)
    PROVE  ControllerKept
<1>1. CInv'
  BY TryNextReplacementBackupInv, ReplacementSynchronizationFailsInv DEF FInv
<1>2. threads[t].phase \notin Detached
  BY DEF TryNextReplacementBackup, ReplacementSynchronizationFails, Detached
<1>. QED
  BY <1>1, <1>2, ReplacementsServed, NobodyNewKept DEF FInv

LEMMA CompletionStepKept ==
    ASSUME FInv, NEW t \in Threads,
           \/ CompletionSucceeds(t) \/ CompletionUnanswered(t)
           \/ CompletionRejected(t)
    PROVE  ControllerKept
<1>1. CInv'
  BY CompletionSucceedsInv, CompletionFailsInv DEF FInv
<1>2. NobodyNew
  <2>1. CASE CompletionSucceeds(t)
    BY <2>1, CompletionsServed DEF FInv
  <2>2. CASE CompletionUnanswered(t) \/ CompletionRejected(t)
    <3>1. /\ Abandon(t) \/ CandidateFailed(t) \/ RejectReplacement(t)
          /\ threads[t].phase \notin Detached
      BY <2>2 DEF CompletionUnanswered, CompletionRejected, Detached
    <3>. QED
      BY <3>1, PromotionServed, ReplacementsServed DEF FInv
  <2>. QED
    BY <2>1, <2>2
<1>. QED
  BY <1>1, <1>2, NobodyNewKept

LEMMA BeginKept ==
    ASSUME FInv, NEW t \in Threads, BeginPromotion(t) \/ BeginUnanswered(t)
    PROVE  Kept
<1>. DEFINE w == threads[t]
            r == BeginPrimaryPromotion(replica[w.primary], w)
            m == [type |-> "begin", to |-> w.primary, epoch |-> w.epoch]
<1>1. /\ w.primary \in Node /\ w.epoch \in 1..MaxEpoch
      /\ w.epoch <= last_primary_epoch /\ Entitled(w.primary, w.epoch)
  BY ServingThread DEF BeginPromotion, BeginUnanswered, Detached
<1>2. BeginPromotionAccepted(t) \/ PromotionRpcFails(t)
  BY DEF BeginPromotion, BeginUnanswered
<1>3. ControllerKept
  BY <1>2, PromotionStepKept
<1>4. CASE BeginPromotion(t)
  <2>1. Fit(w.primary, r)
    BY <1>1, ReplicaFit, BeginFit
  <2>2. Serves(w.primary) /\ Save(w.primary, r)
    BY <1>4 DEF BeginPromotion
  <2>. HIDE DEF w, r
  <2>3. StorageKept
    BY <1>1, <1>4, <2>1, <2>2, SaveKept DEF BeginPromotion
  <2>. QED
    BY <1>3, <1>4, <2>3, SyncsWait, RequestsWait DEF Kept, BeginPromotion
<1>5. CASE BeginUnanswered(t)
  <2>1. m \in BeginRequest
    BY <1>1 DEF BeginRequest
  <2>2. FitRequest(m)
    BY <1>1, <2>1 DEF FitRequest, Request
  <2>3. NeverAnswered(m)
    BY <1>5 DEF BeginUnanswered
  <2>. HIDE DEF m
  <2>4. RequestsKept
    BY <2>2, <2>3, RequestAdded
  <2>. QED
    BY <1>3, <1>5, <2>4, SyncsWait, StorageWaits DEF Kept, BeginUnanswered
<1>. QED
  BY <1>4, <1>5

LEMMA ConfirmKept ==
    ASSUME FInv, NEW t \in Threads, ConfirmPromotion(t) \/ ConfirmUnanswered(t)
    PROVE  Kept
<1>1. PromotionStateConfirmed(t) \/ PromotionRpcFails(t)
  BY DEF ConfirmPromotion, ConfirmUnanswered
<1>. QED
  BY <1>1, PromotionStepKept, StorageWaits, SyncsWait, RequestsWait
  DEF Kept, ConfirmPromotion, ConfirmUnanswered

LEMMA AnswerWaitingKept ==
    ASSUME FInv, NEW w, NEW phase \in {"told", "failed"}, AnswerWaiting(w, phase),
           UNCHANGED booting
    PROVE  SyncsKept
<1>1. ASSUME NEW s \in syncs
      PROVE  FitSynchronization(s) /\ FitSynchronization([s EXCEPT !.phase = phase])
  BY DEF FInv, FitSynchronization, Synchronization
<1>2. \A s \in syncs' : FitSynchronization(s)
  BY <1>1 DEF AnswerWaiting
<1>. QED
  BY <1>2 DEF SyncsKept, StartsKept, StartsFit, FInv

LEMMA CompleteKept ==
    ASSUME FInv, NEW t \in Threads, CompletePromotion(t) \/ CompleteUnanswered(t)
    PROVE  Kept
<1>. DEFINE w == threads[t]
            m == Completion(w)
            r == CompletePrimaryPromotion(replica[w.primary], m)
<1>1. /\ w.primary \in Node /\ w.epoch \in 1..MaxEpoch /\ w.backup \in Node
  BY ServingThread DEF CompletePromotion, CompleteUnanswered, Detached, Attending
<1>2. CompletionSucceeds(t) \/ CompletionRejected(t) \/ CompletionUnanswered(t)
  BY DEF CompletePromotion, CompleteUnanswered
<1>3. ControllerKept
  BY <1>2, CompletionStepKept
<1>4. m \in CompleteRequest /\ m.backup \in Node /\ m.type = "complete"
  BY <1>1 DEF CompleteRequest, Completion
<1>5. SyncsKept
  <2>1. PICK phase \in {"told", "failed"} : AnswerWaiting(w, phase)
    BY DEF CompletePromotion, CompleteUnanswered
  <2>. QED
    BY <2>1, AnswerWaitingKept DEF CompletePromotion, CompleteUnanswered
<1>6. CASE CompletePromotion(t)
  <2>1. Fit(w.primary, r)
    BY <1>1, <1>4, ReplicaFit, CompletionFit
  <2>2. Serves(w.primary) /\ Save(w.primary, r)
    BY <1>6 DEF CompletePromotion
  <2>. HIDE DEF w, r, m
  <2>3. StorageKept
    BY <1>1, <1>6, <2>1, <2>2, SaveKept DEF CompletePromotion
  <2>. QED
    BY <1>3, <1>5, <1>6, <2>3, RequestsWait DEF Kept, CompletePromotion
<1>7. CASE CompleteUnanswered(t)
  <2>1. FitRequest(m)
    BY <1>4 DEF FitRequest, Request
  <2>2. NeverAnswered(m)
    BY <1>7 DEF CompleteUnanswered
  <2>. HIDE DEF m
  <2>3. RequestsKept
    BY <2>1, <2>2, RequestAdded
  <2>. QED
    BY <1>3, <1>5, <1>7, <2>3, StorageWaits DEF Kept, CompleteUnanswered
<1>. QED
  BY <1>6, <1>7

-----------------------------------------------------------------------------
(* Synchronization *)

LEMMA SynchronizationFailsKept ==
    ASSUME FInv, NEW t \in Threads, SynchronizationFails(t)
    PROVE  ControllerKept
  BY PromotionStepKept, ReplacementStepKept DEF SynchronizationFails

LEMMA SyncsFit ==
    ASSUME FInv, NEW s \in syncs
    PROVE  /\ FitSynchronization(s) /\ s \in Synchronization /\ s.node \in Node
           /\ \A phase \in {"report", "waiting", "told", "failed", "settled"} :
                FitSynchronization([s EXCEPT !.phase = phase])
           /\ FitSynchronization([s EXCEPT !.phase = "report", !.store = <<>>,
                                           !.records = {}])
           /\ FitSynchronization([s EXCEPT !.caller = Orphan])
<1>1. FitSynchronization(s)
  BY DEF FInv
<1>2. <<>> \in Seq(Op) /\ {} \in SUBSET Record
  OBVIOUS
<1>. QED
  BY <1>1, <1>2 DEF FitSynchronization, Synchronization

LEMMA StartSynchronizationKept ==
    ASSUME FInv, NEW t \in Threads, StartSynchronization(t)
    PROVE  Kept
<1>. DEFINE w == threads[t]
            s == Fetched(w.backup, w.primary, w.epoch, t)
<1>1. /\ w.primary \in Node /\ w.epoch \in 1..MaxEpoch /\ w.backup \in Node
      /\ w.epoch <= last_primary_epoch
  BY ServingThread
  DEF StartSynchronization, Synchronizing, Detached, Attending
<1>2. FitSynchronization(s)
  BY <1>1, FetchedFit DEF Threads
<1>3. /\ syncs' \in {syncs, syncs \cup {s}}
      /\ SynchronizationFails(t) \/ UNCHANGED controllerVars
  BY DEF StartSynchronization
<1>. HIDE DEF s
<1>4. SyncsKept
  BY <1>2, <1>3 DEF SyncsKept, StartsKept, FInv, StartsFit, StartSynchronization
<1>. QED
  BY <1>3, <1>4, SynchronizationFailsKept, ControllerWaits, StorageWaits,
     RequestsWait
  DEF Kept, StartSynchronization

LEMMA SynchronizationUnansweredKept ==
    ASSUME FInv, NEW t \in Threads, SynchronizationUnanswered(t)
    PROVE  Kept
<1>1. SyncsKept
  BY SyncsFit
  DEF SyncsKept, StartsKept, FInv, StartsFit, SynchronizationUnanswered
<1>. QED
  BY <1>1, SynchronizationFailsKept, StorageWaits, RequestsWait
  DEF Kept, SynchronizationUnanswered

LEMMA InstallKept ==
    ASSUME FInv, NEW s \in syncs, Install(s)
    PROVE  Kept
<1>. DEFINE n == s.node
            r == ReplaceWithFullState(replica[n], s.epoch, s.store, s.records)
<1>1. n \in Node /\ FitSynchronization(s)
  BY SyncsFit
<1>2. /\ syncs' = (syncs \ {s}) \cup
                    {[s EXCEPT !.phase = "report", !.store = <<>>, !.records = {}]}
      \/ syncs' = (syncs \ {s}) \cup {[s EXCEPT !.phase = "failed"]}
  BY DEF Install, To
<1>3. SyncsKept
  BY <1>2, SyncsFit DEF SyncsKept, StartsKept, FInv, StartsFit, Install
<1>4. StorageKept
  <2>1. CASE Synchronizable(replica[n], s.epoch)
    <3>1. Fit(n, r) /\ r \in Replica
      BY <1>1, <2>1, ReplicaFit, InstalledFit DEF Synchronizable, Fit
    <3>2. FitSnapshot(n, Saved(r)) /\ Saved(r) \in Snapshot
      BY <1>1, <3>1, SnapshotFit DEF FitSnapshot
    <3>3. /\ replica' = [replica EXCEPT ![n] = r]
          /\ disk' = [disk EXCEPT ![n] = Saved(replica'[n])]
      BY <2>1 DEF Install
    <3>. HIDE DEF r
    <3>4. replica'[n] = r
      BY <1>1, <3>3 DEF FInv, ReplicasFit
    <3>5. ReplicasKept
      BY <1>1, <3>1, <3>2, <3>3, <3>4, ReplicaFit
      DEF FInv, ReplicasFit, ReplicasKept
    <3>6. DecisionsKept'
      <4>1. \A m \in Node : committing[m] # NoOp => replica'[m] = replica[m]
        BY <3>3 DEF Install, Serves, FInv, ReplicasFit
      <4>. QED
        BY <4>1, ServingReplicas DEF Install
    <3>. QED
      BY <3>5, <3>6 DEF StorageKept, Install, FInv, ClientsTyped
  <2>2. CASE ~Synchronizable(replica[n], s.epoch)
    BY <2>2, StorageWaits DEF Install, storageVars
  <2>. QED
    BY <2>1, <2>2
<1>. QED
  BY <1>3, <1>4, ControllerWaits, RequestsWait DEF Kept, Install

LEMMA ReportKept ==
    ASSUME FInv, NEW s \in syncs, ReportCompletion(s) \/ ReportUnanswered(s)
    PROVE  Kept
<1>1. ReportSynchronizationComplete(s.node) \/ UNCHANGED controllerVars
  BY DEF ReportCompletion, ReportUnanswered
<1>2. ControllerKept
  <2>1. CASE ReportSynchronizationComplete(s.node)
    <3>1. CInv' /\ NobodyNew
      BY <2>1, SyncsFit, ReportSynchronizationCompleteInv, ReportsServed DEF FInv
    <3>. QED
      BY <3>1, NobodyNewKept
  <2>. QED
    BY <1>1, <2>1, ControllerWaits
<1>3. \E phase \in {"waiting", "settled", "failed"} :
         syncs' = (syncs \ {s}) \cup {[s EXCEPT !.phase = phase]}
  BY DEF ReportCompletion, ReportUnanswered, To
<1>4. SyncsKept
  BY <1>3, SyncsFit
  DEF SyncsKept, StartsKept, FInv, StartsFit, ReportCompletion, ReportUnanswered
<1>. QED
  BY <1>2, <1>4, StorageWaits, RequestsWait
  DEF Kept, ReportCompletion, ReportUnanswered

LEMMA SynchronizationEndsKept ==
    ASSUME FInv, NEW s \in syncs, SynchronizationEnds(s)
    PROVE  Kept
<1>. DEFINE n == s.node
            r == Synchronized(replica[n], s.epoch)
<1>1. n \in Node
  BY SyncsFit
<1>2. ControllerKept
  <2>1. \/ /\ Awaits(s)
           /\ SynchronizationSucceeds(s.caller) \/ SynchronizationFails(s.caller)
        \/ UNCHANGED controllerVars
    BY DEF SynchronizationEnds
  <2>2. Awaits(s) => s.caller \in Threads
    BY ThreadsAre DEF Awaits
  <2>. QED
    BY <2>1, <2>2, PromotionStepKept, SynchronizationFailsKept, ControllerWaits
<1>3. StorageKept
  <2>1. CASE s.phase = "told"
    <3>1. Fit(n, r) /\ r \in Replica
      BY <1>1, ReplicaFit, SynchronizedFit DEF Fit
    <3>2. replica' = [replica EXCEPT ![n] = r]
      BY <1>1, <2>1 DEF SynchronizationEnds, FInv, ReplicasFit
    <3>. HIDE DEF r
    <3>3. ReplicasKept
      BY <1>1, <3>1, <3>2, ReplicaFit
      DEF FInv, ReplicasFit, ReplicasKept, SynchronizationEnds
    <3>4. DecisionsKept'
      <4>1. \A m \in Node : committing[m] # NoOp => replica'[m] = replica[m]
        BY <2>1, <3>2 DEF SynchronizationEnds, Serves, FInv, ReplicasFit
      <4>. QED
        BY <4>1, ServingReplicas DEF SynchronizationEnds
    <3>. QED
      BY <3>3, <3>4 DEF StorageKept, SynchronizationEnds, FInv, ClientsTyped
  <2>2. CASE s.phase # "told"
    BY <2>2, StorageWaits DEF SynchronizationEnds, storageVars
  <2>. QED
    BY <2>1, <2>2
<1>4. StartsKept
  <2>1. /\ Booted \in Starting /\ FitStart(n, Booted)
        /\ [booting[n] EXCEPT !.phase = "start"] \in Starting
        /\ FitStart(n, [booting[n] EXCEPT !.phase = "start"])
    BY <1>1, ReplicaFit, BootedStarting DEF Starting, FitStart
  <2>2. \/ booting' = booting
        \/ booting' = [booting EXCEPT ![n].phase = "start"]
        \/ booting' = [booting EXCEPT ![n] = Booted]
    BY DEF SynchronizationEnds
  <2>. QED
    BY <1>1, <2>1, <2>2, ReplicaFit DEF FInv, StartsFit, StartsKept
<1>5. SyncsKept
  BY <1>4 DEF SyncsKept, SynchronizationEnds, FInv
<1>. QED
  BY <1>2, <1>3, <1>5, RequestsWait DEF Kept, SynchronizationEnds
-----------------------------------------------------------------------------
(* The specification *)

(* An election entitles its candidate, in an epoch nobody was entitled to.  *)
LEMMA ElectInvariant ==
    ASSUME FInv, NEW t \in Threads, Elect(t),
           UNCHANGED <<storageVars, syncVars, late>>, Publication
    PROVE  FInv'
<1>1. CInv'
  BY ElectInv DEF FInv
<1>2. CASE NobodyNew
  BY <1>1, <1>2, NobodyNewKept, StorageWaits, SyncsWait, RequestsWait, KeptInv
  DEF Kept
<1>3. CASE /\ last_primary_epoch' = last_primary_epoch + 1
           /\ assignment' # NoAssignment
           /\ assignment'.epoch = last_primary_epoch'
           /\ \A u \in Threads :
                threads'[u].phase \notin Detached =>
                  \/ Served(threads'[u].epoch, threads'[u].primary)
                  \/ /\ threads'[u].epoch = assignment'.epoch
                     /\ threads'[u].primary = assignment'.primary
  <2>1. last_primary_epoch \in Nat /\ last_primary_epoch > 0
    BY DEF FInv, CInv, Shape, AssignmentSound
  <2>2. UNCHANGED <<replica, disk, committing, acked, booting, syncs, late>>
    BY DEF storageVars, syncVars
  <2>3. ASSUME NEW n \in Node, NEW e \in Nat, Entitled(n, e)'
        PROVE  \/ Entitled(n, e) /\ e <= last_primary_epoch
               \/ e = last_primary_epoch' /\ n = assignment'.primary
    <3>1. CASE Served(e, n)'
      <4>1. CASE /\ assignment' # NoAssignment
                 /\ assignment'.epoch = e /\ assignment'.primary = n
        BY <1>3, <4>1
      <4>2. CASE \E u \in Threads :
                   /\ threads'[u].phase \notin Detached
                   /\ threads'[u].epoch = e /\ threads'[u].primary = n
        <5>1. \/ Served(e, n)
              \/ e = assignment'.epoch /\ n = assignment'.primary
          BY <1>3, <4>2
        <5>. QED
          BY <1>3, <5>1 DEF Entitled, FInv, OneEntitled
      <4>. QED
        BY <3>1, <4>1, <4>2 DEF Served
    <3>2. CASE ~Served(e, n)'
      <4>1. Entitled(n, e)
        BY <2>2, <2>3, <3>2 DEF Entitled
      <4>. QED
        BY <4>1 DEF FInv, OneEntitled
    <3>. QED
      BY <3>1, <3>2
  <2>4. OneEntitled'
    <3>. SUFFICES ASSUME NEW n \in Node, NEW e \in Nat, Entitled(n, e)'
                  PROVE  /\ e <= last_primary_epoch'
                         /\ \A m \in Node : Entitled(m, e)' => m = n
      BY DEF OneEntitled
    <3>1. \A m \in Node : Entitled(m, e)' =>
            \/ Entitled(m, e) /\ e <= last_primary_epoch
            \/ e = last_primary_epoch' /\ m = assignment'.primary
      BY <2>3
    <3>2. \A m, k \in Node : Entitled(m, e) /\ Entitled(k, e) => m = k
      BY DEF FInv, OneEntitled
    <3>. QED
      BY <1>3, <2>1, <3>1, <3>2
  <2>5. ASSUME NEW n \in Node
        PROVE  Fit(n, replica[n])' /\ FitSnapshot(n, disk[n])'
    <3>1. Fit(n, replica[n]) /\ FitSnapshot(n, disk[n])
      BY ReplicaFit
    <3>2. replica[n].epoch \in Nat /\ disk[n].epoch \in Nat
      BY DEF FInv, ReplicasFit, Replica, Snapshot
    <3>. QED
      BY <1>3, <2>1, <2>2, <3>1, <3>2 DEF Fit, FitSnapshot, Entitled
  <2>6. ReplicasFit'
    BY <2>2, <2>5 DEF ReplicasFit, FInv
  <2>7. StartsFit'
    <3>1. ASSUME NEW n \in Node PROVE FitStart(n, booting[n])'
      <4>1. FitStart(n, booting[n])
        BY ReplicaFit
      <4>. QED
        BY <1>3, <2>1, <2>2, <4>1 DEF FitStart, Entitled
    <3>. QED
      BY <2>2, <3>1 DEF StartsFit, FInv
  <2>8. ASSUME NEW s \in syncs' PROVE FitSynchronization(s)'
    <3>1. FitSynchronization(s) /\ s.epoch \in Nat
      BY <2>2, <2>8 DEF FInv, FitSynchronization, Synchronization
    <3>. QED
      BY <1>3, <2>1, <3>1 DEF FitSynchronization
  <2>9. ASSUME NEW m \in late' PROVE FitRequest(m)'
    BY <2>2, <2>9 DEF FInv, FitRequest, Entitled
  <2>10. DecisionsKept' /\ ClientsTyped'
    <3>1. DecisionsKept'
      BY <2>2 DEF FInv, DecisionsKept
    <3>2. acked' \subseteq Op
      BY <2>2 DEF FInv, ClientsTyped
    <3>. QED
      BY <1>1, <3>1, <3>2, PublicationTyped
  <2>11. last_primary_epoch' > 0
    BY <1>3, <2>1
  <2>. QED
    BY <1>1, <2>4, <2>6, <2>7, <2>8, <2>9, <2>10, <2>11 DEF FInv
<1>. QED
  BY <1>2, <1>3, ElectionServed DEF FInv

LEMMA ReplicaStepKept ==
    ASSUME FInv, NEW n \in Node, ReplicaStep(n)
    PROVE  Kept
<1>1. CASE \E op \in Op : \/ PrepareAndDecide(n, op)
                          \/ PrepareRefused(n, op)
                          \/ PrepareUnanswered(n, op)
                          \/ ResumePendingCommit(n, op)
                          \/ ReplayResponse(n, op)
  BY <1>1, PrepareAndDecideKept, PrepareRefusedKept, PrepareUnansweredKept,
     ResumePendingCommitKept, ReplayResponseKept
<1>2. CASE CommitAnswered(n) \/ CommitUnanswered(n)
  BY <1>2, CommitAnsweredKept, CommitUnansweredKept
<1>3. CASE Reregister(n) \/ ProbeAnswered(n) \/ ProbeUnanswered(n)
  BY <1>3, ReregisterKept, ProbeKept
<1>4. CASE \/ Restart(n) \/ BootRegister(n) \/ BootRegistered(n)
           \/ BootLookup(n)
  BY <1>4, RestartKept, BootRegisterKept, BootRegisteredKept, BootLookupKept
<1>. QED
  BY <1>1, <1>2, <1>3, <1>4 DEF ReplicaStep

LEMMA RpcStepKept ==
    ASSUME FInv, NEW t \in Threads, RpcStep(t)
    PROVE  Kept
  BY BeginKept, ConfirmKept, CompleteKept, StartSynchronizationKept,
     SynchronizationUnansweredKept
  DEF RpcStep

LEMMA SyncStepKept ==
    ASSUME FInv, NEW s \in syncs, SyncStep(s)
    PROVE  Kept
  BY InstallKept, ReportKept, SynchronizationEndsKept DEF SyncStep

LEMMA ControllerStepInv ==
    ASSUME FInv, ControllerStep, Publication
    PROVE  FInv'
<1>1. UNCHANGED <<storageVars, syncVars, late>>
  BY DEF ControllerStep
<1>2. ControllerKept => FInv'
  BY <1>1, StorageWaits, SyncsWait, RequestsWait, KeptInv DEF Kept
<1>3. CASE HandleReplicaFailure
  <2>1. CInv' /\ NobodyNew
    BY <1>3, HandleReplicaFailureInv, EvictionsServed DEF FInv
  <2>. QED
    BY <1>2, <2>1, NobodyNewKept
<1>4. ASSUME NEW t \in Threads,
             \/ Elect(t) \/ StartPromotion(t) \/ TryNextPromotionBackup(t)
             \/ SelectedBackupEvicted(t) \/ NoPromotionBackup(t)
             \/ TryNextReplacementBackup(t)
      PROVE  FInv'
  BY <1>1, <1>2, <1>4, ElectInvariant, PromotionStepKept, ReplacementStepKept
<1>. QED
  BY <1>3, <1>4, ThreadsAre DEF ControllerStep

LEMMA NextInv == FInv /\ [Next]_vars => FInv'
<1>. SUFFICES ASSUME FInv, [Next]_vars PROVE FInv'
  OBVIOUS
<1>1. CASE Next
  <2>1. Publication
    BY <1>1 DEF Next, Publication
  <2>2. \/ \E n \in Node : ReplicaStep(n)
        \/ \E t \in Threads : RpcStep(t)
        \/ \E s \in syncs : SyncStep(s)
        \/ \E m \in late : LateHandler(m)
        \/ ControllerStep
    BY <1>1, ThreadsAre DEF Next
  <2>. QED
    BY <2>1, <2>2, ReplicaStepKept, RpcStepKept, SyncStepKept, LateHandlerKept,
       ControllerStepInv, KeptInv
<1>2. CASE UNCHANGED vars
  <2>1. /\ UNCHANGED controllerVars /\ UNCHANGED storageVars
        /\ UNCHANGED syncVars /\ UNCHANGED <<late, published>>
    BY <1>2 DEF vars
  <2>2. Kept
    BY <2>1, ControllerWaits, StorageWaits, SyncsWait, RequestsWait DEF Kept
  <2>3. ClientsTyped'
    BY <2>1 DEF FInv, ClientsTyped, storageVars
  <2>4. /\ UNCHANGED <<nodes, assignment, last_primary_epoch,
                       election_in_progress, threads>>
        /\ UNCHANGED <<replica, disk, committing, acked, booting, syncs>>
        /\ UNCHANGED <<late, published>>
    BY <2>1 DEF controllerVars, storageVars, syncVars
  <2>. QED
    BY <2>2, <2>4
    DEF FInv, Kept, ControllerKept, ReplicasFit, Fit, FitSnapshot, StartsFit,
        FitStart, FitSynchronization, FitRequest, DecisionsKept, ClientsTyped,
        OneEntitled, Entitled, Served
<1>. QED
  BY <1>1, <1>2
(* A ready cluster satisfies it.                                            *)
LEMMA InitialReplicas ==
    /\ Leader \in Node /\ Follower \in Node /\ Follower # Leader
    /\ \A n \in Node :
         /\ InitialReplica(n) \in Replica
         /\ InitialReplica(n).epoch = 1
         /\ InitialReplica(n).role = "primary" <=> n = Leader
         /\ InitialReplica(n).ready <=> n = Leader
         /\ n = Leader => InitialReplica(n).reported = InitialReplica(n).ready
<1>1. Leader \in Node
  BY FirstMember, FailoverAssumption DEF Leader
<1>2. Follower \in Node \ {Leader}
  BY <1>1, FirstMember, FailoverAssumption DEF Follower
<1>. DEFINE r(leader, reported) ==
         [role |-> IF leader THEN "primary" ELSE "backup",
          reported |-> reported, epoch |-> 1, ready |-> leader,
          backup |-> IF leader THEN Follower ELSE NoNode,
          store |-> <<>>, records |-> {}, prepared |-> {}, aborted |-> {},
          pending |-> {}]
<1>3. ASSUME NEW leader \in BOOLEAN, NEW reported \in BOOLEAN
      PROVE  /\ r(leader, reported) \in Replica
             /\ r(leader, reported).epoch = 1
             /\ r(leader, reported).role = "primary" <=> leader
             /\ r(leader, reported).ready = leader
             /\ r(leader, reported).reported = reported
  <2>1. 1 \in 1..MaxEpoch /\ <<>> \in Seq(Op)
    BY ControllerAssumption
  <2>. QED
    BY <1>2, <2>1 DEF Replica, Address
<1>4. ASSUME NEW n \in Node
      PROVE  InitialReplica(n) = r(n = Leader, n \in {Leader, Follower})
  BY DEF InitialReplica
<1>. HIDE DEF r
<1>5. ASSUME NEW n \in Node
      PROVE  /\ InitialReplica(n) \in Replica
             /\ InitialReplica(n).epoch = 1
             /\ InitialReplica(n).role = "primary" <=> n = Leader
             /\ InitialReplica(n).ready <=> n = Leader
             /\ n = Leader => InitialReplica(n).reported = InitialReplica(n).ready
  <2>1. PICK leader \in BOOLEAN, reported \in BOOLEAN :
           /\ leader <=> n = Leader
           /\ n = Leader => reported
           /\ InitialReplica(n) = r(leader, reported)
    <3>1. CASE n = Leader
      <4>1. (n = Leader) = TRUE /\ (n \in {Leader, Follower}) = TRUE
        BY <3>1
      <4>. QED
        BY <1>4, <3>1, <4>1
    <3>2. CASE n = Follower
      <4>1. (n = Leader) = FALSE /\ (n \in {Leader, Follower}) = TRUE
        BY <1>2, <3>2
      <4>. QED
        BY <1>2, <1>4, <3>2, <4>1
    <3>3. CASE n \notin {Leader, Follower}
      <4>1. (n = Leader) = FALSE /\ (n \in {Leader, Follower}) = FALSE
        BY <3>3
      <4>. QED
        BY <1>4, <3>3, <4>1
    <3>. QED
      BY <3>1, <3>2, <3>3
  <2>. QED
    BY <1>3, <2>1
<1>. QED
  BY <1>1, <1>2, <1>5

LEMMA InitController == Init => CInv
<1>. SUFFICES ASSUME Init PROVE CInv
  OBVIOUS
<1>1. /\ Leader \in Node /\ Follower \in Node /\ Follower # Leader
      /\ 1 \in 1..MaxEpoch /\ 1 \in 0..MaxEpoch /\ 0 \in 0..MaxEpoch
      /\ 0 \in 0..Eviction /\ 0 < Eviction
  BY InitialReplicas, ControllerAssumption
<1>2. /\ threads = [t \in Threads |-> Free] /\ Free.phase = "free"
  BY WorkingFields DEF Init, Threads, Free
<1>3. ThreadsSound
  BY <1>2, FreeSound DEF ThreadsSound, SoundThread
<1>4. NodesSound
  <2>1. ASSUME NEW n \in Node
        PROVE  /\ nodes[n] \in ReplicaRecord /\ nodes[n].failures = 0
               /\ nodes[n].synchronized_epoch <= 1
    BY <1>1 DEF Init, ReplicaRecord
  <2>2. nodes \in [Node -> ReplicaRecord \cup {NotRegistered}]
    BY <2>1 DEF Init
  <2>. QED
    BY <1>1, <2>1, <2>2 DEF NodesSound, Members, Init
<1>5. /\ assignment \in PrimaryAssignment /\ assignment.status = "ready"
      /\ assignment.epoch = 1 /\ assignment.candidate = NoNode
  BY <1>1, ControllerAssumption
  DEF Init, Assign, PrimaryAssignment, Status, Address
<1>6. AssignmentSound
  BY <1>1, <1>5 DEF AssignmentSound, Init
<1>7. PromotionIsDriven /\ CandidateIsDriven
  BY <1>5 DEF PromotionIsDriven, CandidateIsDriven, Assigned, Init
<1>. QED
  BY <1>3, <1>4, <1>6, <1>7 DEF CInv, Shape

LEMMA InitInv == Init => FInv
<1>. SUFFICES ASSUME Init PROVE FInv
  OBVIOUS
<1>1. /\ CInv /\ last_primary_epoch = 1 /\ Leader \in Node
      /\ assignment.primary = Leader /\ assignment.epoch = 1
  BY InitController, InitialReplicas DEF Init, Assign
<1>2. ASSUME NEW n \in Node
      PROVE  /\ Fit(n, replica[n]) /\ FitSnapshot(n, disk[n])
             /\ replica[n] \in Replica /\ disk[n] \in Snapshot
             /\ replica[n].role = "primary" => n = Leader
             /\ disk[n].ready => n = Leader
             /\ disk[n].epoch = 1 /\ replica[n].epoch = 1
  <2>1. replica[n] = InitialReplica(n) /\ disk[n] = Saved(replica[n])
    BY DEF Init
  <2>2. Fit(n, replica[n])
    BY <1>1, <2>1, InitialReplicas DEF Fit, Entitled
  <2>. QED
    BY <2>1, <2>2, SnapshotFit, InitialReplicas DEF FitSnapshot, Fit, Saved
<1>3. ReplicasFit
  BY <1>2 DEF ReplicasFit, Init
<1>4. ASSUME NEW n \in Node PROVE booting[n] \in Starting /\ booting[n].phase = "done"
  BY BootedStarting DEF Init
<1>5. StartsFit
  BY <1>4 DEF StartsFit, FitStart, Init
<1>6. DecisionsKept
  BY DEF DecisionsKept, Init
<1>7. ClientsTyped
  BY <1>1, ControllerAssumption DEF ClientsTyped, Init
<1>8. ASSUME NEW n \in Node, NEW e \in Nat, Entitled(n, e)
      PROVE  n = Leader /\ e = 1
  <2>1. \A t \in Threads : threads[t].phase \in Detached
    BY WorkingFields DEF Init, Threads
  <2>2. Served(e, n) => n = Leader /\ e = 1
    BY <1>1, <2>1 DEF Served
  <2>3. late = {}
    BY DEF Init
  <2>. QED
    BY <1>2, <1>4, <1>8, <2>2, <2>3 DEF Entitled
<1>9. OneEntitled
  BY <1>1, <1>8 DEF OneEntitled
<1>10. syncs = {} /\ late = {}
  BY DEF Init
<1>. QED
  BY <1>1, <1>3, <1>5, <1>6, <1>7, <1>9, <1>10 DEF FInv

(* Failover keeps its inductive invariant.                                  *)
THEOREM Inductive == Spec => []FInv
<1>1. Init => FInv
  BY InitInv
<1>2. FInv /\ [Next]_vars => FInv'
  BY NextInv
<1>. QED
  BY <1>1, <1>2, PTL DEF Spec

(* Every variable of Failover keeps its shape, so a replica is always in an *)
(* epoch that was given out.                                                *)
THEOREM TypeCorrect == Spec => []TypeOK
<1>1. FInv => TypeOK
  BY ControllerTyped
  DEF FInv, TypeOK, ReplicasFit, StartsFit, DecisionsKept, ClientsTyped,
      FitSynchronization, FitRequest
<1>. QED
  BY <1>1, Inductive, PTL

(* Fencing: no two replicas are primary of the same epoch, whichever are    *)
(* unreachable or restart, and however late their requests are handled.     *)
THEOREM OnePrimary == Spec => []OnePrimaryPerEpoch
<1>1. FInv => OnePrimaryPerEpoch
  <2>. SUFFICES ASSUME FInv, NEW m \in Node, NEW n \in Node,
                       replica[m].role = "primary", replica[n].role = "primary",
                       replica[m].epoch = replica[n].epoch
                PROVE  m = n
    BY DEF OnePrimaryPerEpoch
  <2>1. replica[m].epoch \in Nat
    BY ReplicaFit
  <2>. QED
    BY <2>1 DEF FInv, OneEntitled, Entitled
<1>. QED
  BY <1>1, Inductive, PTL
-----------------------------------------------------------------------------
(* Activation.  While no replica restarts, nothing but the end of its term  *)
(* takes the authority of an activated primary away.                        *)

Activated(r, e) == r.role = "primary" /\ r.ready /\ r.epoch = e

NobodyStarts ==
    /\ \A n \in Node : booting[n].phase = "done"
    /\ \A s \in syncs : s.caller # Boot

AInv == FInv /\ NobodyStarts /\ PublishedIsActivated

(* What a step does to the replicas and to the assignment.                  *)
StayActivated ==
    \A n \in Node :
      Activated(replica[n], last_primary_epoch) =>
        Activated(replica'[n], last_primary_epoch)

SamePublished ==
    Assigned("ready")' =>
      /\ Assigned("ready")
      /\ assignment'.primary = assignment.primary
      /\ assignment'.epoch = assignment.epoch

PublishedStays == StayActivated /\ SamePublished

LEMMA PublishedStaysInv ==
    ASSUME FInv, PublishedIsActivated, PublishedStays
    PROVE  PublishedIsActivated'
<1>. SUFFICES ASSUME Assigned("ready")'
              PROVE  Activated(replica'[assignment'.primary], assignment'.epoch)
  BY DEF PublishedIsActivated, PublishedPrimary, Assigned, Activated
<1>1. /\ Assigned("ready") /\ assignment'.primary = assignment.primary
      /\ assignment'.epoch = assignment.epoch
  BY DEF PublishedStays, SamePublished
<1>2. assignment.primary \in Node /\ assignment.epoch = last_primary_epoch
  BY <1>1 DEF FInv, CInv, Shape, AssignmentSound, Assigned, PrimaryAssignment
<1>3. PublishedPrimary = assignment.primary /\ assignment.primary # NoNode
  BY <1>1, <1>2, ControllerAssumption DEF PublishedPrimary, Assigned
<1>4. Activated(replica[assignment.primary], assignment.epoch)
  BY <1>3 DEF PublishedIsActivated, Activated
<1>. QED
  BY <1>1, <1>2, <1>4 DEF PublishedStays, StayActivated

(* A handler that keeps the authority, or runs where there is none of this  *)
(* epoch, deactivates nobody.                                               *)
LEMMA SameAuthorityStays ==
    ASSUME NEW r, NEW q, NEW e, SameAuthority(r, q), Activated(r, e)
    PROVE  Activated(q, e)
  BY DEF SameAuthority, Activated

LEMMA SaveStays ==
    ASSUME FInv, NEW n \in Node, NEW r, Save(n, r),
           Activated(replica[n], last_primary_epoch) =>
             Activated(r, last_primary_epoch)
    PROVE  StayActivated
  BY DEF StayActivated, Save, FInv, ReplicasFit

LEMMA HandlerStays ==
    ASSUME FInv, NEW n \in Node, NEW m, m \in Request
    PROVE  LET r == replica[n]
               e == last_primary_epoch
           IN Activated(r, e) =>
                /\ m.type = "prepare" =>
                     Activated(PrepareAuctionMutation(r, Preparation(m)), e)
                /\ m.type = "commit" => Activated(CommitPreparedMutation(r, m), e)
                /\ m.type = "abort" => Activated(AbortPreparedMutation(r, m), e)
                /\ m.type = "complete" =>
                     Activated(CompletePrimaryPromotion(r, m), e)
<1>. DEFINE r == replica[n]
<1>1. r \in Replica
  BY ReplicaFit
<1>2. m.type = "prepare" => Preparation(m) \in PreparedMutation
  BY DEF Request, PrepareRequest, DecisionRequest, BeginRequest,
         CompleteRequest, Preparation, PreparedMutation
<1>3. m.type \in {"commit", "abort"} => m.op \in Op /\ m.primary \in Node
  BY DEF Request, PrepareRequest, DecisionRequest, BeginRequest, CompleteRequest
<1>4. Activated(r, last_primary_epoch) =>
        Activated(CompletePrimaryPromotion(r, m), last_primary_epoch)
  BY <1>1 DEF Activated, CompletePrimaryPromotion, Replica
<1>5. m.type = "prepare" =>
        SameAuthority(r, PrepareAuctionMutation(r, Preparation(m)))
  BY <1>1, <1>2, PreparationStored
<1>6. /\ m.type = "commit" => SameAuthority(r, CommitPreparedMutation(r, m))
      /\ m.type = "abort" => SameAuthority(r, AbortPreparedMutation(r, m))
  BY <1>1, <1>3, CommitStored, AbortStored
<1>. QED
  BY <1>4, <1>5, <1>6, SameAuthorityStays

LEMMA BeginStays ==
    ASSUME FInv, NEW n \in Node, NEW m, m.epoch \in Nat,
           m.epoch <= last_primary_epoch,
           Activated(replica[n], last_primary_epoch)
    PROVE  Activated(BeginPrimaryPromotion(replica[n], m), last_primary_epoch)
<1>1. last_primary_epoch \in Nat
  BY DEF FInv, CInv, Shape, AssignmentSound
<1>. QED
  BY <1>1 DEF BeginPrimaryPromotion, Activated

LEMMA LateHandlerStays ==
    ASSUME FInv, NEW m \in late, LateHandler(m)
    PROVE  PublishedStays
<1>1. m \in Request /\ FitRequest(m)
  BY DEF FInv, FitRequest
<1>2. m.to \in Node /\ m.type \in {"prepare", "commit", "abort", "begin", "complete"}
  BY <1>1 DEF Request, PrepareRequest, DecisionRequest, BeginRequest,
              CompleteRequest
<1>3. Activated(replica[m.to], last_primary_epoch) =>
        Activated(Handled(m), last_primary_epoch)
  <2>1. CASE m.type = "begin"
    <3>1. m.epoch \in Nat
      BY <1>1, <2>1 DEF Request, PrepareRequest, DecisionRequest, BeginRequest,
                        CompleteRequest
    <3>2. m.epoch <= last_primary_epoch
      BY <1>1, <1>2, <2>1, <3>1 DEF FitRequest, FInv, OneEntitled
    <3>. QED
      BY <1>2, <2>1, <3>1, <3>2, BeginStays DEF Handled
  <2>2. CASE m.type # "begin"
    <3>1. Activated(replica[m.to], last_primary_epoch) =>
            /\ m.type = "prepare" =>
                 Activated(PrepareAuctionMutation(replica[m.to], Preparation(m)),
                           last_primary_epoch)
            /\ m.type = "commit" =>
                 Activated(CommitPreparedMutation(replica[m.to], m),
                           last_primary_epoch)
            /\ m.type = "abort" =>
                 Activated(AbortPreparedMutation(replica[m.to], m),
                           last_primary_epoch)
            /\ m.type = "complete" =>
                 Activated(CompletePrimaryPromotion(replica[m.to], m),
                           last_primary_epoch)
      BY <1>1, <1>2, HandlerStays
    <3>. QED
      BY <1>2, <2>2, <3>1 DEF Handled
  <2>. QED
    BY <2>1, <2>2
<1>. QED
  BY <1>2, <1>3, SaveStays DEF LateHandler, PublishedStays, SamePublished,
     controllerVars, Assigned

LEMMA PrepareAndDecideStays ==
    ASSUME FInv, NEW n \in Node, NEW op \in Op, PrepareAndDecide(n, op)
    PROVE  StayActivated
<1>. DEFINE b == replica[n].backup
            p == Preparation(Prepare(n, b, op))
            prepared == PrepareAuctionMutation(replica[b], p)
            decided == Decided(replica[n], p)
<1>1. b \in Node /\ p \in PreparedMutation
  BY NewBackup, PrepareTyped DEF PrepareAndDecide
<1>2. b # n
  BY DEF PrepareAndDecide, New, Writable, PrepareAccepted
<1>3. SameAuthority(replica[b], prepared) /\ SameAuthority(replica[n], decided)
  BY <1>1, ReplicaFit, PreparationStored, DecisionStored
<1>4. replica' = [replica EXCEPT ![b] = prepared, ![n] = decided]
  BY <1>2 DEF PrepareAndDecide
<1>. HIDE DEF b, p, prepared, decided
<1>5. /\ replica'[b] = prepared /\ replica'[n] = decided
      /\ \A m \in Node \ {b, n} : replica'[m] = replica[m]
  BY <1>1, <1>2, <1>4 DEF FInv, ReplicasFit
<1>. QED
  BY <1>1, <1>3, <1>5, SameAuthorityStays DEF StayActivated

LEMMA CommitAnsweredStays ==
    ASSUME FInv, NEW n \in Node, CommitAnswered(n)
    PROVE  StayActivated
<1>. DEFINE op == committing[n]
            d == CHOOSE x \in PendingFor(replica[n], op) : TRUE
            m == Decision("commit", n, d.backup, op, d.epoch)
            b == d.backup
            committed == CommitPreparedMutation(replica[b], m)
            success == /\ CommitAccepted(replica[b], m)
                       /\ [op |-> op, version |-> d.version]
                            \in committed.records
            acknowledged == Acknowledged(replica[n], op)
<1>1. op # NoOp /\ op \in Op /\ d \in PendingCommit /\ committing[b] = NoOp
  BY WaitingDecision DEF CommitAnswered, Serves, FInv, DecisionsKept
<1>2. b \in Node /\ b # n /\ d.epoch \in 1..MaxEpoch
  BY <1>1 DEF PendingCommit
<1>3. m.op = op
  BY <1>1, <1>2, DecisionTyped
<1>4. SameAuthority(replica[b], committed) /\ SameAuthority(replica[n], acknowledged)
  BY <1>1, <1>2, <1>3, ReplicaFit, CommitStored, AcknowledgmentStored
<1>5. replica' = [replica EXCEPT ![b] = committed,
                    ![n] = IF success THEN Acknowledged(@, op) ELSE @]
  BY DEF CommitAnswered
<1>6. replica' = [replica EXCEPT ![b] = committed,
                    ![n] = IF success THEN acknowledged ELSE replica[n]]
  BY <1>2, <1>5 DEF FInv, ReplicasFit
<1>. HIDE DEF op, d, m, b, committed, success, acknowledged
<1>7. /\ replica'[b] = committed
      /\ replica'[n] \in {acknowledged, replica[n]}
      /\ \A a \in Node \ {b, n} : replica'[a] = replica[a]
  BY <1>2, <1>6 DEF FInv, ReplicasFit
<1>. QED
  BY <1>2, <1>4, <1>7, SameAuthorityStays DEF StayActivated

LEMMA ClientStays ==
    ASSUME FInv, NEW n \in Node,
           \/ \E op \in Op : \/ PrepareAndDecide(n, op)
                             \/ PrepareRefused(n, op)
                             \/ PrepareUnanswered(n, op)
                             \/ ResumePendingCommit(n, op)
                             \/ ReplayResponse(n, op)
           \/ CommitAnswered(n) \/ CommitUnanswered(n)
    PROVE  PublishedStays
<1>1. SamePublished
  BY DEF PrepareAndDecide, PrepareRefused, PrepareUnanswered,
         ResumePendingCommit, ReplayResponse, CommitAnswered, CommitUnanswered,
         controllerVars, SamePublished, Assigned
<1>2. ASSUME NEW op \in Op, PrepareRefused(n, op) \/ PrepareUnanswered(n, op)
      PROVE  StayActivated
  <2>. DEFINE b == replica[n].backup
              prepare == Prepare(n, b, op)
              abort == Decision("abort", n, b, op, replica[n].epoch)
              p == Preparation(prepare)
  <2>1. /\ b \in Node /\ prepare \in PrepareRequest /\ p \in PreparedMutation
        /\ abort.op = op /\ abort.primary = n
    BY <1>2, NewBackup, PrepareTyped, DecisionTyped, ReplicaFit
    DEF PrepareRefused, PrepareUnanswered
  <2>2. /\ SameAuthority(replica[b], AbortPreparedMutation(replica[b], prepare))
        /\ SameAuthority(replica[b], AbortPreparedMutation(replica[b], abort))
        /\ SameAuthority(replica[b], PrepareAuctionMutation(replica[b], p))
    BY <2>1, ReplicaFit, AbortStored, PreparationStored DEF PrepareRequest
  <2>3. \/ Save(b, AbortPreparedMutation(replica[b], prepare))
        \/ Save(b, AbortPreparedMutation(replica[b], abort))
        \/ Save(b, PrepareAuctionMutation(replica[b], p))
    BY <1>2 DEF PrepareRefused, PrepareUnanswered
  <2>. HIDE DEF b, prepare, abort, p
  <2>. QED
    BY <2>1, <2>2, <2>3, SaveStays, SameAuthorityStays
<1>3. ASSUME NEW op \in Op, ResumePendingCommit(n, op) \/ ReplayResponse(n, op)
      PROVE  StayActivated
  BY <1>3 DEF ResumePendingCommit, ReplayResponse, StayActivated
<1>4. CommitUnanswered(n) => StayActivated
  BY DEF CommitUnanswered, StayActivated
<1>. QED
  BY <1>1, <1>2, <1>3, <1>4, PrepareAndDecideStays, CommitAnsweredStays
  DEF PublishedStays

LEMMA EditKeepsStatus ==
    ASSUME NEW a \in PrimaryAssignment
    PROVE  /\ [a EXCEPT !.backup = NoNode].status = a.status
           /\ [a EXCEPT !.candidate = NoNode].status = a.status
           /\ \A x : [a EXCEPT !.attempted = x].status = a.status
           /\ \A x, y : [a EXCEPT !.attempted = x, !.backup = y].status = a.status
           /\ \A x, y, z : [a EXCEPT !.attempted = x, !.generation = y,
                                      !.candidate = z].status = a.status
           /\ [a EXCEPT !.status = "reprotecting", !.backup = NoNode,
                        !.attempted = {}].status = "reprotecting"
  BY DEF PrimaryAssignment

(* The controller publishes at the end of a completion and in a             *)
(* registration only.                                                       *)
LEMMA PromotionPublishesNothing ==
    ASSUME FInv, NEW t \in Threads,
           \/ StartPromotion(t) \/ BeginPromotionAccepted(t)
           \/ PromotionStateConfirmed(t) \/ PromotionRpcFails(t)
           \/ TryNextPromotionBackup(t) \/ PromotionSynchronizationFails(t)
           \/ SelectedBackupEvicted(t) \/ NoPromotionBackup(t)
           \/ SynchronizationSucceeds(t) \/ Elect(t)
    PROVE  SamePublished
<1>1. assignment # NoAssignment => assignment \in PrimaryAssignment
  BY AssignmentTyped DEF FInv
<1>2. CASE \/ StartPromotion(t) \/ BeginPromotionAccepted(t)
           \/ PromotionStateConfirmed(t) \/ SynchronizationSucceeds(t)
  BY <1>2 DEF StartPromotion, BeginPromotionAccepted, PromotionStateConfirmed,
              SynchronizationSucceeds, Advance, SamePublished, Assigned
<1>3. CASE PromotionRpcFails(t) \/ NoPromotionBackup(t)
  BY <1>3 DEF PromotionRpcFails, NoPromotionBackup, CandidateFailed, Abandon,
              SamePublished, Assigned
<1>4. CASE TryNextPromotionBackup(t)
  <2>. DEFINE backup == First(PromotionBackups(threads[t].primary))
  <2>1. \/ UNCHANGED assignment
        \/ /\ assignment # NoAssignment /\ assignment.status = "promoting"
           /\ assignment' = [assignment EXCEPT !.attempted = @ \cup {backup},
                                               !.backup = backup]
    BY <1>4 DEF TryNextPromotionBackup, AssignmentMatches
  <2>. HIDE DEF backup
  <2>2. assignment # NoAssignment =>
          [assignment EXCEPT !.attempted = assignment.attempted \cup {backup},
                             !.backup = backup].status = assignment.status
    BY <1>1, EditKeepsStatus
  <2>. QED
    BY <2>1, <2>2 DEF SamePublished, Assigned
<1>5. CASE PromotionSynchronizationFails(t) \/ SelectedBackupEvicted(t)
  <2>1. \/ UNCHANGED assignment
        \/ /\ assignment # NoAssignment /\ assignment.status = "promoting"
           /\ assignment' = [assignment EXCEPT !.backup = NoNode]
    BY <1>5 DEF PromotionSynchronizationFails, SelectedBackupEvicted,
                PromotionBackupFailed, IsCurrentPromotionBackup, AssignmentMatches
  <2>2. assignment # NoAssignment =>
          [assignment EXCEPT !.backup = NoNode].status = assignment.status
    BY <1>1, EditKeepsStatus
  <2>. QED
    BY <2>1, <2>2 DEF SamePublished, Assigned
<1>6. CASE Elect(t)
  <2>1. UNCHANGED assignment \/ assignment'.status = "promoting"
    BY <1>6 DEF Elect, Assign
  <2>. QED
    BY <2>1 DEF SamePublished, Assigned
<1>. QED
  BY <1>2, <1>3, <1>4, <1>5, <1>6

LEMMA ReplacementPublishesNothing ==
    ASSUME FInv, NEW t \in Threads,
           \/ TryNextReplacementBackup(t) \/ ReplacementSynchronizationFails(t)
           \/ CompletionUnanswered(t) \/ CompletionRejected(t)
    PROVE  SamePublished
<1>1. assignment # NoAssignment => assignment \in PrimaryAssignment
  BY AssignmentTyped DEF FInv
<1>2. CASE TryNextReplacementBackup(t)
  <2>. DEFINE backup == First(ReplacementCandidates)
              generation == assignment.generation + 1
  <2>1. \/ UNCHANGED assignment
        \/ /\ assignment # NoAssignment /\ assignment.status = "reprotecting"
           /\ assignment' = [assignment EXCEPT !.attempted = @ \cup {backup},
                                               !.generation = generation,
                                               !.candidate = backup]
    BY <1>2 DEF TryNextReplacementBackup, AssignmentMatches
  <2>. HIDE DEF backup, generation
  <2>2. assignment # NoAssignment =>
          [assignment EXCEPT !.attempted = assignment.attempted \cup {backup},
                             !.generation = generation,
                             !.candidate = backup].status = assignment.status
    BY <1>1, EditKeepsStatus
  <2>. QED
    BY <2>1, <2>2 DEF SamePublished, Assigned
<1>3. CASE \/ ReplacementSynchronizationFails(t)
           \/ RejectReplacement(t)
  <2>1. \/ UNCHANGED assignment
        \/ /\ assignment # NoAssignment /\ assignment.status = "reprotecting"
           /\ assignment' = [assignment EXCEPT !.candidate = NoNode]
    BY <1>3 DEF ReplacementSynchronizationFails, RejectReplacement,
                IsCurrentCandidate, AssignmentMatches
  <2>2. assignment # NoAssignment =>
          [assignment EXCEPT !.candidate = NoNode].status = assignment.status
    BY <1>1, EditKeepsStatus
  <2>. QED
    BY <2>1, <2>2 DEF SamePublished, Assigned
<1>4. CASE CandidateFailed(t) \/ Abandon(t)
  BY <1>4 DEF CandidateFailed, Abandon, SamePublished, Assigned
<1>. QED
  BY <1>2, <1>3, <1>4 DEF CompletionUnanswered, CompletionRejected

LEMMA MembershipPublishesNothing ==
    ASSUME FInv, NEW n \in Node,
           \/ HandleReplicaFailure \/ HeartbeatFails(n)
           \/ HeartbeatAnswered(n, Reported(replica[n]))
           \/ ReportSynchronizationComplete(n)
    PROVE  SamePublished
<1>1. assignment # NoAssignment => assignment \in PrimaryAssignment
  BY AssignmentTyped DEF FInv
<1>2. CASE HeartbeatFails(n) \/ ReportSynchronizationComplete(n)
  BY <1>2 DEF HeartbeatFails, ReportSynchronizationComplete, SamePublished,
              Assigned
<1>3. CASE HeartbeatAnswered(n, Reported(replica[n]))
  <2>1. \/ UNCHANGED assignment
        \/ assignment # NoAssignment /\ assignment' = Unprotected(assignment)
    BY <1>3 DEF HeartbeatAnswered
  <2>. QED
    BY <1>1, <2>1, UnprotectedTyped DEF SamePublished, Assigned
<1>4. CASE HandleReplicaFailure
  <2>1. \/ UNCHANGED assignment \/ assignment' = NoAssignment
        \/ /\ assignment # NoAssignment
           /\ assignment' = [assignment EXCEPT !.status = "reprotecting",
                               !.backup = NoNode, !.attempted = {}]
        \/ /\ assignment # NoAssignment /\ assignment.status = "reprotecting"
           /\ assignment' = [assignment EXCEPT !.candidate = NoNode]
    BY <1>4 DEF HandleReplicaFailure, EvictUnassigned, EvictPrimary,
                EvictBackup, EvictOther
  <2>2. assignment # NoAssignment =>
          /\ [assignment EXCEPT !.status = "reprotecting", !.backup = NoNode,
                                !.attempted = {}].status = "reprotecting"
          /\ [assignment EXCEPT !.candidate = NoNode].status
               = assignment.status
    BY <1>1, EditKeepsStatus
  <2>. QED
    BY <2>1, <2>2 DEF SamePublished, Assigned
<1>. QED
  BY <1>2, <1>3, <1>4

(* A registration publishes who reports that it is an activated primary.    *)
LEMMA RegistrationPublishes ==
    ASSUME FInv, NEW n \in Node, RegisterNode(n, Reported(replica[n])),
           Assigned("ready")'
    PROVE  \/ /\ Assigned("ready") /\ assignment'.primary = assignment.primary
              /\ assignment'.epoch = assignment.epoch
           \/ /\ assignment'.primary = n
              /\ Activated(replica[n], assignment'.epoch)
<1>. DEFINE r == Reported(replica[n])
            members ==
              [nodes EXCEPT ![n] =
                 [synchronized_epoch |->
                    IF ReportsSynchronized(n, r) THEN r.epoch ELSE 0,
                  failures |-> 0]]
            known == IF r.epoch > last_primary_epoch THEN r.epoch
                     ELSE last_primary_epoch
            recovered == RecoveredAssignment(n, r, members, known)
            invalidated == /\ assignment # NoAssignment
                           /\ r.epoch > assignment.epoch
            missing == assignment = NoAssignment \/ invalidated
            current == IF missing THEN recovered ELSE assignment
<1>1. /\ r.role = replica[n].role /\ r.epoch = replica[n].epoch
      /\ r \in Report /\ r.epoch <= last_primary_epoch
      /\ r.backup # NoNode => replica[n].role = "primary" /\ replica[n].reported
  BY ReplicaFit, ReportRead DEF Fit, Reported
<1>2. \/ assignment' = current
      \/ /\ current # NoAssignment
         /\ \/ assignment' = Unprotected(current)
            \/ /\ current.status = "reprotecting"
               /\ assignment' = [current EXCEPT !.attempted = @ \ {n}]
  BY DEF RegisterNode
<1>3. \/ recovered = NoAssignment
      \/ /\ r.backup # NoNode /\ recovered = Assign(n, r.epoch, "ready", r.backup)
      \/ \E e : recovered = Assign(n, e, "reprotecting", NoNode)
  BY DEF RecoveredAssignment
<1>. HIDE DEF recovered, known, members
<1>4. CASE missing
  <2>1. recovered # NoAssignment => recovered.status \in {"ready", "reprotecting"}
    BY <1>3 DEF Assign
  <2>2. assignment' = recovered /\ recovered.status = "ready"
    <3>1. assignment' # NoAssignment /\ assignment'.status = "ready"
      BY DEF Assigned
    <3>2. recovered # NoAssignment =>
            \E e, b, z : recovered = Assign(n, e, z, b)
      BY <1>3
    <3>3. recovered # NoAssignment =>
            /\ Unprotected(recovered).status = "reprotecting"
            /\ [recovered EXCEPT !.attempted = @ \ {n}].status = recovered.status
      BY <3>2 DEF Assign, Unprotected
    <3>. HIDE DEF current
    <3>4. current = recovered
      BY <1>4 DEF current
    <3>. QED
      BY <1>2, <3>1, <3>3, <3>4
  <2>3. r.backup # NoNode /\ recovered.primary = n /\ recovered.epoch = r.epoch
    BY <1>3, <2>2 DEF Assign, Assigned
  <2>4. replica[n].ready
    BY <1>1, <2>3, ReplicaFit DEF Fit
  <2>. QED
    BY <1>1, <2>2, <2>3, <2>4 DEF Activated
<1>5. CASE ~missing
  <2>1. assignment \in PrimaryAssignment
    BY <1>5, AssignmentTyped DEF FInv
  <2>2. assignment' # NoAssignment /\ assignment'.status = "ready"
    BY DEF Assigned
  <2>3. assignment' = assignment
    <3>1. current = assignment
      BY <1>5
    <3>2. /\ Unprotected(assignment).status = "reprotecting"
          /\ [assignment EXCEPT !.attempted = @ \ {n}].status = assignment.status
      BY <2>1, UnprotectedTyped DEF PrimaryAssignment
    <3>. HIDE DEF current
    <3>. QED
      BY <1>2, <2>2, <3>1, <3>2
  <2>. QED
    BY <2>3 DEF Assigned
<1>. QED
  BY <1>4, <1>5

LEMMA ReplicasStay ==
    ASSUME UNCHANGED replica
    PROVE  StayActivated
  BY DEF StayActivated

(* The one other way to publish: the primary accepted its completion.       *)
LEMMA CompletionPublishes ==
    ASSUME FInv, PublishedIsActivated, NEW t \in Threads, CompletePromotion(t)
    PROVE  PublishedIsActivated'
<1>. DEFINE w == threads[t]
            n == w.primary
            r == CompletePrimaryPromotion(replica[n], Completion(w))
<1>1. /\ w.phase = "complete" /\ Save(n, r)
      /\ IF CompletionAccepted(replica[n], Completion(w))
         THEN CompletionSucceeds(t) ELSE CompletionRejected(t)
  BY DEF CompletePromotion
<1>2. n \in Node /\ replica[n] \in Replica
  BY <1>1, ServingThread, ReplicaFit DEF Detached
<1>3. Completion(w).epoch = w.epoch
  BY DEF Completion
<1>4. /\ Activated(replica[n], last_primary_epoch) =>
           Activated(r, last_primary_epoch)
      /\ CompletionAccepted(replica[n], Completion(w)) => Activated(r, w.epoch)
  BY <1>2, <1>3
  DEF CompletePrimaryPromotion, CompletionAccepted, Activated, Replica
<1>. HIDE DEF r
<1>5. StayActivated /\ replica'[n] = r
  BY <1>1, <1>2, <1>4, SaveStays DEF Save, FInv, ReplicasFit
<1>6. CASE SamePublished
  BY <1>5, <1>6, PublishedStaysInv DEF PublishedStays
<1>7. CASE /\ CompletionAccepted(replica[n], Completion(w))
           /\ assignment'.primary = n /\ assignment'.epoch = w.epoch
  BY <1>4, <1>5, <1>7 DEF PublishedIsActivated, PublishedPrimary, Activated
<1>8. CASE CompletionAccepted(replica[n], Completion(w))
  <2>1. CASE CompletionExpected(w)
    <3>1. /\ assignment # NoAssignment
          /\ assignment.primary = n /\ assignment.epoch = w.epoch
      BY <2>1 DEF CompletionExpected, AssignmentMatches
    <3>2. assignment \in PrimaryAssignment
      BY <3>1, AssignmentTyped DEF FInv
    <3>3. assignment' = [assignment EXCEPT !.backup = w.backup,
                            !.candidate = NoNode, !.status = "ready"]
      BY <1>1, <1>8, <2>1 DEF CompletionSucceeds
    <3>4. assignment'.primary = n /\ assignment'.epoch = w.epoch
      BY <3>1, <3>2, <3>3 DEF PrimaryAssignment
    <3>. QED
      BY <1>7, <1>8, <3>4
  <2>2. CASE ~CompletionExpected(w)
    BY <1>1, <1>6, <1>8, <2>2 DEF CompletionSucceeds, SamePublished, Assigned
  <2>. QED
    BY <2>1, <2>2
<1>9. CASE CompletionRejected(t)
  BY <1>6, <1>9, ReplacementPublishesNothing
<1>. QED
  BY <1>1, <1>8, <1>9

LEMMA SynchronizationFailsStays ==
    ASSUME FInv, NEW t \in Threads,
           SynchronizationFails(t) \/ UNCHANGED controllerVars
    PROVE  SamePublished
  BY PromotionPublishesNothing, ReplacementPublishesNothing
  DEF SynchronizationFails, controllerVars, SamePublished, Assigned

LEMMA RpcStays ==
    ASSUME FInv, NEW t \in Threads,
           \/ BeginPromotion(t) \/ BeginUnanswered(t) \/ ConfirmPromotion(t)
           \/ ConfirmUnanswered(t) \/ CompleteUnanswered(t)
           \/ StartSynchronization(t) \/ SynchronizationUnanswered(t)
    PROVE  PublishedStays
<1>1. SamePublished
  <2>1. CASE \/ BeginPromotion(t) \/ BeginUnanswered(t)
             \/ ConfirmPromotion(t) \/ ConfirmUnanswered(t)
    BY <2>1, PromotionPublishesNothing
    DEF BeginPromotion, BeginUnanswered, ConfirmPromotion, ConfirmUnanswered
  <2>2. CASE CompleteUnanswered(t)
    BY <2>2, ReplacementPublishesNothing DEF CompleteUnanswered
  <2>3. CASE StartSynchronization(t) \/ SynchronizationUnanswered(t)
    BY <2>3, SynchronizationFailsStays
    DEF StartSynchronization, SynchronizationUnanswered
  <2>. QED
    BY <2>1, <2>2, <2>3
<1>2. CASE BeginPromotion(t)
  <2>. DEFINE w == threads[t]
  <2>1. /\ w.primary \in Node /\ w.epoch \in Nat
        /\ w.epoch <= last_primary_epoch
    BY <1>2, ServingThread DEF BeginPromotion, Detached
  <2>2. Activated(replica[w.primary], last_primary_epoch) =>
          Activated(BeginPrimaryPromotion(replica[w.primary], w),
                    last_primary_epoch)
    BY <2>1, BeginStays
  <2>3. Save(w.primary, BeginPrimaryPromotion(replica[w.primary], w))
    BY <1>2 DEF BeginPromotion
  <2>. QED
    BY <1>1, <2>1, <2>2, <2>3, SaveStays DEF PublishedStays
<1>3. CASE \/ BeginUnanswered(t) \/ ConfirmPromotion(t)
           \/ ConfirmUnanswered(t) \/ CompleteUnanswered(t)
           \/ StartSynchronization(t) \/ SynchronizationUnanswered(t)
  <2>1. UNCHANGED replica
    BY <1>3 DEF BeginUnanswered, ConfirmPromotion, ConfirmUnanswered,
       CompleteUnanswered, StartSynchronization, SynchronizationUnanswered,
       storageVars
  <2>. QED
    BY <1>1, <2>1, ReplicasStay DEF PublishedStays
<1>. QED
  BY <1>2, <1>3

(* Full-state synchronization replaces the state of backups only.           *)
LEMMA SyncStays ==
    ASSUME FInv, NEW s \in syncs, SyncStep(s)
    PROVE  PublishedStays
<1>1. s.node \in Node
  BY SyncsFit
<1>2. CASE Install(s)
  <2>1. \/ UNCHANGED replica
        \/ /\ replica[s.node].role = "backup"
           /\ \A n \in Node \ {s.node} : replica'[n] = replica[n]
    BY <1>2 DEF Install, Synchronizable, FInv, ReplicasFit
  <2>2. StayActivated
    BY <2>1 DEF StayActivated, Activated
  <2>. QED
    BY <1>2, <2>2
    DEF Install, PublishedStays, SamePublished, Assigned, controllerVars
<1>3. CASE ReportCompletion(s) \/ ReportUnanswered(s)
  <2>1. ReportSynchronizationComplete(s.node) \/ UNCHANGED controllerVars
    BY <1>3 DEF ReportCompletion, ReportUnanswered
  <2>2. SamePublished
    BY <1>1, <2>1, MembershipPublishesNothing
    DEF SamePublished, Assigned, controllerVars
  <2>. QED
    BY <1>3, <2>2, ReplicasStay
    DEF ReportCompletion, ReportUnanswered, PublishedStays, storageVars
<1>4. CASE SynchronizationEnds(s)
  <2>1. SamePublished
    <3>1. \/ /\ Awaits(s)
             /\ \/ SynchronizationSucceeds(s.caller)
                \/ SynchronizationFails(s.caller)
          \/ UNCHANGED controllerVars
      BY <1>4 DEF SynchronizationEnds
    <3>2. Awaits(s) => s.caller \in Threads
      BY ThreadsAre DEF Awaits
    <3>. QED
      BY <3>1, <3>2, PromotionPublishesNothing, SynchronizationFailsStays
      DEF SamePublished, Assigned, controllerVars
  <2>2. \/ UNCHANGED replica
        \/ replica' = [replica EXCEPT ![s.node] =
                         Synchronized(replica[s.node], s.epoch)]
    BY <1>4 DEF SynchronizationEnds
  <2>3. Activated(replica[s.node], last_primary_epoch) =>
          Synchronized(replica[s.node], s.epoch) = replica[s.node]
    BY DEF Activated, Synchronized
  <2>4. StayActivated
    BY <1>1, <2>2, <2>3 DEF StayActivated, FInv, ReplicasFit
  <2>. QED
    BY <2>1, <2>4 DEF PublishedStays
<1>. QED
  BY <1>2, <1>3, <1>4 DEF SyncStep

LEMMA ControllerStays ==
    ASSUME FInv, ControllerStep
    PROVE  PublishedStays
<1>1. UNCHANGED replica
  BY DEF ControllerStep, storageVars
<1>2. SamePublished
  <2>1. CASE HandleReplicaFailure
    <3>1. PICK n : n \in Node
      BY ControllerAssumption, FailoverAssumption
    <3>. QED
      BY <2>1, <3>1, MembershipPublishesNothing
  <2>2. ASSUME NEW t \in Threads,
               \/ Elect(t) \/ StartPromotion(t) \/ TryNextPromotionBackup(t)
               \/ SelectedBackupEvicted(t) \/ NoPromotionBackup(t)
               \/ TryNextReplacementBackup(t)
        PROVE  SamePublished
    BY <2>2, PromotionPublishesNothing, ReplacementPublishesNothing
  <2>. QED
    BY <2>1, <2>2, ThreadsAre DEF ControllerStep
<1>. QED
  BY <1>1, <1>2, ReplicasStay DEF PublishedStays

LEMMA MembershipStays ==
    ASSUME FInv, PublishedIsActivated, NEW n \in Node,
           \/ Reregister(n) \/ BootRegister(n)
           \/ ProbeAnswered(n) \/ ProbeUnanswered(n)
    PROVE  PublishedIsActivated'
<1>1. UNCHANGED replica
  BY DEF Reregister, BootRegister, ProbeAnswered, ProbeUnanswered, storageVars
<1>2. CASE SamePublished
  BY <1>1, <1>2, ReplicasStay, PublishedStaysInv DEF PublishedStays
<1>3. CASE ProbeAnswered(n) \/ ProbeUnanswered(n)
  BY <1>1, <1>2, <1>3, MembershipPublishesNothing
  DEF ProbeAnswered, ProbeUnanswered
<1>4. CASE Reregister(n) \/ BootRegister(n)
  <2>1. CASE ~Assigned("ready")'
    BY <2>1 DEF PublishedIsActivated, PublishedPrimary, Assigned
  <2>2. CASE /\ assignment'.primary = n
             /\ Activated(replica[n], assignment'.epoch)
    BY <1>1, <2>2 DEF PublishedIsActivated, PublishedPrimary, Activated
  <2>. QED
    BY <1>1, <1>2, <1>4, <2>1, <2>2, RegistrationPublishes
    DEF Reregister, BootRegister, SamePublished
<1>. QED
  BY <1>3, <1>4

(* Nobody starts when nobody may restart.                                   *)
LEMMA NobodyStartsKept ==
    ASSUME Restarting = {}, FInv, NobodyStarts, [Next]_vars
    PROVE  NobodyStarts'
<1>1. ASSUME NEW s \in syncs, NEW u,
             \/ u = s
             \/ \E phase : u = [s EXCEPT !.phase = phase]
             \/ u = [s EXCEPT !.phase = "report", !.store = <<>>, !.records = {}]
             \/ u = [s EXCEPT !.caller = Orphan]
      PROVE  u.caller # Boot
  <2>1. s \in Synchronization /\ s.caller # Boot /\ Orphan # Boot
    BY SyncsFit, FailoverAssumption DEF NobodyStarts
  <2>2. CASE \E phase : u = [s EXCEPT !.phase = phase]
    <3>1. PICK phase : u = [s EXCEPT !.phase = phase]
      BY <2>2
    <3>. QED
      BY <2>1, <3>1 DEF Synchronization
  <2>3. CASE \/ u = [s EXCEPT !.phase = "report", !.store = <<>>, !.records = {}]
             \/ u = [s EXCEPT !.caller = Orphan]
    BY <2>1, <2>3 DEF Synchronization
  <2>. QED
    BY <1>1, <2>1, <2>2, <2>3
<1>2. \A t \in Threads : t # Boot
  BY FailoverAssumption DEF Threads
<1>3. \A n, p, e, c : Fetched(n, p, e, c).caller = c
  BY DEF Fetched
<1>4. CASE UNCHANGED syncVars
  BY <1>4 DEF NobodyStarts, syncVars
<1>5. ASSUME NEW n \in Node, ReplicaStep(n)
      PROVE  NobodyStarts'
  <2>1. ~(\/ Restart(n) \/ BootRegister(n) \/ BootRegistered(n) \/ BootLookup(n))
    BY DEF NobodyStarts, Restart, BootRegister, BootRegistered, BootLookup
  <2>2. UNCHANGED syncVars
    BY <1>5, <2>1
    DEF ReplicaStep, PrepareAndDecide, PrepareRefused, PrepareUnanswered,
        ResumePendingCommit, ReplayResponse, CommitAnswered, CommitUnanswered,
        Reregister, ProbeAnswered, ProbeUnanswered
  <2>. QED
    BY <1>4, <2>2
<1>6. ASSUME NEW t \in Threads, RpcStep(t)
      PROVE  NobodyStarts'
  <2>1. UNCHANGED booting
    BY <1>6
    DEF RpcStep, BeginPromotion, BeginUnanswered, ConfirmPromotion,
        ConfirmUnanswered, CompletePromotion, CompleteUnanswered,
        StartSynchronization, SynchronizationUnanswered, syncVars
  <2>2. CASE \/ BeginPromotion(t) \/ BeginUnanswered(t)
             \/ ConfirmPromotion(t) \/ ConfirmUnanswered(t)
    BY <1>4, <2>2
    DEF BeginPromotion, BeginUnanswered, ConfirmPromotion, ConfirmUnanswered
  <2>3. CASE \/ CompletePromotion(t) \/ CompleteUnanswered(t)
             \/ SynchronizationUnanswered(t)
    <3>1. ASSUME NEW s \in syncs'
          PROVE  \/ s \in syncs
                 \/ \E u \in syncs : \E phase : s = [u EXCEPT !.phase = phase]
                 \/ \E u \in syncs : s = [u EXCEPT !.caller = Orphan]
      <4>1. CASE CompletePromotion(t) \/ CompleteUnanswered(t)
        <5>1. PICK phase : AnswerWaiting(threads[t], phase)
          BY <4>1 DEF CompletePromotion, CompleteUnanswered
        <5>. QED
          BY <3>1, <5>1 DEF AnswerWaiting
      <4>2. CASE SynchronizationUnanswered(t)
        BY <3>1, <4>2 DEF SynchronizationUnanswered
      <4>. QED
        BY <2>3, <4>1, <4>2
    <3>2. \A s \in syncs' : s.caller # Boot
      BY <1>1, <3>1
    <3>. QED
      BY <2>1, <3>2 DEF NobodyStarts
  <2>4. CASE StartSynchronization(t)
    <3>1. \/ UNCHANGED syncs
          \/ \E n, p, e : syncs' = syncs \cup {Fetched(n, p, e, t)}
      BY <2>4 DEF StartSynchronization
    <3>. QED
      BY <1>2, <1>3, <2>1, <3>1 DEF NobodyStarts
  <2>. QED
    BY <1>6, <2>2, <2>3, <2>4 DEF RpcStep
<1>7. ASSUME NEW s \in syncs, SyncStep(s)
      PROVE  NobodyStarts'
  <2>1. UNCHANGED booting
    BY <1>1, <1>7
    DEF SyncStep, Install, ReportCompletion, ReportUnanswered,
        SynchronizationEnds
  <2>2. \/ \E phase : syncs' = (syncs \ {s}) \cup {[s EXCEPT !.phase = phase]}
        \/ syncs' = (syncs \ {s}) \cup
             {[s EXCEPT !.phase = "report", !.store = <<>>, !.records = {}]}
        \/ syncs' = syncs \ {s}
    BY <1>7
    DEF SyncStep, Install, ReportCompletion, ReportUnanswered,
        SynchronizationEnds, To
  <2>3. ASSUME NEW u \in syncs'
        PROVE  \/ u \in syncs
               \/ \E phase : u = [s EXCEPT !.phase = phase]
               \/ u = [s EXCEPT !.phase = "report", !.store = <<>>,
                                !.records = {}]
    BY <2>2, <2>3
  <2>4. \A u \in syncs' : u.caller # Boot
    BY <1>1, <1>7, <2>3
  <2>. QED
    BY <2>1, <2>4 DEF NobodyStarts
<1>8. ASSUME NEW m \in late, LateHandler(m)
      PROVE  NobodyStarts'
  BY <1>4, <1>8 DEF LateHandler
<1>9. CASE ControllerStep \/ UNCHANGED vars
  BY <1>4, <1>9 DEF ControllerStep, vars
<1>. QED
  BY <1>5, <1>6, <1>7, <1>8, <1>9, ThreadsAre DEF Next

LEMMA ActivationKept ==
    ASSUME Restarting = {}, AInv, [Next]_vars
    PROVE  AInv'
<1>1. FInv' /\ FInv
  BY NextInv DEF AInv
<1>2. NobodyStarts'
  BY <1>1, NobodyStartsKept DEF AInv
<1>3. CASE PublishedStays
  BY <1>1, <1>2, <1>3, PublishedStaysInv DEF AInv
<1>4. ASSUME NEW n \in Node, ReplicaStep(n)
      PROVE  AInv'
  <2>1. ~(\/ Restart(n) \/ BootRegister(n) \/ BootRegistered(n) \/ BootLookup(n))
    BY DEF AInv, NobodyStarts, Restart, BootRegister, BootRegistered, BootLookup
  <2>2. CASE Reregister(n) \/ ProbeAnswered(n) \/ ProbeUnanswered(n)
    BY <1>1, <1>2, <2>2, MembershipStays DEF AInv
  <2>. QED
    BY <1>1, <1>3, <1>4, <2>1, <2>2, ClientStays DEF ReplicaStep
<1>5. ASSUME NEW t \in Threads, RpcStep(t)
      PROVE  AInv'
  <2>1. CASE CompletePromotion(t)
    BY <1>1, <1>2, <2>1, CompletionPublishes DEF AInv
  <2>. QED
    BY <1>1, <1>3, <1>5, <2>1, RpcStays DEF RpcStep
<1>6. ASSUME NEW s \in syncs, SyncStep(s)
      PROVE  AInv'
  BY <1>1, <1>3, <1>6, SyncStays
<1>7. ASSUME NEW m \in late, LateHandler(m)
      PROVE  AInv'
  BY <1>1, <1>3, <1>7, LateHandlerStays
<1>8. CASE ControllerStep
  BY <1>1, <1>3, <1>8, ControllerStays
<1>9. CASE UNCHANGED vars
  BY <1>3, <1>9
  DEF vars, storageVars, controllerVars, PublishedStays, StayActivated,
      SamePublished, Assigned
<1>. QED
  BY <1>1, <1>4, <1>5, <1>6, <1>7, <1>8, <1>9, ThreadsAre DEF Next

(* What GetPrimary answers is an activated primary of the current epoch, as *)
(* long as no replica restarts.  Any number of them may be cut off, stop,   *)
(* register again and handle their requests late.                           *)
THEOREM PublishedActivated ==
    ASSUME Restarting = {}
    PROVE  Spec => []PublishedIsActivated
<1>1. Init => AInv
  <2>. SUFFICES ASSUME Init PROVE AInv
    OBVIOUS
  <2>1. NobodyStarts
    BY DEF Init, NobodyStarts, Booted
  <2>2. PublishedIsActivated
    BY InitialReplicas
    DEF Init, PublishedIsActivated, PublishedPrimary, Assign, InitialReplica
  <2>. QED
    BY <2>1, <2>2, InitInv DEF AInv
<1>2. AInv /\ [Next]_vars => AInv'
  BY ActivationKept
<1>3. AInv => PublishedIsActivated
  BY DEF AInv
<1>. QED
  BY <1>1, <1>2, <1>3, PTL DEF Spec
=============================================================================
