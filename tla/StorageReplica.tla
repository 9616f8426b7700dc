---------------------------- MODULE StorageReplica ----------------------------
(***************************************************************************)
(* The handlers of backend/blindsided/storage/service.py that change or    *)
(* hand over authority, as functions of a replica and a request.  A store  *)
(* is the history of one auction, its version the length; a request id is  *)
(* an element op with one fingerprint.  Handlers that change anything save *)
(* it; Saved is what a save writes and Loaded what a restart makes of it.  *)
(***************************************************************************)
EXTENDS Naturals, Sequences

CONSTANT NoNode   \* the empty address

Saved(r) ==
    [epoch |-> r.epoch, ready |-> r.ready, backup |-> r.backup,
     store |-> r.store, records |-> r.records, prepared |-> r.prepared,
     aborted |-> r.aborted, pending |-> r.pending]

(* Fault: a restart always restores a backup. *)
LoadedAsBackup(s) ==
    [role |-> "backup", reported |-> FALSE, epoch |-> s.epoch, ready |-> FALSE,
     backup |-> s.backup, store |-> s.store, records |-> s.records,
     prepared |-> s.prepared, aborted |-> s.aborted, pending |-> s.pending]

(* Fault: the epoch is restored with the role of primary only.              *)
LoadedWithoutEpoch(s) ==
    LET primary == s.ready /\ s.backup # NoNode
    IN [role |-> IF primary THEN "primary" ELSE "backup",
        reported |-> primary,
        epoch |-> IF primary THEN s.epoch ELSE 0,
        ready |-> s.ready, backup |-> s.backup,
        store |-> s.store, records |-> s.records, prepared |-> s.prepared,
        aborted |-> s.aborted, pending |-> s.pending]

(* A snapshot of a ready primary restores a primary, any other a backup.    *)
Loaded(s) ==
    LET primary == s.ready /\ s.backup # NoNode
    IN [role |-> IF primary THEN "primary" ELSE "backup",
        reported |-> primary,
        epoch |-> s.epoch, ready |-> s.ready, backup |-> s.backup,
        store |-> s.store, records |-> s.records, prepared |-> s.prepared,
        aborted |-> s.aborted, pending |-> s.pending]

(* Fault: a primary restored from its snapshot keeps its role in any epoch. *)
RegisteredRecovering(r, response) ==
    LET recovering == r.role = "primary" /\ r.ready /\ r.epoch > 0
        primary == response.is_primary \/ recovering
    IN [r EXCEPT !.role = IF primary THEN "primary" ELSE "backup",
                 !.epoch = response.epoch,
                 !.ready = primary, !.reported = primary]

(* The answer of the controller to the registration of a starting replica.  *)
Registered(r, response) ==
    LET recovering == /\ r.role = "primary" /\ r.ready /\ r.epoch > 0
                      /\ response.epoch = r.epoch
        primary == response.is_primary \/ recovering
    IN [r EXCEPT !.role = IF primary THEN "primary" ELSE "backup",
                 !.epoch = response.epoch,
                 !.ready = IF recovering THEN @ ELSE primary,
                 !.reported = IF recovering THEN @ ELSE primary]

(* What it says of itself when it registers or is probed.  The controller   *)
(* reads no backup of a backup and none of an unready primary.              *)
Reported(r) ==
    [role |-> r.role, epoch |-> r.epoch,
     ready |-> r.role = "primary" \/ r.reported,
     backup |-> IF r.role = "primary" /\ r.reported THEN r.backup ELSE NoNode]

-----------------------------------------------------------------------------
(* Replication.  A preparation holds op, candidate, primary and epoch; a    *)
(* decision request op, primary and epoch.                                  *)

Recorded(r, op) == \E x \in r.records : x.op = op

Tombstoned(r, op) == \E x \in r.aborted : x.op = op

PreparedFor(r, op) == {p \in r.prepared : p.op = op}

PrepareAccepted(r, p) ==
    /\ r.role = "backup"
    /\ p.epoch = r.epoch
    /\ ~Tombstoned(r, p.op)
    /\ \/ p \in r.prepared
       \/ /\ PreparedFor(r, p.op) = {}
          /\ ~Recorded(r, p.op)
          /\ Len(p.candidate) = Len(r.store) + 1

PrepareAuctionMutation(r, p) ==
    IF PrepareAccepted(r, p) THEN [r EXCEPT !.prepared = @ \cup {p}] ELSE r

Committable(r, d) ==
    {p \in PreparedFor(r, d.op) :
       p.primary = d.primary /\ Len(p.candidate) = Len(r.store) + 1}

CommitAccepted(r, d) ==
    /\ r.role = "backup"
    /\ d.epoch = r.epoch
    /\ ~Tombstoned(r, d.op)
    /\ IF PreparedFor(r, d.op) = {} THEN Recorded(r, d.op)
       ELSE Committable(r, d) # {}

Published(r, op, candidate) ==
    [r EXCEPT !.store = candidate,
              !.records = @ \cup {[op |-> op, version |-> Len(candidate)]}]

CommitPreparedMutation(r, d) ==
    IF CommitAccepted(r, d) /\ PreparedFor(r, d.op) # {}
    THEN LET p == CHOOSE q \in Committable(r, d) : TRUE
         IN [Published(r, d.op, p.candidate) EXCEPT !.prepared = @ \ {p}]
    ELSE r

AbortPreparedMutation(r, d) ==
    LET undone == {p \in PreparedFor(r, d.op) : p.primary = d.primary}
    IN IF /\ r.role = "backup" /\ d.epoch = r.epoch
          /\ ~Recorded(r, d.op) /\ ~Tombstoned(r, d.op)
          /\ undone # {}
       THEN [r EXCEPT !.prepared = @ \ undone,
                      !.aborted = @ \cup {[op |-> d.op, primary |-> d.primary]}]
       ELSE r

(* _record_commit_decision_locked: the decision remembers the backup.       *)
Decided(r, p) ==
    [Published(r, p.op, p.candidate) EXCEPT
       !.pending = @ \cup {[op |-> p.op, version |-> Len(p.candidate),
                            backup |-> r.backup, epoch |-> r.epoch]}]

PendingFor(r, op) == {d \in r.pending : d.op = op}

Acknowledged(r, op) == [r EXCEPT !.pending = @ \ PendingFor(r, op)]

-----------------------------------------------------------------------------
(* Promotion *)

BeginAccepted(r, m) ==
    \/ m.epoch > r.epoch
    \/ m.epoch = r.epoch /\ r.role = "primary"

BeginPrimaryPromotion(r, m) ==
    IF m.epoch > r.epoch
    THEN [r EXCEPT !.role = "primary", !.epoch = m.epoch, !.ready = FALSE,
                   !.reported = FALSE, !.prepared = {}]
    ELSE r

PromotionStateConfirmable(r, epoch) ==
    /\ epoch = r.epoch
    /\ r.role = "primary"
    /\ r.prepared = {}
    /\ r.pending = {}

CompletionAccepted(r, m) ==
    m.epoch = r.epoch /\ r.role = "primary"

CompletePrimaryPromotion(r, m) ==
    IF CompletionAccepted(r, m)
    THEN [r EXCEPT !.backup = m.backup, !.ready = TRUE, !.reported = TRUE]
    ELSE r

-----------------------------------------------------------------------------
(* Full-state synchronization *)

ProvidesState(r, epoch) == r.role = "primary" /\ r.epoch = epoch

Synchronizable(r, epoch) == r.role = "backup" /\ epoch >= r.epoch

(* Fault: what only this replica holds is kept. *)
ReplaceIfBehind(r, epoch, store, records) ==
    LET behind == Len(r.store) <= Len(store)
    IN [r EXCEPT !.store = IF behind THEN store ELSE @,
                 !.records = @ \cup records, !.prepared = {}, !.aborted = {},
                 !.pending = {}, !.epoch = epoch,
                 !.ready = FALSE, !.reported = FALSE]

ReplaceWithFullState(r, epoch, store, records) ==
    [r EXCEPT !.store = store, !.records = records, !.prepared = {},
              !.aborted = {}, !.pending = {}, !.epoch = epoch,
              !.ready = FALSE, !.reported = FALSE]

(* Its completion report was answered with success. *)
Synchronized(r, epoch) ==
    IF r.role = "backup" /\ r.epoch = epoch
    THEN [r EXCEPT !.reported = TRUE] ELSE r
=============================================================================
