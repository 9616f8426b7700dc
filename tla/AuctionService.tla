---------------------------- MODULE AuctionService ----------------------------
(***************************************************************************)
(* The auction service (backend/blindsided/auction_service/service.py):    *)
(* mutation calls with their retries, authoritative reads and watch        *)
(* streams over the primary GetPrimary answers.  Storage is what the       *)
(* service sees of it, for one auction: the primary of each epoch, of      *)
(* which an old one may go on serving, and the backup of the newest one.   *)
(* FailoverLedger states what this view shares with Failover.              *)
(*                                                                         *)
(* An auction is the sequence of its applied mutations, its version the    *)
(* length.  A step of a primary is a whole handler; snapshots that cannot  *)
(* be written are SyncReplication's, a backup with a stale copy is         *)
(* Failover's.                                                             *)
(***************************************************************************)
EXTENDS Naturals, FiniteSets, SequencesExt

CONSTANTS
    Op,          \* mutations, each with the request id its client retries
    Create,      \* those that create the auction
    Reveal,      \* those that reveal it
    Sweep,       \* the reveal a primary sends itself after ends_at
    Requested,   \* those clients call for
    Created,     \* the history at the start
    MayEnd,      \* whether ends_at is reached
    Reader,      \* calls of GetAuction
    Watcher,     \* streams of WatchAuction
    RetryLimit,  \* mutation_retry_limit
    MaxEpoch,    \* bound on failovers
    MaxQueued    \* bound on requests whose handler has not run

ASSUME ServiceAssumption ==
    /\ Create \subseteq Op
    /\ Reveal \subseteq Op \ Create
    /\ Sweep \in Reveal
    /\ Requested \subseteq Op \ {Sweep}
    /\ Created \in {<<>>} \cup {<<op>> : op \in Create \ Requested}
    /\ MayEnd \in BOOLEAN
    /\ RetryLimit \in Nat \ {0}
    /\ MaxEpoch \in Nat \ {0}
    /\ MaxQueued \in Nat

VARIABLES
    epoch,      \* the newest one
    cluster,    \* what the controller does; GetPrimary answers when "ready"
    primaries,  \* [Epoch -> the primary of that epoch]
    backup,     \* the synchronous backup of the newest primary
    ended,      \* time.time() has reached ends_at
    calls,      \* [Op -> the mutation call for it]
    queued,     \* requests without an answer whose handler may still run
    acked,      \* histories, each up to a mutation, answered with success
    reads,      \* [Reader -> its GetAuction]
    watches     \* [Watcher -> its stream]

storageVars == <<epoch, cluster, primaries, backup, ended>>
clientVars == <<calls, queued, acked>>
vars == <<storageVars, clientVars, reads, watches>>

Epoch == 1..MaxEpoch

-----------------------------------------------------------------------------
(* Storage, as operators on the state of a primary p and its backup b       *)

Unpromoted ==
    [store |-> <<>>, pending |-> {}, stranded |-> {}, aborted |-> {},
     serving |-> FALSE]

(* The backup lacks the newest mutation, or has it; and its tombstones.     *)
InStep == [lagging |-> FALSE, aborted |-> {}]

Primary ==
    [store : Seq(Op), pending : SUBSET Op, stranded : SUBSET Op,
     aborted : SUBSET Op, serving : BOOLEAN]

Version(p) == Len(p.store)
Applied(p) == ToSet(p.store)
Revealed(p) == Applied(p) \cap Reveal # {}

Result(answer, p, b) == [answer |-> answer, primary |-> p, backup |-> b]

(* build_candidate: the reason of a rejection.                              *)
DomainError(p, op, version) ==
    IF op \in Create THEN IF p.store = <<>> THEN "none" ELSE "rejected"
    ELSE IF p.store = <<>> \/ Revealed(p) THEN "rejected"
    ELSE IF version # Version(p) THEN "conflict"
    ELSE IF ended /\ op \notin Reveal THEN "rejected" ELSE "none"

(* A decision made under a former backup is sent there, also afterwards.    *)
CompletePendingBackupCommit(p, b, op, newest) ==
    LET cleared == [p EXCEPT !.pending = @ \ {op}, !.stranded = @ \ {op}]
        committed == IF op = Last(p.store) THEN [b EXCEPT !.lagging = FALSE]
                     ELSE b
    IN {Result("pending", p, b)}
       \cup IF op \in p.stranded THEN {Result("success", cleared, b)}
            ELSE IF newest THEN {Result("success", cleared, committed),
                                 Result("pending", p, committed)}
            ELSE {}

(* Prepared and decided, then committed or not; or refused or unanswered,   *)
(* then aborted with or without a tombstone.                                *)
CoordinateSynchronousCommit(p, b, op, newest) ==
    LET decided == [p EXCEPT !.store = Append(@, op)]
        pending == [decided EXCEPT !.pending = @ \cup {op}]
    IN {Result("rejected", p, b)}
       \cup IF ~newest \/ b.lagging \/ op \in b.aborted THEN {}
            ELSE {Result("success", decided, b), Result("pending", pending, b),
                  Result("pending", pending, [b EXCEPT !.lagging = TRUE]),
                  Result("rejected", p, [b EXCEPT !.aborted = @ \cup {op}])}

ApplyAuctionMutation(p, b, op, version, newest) ==
    IF ~p.serving \/ op \in p.aborted THEN {Result("rejected", p, b)}
    ELSE IF op \in p.pending
    THEN CompletePendingBackupCommit(p, b, op, newest)
    ELSE IF op \in Applied(p) THEN {Result("success", p, b)}
    ELSE IF DomainError(p, op, version) # "none"
    THEN {Result(DomainError(p, op, version), p, b)}
    ELSE CoordinateSynchronousCommit(p, b, op, newest)

(* What the handler may do with a request sent to the primary of epoch e.   *)
Handled(e, op, version) ==
    ApplyAuctionMutation(primaries[e], backup, op, version, e = epoch)

Becomes(e, r) ==
    /\ primaries' = [primaries EXCEPT ![e] = r.primary]
    /\ backup' = r.backup

(* CompletePrimaryPromotion with a new backup, which holds a copy of the    *)
(* primary's state, ends with the reveal of an overdue auction; then the    *)
(* controller publishes the primary.                                        *)
ReconcileOverdueAuctions(p, b) ==
    IF ended /\ p.store # <<>> /\ ~Revealed(p)
    THEN ApplyAuctionMutation(p, b, Sweep, Version(p), TRUE)
    ELSE {Result("none", p, b)}

CompletePrimaryPromotion ==
    LET p == [primaries[epoch] EXCEPT !.serving = TRUE, !.stranded = @ \cup
                primaries[epoch].pending]
    IN /\ cluster \in {"promoting", "reprotecting"}
       /\ \E r \in ReconcileOverdueAuctions(p, InStep) : Becomes(epoch, r)
       /\ cluster' = "ready"
       /\ UNCHANGED <<epoch, ended, clientVars, reads, watches>>

(* The primary failed or is cut off; its backup becomes the primary.        *)
Failover ==
    LET store == primaries[epoch].store
    IN /\ cluster = "ready" /\ epoch < MaxEpoch
       /\ epoch' = epoch + 1
       /\ cluster' = "promoting"
       /\ primaries' = [primaries EXCEPT ![epoch + 1] =
            [Unpromoted EXCEPT
               !.store = IF backup.lagging THEN Front(store) ELSE store,
               !.aborted = backup.aborted]]
       /\ backup' = InStep
       /\ UNCHANGED <<ended, clientVars, reads, watches>>

(* The backup failed; a replacement is synchronized.                        *)
BackupEvicted ==
    /\ cluster = "ready"
    /\ cluster' = "reprotecting"
    /\ UNCHANGED <<epoch, primaries, backup, ended, clientVars, reads, watches>>

(* An old primary stops, or learns that it is one, with the requests queued *)
(* at it.                                                                   *)
Depose(e) ==
    /\ e < epoch /\ primaries[e].serving
    /\ primaries' = [primaries EXCEPT ![e] = Unpromoted]
    /\ queued' = {m \in queued : m.epoch # e}
    /\ UNCHANGED <<epoch, cluster, backup, ended, calls, acked, reads, watches>>

ClosingTime ==
    /\ MayEnd /\ ~ended
    /\ ended' = TRUE
    /\ UNCHANGED <<epoch, cluster, primaries, backup, clientVars, reads, watches>>

StorageStep ==
    \/ CompletePrimaryPromotion
    \/ Failover
    \/ BackupEvicted
    \/ \E e \in Epoch : Depose(e)
    \/ ClosingTime

-----------------------------------------------------------------------------
(* Mutation calls                                                           *)

(* unsettled: a request of op was not answered, or answered as pending.     *)
Call ==
    [phase : {"new", "resolve", "send", "success", "rejected", "failed"},
     attempt : 0..RetryLimit, version : Nat, epoch : Epoch \cup {0},
     unsettled : BOOLEAN]

Waiting == [phase |-> "new", attempt |-> 0, version |-> 0, epoch |-> 0,
            unsettled |-> FALSE]

Answer(op, phase) ==
    calls' = [calls EXCEPT ![op] =
                [Waiting EXCEPT !.phase = phase,
                                !.unsettled = calls[op].unsettled]]

(* A client calls with the version it read, at first or after a retryable   *)
(* answer.  Until GetPrimary answers, a call has changed nothing: it may    *)
(* end with "no ready primary", and is then as if it had not been made.     *)
StartCall(op) ==
    LET read == Version(primaries[epoch])
    IN /\ calls[op].phase = "new"
       /\ cluster = "ready"
       /\ op \in Create \/ read > 0
       /\ calls' = [calls EXCEPT ![op] =
            [@ EXCEPT !.phase = "send", !.attempt = 1, !.epoch = epoch,
                      !.version = IF op \in Create THEN 0 ELSE read]]
       /\ UNCHANGED <<storageVars, queued, acked, reads, watches>>

(* The next attempt, within the failover window.  _wait_for_ready_primary   *)
(* takes the unchanged assignment of an interrupted request once its        *)
(* replica is serving or GetPrimary failed in between.                      *)
ResolveReadyPrimary(op) ==
    /\ calls[op].phase = "resolve"
    /\ cluster = "ready"
    /\ calls' = [calls EXCEPT ![op].phase = "send", ![op].epoch = epoch]
    /\ UNCHANGED <<storageVars, queued, acked, reads, watches>>

NoReadyPrimary(op) ==
    /\ calls[op].phase = "resolve"
    /\ Answer(op, "new")
    /\ UNCHANGED <<storageVars, queued, acked, reads, watches>>

Sent(op) == calls[op].phase = "send"

(* The history of p up to op.                                               *)
Through(p, op) ==
    SubSeq(p.store, 1, CHOOSE i \in DOMAIN p.store : p.store[i] = op)

(* What the call does with an answer of storage; "new" is the answer        *)
(* "acknowledgement pending, retry with the same request_id".               *)
(* Faults: a pending acknowledgement is told as success, or as a failure.   *)
OutcomePendingSucceeds(answer, attempt) ==
    IF answer \in {"success", "pending"} THEN "success"
    ELSE IF answer = "conflict" /\ attempt < RetryLimit THEN "resolve"
    ELSE "rejected"

OutcomePendingFails(answer, attempt) ==
    IF answer = "success" THEN "success"
    ELSE IF answer = "conflict" /\ attempt < RetryLimit THEN "resolve"
    ELSE "rejected"

Outcome(answer, attempt) ==
    IF answer = "success" THEN "success"
    ELSE IF answer = "pending" THEN "new"
    ELSE IF answer = "conflict" /\ attempt < RetryLimit THEN "resolve"
    ELSE "rejected"

(* After a version conflict the next attempt takes the version of storage.  *)
RequestAnswered(op) ==
    LET c == calls[op]
    IN /\ Sent(op)
       /\ \E r \in Handled(c.epoch, op, c.version) :
            LET phase == Outcome(r.answer, c.attempt)
            IN /\ Becomes(c.epoch, r)
               /\ acked' = IF phase # "success" THEN acked
                           ELSE acked \cup {Through(r.primary, op)}
               /\ calls' = [calls EXCEPT ![op] =
                    IF phase = "resolve"
                    THEN [c EXCEPT !.phase = "resolve", !.attempt = @ + 1,
                                   !.epoch = 0, !.version = Version(r.primary)]
                    ELSE [Waiting EXCEPT !.phase = phase,
                            !.unsettled = c.unsettled \/ phase = "new"]]
       /\ UNCHANGED <<epoch, cluster, ended, queued, reads, watches>>

(* No answer: the request is lost, the answer is, or the handler runs after *)
(* the caller gave up.                                                      *)
Unanswered(op) ==
    LET c == calls[op]
        request == [op |-> op, version |-> c.version, epoch |-> c.epoch]
    IN \/ UNCHANGED <<primaries, backup, queued>>
       \/ /\ \E r \in Handled(c.epoch, op, c.version) : Becomes(c.epoch, r)
          /\ UNCHANGED queued
       \/ /\ queued' = queued \cup {request}
          /\ Cardinality(queued') <= MaxQueued
          /\ UNCHANGED <<primaries, backup>>

Interrupted(c, counted) ==
    [c EXCEPT !.phase = "resolve", !.attempt = @ + counted, !.epoch = 0,
              !.unsettled = TRUE]

(* Faults: one attempt too many; attempts are not counted.                  *)
RequestInterruptedOnceMore(op) ==
    /\ Sent(op)
    /\ Unanswered(op)
    /\ calls' = [calls EXCEPT ![op] =
         IF @.attempt <= RetryLimit THEN Interrupted(@, 1)
         ELSE [Waiting EXCEPT !.unsettled = TRUE]]
    /\ UNCHANGED <<epoch, cluster, ended, acked, reads, watches>>

RequestInterruptedUncounted(op) ==
    /\ Sent(op)
    /\ Unanswered(op)
    /\ calls' = [calls EXCEPT ![op] = Interrupted(@, 0)]
    /\ UNCHANGED <<epoch, cluster, ended, acked, reads, watches>>

(* UNAVAILABLE or DEADLINE_EXCEEDED: the call goes on with the primary that *)
(* recovers, which may be the same, and answers "outcome unknown" when none *)
(* does in time or no attempt is left.                                      *)
RequestInterrupted(op) ==
    /\ Sent(op)
    /\ Unanswered(op)
    /\ calls' = [calls EXCEPT ![op] =
         IF @.attempt < RetryLimit THEN Interrupted(@, 1)
         ELSE [Waiting EXCEPT !.unsettled = TRUE]]
    /\ UNCHANGED <<epoch, cluster, ended, acked, reads, watches>>

(* Any other status: the handler raised or never ran.                       *)
RequestFailed(op) ==
    /\ Sent(op)
    /\ Answer(op, "failed")
    /\ UNCHANGED <<storageVars, queued, acked, reads, watches>>

LateHandler(m) ==
    /\ \E r \in Handled(m.epoch, m.op, m.version) : Becomes(m.epoch, r)
    /\ queued' = queued \ {m}
    /\ UNCHANGED <<epoch, cluster, ended, calls, acked, reads, watches>>

CallStep(op) ==
    \/ ResolveReadyPrimary(op)
    \/ NoReadyPrimary(op)
    \/ RequestAnswered(op)
    \/ RequestInterrupted(op)
    \/ RequestFailed(op)

-----------------------------------------------------------------------------
(* Authoritative reads                                                      *)

(* begun: what had been answered with success when the read began.          *)
NotRead == [phase |-> "new", epoch |-> 0, begun |-> {}, seen |-> <<>>]

Read ==
    [phase : {"new", "resolve", "send", "answered"},
     epoch : Epoch \cup {0}, begun : SUBSET Seq(Op), seen : Seq(Op)]

(* Fault: the primary of an earlier call is taken for the current one.      *)
StartReadCached(r) ==
    /\ reads[r].phase = "new"
    /\ \E e \in 1..epoch :
         reads' = [reads EXCEPT ![r] =
           [NotRead EXCEPT !.phase = "send", !.epoch = e,
                           !.begun = acked]]
    /\ UNCHANGED <<storageVars, clientVars, watches>>

StartRead(r) ==
    /\ reads[r].phase = "new"
    /\ cluster = "ready"
    /\ reads' = [reads EXCEPT ![r] =
         [NotRead EXCEPT !.phase = "send", !.epoch = epoch,
                         !.begun = acked]]
    /\ UNCHANGED <<storageVars, clientVars, watches>>

ReadResolved(r) ==
    /\ reads[r].phase = "resolve"
    /\ cluster = "ready"
    /\ reads' = [reads EXCEPT ![r].phase = "send", ![r].epoch = epoch]
    /\ UNCHANGED <<storageVars, clientVars, watches>>

(* Without a ready primary or an answer in time, no data is shown.          *)
ReadUnavailable(r) ==
    /\ reads[r].phase \in {"resolve", "send"}
    /\ reads' = [reads EXCEPT ![r] = NotRead]
    /\ UNCHANGED <<storageVars, clientVars, watches>>

(* Without an answer or with an authority failure the primary is resolved   *)
(* again.                                                                   *)
ReadAnswered(r) ==
    LET p == primaries[reads[r].epoch]
    IN /\ reads[r].phase = "send" /\ p.serving
       /\ reads' = [reads EXCEPT ![r].phase = "answered", ![r].epoch = 0,
                                 ![r].seen = p.store]
       /\ UNCHANGED <<storageVars, clientVars, watches>>

ReadFails(r) ==
    /\ reads[r].phase = "send"
    /\ reads' = [reads EXCEPT ![r].phase = "resolve", ![r].epoch = 0]
    /\ UNCHANGED <<storageVars, clientVars, watches>>

ReadStep(r) ==
    \/ StartRead(r)
    \/ ReadResolved(r)
    \/ ReadUnavailable(r)
    \/ ReadAnswered(r)
    \/ ReadFails(r)

-----------------------------------------------------------------------------
(* Watch streams                                                            *)

Joined == [phase |-> "resolve", epoch |-> 0, last_version |-> 0]

Watch ==
    [phase : {"resolve", "send", "done"}, epoch : Epoch \cup {0},
     last_version : Nat]

WatchResolved(w) ==
    /\ watches[w].phase = "resolve"
    /\ cluster = "ready"
    /\ watches' = [watches EXCEPT ![w].phase = "send", ![w].epoch = epoch]
    /\ UNCHANGED <<storageVars, clientVars, reads>>

(* Fault: the version after the last one is taken for old.                  *)
WatchAnsweredOffByOne(w) ==
    LET p == primaries[watches[w].epoch]
        newer == Version(p) > watches[w].last_version + 1
    IN /\ watches[w].phase = "send" /\ p.serving
       /\ watches' = [watches EXCEPT ![w] =
            [phase |-> IF newer /\ Revealed(p) THEN "done" ELSE "resolve",
             epoch |-> 0,
             last_version |-> IF newer THEN Version(p) ELSE @.last_version]]
       /\ UNCHANGED <<storageVars, clientVars, reads>>

(* A version above the last one is shown; a revealed auction ends the       *)
(* stream.                                                                  *)
WatchAnswered(w) ==
    LET p == primaries[watches[w].epoch]
        newer == Version(p) > watches[w].last_version
    IN /\ watches[w].phase = "send" /\ p.serving
       /\ watches' = [watches EXCEPT ![w] =
            [phase |-> IF newer /\ Revealed(p) THEN "done" ELSE "resolve",
             epoch |-> 0,
             last_version |-> IF newer THEN Version(p) ELSE @.last_version]]
       /\ UNCHANGED <<storageVars, clientVars, reads>>

WatchFails(w) ==
    /\ watches[w].phase = "send"
    /\ watches' = [watches EXCEPT ![w].phase = "resolve", ![w].epoch = 0]
    /\ UNCHANGED <<storageVars, clientVars, reads>>

(* The stream broke; useAuctionWatch opens another.                         *)
WatchReconnects(w) ==
    /\ watches[w].phase # "done"
    /\ watches' = [watches EXCEPT ![w] = Joined]
    /\ UNCHANGED <<storageVars, clientVars, reads>>

WatchStep(w) ==
    \/ WatchResolved(w)
    \/ WatchAnswered(w)
    \/ WatchFails(w)
    \/ WatchReconnects(w)

-----------------------------------------------------------------------------

Init ==
    /\ epoch = 1
    /\ cluster = "ready"
    /\ primaries = [e \in Epoch |-> IF e > 1 THEN Unpromoted
                  ELSE [Unpromoted EXCEPT !.store = Created, !.serving = TRUE]]
    /\ backup = InStep
    /\ ended = FALSE
    /\ calls = [op \in Requested |-> Waiting]
    /\ queued = {}
    /\ acked = {Created} \ {<<>>}
    /\ reads = [r \in Reader |-> NotRead]
    /\ watches = [w \in Watcher |-> Joined]

Next ==
    \/ StorageStep
    \/ \E op \in Requested : StartCall(op) \/ CallStep(op)
    \/ \E m \in queued : LateHandler(m)
    \/ \E r \in Reader : ReadStep(r)
    \/ \E w \in Watcher : WatchStep(w)

(* A call takes its next step or runs into its deadline; a stream polls for *)
(* ever and does not fail each time.                                        *)
Spec ==
    /\ Init /\ [][Next]_vars
    /\ \A op \in Requested : WF_vars(CallStep(op))
    /\ \A w \in Watcher :
         /\ WF_vars(WatchAnswered(w) \/ WatchFails(w))
         /\ SF_vars(WatchResolved(w)) /\ SF_vars(WatchAnswered(w))

-----------------------------------------------------------------------------
(* Properties *)

TypeOfStorage ==
    /\ epoch \in Epoch
    /\ cluster \in {"ready", "promoting", "reprotecting"}
    /\ primaries \in [Epoch -> Primary]
    /\ backup \in [lagging : BOOLEAN, aborted : SUBSET Op]
    /\ ended \in BOOLEAN

(* Storage and calls are well-formed: an old-epoch request or read names an *)
(* epoch there was, a call in progress has an attempt left.                 *)
TypeOK ==
    /\ TypeOfStorage
    /\ calls \in [Requested -> Call]
    /\ queued \subseteq [op : Op, version : Nat, epoch : Epoch]
    /\ acked \subseteq Seq(Op)
    /\ reads \in [Reader -> Read]
    /\ watches \in [Watcher -> Watch]

(* Retries, late requests, replays and failovers together do to the auction *)
(* what FailoverLedger allows: a request id is applied at most once in its  *)
(* history, and what a client was told succeeded stays there (the retry     *)
(* loops of service.py:477-816 with storage's idempotency records).         *)
Ledger ==
    INSTANCE FailoverLedger WITH
        Auction <- {Sweep},
        IdOf <- [op \in Op |-> op],
        AuctionOf <- [op \in Op |-> Sweep],
        history <- [a \in {Sweep} |-> primaries[epoch].store],
        acknowledged <- acked

LedgerSpec == Ledger!FailoverSpec

(* A failure answered by a call whose every request, and every request of   *)
(* its earlier calls, was answered is the truth: the mutation is in no      *)
(* primary's store, whichever primaries and versions the attempts met.      *)
SettledFailureIsFinal ==
    \A op \in Requested :
      calls[op].phase \in {"rejected", "failed"} /\ ~calls[op].unsettled
        => \A e \in Epoch : op \notin Applied(primaries[e])

(* docs/auction-specification.md:597 promises an unknown-outcome response   *)
(* for an unresolved interruption, so when the service passes on storage's  *)
(* rejection, the mutation is not applied.                                  *)
RejectionMeansNotApplied ==
    \A op \in Requested :
      calls[op].phase = "rejected" => op \notin Applied(primaries[epoch])

(* docs/auction-specification.md:407: an authoritative read that began      *)
(* after a mutation was answered with success shows it, also when it is     *)
(* retried over a failover or answered by a primary about to be replaced.   *)
ReadSeesAcknowledged ==
    \A r \in Reader :
      reads[r].phase = "answered"
        => \A h \in reads[r].begun : IsPrefix(h, reads[r].seen)

(* Every mutation call ends, with an answer or in the client's deadline:    *)
(* the attempts of an interrupted or conflicting request are bounded.       *)
CallsAreAnswered ==
    \A op \in Requested :
      calls[op].phase = "send"
        ~> calls[op].phase \in {"new", "success", "rejected", "failed"}

(* A stream shows the reveal of its auction, provided that some primary is  *)
(* ready again and again; unless it had shown a mutation a failover dropped *)
(* and the reveal has a version it takes for old (service.py:986).          *)
WatchCompletes ==
    []<>(cluster = "ready") =>
      \A w \in Watcher :
        Revealed(primaries[epoch]) ~>
          \/ watches[w].phase = "done"
          \/ watches[w].last_version >= Version(primaries[epoch])
=============================================================================
