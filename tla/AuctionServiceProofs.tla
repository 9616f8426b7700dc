------------------------- MODULE AuctionServiceProofs -------------------------
(***************************************************************************)
(* Proofs about AuctionService, for every set of mutations, calls, reads   *)
(* and watches, every number of failovers and every retry limit.           *)
(*                                                                         *)
(* The heart of the inductive invariant IInv is what a former primary may  *)
(* still answer: a mutation it holds and is not waiting to commit at the   *)
(* backup of its own time has the same place in the newest primary's       *)
(* store, and is settled there too (Carried).  The newest mutation of a    *)
(* primary whose backup lags is therefore neither acknowledged nor about   *)
(* to be, by anyone (InStepWith, AcknowledgedSound).                       *)
(***************************************************************************)
EXTENDS AuctionService, TLAPS

(* IsPrefix, in the form the provers use. *)
Pre(s, t) == Len(s) <= Len(t) /\ \A i \in 1..Len(s) : s[i] = t[i]

Distinct(s) == \A i, j \in 1..Len(s) : s[i] = s[j] => i = j

(* The decisions that still depend on the backup. *)
Unsettled(p) == p.pending \ p.stranded

WellRecorded(p) ==
    /\ Distinct(p.store)
    /\ p.stranded \subseteq p.pending
    /\ p.pending \subseteq Applied(p)

InStepWith(p, b) ==
    b.lagging => p.store # <<>> /\ Last(p.store) \in Unsettled(p)

(* Every settled mutation of p is settled in q, with the same history. *)
Carried(p, q) ==
    \A i \in 1..Len(p.store) :
      p.store[i] \notin Unsettled(p) =>
        /\ i <= Len(q.store)
        /\ \A j \in 1..i : q.store[j] = p.store[j]
        /\ q.store[i] \notin Unsettled(q)

PrimariesSound ==
    /\ \A e \in 1..epoch : /\ WellRecorded(primaries[e])
                           /\ Carried(primaries[e], primaries[epoch])
    /\ InStepWith(primaries[epoch], backup)

AcknowledgedSound ==
    /\ acked \subseteq Seq(Op)
    /\ \A h \in acked :
         /\ Pre(h, primaries[epoch].store) /\ h # <<>>
         /\ backup.lagging => Len(h) < Len(primaries[epoch].store)

StorageInv == TypeOfStorage /\ PrimariesSound /\ AcknowledgedSound

(* A call without an unsettled request has changed nothing so far. *)
CallsInv ==
    /\ calls \in [Requested -> Call]
    /\ queued \subseteq [op : Op, version : Nat, epoch : Epoch]
    /\ \A op \in Requested :
         calls[op].phase = "send" => calls[op].epoch \in 1..epoch
    /\ \A m \in queued :
         /\ m.op \in Requested /\ m.epoch \in 1..epoch
         /\ calls[m.op].unsettled
    /\ \A op \in Requested :
         ~calls[op].unsettled /\ calls[op].phase # "success"
           => \A e \in Epoch : op \notin Applied(primaries[e])

(* A read sent to a primary that may answer it finds what was acknowledged. *)
ReadsInv ==
    /\ reads \in [Reader -> Read]
    /\ \A r \in Reader :
         /\ reads[r].begun \subseteq acked
         /\ reads[r].phase = "send" =>
              LET e == reads[r].epoch
              IN /\ e \in 1..epoch
                 /\ e = epoch \/ primaries[e].serving =>
                      \A h \in reads[r].begun : Pre(h, primaries[e].store)
         /\ reads[r].phase = "answered" =>
              \A h \in reads[r].begun : Pre(h, reads[r].seen)

WatchesInv ==
    /\ watches \in [Watcher -> Watch]
    /\ \A w \in Watcher :
         watches[w].phase = "send" => watches[w].epoch \in 1..epoch

IInv == StorageInv /\ CallsInv /\ ReadsInv /\ WatchesInv

Backup == [lagging : BOOLEAN, aborted : SUBSET Op]

(* What a request for op may make of a primary p with backup b: it applies  *)
(* op at most, only at the newest primary and with its backup in step.      *)
Advanced(p, b, r, op, newest) ==
    /\ r.primary \in Primary /\ r.backup \in Backup
    /\ WellRecorded(r.primary) /\ r.primary.serving = p.serving
    /\ newest => InStepWith(r.primary, r.backup)
    /\ ~newest => r.backup = b /\ Unsettled(r.primary) = Unsettled(p)
    /\ \/ /\ r.primary.store = p.store
          /\ Unsettled(r.primary) \subseteq Unsettled(p)
          /\ r.backup.lagging => b.lagging
       \/ /\ newest /\ ~b.lagging
          /\ op \notin Applied(p) /\ r.primary.store = Append(p.store, op)
          /\ Unsettled(r.primary) \subseteq Unsettled(p) \cup {op}
          /\ r.answer \in {"success", "pending"}
    /\ r.answer = "success" => op \in Applied(r.primary) \ Unsettled(r.primary)

-----------------------------------------------------------------------------
(* Sequences *)

LEMMA LastInSeq ==
    ASSUME NEW S, NEW s \in Seq(S), s # <<>>
    PROVE  Len(s) \in Nat \ {0} /\ Last(s) = s[Len(s)] /\ Last(s) \in S
BY DEF Last

LEMMA ElementsOfSeq ==
    ASSUME NEW S, NEW s \in Seq(S)
    PROVE  /\ Len(s) \in Nat /\ DOMAIN s = 1..Len(s)
           /\ \A i \in 1..Len(s) : s[i] \in S
           /\ \A x : x \in ToSet(s) <=> \E i \in 1..Len(s) : s[i] = x
BY DEF ToSet

LEMMA AppendedSeq ==
    ASSUME NEW S, NEW s \in Seq(S), NEW x \in S
    PROVE  /\ Append(s, x) \in Seq(S) /\ Len(Append(s, x)) = Len(s) + 1
           /\ Append(s, x) # <<>> /\ Last(Append(s, x)) = x
           /\ Append(s, x)[Len(s) + 1] = x
           /\ \A i \in 1..Len(s) : Append(s, x)[i] = s[i]
           /\ ToSet(Append(s, x)) = ToSet(s) \cup {x}
<1>1. /\ Append(s, x) \in Seq(S) /\ Len(Append(s, x)) = Len(s) + 1
      /\ Append(s, x)[Len(s) + 1] = x
      /\ \A i \in 1..Len(s) : Append(s, x)[i] = s[i]
  OBVIOUS
<1>2. Append(s, x) # <<>> /\ Last(Append(s, x)) = x
  BY <1>1 DEF Last
<1>3. ToSet(Append(s, x)) = ToSet(s) \cup {x}
  <2>1. 1..(Len(s) + 1) = (1..Len(s)) \cup {Len(s) + 1}
    BY ElementsOfSeq
  <2>2. \A y : y \in ToSet(s) <=> \E i \in 1..Len(s) : s[i] = y
    BY ElementsOfSeq
  <2>3. \A y : y \in ToSet(Append(s, x))
               <=> \E i \in 1..(Len(s) + 1) : Append(s, x)[i] = y
    <3> DEFINE t == Append(s, x)
    <3>1. t \in Seq(S) /\ Len(t) = Len(s) + 1
      BY <1>1
    <3> HIDE DEF t
    <3>2. \A y : y \in ToSet(t) <=> \E i \in 1..Len(t) : t[i] = y
      BY <3>1, ElementsOfSeq
    <3> QED
      BY <3>1, <3>2 DEF t
  <2>4. \A y : (\E i \in 1..(Len(s) + 1) : Append(s, x)[i] = y)
               <=> (\E i \in 1..Len(s) : s[i] = y) \/ y = x
    BY <1>1, <2>1
  <2> QED
    BY <2>2, <2>3, <2>4
<1> QED
  BY <1>1, <1>2, <1>3

LEMMA FrontSeq ==
    ASSUME NEW S, NEW s \in Seq(S), s # <<>>
    PROVE  /\ Front(s) \in Seq(S) /\ Len(Front(s)) = Len(s) - 1
           /\ \A i \in 1..Len(s) - 1 : Front(s)[i] = s[i]
<1>1. Len(s) \in Nat /\ Len(s) # 0
  OBVIOUS
<1>2. Len(s) - 1 \in 0..Len(s)
  BY <1>1
<1>3. \A n \in 0..Len(s) :
        /\ SubSeq(s, 1, n) \in Seq(S) /\ Len(SubSeq(s, 1, n)) = n
        /\ \A i \in 1..n : SubSeq(s, 1, n)[i] = s[i]
  OBVIOUS
<1> QED
  BY <1>2, <1>3 DEF Front

LEMMA PrefixOfSeq ==
    ASSUME NEW S, NEW s \in Seq(S), NEW n \in 1..Len(s)
    PROVE  /\ SubSeq(s, 1, n) \in Seq(S) /\ Len(SubSeq(s, 1, n)) = n
           /\ \A i \in 1..n : SubSeq(s, 1, n)[i] = s[i]
           /\ SubSeq(s, 1, n) # <<>>
OBVIOUS

(* The community IsPrefix follows from its unfolded form Pre.               *)
LEMMA PreIsPrefix ==
    ASSUME NEW S, NEW s \in Seq(S), NEW t \in Seq(S), Pre(s, t)
    PROVE  IsPrefix(s, t)
<1>1. /\ SubSeq(s, 1, Len(s)) \in Seq(S) /\ SubSeq(t, 1, Len(s)) \in Seq(S)
      /\ Len(SubSeq(s, 1, Len(s))) = Len(s)
      /\ Len(SubSeq(t, 1, Len(s))) = Len(s)
      /\ \A i \in 1..Len(s) :
           SubSeq(s, 1, Len(s))[i] = s[i] /\ SubSeq(t, 1, Len(s))[i] = t[i]
  BY DEF Pre
<1>2. SubSeq(s, 1, Len(s)) = SubSeq(t, 1, Len(s))
  BY <1>1 DEF Pre
<1> QED
  BY <1>2 DEF IsPrefix, Pre

(* A history that is a prefix of another is the other's beginning.          *)
LEMMA PreIsSubSeq ==
    ASSUME NEW S, NEW s \in Seq(S), NEW t \in Seq(S), Pre(s, t), s # <<>>
    PROVE  Len(s) \in 1..Len(t) /\ s = SubSeq(t, 1, Len(s))
<1>1. Len(s) \in 1..Len(t)
  BY DEF Pre
<1>2. /\ SubSeq(t, 1, Len(s)) \in Seq(S)
      /\ Len(SubSeq(t, 1, Len(s))) = Len(s)
      /\ \A i \in 1..Len(s) : SubSeq(t, 1, Len(s))[i] = t[i]
  BY <1>1, PrefixOfSeq
<1> QED
  BY <1>1, <1>2 DEF Pre

LEMMA PreTransitive ==
    ASSUME NEW S, NEW s \in Seq(S), NEW t \in Seq(S), NEW u \in Seq(S),
           Pre(s, t), Pre(t, u)
    PROVE  Pre(s, u)
BY DEF Pre

(* The history of p up to an applied mutation.                              *)
LEMMA ThroughIsPrefix ==
    ASSUME NEW p \in Primary, WellRecorded(p), NEW op \in Applied(p)
    PROVE  \E i \in 1..Len(p.store) :
             /\ p.store[i] = op /\ Through(p, op) = SubSeq(p.store, 1, i)
             /\ Through(p, op) \in Seq(Op) /\ Len(Through(p, op)) = i
             /\ \A j \in 1..i : Through(p, op)[j] = p.store[j]
             /\ Through(p, op) # <<>>
<1> DEFINE s == p.store
           i == CHOOSE i \in DOMAIN s : s[i] = op
<1>1. s \in Seq(Op)
  BY DEF Primary
<1>2. \E k \in DOMAIN s : s[k] = op
  BY <1>1 DEF Applied, ToSet
<1>3. i \in DOMAIN s /\ s[i] = op
  BY <1>2
<1>4. i \in 1..Len(s)
  BY <1>1, <1>3, ElementsOfSeq
<1>5. Through(p, op) = SubSeq(s, 1, i)
  BY DEF Through
<1> HIDE DEF i
<1> QED
  BY <1>1, <1>3, <1>4, <1>5, PrefixOfSeq

-----------------------------------------------------------------------------
(* The handler of a mutation request *)

LEMMA ClearedAdvances ==
    ASSUME NEW p \in Primary, NEW b \in Backup, NEW c \in Backup, NEW op \in Op,
           NEW newest \in BOOLEAN, WellRecorded(p),
           newest => InStepWith(p, b), op \in p.pending,
           newest \/ (op \in p.stranded /\ c = b),
           c = b \/ c.lagging = FALSE,
           c.lagging /\ newest => op \in p.stranded \/ op # Last(p.store),
           NEW q,
           q = [p EXCEPT !.pending = @ \ {op}, !.stranded = @ \ {op}]
    PROVE  Advanced(p, b, Result("success", q, c), op, newest)
<1>1. /\ q \in Primary /\ q.store = p.store /\ q.serving = p.serving
      /\ q.pending = p.pending \ {op} /\ q.stranded = p.stranded \ {op}
  BY DEF Primary
<1>2. Unsettled(q) = Unsettled(p) \ {op} /\ Applied(q) = Applied(p)
  BY <1>1 DEF Unsettled, Applied
<1>3. WellRecorded(q) /\ op \in Applied(q) \ Unsettled(q)
  BY <1>1, <1>2 DEF WellRecorded
<1>4. newest => InStepWith(q, c)
  BY <1>1, <1>2 DEF InStepWith, Unsettled, Backup
<1>5. ~newest => Unsettled(q) = Unsettled(p)
  BY <1>2 DEF Unsettled
<1> QED
  BY <1>1, <1>2, <1>3, <1>4, <1>5 DEF Advanced, Result, Backup

LEMMA UnchangedAdvances ==
    ASSUME NEW p \in Primary, NEW b \in Backup, NEW c \in Backup, NEW op \in Op,
           NEW newest \in BOOLEAN, WellRecorded(p),
           newest => InStepWith(p, b),
           c = b \/ (newest /\ c.lagging = FALSE),
           NEW answer, answer = "success" => op \in Applied(p) \ Unsettled(p)
    PROVE  Advanced(p, b, Result(answer, p, c), op, newest)
BY DEF Advanced, Result, InStepWith, Backup

LEMMA DecidedAdvances ==
    ASSUME NEW p \in Primary, NEW b \in Backup, NEW c \in Backup, NEW op \in Op,
           WellRecorded(p), ~b.lagging, op \notin Applied(p),
           NEW answer \in {"success", "pending"}, NEW q,
           q = [p EXCEPT !.store = Append(@, op),
                         !.pending = IF answer = "pending" THEN @ \cup {op}
                                     ELSE @],
           c.lagging => answer = "pending"
    PROVE  Advanced(p, b, Result(answer, q, c), op, TRUE)
<1>1. /\ p.store \in Seq(Op) /\ q.store = Append(p.store, op)
      /\ q.serving = p.serving /\ q.stranded = p.stranded
      /\ q.pending = IF answer = "pending" THEN p.pending \cup {op}
                     ELSE p.pending
  BY DEF Primary
<1>2. /\ q.store \in Seq(Op) /\ Len(q.store) = Len(p.store) + 1
      /\ q.store # <<>> /\ Last(q.store) = op /\ q.store[Len(p.store) + 1] = op
      /\ \A i \in 1..Len(p.store) : q.store[i] = p.store[i]
      /\ Applied(q) = Applied(p) \cup {op}
  BY <1>1, AppendedSeq DEF Applied
<1>3. q \in Primary
  BY <1>1, <1>2 DEF Primary
<1>4. op \notin p.stranded /\ op \notin p.pending
  BY DEF WellRecorded
<1>5. Distinct(q.store)
  <2>1. \A i \in 1..Len(p.store) : p.store[i] # op
    BY <1>1, ElementsOfSeq DEF Applied
  <2>2. \A i \in 1..Len(q.store) : i \in 1..Len(p.store) \/ i = Len(p.store) + 1
    BY <1>1, <1>2
  <2> QED
    BY <1>2, <2>1, <2>2 DEF Distinct, WellRecorded
<1>6. WellRecorded(q)
  BY <1>1, <1>2, <1>5 DEF WellRecorded
<1>7. /\ Unsettled(q) \subseteq Unsettled(p) \cup {op}
      /\ answer = "pending" => op \in Unsettled(q)
      /\ answer = "success" => op \in Applied(q) \ Unsettled(q)
  BY <1>1, <1>2, <1>4 DEF Unsettled
<1>8. InStepWith(q, c)
  BY <1>2, <1>7 DEF InStepWith
<1> QED
  BY <1>1, <1>3, <1>6, <1>7, <1>8 DEF Advanced, Result

(* ApplyAuctionMutation does no more to a primary than Advanced allows.     *)
LEMMA HandlerAdvances ==
    ASSUME NEW p \in Primary, NEW b \in Backup, NEW op \in Op, NEW version,
           NEW newest \in BOOLEAN, WellRecorded(p),
           newest => InStepWith(p, b),
           NEW r \in ApplyAuctionMutation(p, b, op, version, newest)
    PROVE  Advanced(p, b, r, op, newest)
<1> DEFINE cleared == [p EXCEPT !.pending = @ \ {op}, !.stranded = @ \ {op}]
           committed == IF op = Last(p.store) THEN [b EXCEPT !.lagging = FALSE]
                        ELSE b
           decided == [p EXCEPT !.store = Append(@, op)]
           pending == [decided EXCEPT !.pending = @ \cup {op}]
<1>1. ASSUME NEW a, a # "success"
      PROVE  Advanced(p, b, Result(a, p, b), op, newest)
  BY <1>1, UnchangedAdvances, Zenon
<1>2. CASE /\ op \in p.pending
           /\ r \in CompletePendingBackupCommit(p, b, op, newest)
  <2>1. committed \in Backup /\ (committed = b \/ committed.lagging = FALSE)
        /\ (committed.lagging => op # Last(p.store))
    BY DEF Backup
  <2>2. CASE r = Result("pending", p, b)
    BY <1>1, <2>2
  <2>3. CASE op \in p.stranded /\ r = Result("success", cleared, b)
    BY <1>2, <2>3, ClearedAdvances
  <2>4. CASE newest /\ r = Result("success", cleared, committed)
    <3> HIDE DEF committed, cleared
    <3>1. Advanced(p, b, Result("success", cleared, committed), op, newest)
      BY <1>2, <2>1, <2>4, ClearedAdvances, Zenon DEF cleared
    <3> QED
      BY <2>4, <3>1
  <2>5. CASE newest /\ r = Result("pending", p, committed)
    <3>1. "pending" # "success"
      OBVIOUS
    <3> HIDE DEF committed
    <3>2. Advanced(p, b, Result("pending", p, committed), op, newest)
      <4>1. committed = b \/ (newest /\ committed.lagging = FALSE)
        BY <2>1, <2>5
      <4> QED
        BY <2>1, <3>1, <4>1, UnchangedAdvances, Zenon
    <3> QED
      BY <2>5, <3>2
  <2> QED
    BY <1>2, <2>2, <2>3, <2>4, <2>5 DEF CompletePendingBackupCommit
<1>3. CASE /\ op \notin Applied(p)
           /\ r \in CoordinateSynchronousCommit(p, b, op, newest)
  <2>1. CASE r = Result("rejected", p, b)
    BY <1>1, <2>1
  <2>2. CASE newest /\ ~b.lagging /\ r = Result("success", decided, b)
    <3>1. decided = [p EXCEPT !.store = Append(@, op), !.pending = @]
      BY DEF Primary
    <3> QED
      BY <1>3, <2>2, <3>1, DecidedAdvances
  <2>3. CASE /\ newest /\ ~b.lagging
             /\ \/ r = Result("pending", pending, b)
                \/ r = Result("pending", pending, [b EXCEPT !.lagging = TRUE])
    <3>1. pending = [p EXCEPT !.store = Append(@, op),
                              !.pending = @ \cup {op}]
      BY DEF Primary
    <3>2. [b EXCEPT !.lagging = TRUE] \in Backup
      BY DEF Backup
    <3> QED
      <4>1. ASSUME NEW c \in Backup
            PROVE  Advanced(p, b, Result("pending", pending, c), op, TRUE)
        <5>1. pending = [p EXCEPT !.store = Append(@, op),
                           !.pending = IF "pending" = "pending"
                                       THEN @ \cup {op} ELSE @]
          BY <3>1
        <5> HIDE DEF pending
        <5> QED
          BY <1>3, <2>3, <5>1, DecidedAdvances
      <4> QED
        BY <2>3, <3>2, <4>1
  <2>4. CASE /\ newest /\ ~b.lagging
             /\ r = Result("rejected", p, [b EXCEPT !.aborted = @ \cup {op}])
    <3>1. /\ [b EXCEPT !.aborted = @ \cup {op}] \in Backup
          /\ [b EXCEPT !.aborted = @ \cup {op}].lagging = FALSE
      BY <2>4 DEF Backup
    <3> QED
      BY <2>4, <3>1, UnchangedAdvances
  <2> QED
    BY <1>3, <2>1, <2>2, <2>3, <2>4 DEF CoordinateSynchronousCommit
<1>4. CASE op \in Applied(p) /\ op \notin p.pending /\ r = Result("success", p, b)
  <2>1. op \in Applied(p) \ Unsettled(p)
    BY <1>4 DEF Unsettled
  <2> QED
    <3>1. Advanced(p, b, Result("success", p, b), op, newest)
      BY <2>1, UnchangedAdvances, Zenon
    <3> QED
      BY <1>4, <3>1
<1>5. DomainError(p, op, version) # "success"
  BY DEF DomainError
<1> QED
  BY <1>1, <1>2, <1>3, <1>4, <1>5 DEF ApplyAuctionMutation

-----------------------------------------------------------------------------
(* Storage *)

(* What a step acknowledges, if anything, is an answer's history.           *)
Acknowledges(r, op) ==
    \/ acked' = acked
    \/ r.answer = "success" /\ acked' = acked \cup {Through(r.primary, op)}

LEMMA StorageTypes ==
    ASSUME TypeOfStorage
    PROVE  /\ epoch \in Epoch /\ epoch \in Nat \ {0} /\ backup \in Backup
           /\ \A e \in 1..epoch : e \in Epoch /\ primaries[e] \in Primary
           /\ \A e \in Epoch : /\ primaries[e] \in Primary
                               /\ primaries[e].store \in Seq(Op)
BY ServiceAssumption DEF TypeOfStorage, Epoch, Backup, Primary

LEMMA HandledAdvances ==
    ASSUME TypeOfStorage, PrimariesSound, NEW e \in 1..epoch, NEW op \in Op,
           NEW version, NEW r \in Handled(e, op, version)
    PROVE  Advanced(primaries[e], backup, r, op, e = epoch)
<1>1. primaries[e] \in Primary /\ backup \in Backup
  BY StorageTypes
<1>2. /\ WellRecorded(primaries[e])
      /\ (e = epoch) => InStepWith(primaries[e], backup)
  BY DEF PrimariesSound
<1> DEFINE newest == e = epoch
<1>3. newest \in BOOLEAN /\ (newest => InStepWith(primaries[e], backup))
  BY <1>2
<1>4. r \in ApplyAuctionMutation(primaries[e], backup, op, version, newest)
  BY DEF Handled
<1> HIDE DEF newest
<1>5. Advanced(primaries[e], backup, r, op, newest)
  BY <1>1, <1>2, <1>3, <1>4, HandlerAdvances, Zenon
<1> QED
  BY <1>5 DEF newest

LEMMA AdvancedStore ==
    ASSUME NEW p \in Primary, NEW b, NEW op \in Op, NEW newest, NEW r,
           Advanced(p, b, r, op, newest)
    PROVE  /\ r.primary \in Primary /\ r.primary.store \in Seq(Op)
           /\ p.store \in Seq(Op) /\ Pre(p.store, r.primary.store)
           /\ Applied(r.primary) \subseteq Applied(p) \cup {op}
           /\ Applied(p) \subseteq Applied(r.primary)
           /\ r.answer \notin {"success", "pending"} => r.primary.store = p.store
<1>1. p.store \in Seq(Op) /\ r.primary \in Primary /\ r.primary.store \in Seq(Op)
  BY DEF Advanced, Primary
<1>2. CASE r.primary.store = p.store
  BY <1>1, <1>2 DEF Pre, Applied
<1>3. CASE r.primary.store = Append(p.store, op) /\ r.answer \in {"success", "pending"}
  BY <1>1, <1>3, AppendedSeq DEF Pre, Applied
<1> QED
  BY <1>1, <1>2, <1>3 DEF Advanced

(* The newest primary p with its backup b, which may just have changed,     *)
(* handles a request.                                                       *)
LEMMA NewestStep ==
    ASSUME StorageInv, NEW p \in Primary, NEW b \in Backup, NEW op \in Op, NEW r,
           p.store = primaries[epoch].store,
           Unsettled(p) \subseteq Unsettled(primaries[epoch]),
           b.lagging => backup.lagging,
           Advanced(p, b, r, op, TRUE), Becomes(epoch, r), epoch' = epoch,
           cluster' \in {"ready", "promoting", "reprotecting"},
           ended' \in BOOLEAN, Acknowledges(r, op)
    PROVE  StorageInv'
<1> DEFINE q == r.primary
<1>1. TypeOfStorage'
  <2>1. q \in Primary /\ r.backup \in Backup
    BY DEF Advanced
  <2> QED
    BY <2>1 DEF TypeOfStorage, StorageInv, Becomes, Backup
<1>2. /\ epoch \in Epoch /\ epoch \in Nat \ {0}
      /\ primaries \in [Epoch -> Primary] /\ primaries' = [primaries EXCEPT ![epoch] = q]
      /\ primaries'[epoch] = q /\ backup' = r.backup
      /\ \A e \in 1..epoch : e # epoch => primaries'[e] = primaries[e]
      /\ \A e \in 1..epoch : e \in Epoch /\ primaries[e] \in Primary
  BY StorageTypes DEF StorageInv, TypeOfStorage, Becomes
<1>3. /\ q \in Primary /\ q.store \in Seq(Op) /\ p.store \in Seq(Op)
      /\ Pre(p.store, q.store) /\ WellRecorded(q) /\ InStepWith(q, r.backup)
  BY AdvancedStore DEF Advanced
<1>4. ASSUME NEW i \in 1..Len(p.store), p.store[i] \notin Unsettled(primaries[epoch])
      PROVE  q.store[i] = p.store[i] /\ q.store[i] \notin Unsettled(q)
  <2>1. q.store[i] = p.store[i] /\ p.store[i] \in Applied(p)
    BY <1>3, ElementsOfSeq DEF Pre, Applied
  <2>2. \/ Unsettled(q) \subseteq Unsettled(p)
        \/ op \notin Applied(p) /\ Unsettled(q) \subseteq Unsettled(p) \cup {op}
    BY DEF Advanced
  <2> QED
    BY <1>4, <2>1, <2>2
<1>5. PrimariesSound'
  <2>1. ASSUME NEW e \in 1..epoch, e # epoch
        PROVE  WellRecorded(primaries[e]) /\ Carried(primaries[e], q)
    <3>1. WellRecorded(primaries[e]) /\ Carried(primaries[e], primaries[epoch])
      BY DEF StorageInv, PrimariesSound
    <3>2. primaries[e].store \in Seq(Op)
      BY <1>2 DEF Primary
    <3>3. ASSUME NEW i \in 1..Len(primaries[e].store),
                 primaries[e].store[i] \notin Unsettled(primaries[e])
          PROVE  /\ i <= Len(q.store)
                 /\ \A j \in 1..i : q.store[j] = primaries[e].store[j]
                 /\ q.store[i] \notin Unsettled(q)
      <4>1. /\ i <= Len(p.store)
            /\ \A j \in 1..i : p.store[j] = primaries[e].store[j]
            /\ p.store[i] \notin Unsettled(primaries[epoch])
        BY <3>1, <3>3 DEF Carried
      <4>2. i \in Nat /\ Len(p.store) \in Nat /\ Len(q.store) \in Nat /\ i >= 1
        BY <1>3, <3>2, ElementsOfSeq
      <4>3. i \in 1..Len(p.store)
        BY <4>1, <4>2
      <4>4. q.store[i] \notin Unsettled(q)
        BY <1>4, <4>1, <4>3
      <4>5. \A j \in 1..i : j \in 1..Len(p.store) /\ q.store[j] = p.store[j]
        BY <1>3, <4>1, <4>2 DEF Pre
      <4> QED
        BY <1>3, <4>1, <4>2, <4>4, <4>5 DEF Pre
    <3> QED
      BY <3>1, <3>3 DEF Carried
  <2>2. WellRecorded(q) /\ Carried(q, q)
    BY <1>3, ElementsOfSeq DEF Carried
  <2> QED
    BY <1>2, <1>3, <2>1, <2>2 DEF PrimariesSound
<1>6. AcknowledgedSound'
  <2>1. ASSUME NEW h \in acked
        PROVE  /\ h \in Seq(Op) /\ h # <<>> /\ Pre(h, q.store)
               /\ r.backup.lagging => Len(h) < Len(q.store)
    <3>1. /\ h \in Seq(Op) /\ h # <<>> /\ Pre(h, p.store)
          /\ backup.lagging => Len(h) < Len(p.store)
      BY DEF StorageInv, AcknowledgedSound
    <3>2. Pre(h, q.store)
      BY <1>3, <3>1, PreTransitive
    <3>3. CASE q.store = p.store /\ (r.backup.lagging => b.lagging)
      BY <3>1, <3>2, <3>3
    <3>4. CASE q.store = Append(p.store, op)
      BY <1>3, <3>1, <3>2, <3>4, AppendedSeq DEF Pre
    <3> QED
      BY <3>1, <3>2, <3>3, <3>4 DEF Advanced
  <2>2. ASSUME r.answer = "success"
        PROVE  LET h == Through(q, op)
               IN /\ h \in Seq(Op) /\ h # <<>> /\ Pre(h, q.store)
                  /\ r.backup.lagging => Len(h) < Len(q.store)
    <3>1. op \in Applied(q) /\ op \notin Unsettled(q)
      BY <2>2 DEF Advanced
    <3>2. PICK i \in 1..Len(q.store) :
            /\ q.store[i] = op
            /\ Through(q, op) \in Seq(Op) /\ Len(Through(q, op)) = i
            /\ \A j \in 1..i : Through(q, op)[j] = q.store[j]
            /\ Through(q, op) # <<>>
      BY <1>3, <3>1, ThroughIsPrefix
    <3>3. r.backup.lagging => i # Len(q.store)
      BY <1>3, <3>1, <3>2, LastInSeq DEF InStepWith
    <3> QED
      BY <1>3, <3>2, <3>3, ElementsOfSeq DEF Pre
  <2> QED
    BY <1>2, <2>1, <2>2 DEF AcknowledgedSound, Acknowledges, StorageInv
<1> QED
  BY <1>1, <1>5, <1>6 DEF StorageInv

(* A former primary handles a request: it decides nothing more.             *)
LEMMA FormerStep ==
    ASSUME StorageInv, NEW e \in 1..epoch, e # epoch, NEW op \in Op, NEW r,
           Advanced(primaries[e], backup, r, op, FALSE), Becomes(e, r),
           UNCHANGED <<epoch, cluster, ended>>, Acknowledges(r, op)
    PROVE  StorageInv'
<1> DEFINE q == r.primary
           s == primaries[epoch].store
<1>1. /\ epoch \in Epoch /\ epoch \in Nat \ {0} /\ backup' = backup
      /\ primaries \in [Epoch -> Primary] /\ primaries' = [primaries EXCEPT ![e] = q]
      /\ primaries'[e] = q /\ primaries'[epoch] = primaries[epoch]
      /\ \A f \in 1..epoch : f # e => primaries'[f] = primaries[f]
      /\ \A f \in 1..epoch : f \in Epoch /\ primaries[f] \in Primary
  BY StorageTypes DEF StorageInv, TypeOfStorage, Becomes, Advanced
<1>2. /\ q \in Primary /\ q.store = primaries[e].store /\ WellRecorded(q)
      /\ Unsettled(q) = Unsettled(primaries[e]) /\ q.store \in Seq(Op)
      /\ s \in Seq(Op)
  BY <1>1 DEF Advanced, Primary
<1>3. TypeOfStorage'
  BY <1>1, <1>2 DEF TypeOfStorage, StorageInv
<1>4. Carried(q, primaries[epoch])
  BY <1>2 DEF StorageInv, PrimariesSound, Carried
<1>5. PrimariesSound'
  BY <1>1, <1>2, <1>4 DEF StorageInv, PrimariesSound
<1>6. ASSUME r.answer = "success"
      PROVE  LET h == Through(q, op)
             IN /\ h \in Seq(Op) /\ h # <<>> /\ Pre(h, s)
                /\ backup.lagging => Len(h) < Len(s)
  <2>1. op \in Applied(q) /\ op \notin Unsettled(q)
    BY <1>6 DEF Advanced
  <2>2. PICK i \in 1..Len(q.store) :
          /\ q.store[i] = op
          /\ Through(q, op) \in Seq(Op) /\ Len(Through(q, op)) = i
          /\ \A j \in 1..i : Through(q, op)[j] = q.store[j]
          /\ Through(q, op) # <<>>
    BY <1>2, <2>1, ThroughIsPrefix
  <2>3. /\ i <= Len(s) /\ \A j \in 1..i : s[j] = q.store[j]
        /\ s[i] \notin Unsettled(primaries[epoch])
    BY <1>4, <2>1, <2>2 DEF Carried
  <2>4. backup.lagging => i # Len(s)
    BY <1>2, <2>3, LastInSeq DEF InStepWith, StorageInv, PrimariesSound
  <2> QED
    BY <1>2, <2>2, <2>3, <2>4, ElementsOfSeq DEF Pre
<1>7. AcknowledgedSound'
  BY <1>1, <1>6 DEF AcknowledgedSound, Acknowledges, StorageInv
<1> QED
  BY <1>3, <1>5, <1>7 DEF StorageInv

(* What the calls, reads and watches rely on when storage takes a step that *)
(* applies at most op.                                                      *)
StoresKept(op) ==
    /\ epoch' = epoch
    /\ \A e \in Epoch :
         /\ Applied(primaries'[e]) \subseteq Applied(primaries[e]) \cup {op}
         /\ Pre(primaries[e].store, primaries'[e].store)
         /\ primaries'[e].serving = primaries[e].serving

LEMMA HandledStep ==
    ASSUME StorageInv, NEW e \in 1..epoch, NEW op \in Op, NEW version,
           NEW r \in Handled(e, op, version), Becomes(e, r),
           UNCHANGED <<epoch, cluster, ended>>, Acknowledges(r, op)
    PROVE  /\ StorageInv' /\ StoresKept(op)
           /\ r.answer \notin {"success", "pending"} =>
                \A f \in Epoch : Applied(primaries'[f]) = Applied(primaries[f])
           /\ r.primary \in Primary /\ Version(r.primary) \in Nat
<1>1. Advanced(primaries[e], backup, r, op, e = epoch)
  BY HandledAdvances DEF StorageInv
<1>2. /\ epoch \in Epoch /\ e \in Epoch /\ backup \in Backup
      /\ primaries[e] \in Primary /\ primaries \in [Epoch -> Primary]
      /\ \A f \in Epoch : primaries[f].store \in Seq(Op)
  BY StorageTypes DEF StorageInv, TypeOfStorage
<1>3. StorageInv'
  <2>1. CASE e = epoch
    <3>1. Advanced(primaries[epoch], backup, r, op, TRUE)
      BY <1>1, <2>1
    <3> QED
      BY <1>2, <2>1, <3>1, NewestStep DEF StorageInv, TypeOfStorage
  <2>2. CASE e # epoch
    <3>1. Advanced(primaries[e], backup, r, op, FALSE)
      BY <1>1, <2>2
    <3> QED
      BY <2>2, <3>1, FormerStep
  <2> QED
    BY <2>1, <2>2
<1>4. /\ r.primary \in Primary /\ r.primary.store \in Seq(Op)
      /\ Pre(primaries[e].store, r.primary.store)
      /\ Applied(r.primary) \subseteq Applied(primaries[e]) \cup {op}
      /\ r.answer \notin {"success", "pending"} =>
           r.primary.store = primaries[e].store
      /\ r.primary.serving = primaries[e].serving
  BY <1>1, <1>2, AdvancedStore DEF Advanced
<1>5. primaries' = [primaries EXCEPT ![e] = r.primary]
  BY DEF Becomes
<1>6. \A f \in Epoch : Pre(primaries[f].store, primaries[f].store)
  BY DEF Pre
<1>7. StoresKept(op)
  BY <1>2, <1>4, <1>5, <1>6 DEF StoresKept
<1>8. r.answer \notin {"success", "pending"} =>
        \A f \in Epoch : Applied(primaries'[f]) = Applied(primaries[f])
  BY <1>2, <1>4, <1>5 DEF Applied
<1>9. Version(r.primary) \in Nat
  BY <1>4, ElementsOfSeq DEF Version
<1> QED
  BY <1>3, <1>4, <1>7, <1>8, <1>9

(* The candidate settles what it holds, and reveals an overdue auction.     *)
LEMMA PromotionStep ==
    ASSUME StorageInv, CompletePrimaryPromotion
    PROVE  /\ StorageInv' /\ epoch' = epoch
           /\ \A e \in Epoch :
                /\ Applied(primaries'[e])
                     \subseteq Applied(primaries[e]) \cup {Sweep}
                /\ Pre(primaries[e].store, primaries'[e].store)
                /\ e # epoch => primaries'[e].serving = primaries[e].serving
<1> DEFINE n == primaries[epoch]
           p == [n EXCEPT !.serving = TRUE, !.stranded = @ \cup n.pending]
<1>1. /\ epoch \in Epoch /\ n \in Primary /\ InStep \in Backup
      /\ primaries \in [Epoch -> Primary] /\ Sweep \in Op
      /\ \A f \in Epoch : primaries[f].store \in Seq(Op)
      /\ n.store \in Seq(Op) /\ n.pending \in SUBSET Op /\ n.stranded \in SUBSET Op
  BY StorageTypes, ServiceAssumption
     DEF StorageInv, TypeOfStorage, Backup, InStep, Primary
<1>2. /\ p \in Primary /\ p.store = n.store /\ p.pending = n.pending
      /\ p.stranded = n.stranded \cup n.pending
  BY <1>1 DEF Primary
<1>3. PICK r \in ReconcileOverdueAuctions(p, InStep) : Becomes(epoch, r)
  BY DEF CompletePrimaryPromotion
<1>4. /\ epoch' = epoch /\ ended' = ended /\ acked' = acked
      /\ cluster' = "ready" /\ ended \in BOOLEAN
  BY DEF CompletePrimaryPromotion, clientVars, StorageInv, TypeOfStorage
<1>5. WellRecorded(n)
  BY StorageTypes DEF StorageInv, PrimariesSound
<1>6. WellRecorded(p) /\ Unsettled(p) = {} /\ ~InStep.lagging
  BY <1>1, <1>2, <1>5 DEF WellRecorded, Unsettled, Applied, InStep
<1>7. InStepWith(p, InStep)
  BY <1>6 DEF InStepWith
<1> HIDE DEF p
<1>8. Advanced(p, InStep, r, Sweep, TRUE)
  <2>1. CASE r \in ApplyAuctionMutation(p, InStep, Sweep, Version(p), TRUE)
    BY <1>1, <1>2, <1>6, <1>7, <2>1, HandlerAdvances
  <2>2. CASE r = Result("none", p, InStep)
    <3>1. Advanced(p, InStep, Result("none", p, InStep), Sweep, TRUE)
      BY <1>1, <1>2, <1>6, <1>7, UnchangedAdvances
    <3> QED
      BY <2>2, <3>1
  <2> QED
    BY <1>3, <2>1, <2>2 DEF ReconcileOverdueAuctions
<1>9. Acknowledges(r, Sweep)
  BY <1>4 DEF Acknowledges
<1>10. StorageInv'
  BY <1>1, <1>2, <1>3, <1>4, <1>6, <1>8, <1>9, NewestStep
<1>11. /\ r.primary \in Primary /\ Pre(n.store, r.primary.store)
       /\ Applied(r.primary) \subseteq Applied(n) \cup {Sweep}
  BY <1>1, <1>2, <1>8, AdvancedStore DEF Applied
<1>12. \A f \in Epoch : Pre(primaries[f].store, primaries[f].store)
  BY DEF Pre
<1>13. primaries' = [primaries EXCEPT ![epoch] = r.primary]
  BY <1>3 DEF Becomes
<1> QED
  BY <1>1, <1>4, <1>10, <1>11, <1>12, <1>13

(* The backup becomes the primary of the next epoch.                        *)
LEMMA FailoverStep ==
    ASSUME StorageInv, Failover
    PROVE  /\ StorageInv' /\ epoch' = epoch + 1
           /\ \A e \in Epoch : e # epoch + 1 => primaries'[e] = primaries[e]
           /\ Applied(primaries'[epoch + 1]) \subseteq Applied(primaries[epoch])
           /\ \/ primaries'[epoch'].store = primaries[epoch].store
              \/ /\ primaries[epoch].store # <<>>
                 /\ primaries[epoch].store \notin acked
                 /\ primaries'[epoch'].store = Front(primaries[epoch].store)
<1> DEFINE s == primaries[epoch].store
           t == IF backup.lagging THEN Front(s) ELSE s
           q == [Unpromoted EXCEPT !.store = t, !.aborted = backup.aborted]
<1>1. /\ epoch \in Epoch /\ epoch \in Nat \ {0} /\ epoch + 1 \in Epoch
      /\ primaries \in [Epoch -> Primary] /\ s \in Seq(Op) /\ backup \in Backup
      /\ \A e \in 1..epoch : e \in Epoch /\ primaries[e] \in Primary
      /\ 1..(epoch + 1) = (1..epoch) \cup {epoch + 1}
  BY StorageTypes, ServiceAssumption
     DEF StorageInv, TypeOfStorage, Failover, Epoch
<1>2. /\ epoch' = epoch + 1 /\ primaries' = [primaries EXCEPT ![epoch + 1] = q]
      /\ backup' = InStep /\ cluster' = "promoting" /\ ended' = ended
      /\ acked' = acked
  BY DEF Failover, clientVars
<1>3. backup.lagging => s # <<>> /\ Last(s) \in Unsettled(primaries[epoch])
  BY DEF StorageInv, PrimariesSound, InStepWith
<1>4. /\ t \in Seq(Op) /\ Len(t) \in Nat /\ Len(s) \in Nat
      /\ Len(t) = IF backup.lagging THEN Len(s) - 1 ELSE Len(s)
      /\ \A i \in 1..Len(t) : t[i] = s[i]
  BY <1>1, <1>3, FrontSeq
<1> HIDE DEF t
<1>5. /\ q \in Primary /\ q.store = t /\ q.pending = {} /\ q.stranded = {}
  BY <1>1, <1>4 DEF Primary, Unpromoted, Backup
<1> HIDE DEF q
<1>6. /\ primaries' \in [Epoch -> Primary] /\ primaries'[epoch'] = q
      /\ \A e \in Epoch : e # epoch + 1 => primaries'[e] = primaries[e]
      /\ \A e \in 1..epoch : primaries'[e] = primaries[e]
  BY <1>1, <1>2, <1>5
<1>7. TypeOfStorage'
  BY <1>1, <1>2, <1>6 DEF StorageInv, TypeOfStorage, InStep
<1>8. Applied(q) \subseteq Applied(primaries[epoch])
  BY <1>1, <1>4, <1>5, ElementsOfSeq DEF Applied
<1>9. WellRecorded(primaries[epoch])
  BY <1>1 DEF StorageInv, PrimariesSound
<1>10. WellRecorded(q) /\ Unsettled(q) = {}
  <2>1. Distinct(t)
    BY <1>4, <1>9 DEF WellRecorded, Distinct
  <2> QED
    BY <1>5, <2>1 DEF WellRecorded, Unsettled
<1>11. ASSUME NEW e \in 1..epoch
       PROVE  Carried(primaries[e], q)
  <2>1. Carried(primaries[e], primaries[epoch]) /\ primaries[e].store \in Seq(Op)
    BY <1>1 DEF StorageInv, PrimariesSound, Primary
  <2>2. ASSUME NEW i \in 1..Len(primaries[e].store),
               primaries[e].store[i] \notin Unsettled(primaries[e])
        PROVE  i <= Len(t) /\ \A j \in 1..i : t[j] = primaries[e].store[j]
    <3>1. /\ i <= Len(s) /\ \A j \in 1..i : s[j] = primaries[e].store[j]
          /\ s[i] \notin Unsettled(primaries[epoch])
      BY <2>1, <2>2 DEF Carried
    <3>2. backup.lagging => i # Len(s)
      BY <1>1, <1>3, <3>1, LastInSeq
    <3>3. i \in Nat /\ i >= 1
      BY <2>1, ElementsOfSeq
    <3>4. i <= Len(t)
      BY <1>4, <3>1, <3>2, <3>3
    <3>5. \A j \in 1..i : j \in 1..Len(t)
      BY <1>4, <3>3, <3>4
    <3> QED
      BY <1>4, <3>1, <3>4, <3>5
  <2> QED
    BY <1>5, <1>10, <2>2 DEF Carried
<1>12. Carried(q, q)
  BY <1>4, <1>5, <1>10 DEF Carried
<1>13. PrimariesSound'
  BY <1>1, <1>2, <1>6, <1>10, <1>11, <1>12
     DEF StorageInv, PrimariesSound, InStepWith, InStep
<1>14. ASSUME NEW h \in acked
       PROVE  Pre(h, t) /\ h # <<>> /\ (backup.lagging => h # s)
  <2>1. /\ h \in Seq(Op) /\ h # <<>> /\ Pre(h, s)
        /\ backup.lagging => Len(h) < Len(s)
    BY DEF StorageInv, AcknowledgedSound
  <2>2. Len(h) \in Nat /\ Len(h) <= Len(t) /\ (backup.lagging => h # s)
    BY <1>4, <2>1 DEF Pre
  <2>3. \A i \in 1..Len(h) : h[i] = s[i] /\ i \in 1..Len(t)
    BY <1>4, <2>1, <2>2 DEF Pre
  <2> QED
    BY <1>4, <2>1, <2>2, <2>3 DEF Pre
<1>15. AcknowledgedSound'
  BY <1>2, <1>5, <1>6, <1>14 DEF StorageInv, AcknowledgedSound, InStep
<1> QED
  BY <1>1, <1>2, <1>3, <1>5, <1>6, <1>7, <1>8, <1>13, <1>14, <1>15
     DEF StorageInv, t

(* A former primary stops.                                                  *)
LEMMA DeposeStep ==
    ASSUME StorageInv, NEW e \in Epoch, Depose(e)
    PROVE  /\ StorageInv' /\ epoch' = epoch /\ e < epoch
           /\ primaries'[e] = Unpromoted /\ Applied(Unpromoted) = {}
           /\ \A f \in Epoch : f # e => primaries'[f] = primaries[f]
<1>1. /\ e < epoch /\ UNCHANGED <<epoch, cluster, backup, ended, acked>>
      /\ primaries' = [primaries EXCEPT ![e] = Unpromoted]
  BY DEF Depose
<1>2. /\ epoch \in Epoch /\ epoch \in Nat \ {0} /\ e \in 1..epoch
      /\ primaries \in [Epoch -> Primary]
      /\ \A f \in 1..epoch : f \in Epoch
  BY <1>1, StorageTypes DEF StorageInv, TypeOfStorage, Epoch
<1>3. /\ Unpromoted \in Primary /\ Unpromoted.store = <<>>
      /\ Unpromoted.pending = {} /\ Unpromoted.stranded = {}
  BY DEF Unpromoted, Primary
<1>4. /\ Len(Unpromoted.store) = 0 /\ Applied(Unpromoted) = {}
      /\ WellRecorded(Unpromoted) /\ Carried(Unpromoted, primaries[epoch])
  BY <1>3 DEF Applied, ToSet, WellRecorded, Distinct, Carried
<1>5. /\ primaries' \in [Epoch -> Primary] /\ primaries'[e] = Unpromoted
      /\ \A f \in Epoch : f # e => primaries'[f] = primaries[f]
      /\ primaries'[epoch] = primaries[epoch]
  BY <1>1, <1>2, <1>3
<1>6. TypeOfStorage'
  BY <1>1, <1>5 DEF StorageInv, TypeOfStorage
<1>7. PrimariesSound'
  BY <1>1, <1>2, <1>4, <1>5 DEF StorageInv, PrimariesSound
<1>8. AcknowledgedSound'
  BY <1>1, <1>5 DEF StorageInv, AcknowledgedSound
<1> QED
  BY <1>1, <1>4, <1>5, <1>6, <1>7, <1>8 DEF StorageInv

(* The backup's failure and the passage of time change no store.            *)
LEMMA IdleStep ==
    ASSUME StorageInv, UNCHANGED <<epoch, primaries, backup, acked>>,
           cluster' \in {"ready", "promoting", "reprotecting"},
           ended' \in BOOLEAN
    PROVE  StorageInv'
BY DEF StorageInv, TypeOfStorage, PrimariesSound, AcknowledgedSound

-----------------------------------------------------------------------------
(* Calls, reads and watches *)

(* Calls stay sound in a step that applies no requested mutation.           *)
LEMMA CallsKept ==
    ASSUME CallsInv, epoch \in Nat, epoch' \in Nat, epoch <= epoch',
           UNCHANGED calls, queued' \subseteq queued,
           \A op \in Requested, e \in Epoch :
             op \in Applied(primaries'[e]) =>
               \E f \in Epoch : op \in Applied(primaries[f])
    PROVE  CallsInv'
<1>1. \A e \in 1..epoch : e \in 1..epoch'
  OBVIOUS
<1> QED
  BY <1>1 DEF CallsInv

LEMMA ReadsKept ==
    ASSUME StorageInv, ReadsInv, UNCHANGED reads, epoch' \in Nat,
           epoch <= epoch', acked \subseteq acked',
           \A e \in 1..epoch :
             e = epoch' \/ primaries'[e].serving =>
               /\ e = epoch \/ primaries[e].serving
               /\ primaries'[e].store \in Seq(Op)
               /\ Pre(primaries[e].store, primaries'[e].store)
    PROVE  ReadsInv'
<1>1. /\ epoch \in Nat /\ \A e \in 1..epoch : e \in 1..epoch'
      /\ acked \subseteq Seq(Op)
      /\ \A e \in 1..epoch : primaries[e].store \in Seq(Op)
  BY StorageTypes DEF StorageInv, AcknowledgedSound
<1>2. ASSUME NEW r \in Reader, reads[r].phase = "send",
             \/ reads[r].epoch = epoch'
             \/ primaries'[reads[r].epoch].serving,
             NEW h \in reads[r].begun
      PROVE  Pre(h, primaries'[reads[r].epoch].store)
  <2> DEFINE e == reads[r].epoch
  <2>1. e \in 1..epoch /\ h \in Seq(Op)
    BY <1>1, <1>2 DEF ReadsInv
  <2>2. /\ e = epoch \/ primaries[e].serving
        /\ primaries'[e].store \in Seq(Op)
        /\ Pre(primaries[e].store, primaries'[e].store)
    BY <1>2, <2>1
  <2>3. Pre(h, primaries[e].store)
    BY <1>2, <2>1, <2>2 DEF ReadsInv
  <2> QED
    BY <1>1, <2>1, <2>2, <2>3, PreTransitive
<1> QED
  BY <1>1, <1>2 DEF ReadsInv

LEMMA WatchesKept ==
    ASSUME WatchesInv, UNCHANGED watches, epoch \in Nat, epoch' \in Nat,
           epoch <= epoch'
    PROVE  WatchesInv'
<1>1. \A e \in 1..epoch : e \in 1..epoch'
  OBVIOUS
<1> QED
  BY <1>1 DEF WatchesInv

LEMMA StorageStepInductive ==
    ASSUME IInv, StorageStep
    PROVE  IInv'
<1> USE DEF IInv
<1>1. /\ epoch \in Nat \ {0} /\ epoch \in Epoch
      /\ \A e \in Epoch : primaries[e].store \in Seq(Op)
      /\ \A e \in 1..epoch : e \in Epoch
      /\ \A e \in Epoch : Pre(primaries[e].store, primaries[e].store)
  BY StorageTypes DEF StorageInv, Pre
<1>2. CASE CompletePrimaryPromotion
  <2>1. UNCHANGED <<calls, queued, acked, reads, watches>>
    BY <1>2 DEF CompletePrimaryPromotion, clientVars
  <2>2. /\ StorageInv' /\ epoch' = epoch
        /\ \A e \in Epoch :
             /\ Applied(primaries'[e])
                  \subseteq Applied(primaries[e]) \cup {Sweep}
             /\ Pre(primaries[e].store, primaries'[e].store)
             /\ e # epoch => primaries'[e].serving = primaries[e].serving
    BY <1>2, PromotionStep
  <2>3. \A e \in Epoch : primaries'[e].store \in Seq(Op)
    BY <2>2 DEF StorageInv, TypeOfStorage, Primary
  <2>4. Sweep \notin Requested
    BY ServiceAssumption
  <2>5. CallsInv'
    <3>1. \A op \in Requested, e \in Epoch :
            op \in Applied(primaries'[e]) => op \in Applied(primaries[e])
      BY <2>2, <2>4
    <3> QED
      BY <1>1, <2>1, <2>2, <3>1, CallsKept
  <2>6. ReadsInv'
    BY <1>1, <2>1, <2>2, <2>3, ReadsKept
  <2> QED
    BY <1>1, <2>1, <2>2, <2>5, <2>6, WatchesKept
<1>3. CASE Failover
  <2>1. UNCHANGED <<calls, queued, acked, reads, watches>>
    BY <1>3 DEF Failover, clientVars
  <2>2. /\ StorageInv' /\ epoch' = epoch + 1
        /\ \A e \in Epoch : e # epoch + 1 => primaries'[e] = primaries[e]
        /\ Applied(primaries'[epoch + 1]) \subseteq Applied(primaries[epoch])
    BY <1>3, FailoverStep
  <2>3. CallsInv'
    <3>1. ASSUME NEW op \in Requested, NEW e \in Epoch,
                 op \in Applied(primaries'[e])
          PROVE  \E f \in Epoch : op \in Applied(primaries[f])
      <4>1. CASE e = epoch + 1
        BY <1>1, <2>2, <3>1, <4>1
      <4>2. CASE e # epoch + 1
        BY <2>2, <3>1, <4>2
      <4> QED
        BY <4>1, <4>2
    <3> QED
      BY <1>1, <2>1, <2>2, <3>1, CallsKept
  <2>4. \A e \in 1..epoch : e # epoch' /\ primaries'[e] = primaries[e]
    BY <1>1, <2>2
  <2>5. ReadsInv'
    BY <1>1, <2>1, <2>2, <2>4, ReadsKept
  <2> QED
    BY <1>1, <2>1, <2>2, <2>3, <2>5, WatchesKept
<1>4. CASE BackupEvicted \/ ClosingTime
  <2>1. /\ UNCHANGED <<calls, queued, acked, reads, watches>>
        /\ UNCHANGED <<epoch, primaries, backup>>
        /\ cluster' \in {"ready", "promoting", "reprotecting"}
        /\ ended' \in BOOLEAN
    BY <1>4 DEF BackupEvicted, ClosingTime, clientVars, StorageInv, TypeOfStorage
  <2>2. StorageInv'
    BY <2>1, IdleStep
  <2>3. CallsInv' /\ ReadsInv' /\ WatchesInv'
    BY <2>1 DEF CallsInv, ReadsInv, WatchesInv
  <2> QED
    BY <2>2, <2>3
<1>5. ASSUME NEW e \in Epoch, Depose(e)
      PROVE  IInv'
  <2>1. UNCHANGED <<calls, acked, reads, watches>> /\ queued' \subseteq queued
    BY <1>5 DEF Depose
  <2>2. /\ StorageInv' /\ epoch' = epoch /\ e < epoch
        /\ primaries'[e] = Unpromoted /\ Applied(Unpromoted) = {}
        /\ \A f \in Epoch : f # e => primaries'[f] = primaries[f]
    BY <1>5, DeposeStep
  <2>3. CallsInv'
    BY <1>1, <2>1, <2>2, CallsKept
  <2>4. \A f \in 1..epoch :
          f = epoch' \/ primaries'[f].serving => primaries'[f] = primaries[f]
    BY <1>1, <2>2 DEF Unpromoted, Epoch
  <2>5. ReadsInv'
    BY <1>1, <2>1, <2>2, <2>4, ReadsKept
  <2> QED
    BY <1>1, <2>1, <2>2, <2>3, <2>5, WatchesKept
<1> QED
  BY <1>2, <1>3, <1>4, <1>5 DEF StorageStep

(* The call for op goes on as c, while at most op is applied.               *)
LEMMA CallTaken ==
    ASSUME CallsInv, NEW op \in Requested, NEW c \in Call,
           calls' = [calls EXCEPT ![op] = c], epoch' = epoch,
           c.phase = "send" => c.epoch \in 1..epoch,
           calls[op].unsettled => c.unsettled,
           \A m \in queued' :
             m \in queued \/ /\ m \in [op : Op, version : Nat, epoch : Epoch]
                             /\ m.op = op /\ m.epoch \in 1..epoch
                             /\ c.unsettled,
           \A e \in Epoch :
             Applied(primaries'[e]) \subseteq Applied(primaries[e]) \cup {op},
           ~c.unsettled /\ c.phase # "success" =>
             /\ calls[op].phase # "success"
             /\ \A e \in Epoch : Applied(primaries'[e]) = Applied(primaries[e])
    PROVE  CallsInv'
<1>1. /\ calls' \in [Requested -> Call] /\ calls'[op] = c
      /\ \A o \in Requested : o # op => calls'[o] = calls[o]
  BY DEF CallsInv
<1>2. queued' \subseteq [op : Op, version : Nat, epoch : Epoch]
  BY DEF CallsInv
<1>3. \A o \in Requested : calls'[o].phase = "send" => calls'[o].epoch \in 1..epoch
  BY <1>1 DEF CallsInv
<1>4. ASSUME NEW m \in queued'
      PROVE  /\ m.op \in Requested /\ m.epoch \in 1..epoch
             /\ calls'[m.op].unsettled
  BY <1>1 DEF CallsInv
<1>5. ASSUME NEW o \in Requested, ~calls'[o].unsettled,
             calls'[o].phase # "success", NEW e \in Epoch
      PROVE  o \notin Applied(primaries'[e])
  <2>1. CASE o = op
    BY <1>1, <1>5, <2>1 DEF CallsInv
  <2>2. CASE o # op
    BY <1>1, <1>5, <2>2 DEF CallsInv
  <2> QED
    BY <2>1, <2>2
<1> QED
  BY <1>1, <1>2, <1>3, <1>4, <1>5 DEF CallsInv

(* A step of storage that applies at most op leaves reads and watches sound. *)
LEMMA StoresKeptClients ==
    ASSUME IInv, StorageInv', NEW op, StoresKept(op), acked \subseteq acked',
           UNCHANGED <<reads, watches>>
    PROVE  ReadsInv' /\ WatchesInv'
<1>1. /\ epoch \in Nat /\ epoch' = epoch
      /\ \A e \in 1..epoch : /\ e \in Epoch /\ primaries'[e].store \in Seq(Op)
                             /\ primaries'[e].serving = primaries[e].serving
                             /\ Pre(primaries[e].store, primaries'[e].store)
  BY StorageTypes DEF StoresKept, IInv, StorageInv, TypeOfStorage, Primary
<1>2. ReadsInv'
  BY <1>1, ReadsKept DEF IInv
<1>3. WatchesInv'
  BY <1>1, WatchesKept DEF IInv
<1> QED
  BY <1>2, <1>3

LEMMA CallTypes ==
    ASSUME CallsInv, NEW op \in Requested
    PROVE  /\ op \in Op /\ calls[op] \in Call /\ Waiting \in Call
           /\ calls[op].attempt \in 0..RetryLimit /\ calls[op].version \in Nat
           /\ calls[op].unsettled \in BOOLEAN
           /\ \A phase \in {"new", "failed", "rejected", "success"} :
                \A u : u \in BOOLEAN =>
                  [Waiting EXCEPT !.phase = phase, !.unsettled = u] \in Call
<1>1. op \in Op /\ calls[op] \in Call
  BY ServiceAssumption DEF CallsInv
<1>2. 0 \in 0..RetryLimit
  BY ServiceAssumption
<1>3. ASSUME NEW phase \in {"new", "failed", "rejected", "success"},
             NEW u, u \in BOOLEAN
      PROVE  [Waiting EXCEPT !.phase = phase, !.unsettled = u] \in Call
  BY <1>2, <1>3 DEF Waiting, Call
<1>4. Waiting \in Call
  BY <1>2 DEF Waiting, Call
<1> QED
  BY <1>1, <1>3, <1>4 DEF Call

(* A call that starts, goes on after a primary was found, or ends without   *)
(* an answer of storage.                                                    *)
LEMMA CallOnlyStep ==
    ASSUME IInv, NEW op \in Requested,
           \/ StartCall(op) \/ ResolveReadyPrimary(op)
           \/ NoReadyPrimary(op) \/ RequestFailed(op)
    PROVE  IInv'
<1> DEFINE c == calls[op]
<1>1. /\ op \in Op /\ c \in Call /\ calls \in [Requested -> Call]
      /\ epoch \in 1..epoch /\ epoch \in Epoch
      /\ Version(primaries[epoch]) \in Nat
      /\ \A phase \in {"new", "failed"} :
           [Waiting EXCEPT !.phase = phase, !.unsettled = c.unsettled] \in Call
  <2>1. /\ epoch \in 1..epoch /\ epoch \in Epoch
        /\ primaries[epoch].store \in Seq(Op)
    BY StorageTypes DEF IInv, StorageInv
  <2>2. Version(primaries[epoch]) \in Nat
    BY <2>1, ElementsOfSeq DEF Version
  <2>3. CallsInv /\ calls \in [Requested -> Call]
    BY DEF IInv, CallsInv
  <2> QED
    BY <2>1, <2>2, <2>3, CallTypes
<1>2. UNCHANGED <<epoch, cluster, primaries, backup, ended, queued, acked, reads, watches>>
  BY DEF StartCall, ResolveReadyPrimary, NoReadyPrimary, RequestFailed,
         storageVars
<1>3. \E d \in Call :
        /\ calls' = [calls EXCEPT ![op] = d]
        /\ d.phase = "send" => d.epoch \in 1..epoch
        /\ d.unsettled = c.unsettled /\ c.phase # "success"
  <2>1. CASE StartCall(op)
    <3> DEFINE d == [c EXCEPT !.phase = "send", !.attempt = 1, !.epoch = epoch,
                       !.version = IF op \in Create THEN 0
                                   ELSE Version(primaries[epoch])]
    <3>1. d \in Call /\ d.epoch = epoch /\ d.unsettled = c.unsettled
      <4> DEFINE v == IF op \in Create THEN 0 ELSE Version(primaries[epoch])
      <4>1. v \in Nat /\ 1 \in 0..RetryLimit
        BY <1>1, ServiceAssumption
      <4>2. d = [c EXCEPT !.phase = "send", !.attempt = 1, !.epoch = epoch,
                          !.version = v]
        OBVIOUS
      <4> HIDE DEF v, d
      <4> QED
        BY <1>1, <4>1, <4>2 DEF Call
    <3>2. calls' = [calls EXCEPT ![op] = d] /\ c.phase # "success"
      BY <1>1, <2>1 DEF StartCall
    <3> HIDE DEF d
    <3> QED
      BY <1>1, <3>1, <3>2
  <2>2. CASE ResolveReadyPrimary(op)
    <3> DEFINE d == [c EXCEPT !.phase = "send", !.epoch = epoch]
    <3>1. d \in Call /\ d.epoch = epoch /\ d.unsettled = c.unsettled
      BY <1>1 DEF Call
    <3>2. calls' = [calls EXCEPT ![op] = d] /\ c.phase # "success"
      BY <1>1, <2>2 DEF ResolveReadyPrimary
    <3> HIDE DEF d
    <3> QED
      BY <1>1, <3>1, <3>2
  <2>3. CASE NoReadyPrimary(op) \/ RequestFailed(op)
    <3>1. PICK phase \in {"new", "failed"} : Answer(op, phase) /\ c.phase # "success"
      BY <2>3 DEF NoReadyPrimary, RequestFailed, Sent
    <3> DEFINE d == [Waiting EXCEPT !.phase = phase, !.unsettled = c.unsettled]
    <3>2. d \in Call /\ d.phase # "send" /\ d.unsettled = c.unsettled
      BY <1>1, <3>1 DEF Waiting
    <3>3. calls' = [calls EXCEPT ![op] = d]
      BY <3>1 DEF Answer
    <3> HIDE DEF d
    <3> QED
      BY <3>1, <3>2, <3>3
  <2> QED
    BY <2>1, <2>2, <2>3
<1>4. CallsInv'
  <2>1. PICK d \in Call :
          /\ calls' = [calls EXCEPT ![op] = d]
          /\ d.phase = "send" => d.epoch \in 1..epoch
          /\ d.unsettled = c.unsettled /\ c.phase # "success"
    BY <1>3
  <2> QED
    BY <1>2, <2>1, CallTaken DEF IInv
<1>5. StorageInv'
  BY <1>2, IdleStep DEF IInv, StorageInv, TypeOfStorage
<1>6. ReadsInv' /\ WatchesInv'
  BY <1>2 DEF IInv, ReadsInv, WatchesInv
<1> QED
  BY <1>4, <1>5, <1>6 DEF IInv

(* A storage answer: only an answer that is not "rejected" or "conflict"    *)
(* comes with a new mutation, and only "pending" leaves it unsettled.       *)
LEMMA AnsweredStep ==
    ASSUME IInv, NEW op \in Requested, RequestAnswered(op)
    PROVE  IInv'
<1> DEFINE c == calls[op]
<1>1. /\ op \in Op /\ c \in Call /\ calls \in [Requested -> Call]
      /\ c.phase = "send" /\ c.epoch \in 1..epoch /\ CallsInv
      /\ UNCHANGED <<epoch, cluster, ended, queued, reads, watches>>
  BY CallTypes DEF IInv, CallsInv, RequestAnswered, Sent
<1>2. PICK r \in Handled(c.epoch, op, c.version) :
        LET phase == Outcome(r.answer, c.attempt)
        IN /\ Becomes(c.epoch, r)
           /\ acked' = IF phase # "success" THEN acked
                       ELSE acked \cup {Through(r.primary, op)}
           /\ calls' = [calls EXCEPT ![op] =
                IF phase = "resolve"
                THEN [c EXCEPT !.phase = "resolve", !.attempt = @ + 1,
                               !.epoch = 0, !.version = Version(r.primary)]
                ELSE [Waiting EXCEPT !.phase = phase,
                        !.unsettled = c.unsettled \/ phase = "new"]]
  BY DEF RequestAnswered
<1> DEFINE phase == Outcome(r.answer, c.attempt)
           d == IF phase = "resolve"
                THEN [c EXCEPT !.phase = "resolve", !.attempt = @ + 1,
                               !.epoch = 0, !.version = Version(r.primary)]
                ELSE [Waiting EXCEPT !.phase = phase,
                        !.unsettled = c.unsettled \/ phase = "new"]
<1>3. /\ phase \in {"success", "new", "resolve", "rejected"}
      /\ phase = "success" => r.answer = "success"
      /\ phase \in {"resolve", "rejected"} => r.answer \notin {"success", "pending"}
      /\ phase = "resolve" => c.attempt < RetryLimit
  BY DEF Outcome
<1>4. Acknowledges(r, op)
  BY <1>2, <1>3 DEF Acknowledges
<1>5. /\ StorageInv' /\ StoresKept(op)
      /\ r.answer \notin {"success", "pending"} =>
           \A f \in Epoch : Applied(primaries'[f]) = Applied(primaries[f])
      /\ Version(r.primary) \in Nat
  BY <1>1, <1>2, <1>4, HandledStep DEF IInv
<1>6. /\ d \in Call /\ d.phase # "send" /\ (c.unsettled => d.unsettled)
      /\ ~d.unsettled /\ d.phase # "success" => phase \in {"resolve", "rejected"}
  <2>1. CASE phase = "resolve"
    <3>1. c.attempt \in 0..RetryLimit /\ RetryLimit \in Nat
      BY <1>1, CallTypes, ServiceAssumption
    <3>2. c.attempt + 1 \in 0..RetryLimit
      BY <1>3, <2>1, <3>1
    <3>3. d = [c EXCEPT !.phase = "resolve", !.attempt = @ + 1,
                        !.epoch = 0, !.version = Version(r.primary)]
      BY <2>1
    <3> HIDE DEF d
    <3> QED
      BY <1>1, <1>5, <2>1, <3>2, <3>3 DEF Call
  <2>2. CASE phase # "resolve"
    <3> DEFINE u == c.unsettled \/ phase = "new"
    <3>1. d = [Waiting EXCEPT !.phase = phase, !.unsettled = u]
      BY <2>2
    <3>2. u \in BOOLEAN /\ (c.unsettled => u) /\ (phase = "new" => u)
      BY <1>1 DEF Call
    <3> HIDE DEF u
    <3>3. d \in Call /\ d.phase = phase /\ d.unsettled = u
      BY <1>1, <1>3, <2>2, <3>1, <3>2, CallTypes DEF Waiting
    <3> HIDE DEF d, phase
    <3> QED
      BY <1>3, <2>2, <3>2, <3>3
  <2> QED
    BY <2>1, <2>2
<1>7. calls' = [calls EXCEPT ![op] = d]
  BY <1>2
<1> HIDE DEF d, phase
<1>8. CallsInv'
  BY <1>1, <1>3, <1>5, <1>6, <1>7, CallTaken DEF StoresKept
<1>9. acked \subseteq acked'
  BY <1>4 DEF Acknowledges
<1>10. ReadsInv' /\ WatchesInv'
  BY <1>1, <1>5, <1>9, StoresKeptClients
<1> QED
  BY <1>5, <1>8, <1>10 DEF IInv

(* A request without an answer: its handler ran, will run or never does.    *)
LEMMA InterruptedStep ==
    ASSUME IInv, NEW op \in Requested, RequestInterrupted(op)
    PROVE  IInv'
<1> DEFINE c == calls[op]
           d == IF c.attempt < RetryLimit THEN Interrupted(c, 1)
                ELSE [Waiting EXCEPT !.unsettled = TRUE]
           request == [op |-> op, version |-> c.version, epoch |-> c.epoch]
<1>1. /\ op \in Op /\ c \in Call /\ Waiting \in Call
      /\ c.attempt \in 0..RetryLimit /\ c.version \in Nat /\ RetryLimit \in Nat
      /\ c.phase = "send" /\ c.epoch \in 1..epoch /\ CallsInv
      /\ UNCHANGED <<epoch, cluster, ended, acked, reads, watches>>
      /\ Unanswered(op) /\ epoch \in Nat /\ epoch \in Epoch
      /\ \A e \in Epoch : Pre(primaries[e].store, primaries[e].store)
  <2>1. CallsInv /\ StorageInv
    BY DEF IInv
  <2>2. /\ UNCHANGED <<epoch, cluster, ended, acked, reads, watches>>
        /\ Unanswered(op) /\ c.phase = "send"
    BY DEF RequestInterrupted, Sent
  <2>3. /\ op \in Op /\ c \in Call /\ Waiting \in Call
        /\ c.attempt \in 0..RetryLimit /\ c.version \in Nat
    BY <2>1, CallTypes
  <2>4. c.epoch \in 1..epoch
    BY <2>1, <2>2 DEF CallsInv
  <2>5. epoch \in Nat /\ epoch \in Epoch
    BY <2>1, StorageTypes DEF StorageInv
  <2>6. \A e \in Epoch : Pre(primaries[e].store, primaries[e].store)
    BY <2>1 DEF Pre
  <2> QED
    BY <2>1, <2>2, <2>3, <2>4, <2>5, <2>6, ServiceAssumption
<1>2. calls' = [calls EXCEPT ![op] = d]
  BY DEF RequestInterrupted
<1>3. d \in Call /\ d.phase # "send" /\ d.unsettled
  <2>1. CASE c.attempt < RetryLimit
    <3>1. c.attempt + 1 \in 0..RetryLimit
      BY <1>1, <2>1
    <3>2. d = [c EXCEPT !.phase = "resolve", !.attempt = @ + 1, !.epoch = 0,
                        !.unsettled = TRUE]
      BY <2>1 DEF Interrupted
    <3> HIDE DEF d
    <3> QED
      BY <1>1, <3>1, <3>2 DEF Call
  <2>2. CASE ~(c.attempt < RetryLimit)
    <3>1. d = [Waiting EXCEPT !.unsettled = TRUE]
      BY <2>2
    <3> HIDE DEF d
    <3> QED
      BY <1>1, <3>1 DEF Call, Waiting
  <2> QED
    BY <2>1, <2>2
<1>4. StorageInv' /\ StoresKept(op) /\ queued' \subseteq queued \cup {request}
  <2>1. CASE UNCHANGED <<primaries, backup, queued>>
    <3>1. StorageInv'
      BY <1>1, <2>1, IdleStep DEF IInv, StorageInv, TypeOfStorage
    <3> QED
      BY <1>1, <2>1, <3>1 DEF StoresKept
  <2>2. CASE /\ \E r \in Handled(c.epoch, op, c.version) : Becomes(c.epoch, r)
             /\ UNCHANGED queued
    <3>1. PICK r \in Handled(c.epoch, op, c.version) : Becomes(c.epoch, r)
      BY <2>2
    <3>2. Acknowledges(r, op)
      BY <1>1 DEF Acknowledges
    <3> QED
      BY <1>1, <2>2, <3>1, <3>2, HandledStep DEF IInv
  <2>3. CASE /\ queued' = queued \cup {request}
             /\ UNCHANGED <<primaries, backup>>
    <3>1. StorageInv'
      BY <1>1, <2>3, IdleStep DEF IInv, StorageInv, TypeOfStorage
    <3> QED
      BY <1>1, <2>3, <3>1 DEF StoresKept
  <2> QED
    BY <1>1, <2>1, <2>2, <2>3 DEF Unanswered
<1>5. /\ request \in [op : Op, version : Nat, epoch : Epoch]
      /\ request.op = op /\ request.epoch \in 1..epoch
  BY <1>1, StorageTypes DEF IInv, StorageInv
<1> HIDE DEF d, request
<1>6. CallsInv'
  <2>1. \A m \in queued' :
          m \in queued \/ /\ m \in [op : Op, version : Nat, epoch : Epoch]
                          /\ m.op = op /\ m.epoch \in 1..epoch
                          /\ d.unsettled
    BY <1>3, <1>4, <1>5
  <2>2. \A e \in Epoch :
          Applied(primaries'[e]) \subseteq Applied(primaries[e]) \cup {op}
    BY <1>4 DEF StoresKept
  <2>3. epoch' = epoch
    BY <1>1
  <2>4. /\ d.phase = "send" => d.epoch \in 1..epoch
        /\ calls[op].unsettled => d.unsettled
        /\ ~d.unsettled /\ d.phase # "success" =>
             /\ calls[op].phase # "success"
             /\ \A e \in Epoch : Applied(primaries'[e]) = Applied(primaries[e])
    BY <1>3
  <2> HIDE DEF c
  <2> QED
    BY <1>1, <1>2, <1>3, <2>1, <2>2, <2>3, <2>4, CallTaken
<1>7. ReadsInv' /\ WatchesInv'
  BY <1>1, <1>4, StoresKeptClients
<1> QED
  BY <1>4, <1>6, <1>7 DEF IInv

LEMMA LateStep ==
    ASSUME IInv, NEW m \in queued, LateHandler(m)
    PROVE  IInv'
<1> DEFINE op == m.op
<1>1. /\ op \in Requested /\ m.epoch \in 1..epoch /\ calls[op].unsettled
      /\ calls \in [Requested -> Call] /\ CallsInv /\ op \in Op
      /\ calls[op] \in Call
      /\ UNCHANGED <<epoch, cluster, ended, calls, acked, reads, watches>>
      /\ queued' \subseteq queued
  BY ServiceAssumption DEF IInv, CallsInv, LateHandler
<1>2. PICK r \in Handled(m.epoch, op, m.version) : Becomes(m.epoch, r)
  BY DEF LateHandler
<1>3. Acknowledges(r, op)
  BY <1>1 DEF Acknowledges
<1>4. StorageInv' /\ StoresKept(op)
  BY <1>1, <1>2, <1>3, HandledStep DEF IInv
<1>5. calls' = [calls EXCEPT ![op] = calls[op]]
  BY <1>1
<1>6. calls[op].phase = "send" => calls[op].epoch \in 1..epoch
  BY <1>1 DEF CallsInv
<1> HIDE DEF op
<1>7. CallsInv'
  BY <1>1, <1>4, <1>5, <1>6, CallTaken DEF StoresKept
<1>8. ReadsInv' /\ WatchesInv'
  BY <1>1, <1>4, StoresKeptClients
<1> QED
  BY <1>4, <1>7, <1>8 DEF IInv

LEMMA ReadInductive ==
    ASSUME IInv, NEW r \in Reader, ReadStep(r)
    PROVE  IInv'
<1>1. /\ reads \in [Reader -> Read] /\ reads[r] \in Read
      /\ UNCHANGED <<storageVars, clientVars, watches>>
      /\ epoch \in Epoch /\ epoch \in 1..epoch /\ acked \subseteq Seq(Op)
      /\ \A e \in 1..epoch : e \in Epoch /\ primaries[e].store \in Seq(Op)
      /\ \A h \in acked : Pre(h, primaries[epoch].store)
  BY StorageTypes
     DEF IInv, ReadsInv, StorageInv, AcknowledgedSound, ReadStep, StartRead,
         ReadResolved, ReadUnavailable, ReadAnswered, ReadFails
<1>2. StorageInv' /\ CallsInv' /\ WatchesInv'
  <2>1. UNCHANGED <<epoch, cluster, primaries, backup, ended, calls, queued, acked, watches>>
    BY <1>1 DEF storageVars, clientVars
  <2> QED
    BY <2>1 DEF IInv, StorageInv, TypeOfStorage, PrimariesSound,
                AcknowledgedSound, CallsInv, WatchesInv
<1>3. ReadsInv'
  <2> DEFINE Kept(c) ==
               /\ c.begun \subseteq acked
               /\ c.phase = "send" =>
                    /\ c.epoch \in 1..epoch
                    /\ c.epoch = epoch \/ primaries[c.epoch].serving =>
                         \A h \in c.begun : Pre(h, primaries[c.epoch].store)
               /\ c.phase = "answered" => \A h \in c.begun : Pre(h, c.seen)
  <2>1. \A q \in Reader : Kept(reads[q])
    BY DEF IInv, ReadsInv
  <2>2. ASSUME NEW c \in Read, Kept(c), reads' = [reads EXCEPT ![r] = c]
        PROVE  ReadsInv'
    <3>1. reads' \in [Reader -> Read] /\ \A q \in Reader : Kept(reads'[q])
      BY <1>1, <2>1, <2>2, Zenon
    <3>2. UNCHANGED <<epoch, primaries, acked>>
      BY <1>1 DEF storageVars, clientVars
    <3> QED
      BY <3>1, <3>2 DEF ReadsInv
  <2>3. CASE StartRead(r)
    <3> DEFINE c == [NotRead EXCEPT !.phase = "send", !.epoch = epoch,
                                    !.begun = acked]
    <3>1. /\ c \in Read /\ c.phase = "send" /\ c.epoch = epoch
          /\ c.begun = acked
      <4>1. NotRead \in Read
        BY DEF Read, NotRead
      <4>2. acked \in SUBSET Seq(Op)
        BY <1>1
      <4> QED
        BY <1>1, <4>1, <4>2 DEF Read
    <3>2. reads' = [reads EXCEPT ![r] = c]
      BY <2>3 DEF StartRead
    <3> HIDE DEF c
    <3>3. Kept(c)
      BY <1>1, <3>1
    <3> QED
      BY <2>2, <3>1, <3>2, <3>3
  <2>4. CASE ReadResolved(r)
    <3> DEFINE c == [reads[r] EXCEPT !.phase = "send", !.epoch = epoch]
    <3>1. /\ c \in Read /\ c.phase = "send" /\ c.epoch = epoch
          /\ c.begun = reads[r].begun
      BY <1>1 DEF Read
    <3>2. reads' = [reads EXCEPT ![r] = c]
      BY <1>1, <2>4 DEF ReadResolved
    <3> HIDE DEF c
    <3>3. Kept(c)
      BY <1>1, <2>1, <3>1
    <3> QED
      BY <2>2, <3>1, <3>2, <3>3
  <2>5. CASE ReadUnavailable(r)
    <3>1. NotRead \in Read /\ Kept(NotRead)
      BY DEF Read, NotRead
    <3> QED
      BY <2>2, <2>5, <3>1 DEF ReadUnavailable
  <2>6. CASE ReadAnswered(r)
    <3> DEFINE s == primaries[reads[r].epoch].store
               c == [reads[r] EXCEPT !.phase = "answered", !.epoch = 0, !.seen = s]
    <3>1. s \in Seq(Op) /\ \A h \in reads[r].begun : Pre(h, s)
      BY <1>1, <2>1, <2>6 DEF ReadAnswered
    <3>2. reads' = [reads EXCEPT ![r] = c]
      BY <1>1, <2>6 DEF ReadAnswered
    <3> HIDE DEF s
    <3>3. /\ c \in Read /\ c.phase = "answered" /\ c.seen = s
          /\ c.begun = reads[r].begun
      BY <1>1, <3>1 DEF Read
    <3> HIDE DEF c
    <3>4. Kept(c)
      BY <2>1, <3>1, <3>3
    <3> QED
      BY <2>2, <3>2, <3>3, <3>4
  <2>7. CASE ReadFails(r)
    <3> DEFINE c == [reads[r] EXCEPT !.phase = "resolve", !.epoch = 0]
    <3>1. c \in Read /\ c.phase = "resolve" /\ c.begun = reads[r].begun
      BY <1>1 DEF Read
    <3>2. reads' = [reads EXCEPT ![r] = c]
      BY <1>1, <2>7 DEF ReadFails
    <3> HIDE DEF c
    <3>3. Kept(c)
      BY <2>1, <3>1
    <3> QED
      BY <2>2, <3>1, <3>2, <3>3
  <2> QED
    BY <2>3, <2>4, <2>5, <2>6, <2>7 DEF ReadStep
<1> QED
  BY <1>2, <1>3 DEF IInv

LEMMA WatchInductive ==
    ASSUME IInv, NEW w \in Watcher, WatchStep(w)
    PROVE  IInv'
<1>1. /\ watches \in [Watcher -> Watch] /\ watches[w] \in Watch
      /\ UNCHANGED <<storageVars, clientVars, reads>>
      /\ epoch \in Epoch /\ epoch \in 1..epoch
      /\ \A e \in 1..epoch : primaries[e].store \in Seq(Op)
  BY StorageTypes
     DEF IInv, WatchesInv, StorageInv, WatchStep, WatchResolved, WatchAnswered,
         WatchFails, WatchReconnects
<1>2. UNCHANGED <<epoch, cluster, primaries, backup, ended, calls, queued, acked, reads>>
  BY <1>1 DEF storageVars, clientVars
<1>3. StorageInv' /\ CallsInv' /\ ReadsInv'
  BY <1>2 DEF IInv, StorageInv, TypeOfStorage, PrimariesSound,
              AcknowledgedSound, CallsInv, ReadsInv
<1>4. \E c \in Watch :
        /\ watches' = [watches EXCEPT ![w] = c]
        /\ c.phase = "send" => c.epoch = epoch
  <2>1. CASE WatchAnswered(w)
    <3> DEFINE p == primaries[watches[w].epoch]
               newer == Version(p) > watches[w].last_version
               phase == IF newer /\ Revealed(p) THEN "done" ELSE "resolve"
               version == IF newer THEN Version(p) ELSE watches[w].last_version
               c == [phase |-> phase, epoch |-> 0, last_version |-> version]
    <3>1. p.store \in Seq(Op)
      BY <1>1, <2>1 DEF WatchAnswered, IInv, WatchesInv
    <3>2. Version(p) \in Nat
      BY <3>1, ElementsOfSeq DEF Version
    <3>3. version \in Nat /\ phase \in {"done", "resolve"}
      BY <1>1, <3>2 DEF Watch
    <3>4. watches' = [watches EXCEPT ![w] = c]
      BY <1>1, <2>1 DEF WatchAnswered
    <3> HIDE DEF version, phase
    <3>5. c \in Watch /\ c.phase # "send"
      BY <3>3 DEF Watch
    <3> HIDE DEF c
    <3> QED
      BY <3>4, <3>5
  <2>2. CASE WatchResolved(w)
    <3> DEFINE c == [watches[w] EXCEPT !.phase = "send", !.epoch = epoch]
    <3>1. c \in Watch /\ c.phase = "send" /\ c.epoch = epoch
      BY <1>1 DEF Watch
    <3>2. watches' = [watches EXCEPT ![w] = c]
      BY <1>1, <2>2 DEF WatchResolved
    <3> HIDE DEF c
    <3> QED
      BY <3>1, <3>2
  <2>3. CASE WatchFails(w) \/ WatchReconnects(w)
    BY <1>1, <2>3 DEF WatchFails, WatchReconnects, Watch, Joined
  <2> QED
    BY <2>1, <2>2, <2>3 DEF WatchStep
<1>5. WatchesInv'
  BY <1>1, <1>2, <1>4 DEF IInv, WatchesInv
<1> QED
  BY <1>3, <1>5 DEF IInv

-----------------------------------------------------------------------------
(* The inductive invariant *)

LEMMA InitInductive ==
    ASSUME Init
    PROVE  IInv
<1> DEFINE first == [Unpromoted EXCEPT !.store = Created, !.serving = TRUE]
<1>1. /\ 1 \in Epoch /\ epoch = 1 /\ epoch \in Epoch
      /\ Created \in Seq(Op) /\ Distinct(Created)
      /\ \A op \in Requested : op \in Op /\ op \notin ToSet(Created)
  <2>1. 1 \in Epoch
    BY ServiceAssumption DEF Epoch
  <2>2. CASE Created = <<>>
    BY <2>1, <2>2, ServiceAssumption DEF Init, Distinct, ToSet
  <2>3. CASE Created # <<>>
    <3>1. PICK op \in Create \ Requested : Created = <<op>>
      BY <2>3, ServiceAssumption
    <3>2. op \in Op /\ Created \in Seq(Op) /\ Len(Created) = 1 /\ Created[1] = op
      BY <3>1, ServiceAssumption
    <3>3. \A x : x \in ToSet(Created) <=> x = op
      BY <3>2, ElementsOfSeq
    <3> QED
      BY <2>1, <3>1, <3>2, <3>3, ServiceAssumption DEF Init, Distinct
  <2> QED
    BY <2>2, <2>3
<1>2. /\ Unpromoted \in Primary /\ Unpromoted.store = <<>>
      /\ Unpromoted.pending = {} /\ Unpromoted.stranded = {}
      /\ Applied(Unpromoted) = {}
  BY DEF Unpromoted, Primary, Applied, ToSet
<1>3. /\ first \in Primary /\ first.store = Created
      /\ first.pending = {} /\ first.stranded = {}
  BY <1>1, <1>2 DEF Primary
<1> HIDE DEF first
<1>4. primaries = [e \in Epoch |-> IF e > 1 THEN Unpromoted ELSE first]
  BY DEF Init, first
<1>5. /\ primaries \in [Epoch -> Primary] /\ primaries[1] = first
      /\ \A e \in Epoch : primaries[e] = first \/ primaries[e] = Unpromoted
  BY <1>1, <1>2, <1>3, <1>4
<1>6. TypeOfStorage
  BY <1>1, <1>5 DEF TypeOfStorage, Init, InStep
<1>7. PrimariesSound
  <2>1. WellRecorded(first) /\ Carried(first, first)
    BY <1>1, <1>3 DEF WellRecorded, Carried, Unsettled
  <2>2. ~backup.lagging
    BY DEF Init, InStep
  <2>3. \A e \in 1..epoch : e = 1
    BY <1>1
  <2> QED
    BY <1>1, <1>5, <2>1, <2>2, <2>3 DEF PrimariesSound, InStepWith
<1>8. AcknowledgedSound
  BY <1>1, <1>3, <1>5 DEF AcknowledgedSound, Init, InStep, Pre
<1>9. CallsInv
  <2>1. Waiting \in Call /\ Waiting.phase = "new"
    BY ServiceAssumption DEF Waiting, Call
  <2>2. calls = [op \in Requested |-> Waiting] /\ queued = {}
    BY DEF Init
  <2>3. \A op \in Requested, e \in Epoch : op \notin Applied(primaries[e])
    BY <1>1, <1>2, <1>3, <1>5 DEF Applied
  <2> QED
    BY <2>1, <2>2, <2>3 DEF CallsInv
<1>10. ReadsInv
  BY DEF Init, ReadsInv, NotRead, Read
<1>11. WatchesInv
  BY DEF Init, WatchesInv, Joined, Watch
<1> QED
  BY <1>6, <1>7, <1>8, <1>9, <1>10, <1>11 DEF IInv, StorageInv

LEMMA NextInductive ==
    ASSUME IInv, [Next]_vars
    PROVE  IInv'
<1>1. CASE StorageStep
  BY <1>1, StorageStepInductive
<1>2. ASSUME NEW op \in Requested, StartCall(op) \/ CallStep(op)
      PROVE  IInv'
  <2>1. CASE \/ StartCall(op) \/ ResolveReadyPrimary(op)
             \/ NoReadyPrimary(op) \/ RequestFailed(op)
    BY <2>1, CallOnlyStep
  <2>2. CASE RequestAnswered(op)
    BY <2>2, AnsweredStep
  <2>3. CASE RequestInterrupted(op)
    BY <2>3, InterruptedStep
  <2> QED
    BY <1>2, <2>1, <2>2, <2>3 DEF CallStep
<1>3. ASSUME NEW m \in queued, LateHandler(m)
      PROVE  IInv'
  BY <1>3, LateStep
<1>4. ASSUME NEW r \in Reader, ReadStep(r)
      PROVE  IInv'
  BY <1>4, ReadInductive
<1>5. ASSUME NEW w \in Watcher, WatchStep(w)
      PROVE  IInv'
  BY <1>5, WatchInductive
<1>6. CASE UNCHANGED vars
  BY <1>6
     DEF vars, storageVars, clientVars, IInv, StorageInv, TypeOfStorage,
         PrimariesSound, AcknowledgedSound, CallsInv, ReadsInv, WatchesInv
<1> QED
  BY <1>1, <1>2, <1>3, <1>4, <1>5, <1>6 DEF Next

(* What storage, calls, reads and streams satisfy together in every state:  *)
(* in particular every former primary that still answers agrees with the    *)
(* newest one on all it will ever acknowledge.                              *)
THEOREM Inductive == Spec => []IInv
<1>1. Init => IInv
  BY InitInductive
<1>2. IInv /\ [Next]_vars => IInv'
  BY NextInductive
<1> QED
  BY <1>1, <1>2, PTL DEF Spec

(* The type invariant of the model, for every set of mutations, calls and   *)
(* streams, and any number of failovers and retries.                        *)
THEOREM TypeCorrect == Spec => []TypeOK
<1>1. IInv => TypeOK
  BY DEF IInv, StorageInv, AcknowledgedSound, CallsInv, ReadsInv, WatchesInv,
         TypeOK
<1> QED
  BY <1>1, Inductive, PTL

(* A failure answered by a call of which no request was left unsettled is   *)
(* the truth (the retry loops of auction_service/service.py:374-816): no    *)
(* primary, newest or deposed, has the mutation in its store.               *)
THEOREM SettledFailures == Spec => []SettledFailureIsFinal
<1>1. IInv => SettledFailureIsFinal
  BY DEF IInv, CallsInv, SettledFailureIsFinal
<1> QED
  BY <1>1, Inductive, PTL

(* An authoritative read shows every mutation that was answered with        *)
(* success before it began (GetAuction, docs/auction-specification.md:407), *)
(* whichever primaries it met.                                              *)
THEOREM AuthoritativeReads == Spec => []ReadSeesAcknowledged
<1>1. ASSUME IInv, NEW r \in Reader, reads[r].phase = "answered",
             NEW h \in reads[r].begun
      PROVE  IsPrefix(h, reads[r].seen)
  <2>1. /\ h \in Seq(Op) /\ reads[r].seen \in Seq(Op)
        /\ Pre(h, reads[r].seen)
    BY <1>1 DEF IInv, ReadsInv, Read, StorageInv, AcknowledgedSound
  <2> QED
    BY <2>1, PreIsPrefix
<1>2. IInv => ReadSeesAcknowledged
  BY <1>1 DEF ReadSeesAcknowledged
<1> QED
  BY <1>2, Inductive, PTL

-----------------------------------------------------------------------------
(* The refinement of FailoverLedger *)

Store == primaries[epoch].store

(* What the ledger sees of a step that may apply op.                        *)
LedgerStep(op) ==
    \/ Store' = Store /\ acked' = acked
    \/ /\ Store' = Store
       /\ \E n \in 1..Len(Store) : acked' = acked \cup {SubSeq(Store, 1, n)}
    \/ /\ op \notin ToSet(Store) /\ Store' = Append(Store, op)
       /\ acked' = acked \/ acked' = acked \cup {Store'}

LEMMA LedgerInitial ==
    ASSUME Init
    PROVE  Ledger!FailoverInit
<1> DEFINE first == [Unpromoted EXCEPT !.store = Created, !.serving = TRUE]
<1>1. 1 \in Epoch /\ epoch = 1 /\ primaries[epoch].store = Created
  <2>1. 1 \in Epoch /\ epoch = 1
    BY ServiceAssumption DEF Epoch, Init
  <2>2. Unpromoted \in Primary
    BY DEF Unpromoted, Primary
  <2>3. first.store = Created
    BY <2>2 DEF Primary
  <2>4. primaries[1] = first
    BY <2>1 DEF Init
  <2> QED
    BY <2>1, <2>3, <2>4
<1>2. Created \in Seq(Op)
  <2>1. TypeOfStorage
    BY InitInductive DEF IInv, StorageInv
  <2> QED
    BY <1>1, <2>1, StorageTypes
<1>3. acked = {Created} \ {<<>>}
  BY DEF Init
<1> DEFINE h == [a \in {Sweep} |-> primaries[epoch].store]
<1>4. h \in [{Sweep} -> Seq(Op)] /\ h[Sweep] = Created
  BY <1>1, <1>2
<1>5. {h[a] : a \in {Sweep}} = {Created}
  BY <1>4
<1> HIDE DEF h
<1>6. h \in [{Sweep} -> Seq(Op)] /\ acked = {h[a] : a \in {Sweep}} \ {<<>>}
  BY <1>3, <1>4, <1>5
<1> QED
  BY <1>6 DEF h, Ledger!FailoverInit

LEMMA LedgerMoves ==
    ASSUME Store \in Seq(Op), NEW op \in Op, LedgerStep(op)
    PROVE  [Ledger!FailoverNext]_Ledger!ledgerVars
<1> DEFINE h == [a \in {Sweep} |-> primaries[epoch].store]
<1>1. /\ h[Sweep] = Store /\ h'[Sweep] = Store' /\ Sweep \in {Sweep}
      /\ Store' = Store => h' = h
  BY DEF Store
<1>2. CASE Store' = Store /\ acked' = acked
  BY <1>1, <1>2 DEF Ledger!ledgerVars
<1>3. CASE /\ Store' = Store
           /\ \E n \in 1..Len(Store) : acked' = acked \cup {SubSeq(Store, 1, n)}
  <2>1. PICK n \in 1..Len(Store) : acked' = acked \cup {SubSeq(Store, 1, n)}
    BY <1>3
  <2>2. Ledger!Acknowledge(Sweep, n)
    BY <1>1, <1>3, <2>1 DEF Ledger!Acknowledge
  <2>3. n \in 1..Len(h[Sweep])
    BY <1>1
  <2>4. Ledger!Next
    BY <2>2, <2>3 DEF Ledger!Next
  <2> QED
    BY <2>4 DEF Ledger!FailoverNext
<1>4. CASE /\ op \notin ToSet(Store) /\ Store' = Append(Store, op)
           /\ acked' = acked \/ acked' = acked \cup {Store'}
  <2>1. \A i \in 1..Len(Store) : Store[i] \in Op /\ Store[i] # op
    BY <1>4, ElementsOfSeq
  <2>2. Ledger!Unused(op)
    BY <1>1, <2>1 DEF Ledger!Unused
  <2>3. h' = [h EXCEPT ![Sweep] = Append(Store, op)]
    BY <1>1, <1>4 DEF Store
  <2>4. CASE acked' = acked
    BY <1>1, <2>2, <2>3, <2>4
       DEF Ledger!Commit, Ledger!Next, Ledger!FailoverNext
  <2>5. CASE acked' = acked \cup {Store'}
    BY <1>1, <1>4, <2>2, <2>3, <2>5
       DEF Ledger!CommitAcknowledged, Ledger!FailoverNext
  <2> QED
    BY <1>4, <2>4, <2>5
<1> QED
  BY <1>2, <1>3, <1>4 DEF LedgerStep

LEMMA LedgerDrops ==
    ASSUME Store \in Seq(Op), Store # <<>>, Store \notin acked,
           Store' = Front(Store), acked' = acked
    PROVE  Ledger!FailoverNext
<1> DEFINE h == [a \in {Sweep} |-> primaries[epoch].store]
<1>1. /\ h[Sweep] = Store /\ h'[Sweep] = Store'
      /\ Front(Store) = SubSeq(Store, 1, Len(Store) - 1)
  BY DEF Store, Front
<1>2. Ledger!Droppable(h[Sweep])
  BY <1>1 DEF Ledger!Droppable
<1>3. {Sweep} \in SUBSET {a \in {Sweep} : Ledger!Droppable(h[a])}
  BY <1>2
<1>4. h' = [a \in {Sweep} |-> IF a \in {Sweep}
                              THEN SubSeq(h[a], 1, Len(h[a]) - 1) ELSE h[a]]
  BY <1>1 DEF Store
<1>5. Ledger!FailOver
  BY <1>3, <1>4 DEF Ledger!FailOver
<1> QED
  BY <1>5 DEF Ledger!FailoverNext

(* A handled request is one step of the ledger: what it acknowledges is the *)
(* newest primary's history up to it, and all of it when it was applied.    *)
LEMMA HandledLedger ==
    ASSUME StorageInv, StorageInv', NEW e \in 1..epoch, NEW op \in Op,
           NEW version, NEW r \in Handled(e, op, version), Becomes(e, r),
           epoch' = epoch, Acknowledges(r, op)
    PROVE  LedgerStep(op)
<1>1. Advanced(primaries[e], backup, r, op, e = epoch)
  BY HandledAdvances DEF StorageInv
<1>2. /\ e \in Epoch /\ epoch \in Epoch /\ primaries \in [Epoch -> Primary]
      /\ primaries[e] \in Primary /\ Store \in Seq(Op)
  BY StorageTypes DEF StorageInv, TypeOfStorage, Store
<1>3. /\ r.primary \in Primary /\ r.primary.store \in Seq(Op)
      /\ primaries[e].store \in Seq(Op) /\ WellRecorded(r.primary)
      /\ r.answer = "success" => op \in Applied(r.primary)
  BY <1>1, <1>2, AdvancedStore DEF Advanced
<1>4. Store' = IF e = epoch THEN r.primary.store ELSE Store
  BY <1>2 DEF Becomes, Store
<1>5. Store' \in Seq(Op)
  BY <1>2, <1>3, <1>4
<1>6. CASE Store' = Store
  <2>1. CASE acked' = acked
    BY <1>6, <2>1 DEF LedgerStep
  <2>2. CASE r.answer = "success" /\ acked' = acked \cup {Through(r.primary, op)}
    <3> DEFINE h == Through(r.primary, op)
    <3>1. h \in Seq(Op) /\ h # <<>> /\ Pre(h, Store')
      BY <2>2 DEF StorageInv, AcknowledgedSound, Store
    <3>2. Len(h) \in 1..Len(Store) /\ h = SubSeq(Store, 1, Len(h))
      BY <1>2, <1>6, <3>1, PreIsSubSeq
    <3> HIDE DEF h
    <3>3. \E n \in 1..Len(Store) : acked' = acked \cup {SubSeq(Store, 1, n)}
      BY <2>2, <3>2 DEF h
    <3> QED
      BY <1>6, <3>3 DEF LedgerStep
  <2> QED
    BY <2>1, <2>2 DEF Acknowledges
<1>7. CASE Store' # Store
  <2>1. e = epoch /\ Store' = r.primary.store /\ primaries[e].store = Store
    BY <1>4, <1>7 DEF Store
  <2>2. op \notin ToSet(Store) /\ Store' = Append(Store, op)
    BY <1>1, <1>7, <2>1 DEF Advanced, Applied
  <2>3. CASE acked' = acked
    BY <2>2, <2>3 DEF LedgerStep
  <2>4. CASE r.answer = "success" /\ acked' = acked \cup {Through(r.primary, op)}
    <3> DEFINE h == Through(r.primary, op)
    <3>1. PICK i \in 1..Len(Store') :
            /\ Store'[i] = op /\ h = SubSeq(Store', 1, i)
      BY <1>3, <2>1, <2>4, ThroughIsPrefix
    <3>2. /\ Len(Store') = Len(Store) + 1
          /\ \A j \in 1..Len(Store) : Store'[j] = Store[j] /\ Store[j] # op
      BY <1>2, <2>2, AppendedSeq, ElementsOfSeq
    <3>3. i = Len(Store')
      BY <1>2, <3>1, <3>2, ElementsOfSeq
    <3>4. h = Store'
      BY <1>5, <3>1, <3>3
    <3> QED
      BY <2>2, <2>4, <3>4 DEF LedgerStep
  <2> QED
    BY <2>2, <2>3, <2>4 DEF Acknowledges
<1> QED
  BY <1>6, <1>7

LEMMA PromotionLedger ==
    ASSUME StorageInv, CompletePrimaryPromotion
    PROVE  LedgerStep(Sweep)
<1> DEFINE n == primaries[epoch]
           p == [n EXCEPT !.serving = TRUE, !.stranded = @ \cup n.pending]
<1>1. /\ epoch \in Epoch /\ n \in Primary /\ InStep \in Backup
      /\ primaries \in [Epoch -> Primary] /\ Sweep \in Op
      /\ n.store \in Seq(Op) /\ n.pending \in SUBSET Op /\ n.stranded \in SUBSET Op
      /\ WellRecorded(n) /\ epoch' = epoch /\ acked' = acked
  BY StorageTypes, ServiceAssumption
     DEF StorageInv, TypeOfStorage, PrimariesSound, Backup, InStep, Primary,
         CompletePrimaryPromotion, clientVars
<1>2. /\ p \in Primary /\ p.store = n.store /\ p.pending = n.pending
      /\ p.stranded = n.stranded \cup n.pending
  BY <1>1 DEF Primary
<1>3. WellRecorded(p) /\ InStepWith(p, InStep)
  BY <1>1, <1>2 DEF WellRecorded, Applied, InStep, InStepWith
<1>4. PICK r \in ReconcileOverdueAuctions(p, InStep) : Becomes(epoch, r)
  BY DEF CompletePrimaryPromotion
<1> HIDE DEF p
<1>5. Store' = r.primary.store /\ Store = n.store
  BY <1>1, <1>4 DEF Becomes, Store
<1>6. CASE r \in ApplyAuctionMutation(p, InStep, Sweep, Version(p), TRUE)
  <2>1. Advanced(p, InStep, r, Sweep, TRUE)
    BY <1>1, <1>2, <1>3, <1>6, HandlerAdvances
  <2> QED
    BY <1>1, <1>2, <1>5, <2>1 DEF Advanced, Applied, LedgerStep
<1>7. CASE r = Result("none", p, InStep)
  BY <1>1, <1>2, <1>5, <1>7 DEF Result, LedgerStep
<1> QED
  BY <1>4, <1>6, <1>7 DEF ReconcileOverdueAuctions

LEMMA NextLedger ==
    ASSUME IInv, IInv', [Next]_vars
    PROVE  [Ledger!FailoverNext]_Ledger!ledgerVars
<1>1. /\ StorageInv /\ StorageInv' /\ CallsInv /\ epoch \in Epoch
      /\ Store \in Seq(Op) /\ Sweep \in Op
      /\ \A op \in Requested : op \in Op
  BY StorageTypes, ServiceAssumption DEF IInv, StorageInv, Store
<1>2. ASSUME NEW op \in Op, LedgerStep(op)
      PROVE  [Ledger!FailoverNext]_Ledger!ledgerVars
  BY <1>1, <1>2, LedgerMoves
<1>3. CASE UNCHANGED <<epoch, primaries, acked>>
  BY <1>1, <1>2, <1>3 DEF LedgerStep, Store
<1>4. CASE StorageStep
  <2>1. CASE CompletePrimaryPromotion
    BY <1>1, <1>2, <2>1, PromotionLedger
  <2>2. CASE Failover
    <3>1. acked' = acked
      BY <2>2 DEF Failover, clientVars
    <3>2. \/ Store' = Store
          \/ Store # <<>> /\ Store \notin acked /\ Store' = Front(Store)
      BY <1>1, <2>2, FailoverStep DEF Store
    <3> QED
      BY <1>1, <1>2, <3>1, <3>2, LedgerDrops DEF LedgerStep
  <2>3. CASE BackupEvicted \/ ClosingTime
    BY <1>3, <2>3 DEF BackupEvicted, ClosingTime, clientVars
  <2>4. ASSUME NEW e \in Epoch, Depose(e)
        PROVE  [Ledger!FailoverNext]_Ledger!ledgerVars
    <3>1. /\ epoch' = epoch /\ e < epoch /\ acked' = acked
          /\ \A f \in Epoch : f # e => primaries'[f] = primaries[f]
      BY <1>1, <2>4, DeposeStep DEF Depose
    <3>2. Store' = Store
      BY <1>1, <3>1 DEF Store, Epoch
    <3> QED
      BY <1>1, <1>2, <3>1, <3>2 DEF LedgerStep
  <2> QED
    BY <1>4, <2>1, <2>2, <2>3, <2>4 DEF StorageStep
<1>5. ASSUME NEW op \in Requested, StartCall(op) \/ CallStep(op)
      PROVE  [Ledger!FailoverNext]_Ledger!ledgerVars
  <2>1. CASE \/ StartCall(op) \/ ResolveReadyPrimary(op)
             \/ NoReadyPrimary(op) \/ RequestFailed(op)
    BY <1>3, <2>1 DEF StartCall, ResolveReadyPrimary, NoReadyPrimary,
                      RequestFailed, storageVars
  <2>2. CASE RequestAnswered(op)
    <3>1. PICK r \in Handled(calls[op].epoch, op, calls[op].version) :
            /\ Becomes(calls[op].epoch, r)
            /\ acked' = IF Outcome(r.answer, calls[op].attempt) # "success"
                        THEN acked ELSE acked \cup {Through(r.primary, op)}
      BY <2>2 DEF RequestAnswered
    <3>2. Acknowledges(r, op)
      BY <3>1 DEF Acknowledges, Outcome
    <3>3. calls[op].epoch \in 1..epoch /\ epoch' = epoch
      BY <1>1, <2>2 DEF CallsInv, RequestAnswered, Sent
    <3> QED
      BY <1>1, <1>2, <3>1, <3>2, <3>3, HandledLedger
  <2>3. CASE RequestInterrupted(op)
    <3>1. /\ calls[op].epoch \in 1..epoch /\ epoch' = epoch /\ acked' = acked
          /\ \/ primaries' = primaries
             \/ \E r \in Handled(calls[op].epoch, op, calls[op].version) :
                  Becomes(calls[op].epoch, r)
      BY <1>1, <2>3 DEF CallsInv, RequestInterrupted, Sent, Unanswered
    <3>2. CASE primaries' = primaries
      BY <1>3, <3>1, <3>2
    <3>3. ASSUME NEW r \in Handled(calls[op].epoch, op, calls[op].version),
                 Becomes(calls[op].epoch, r)
          PROVE  [Ledger!FailoverNext]_Ledger!ledgerVars
      <4>1. Acknowledges(r, op)
        BY <3>1 DEF Acknowledges
      <4> QED
        BY <1>1, <1>2, <3>1, <3>3, <4>1, HandledLedger
    <3> QED
      BY <3>1, <3>2, <3>3
  <2> QED
    BY <1>5, <2>1, <2>2, <2>3 DEF CallStep
<1>6. ASSUME NEW m \in queued, LateHandler(m)
      PROVE  [Ledger!FailoverNext]_Ledger!ledgerVars
  <2>1. /\ m.op \in Op /\ m.epoch \in 1..epoch /\ epoch' = epoch
        /\ acked' = acked
    BY <1>1, <1>6 DEF CallsInv, LateHandler
  <2>2. PICK r \in Handled(m.epoch, m.op, m.version) : Becomes(m.epoch, r)
    BY <1>6 DEF LateHandler
  <2>3. Acknowledges(r, m.op)
    BY <2>1 DEF Acknowledges
  <2> QED
    BY <1>1, <1>2, <2>1, <2>2, <2>3, HandledLedger
<1>7. ASSUME NEW r \in Reader, ReadStep(r)
      PROVE  [Ledger!FailoverNext]_Ledger!ledgerVars
  BY <1>3, <1>7 DEF ReadStep, StartRead, ReadResolved, ReadUnavailable,
                    ReadAnswered, ReadFails, storageVars, clientVars
<1>8. ASSUME NEW w \in Watcher, WatchStep(w)
      PROVE  [Ledger!FailoverNext]_Ledger!ledgerVars
  BY <1>3, <1>8 DEF WatchStep, WatchResolved, WatchAnswered, WatchFails,
                    WatchReconnects, storageVars, clientVars
<1>9. CASE UNCHANGED vars
  BY <1>3, <1>9 DEF vars, storageVars, clientVars
<1> QED
  BY <1>4, <1>5, <1>6, <1>7, <1>8, <1>9 DEF Next

(* The service with storage below implements FailoverLedger: retries, late  *)
(* requests, replays and failovers apply a request id at most once and drop *)
(* nothing a client was told succeeded (the retry loops of                  *)
(* auction_service/service.py:374-816 with storage/service.py:411-446).     *)
THEOREM LedgerRefined == Spec => LedgerSpec
<1>1. Init => Ledger!FailoverInit
  BY LedgerInitial
<1>2. IInv /\ IInv' /\ [Next]_vars => [Ledger!FailoverNext]_Ledger!ledgerVars
  BY NextLedger
<1> QED
  BY <1>1, <1>2, Inductive, PTL DEF Spec, LedgerSpec, Ledger!FailoverSpec
=============================================================================
