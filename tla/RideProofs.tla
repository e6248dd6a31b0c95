----------------------------- MODULE RideProofs -----------------------------
(***************************************************************************)
(* Theorems about one ride, for every set of groups, number of concurrent  *)
(* requests and bound: the safety properties of RideProperties that need   *)
(* no assumption on how the coroutines interleave, and the refinement of   *)
(* AuctionPromise.                                                         *)
(*                                                                         *)
(* IndInv is inductive.  Most steps are alike: one coroutine moves on, and *)
(* if it writes the ride it neither assigns it nor settles its auction     *)
(* (SafeWrite).  The lemmas RequestStep and CoreStep say that this is      *)
(* enough; each action is then shown to be such a step.  The exceptions    *)
(* are the steps of the worker, which assigns and settles.                 *)
(***************************************************************************)
EXTENDS RideProperties, TLAPS

-----------------------------------------------------------------------------
(* Data: rows, records and the ORM's write-back.                           *)

LEMMA FlushRide ==
  ASSUME NEW row \in Ride, NEW loaded \in Ride, NEW new \in Ride
  PROVE  /\ Flush(row, loaded, new) \in Ride
         /\ Flush(row, loaded, new).recipient =
              IF new.recipient # loaded.recipient THEN new.recipient ELSE row.recipient
         /\ Flush(row, loaded, new).auction =
              IF new.auction # loaded.auction THEN new.auction ELSE row.auction
         /\ Flush(row, loaded, new).status =
              IF new.status # loaded.status THEN new.status ELSE row.status
         /\ Flush(row, loaded, new).lastTs =
              IF new.lastTs # loaded.lastTs THEN new.lastTs ELSE row.lastTs
         /\ Flush(row, loaded, new).excluded =
              IF new.excluded # loaded.excluded THEN new.excluded ELSE row.excluded
BY DEF Flush, Ride

(* The three changes coroutines make to a row they read.                   *)
LEMMA FlushStatus ==
  ASSUME NEW row \in Ride, NEW loaded \in Ride, NEW status \in Status,
         NEW ts \in 0..MaxTs, NEW flushed,
         flushed = Flush(row, loaded, Transitioned(loaded, status, ts))
  PROVE  /\ flushed \in Ride
         /\ flushed.recipient = row.recipient
         /\ flushed.auction = row.auction
         /\ flushed.status \in {status, row.status}
         /\ flushed.lastTs = IF ts # loaded.lastTs THEN ts ELSE row.lastTs
         /\ flushed.excluded = row.excluded
<1> DEFINE new == Transitioned(loaded, status, ts)
<1>1. new \in Ride
  BY DEF Ride, Transitioned
<1>2. new.recipient = loaded.recipient /\ new.auction = loaded.auction
      /\ new.status = status /\ new.lastTs = ts /\ new.excluded = loaded.excluded
  BY DEF Ride, Transitioned
<1> HIDE DEF new
<1>3. flushed = Flush(row, loaded, new)
  BY DEF new
<1> QED
  BY <1>1, <1>2, <1>3, FlushRide

LEMMA FlushCompensating ==
  ASSUME NEW row \in Ride, NEW loaded \in Ride, NEW flushed,
         flushed = Flush(row, loaded, [loaded EXCEPT !.status = "compensating"])
  PROVE  /\ flushed \in Ride
         /\ flushed.recipient = row.recipient
         /\ flushed.auction = row.auction
         /\ flushed.status = IF loaded.status # "compensating" THEN "compensating"
                                                               ELSE row.status
         /\ flushed.lastTs = row.lastTs
         /\ flushed.excluded = row.excluded
<1> DEFINE new == [loaded EXCEPT !.status = "compensating"]
<1>1. new \in Ride
  BY DEF Ride, Status
<1>2. new.recipient = loaded.recipient /\ new.auction = loaded.auction
      /\ new.status = "compensating" /\ new.lastTs = loaded.lastTs
      /\ new.excluded = loaded.excluded
  BY DEF Ride
<1> HIDE DEF new
<1>3. flushed = Flush(row, loaded, new)
  BY DEF new
<1> QED
  BY <1>1, <1>2, <1>3, FlushRide

LEMMA ReopenSafe ==
  ASSUME ride \in Ride, NEW loaded \in Ride, NEW excluidos \in SUBSET Groups,
         Reopen(loaded, excluidos)
  PROVE  /\ ride' \in Ride
         /\ ride'.recipient = ride.recipient
         /\ ride'.auction \in {"open", ride.auction}
         /\ loaded.auction # "open" => ride'.auction = "open"
         /\ ride'.status = ride.status
         /\ ride'.lastTs = ride.lastTs
         /\ ride'.excluded = excluidos
<1> DEFINE new == [loaded EXCEPT !.auction = "open"]
           flushed == Flush(ride, loaded, new)
<1>1. new \in Ride
  BY DEF Ride, AuctionStatus
<1>2. new.recipient = loaded.recipient /\ new.status = loaded.status
      /\ new.auction = "open" /\ new.lastTs = loaded.lastTs
  BY DEF Ride
<1> HIDE DEF new
<1>3. /\ flushed \in Ride
      /\ flushed.recipient = ride.recipient
      /\ flushed.auction \in {"open", ride.auction}
      /\ loaded.auction # "open" => flushed.auction = "open"
      /\ flushed.status = ride.status
      /\ flushed.lastTs = ride.lastTs
  BY <1>1, <1>2, FlushRide
<1>4. ride' = [flushed EXCEPT !.excluded = excluidos]
  BY DEF Reopen, new
<1> HIDE DEF flushed
<1> QED
  BY <1>3, <1>4 DEF Ride

LEMMA NewRideType == NewRide \in Ride
BY GroupsAssumption, BoundsAssumption DEF NewRide, Ride, Status, AuctionStatus

LEMMA IdleTypes ==
  /\ IdleReq \in ReqType
  /\ Created \in CreateType
  /\ IdleWorker \in WorkerType
  /\ IdleMonitor \in MonitorType
BY NewRideType, BoundsAssumption
   DEF IdleReq, Created, IdleWorker, IdleMonitor,
       ReqType, CreateType, WorkerType, MonitorType

LEMMA SeenType ==
  ASSUME NEW l \in Lock \cup {None}
  PROVE  Seen(l) \in SeenLock \cup {None}
BY DEF Seen, Lock, SeenLock

LEMMA SelectType ==
  ASSUME lock \in Lock \cup {None}, NEW seen \in SeenLock \cup {None}
  PROVE  Select(seen) \in SeenLock \cup {None}
BY SeenType DEF Select

(* A row is renewed, or a row with a fresh key is inserted.                *)
LEMMA UpsertType ==
  ASSUME lock \in Lock \cup {None}, NEW seen \in SeenLock \cup {None},
         NEW group \in Groups, seen = None \/ CanUpsert(seen), Upsert(seen, group)
  PROVE  lock' \in Lock
BY DEF Upsert, HeldBy, CanUpsert, Lock, SeenLock

LEMMA PublishQueue ==
  ASSUME queue \in Seq(SUBSET Groups), faults \in Nat,
         NEW excluded \in SUBSET Groups, Publish(excluded)
  PROVE  /\ queue' \in Seq(SUBSET Groups)
         /\ faults' \in Nat
         /\ queue # <<>> => queue' # <<>>
<1>1. CASE queue' = Append(queue, excluded) /\ UNCHANGED faults
  BY <1>1
<1>2. CASE UNCHANGED queue /\ faults' = faults + 1
  BY <1>2
<1>3. CASE queue' = queue \o <<excluded, excluded>> /\ faults' = faults + 1
  <2>1. <<excluded, excluded>> \in Seq(SUBSET Groups)
    OBVIOUS
  <2>2. queue' \in Seq(SUBSET Groups) /\ Len(queue') = Len(queue) + 2
    BY <1>3, <2>1
  <2>3. queue' # <<>>
    BY <2>2
  <2> QED
    BY <1>3, <2>2, <2>3
<1> QED
  BY <1>1, <1>2, <1>3 DEF Publish
-----------------------------------------------------------------------------
(* Steps that neither assign the ride nor settle its auction.              *)

SafeWrite ==
  /\ ride' \in Ride
  /\ ride'.recipient = ride.recipient
  /\ ride'.auction \in {ride.auction, "open"}
  /\ ride'.status \in Assigned => ride.recipient # None

(* What else such a step may change.                                       *)
SafeRest ==
  /\ lock' \in Lock \cup {None}
  /\ audit' \in [Groups -> [Timestamps -> Nat]]
  /\ queue' \in Seq(SUBSET Groups)
  /\ queue # <<>> => queue' # <<>>
  /\ create' \in CreateType
  /\ faults' \in Nat
  /\ UNCHANGED <<winners, worker>>

LEMMA RideUnchanged ==
  ASSUME IndInv, UNCHANGED ride
  PROVE  SafeWrite
BY DEF IndInv, TypeOK, AssignedToWinner, SafeWrite

LEMMA SafeStep ==
  ASSUME IndInv, SafeWrite, SafeRest
  PROVE  AssignedToWinner' /\ WorkerInv'
BY DEF IndInv, TypeOK, AssignedToWinner, WorkerInv, SafeWrite, SafeRest

LEMMA RequestStep ==
  ASSUME IndInv, SafeWrite, SafeRest, UNCHANGED monitor,
         NEW h \in Handlers, NEW r \in ReqType, Become(h, r),
         ReqOK(r, ride.recipient)
  PROVE  IndInv'
<1>1. req' \in [Handlers -> ReqType] /\ req'[h] = r
  BY DEF IndInv, TypeOK, Become
<1>2. \A k \in Handlers \ {h} : req'[k] = req[k]
  BY DEF IndInv, TypeOK, Become
<1>3. ReqInv'
  BY <1>1, <1>2 DEF IndInv, ReqInv, SafeWrite
<1>4. TypeOK'
  BY <1>1 DEF IndInv, TypeOK, SafeWrite, SafeRest
<1> QED
  BY <1>3, <1>4, SafeStep DEF IndInv, MonitorInv

LEMMA CoreStep ==
  ASSUME IndInv, SafeWrite, SafeRest, UNCHANGED req,
         monitor' \in MonitorType, MonitorOK(monitor')
  PROVE  IndInv'
<1>1. ReqInv'
  BY DEF IndInv, ReqInv, SafeWrite
<1>2. TypeOK'
  BY DEF IndInv, TypeOK, SafeWrite, SafeRest
<1> QED
  BY <1>1, <1>2, SafeStep DEF IndInv, MonitorInv
-----------------------------------------------------------------------------
(* The requests.                                                           *)

LEMMA PatchBeginInd ==
  ASSUME IndInv, NEW h \in Handlers, PatchBegin(h)
  PROVE  IndInv'
<1>1. PICK svc \in Groups, to \in Targets, ts \in Timestamps :
        Become(h, [req[h] EXCEPT !.pc = "patch_ride", !.svc = svc, !.to = to, !.ts = ts])
  BY DEF PatchBegin
<1> DEFINE r == [req[h] EXCEPT !.pc = "patch_ride", !.svc = svc, !.to = to, !.ts = ts]
<1>2. r \in ReqType
  <2>1. ts \in 0..MaxTs
    BY BoundsAssumption DEF Timestamps
  <2>2. req[h] \in ReqType
    BY DEF IndInv, TypeOK
  <2> QED
    BY <2>1, <2>2 DEF ReqType
<1>3. ReqOK(r, ride.recipient)
  BY DEF IndInv, TypeOK, ReqType, ReqOK
<1>4. SafeRest /\ UNCHANGED <<ride, monitor>>
  BY DEF IndInv, TypeOK, PatchBegin, SafeRest, tables
<1> QED
  BY <1>1, <1>2, <1>3, <1>4, RideUnchanged, RequestStep

LEMMA PatchReadRideInd ==
  ASSUME IndInv, NEW h \in Handlers, PatchReadRide(h)
  PROVE  IndInv'
<1>1. PICK r \in ReqType : Become(h, r) /\ ReqOK(r, ride.recipient)
  <2>1. CASE req[h].to \in TRANSICOES_VALIDAS[ride.status] /\ Newer(req[h].ts)
    <3> DEFINE r == [req[h] EXCEPT !.pc = "patch_lock", !.ride = ride]
    <3>1. r \in ReqType
      BY DEF IndInv, TypeOK, ReqType
    <3>2. ride.recipient # None \/ req[h].to \in {"compensating", "cancelled"}
      BY <2>1 DEF IndInv, TypeOK, AssignedToWinner, Assigned, Ride, Status, TRANSICOES_VALIDAS
    <3>3. ReqOK(r, ride.recipient)
      BY <3>2 DEF IndInv, TypeOK, ReqType, ReqInv, ReqOK, PatchPcs, PatchReadRide
    <3> QED
      BY <2>1, <3>1, <3>3 DEF PatchReadRide
  <2>2. CASE Answer(h)
    BY <2>2, IdleTypes DEF Answer, IdleReq, ReqOK, PatchPcs
  <2> QED
    BY <2>1, <2>2 DEF PatchReadRide
<1>2. SafeRest /\ UNCHANGED <<ride, monitor>>
  BY DEF IndInv, TypeOK, PatchReadRide, SafeRest, tables
<1> QED
  BY <1>1, <1>2, RideUnchanged, RequestStep

LEMMA PatchReadLockInd ==
  ASSUME IndInv, NEW h \in Handlers, PatchReadLock(h)
  PROVE  IndInv'
<1>1. PICK r \in ReqType : Become(h, r) /\ ReqOK(r, ride.recipient)
  <2>1. CASE Become(h, [req[h] EXCEPT !.pc = "patch_commit"])
    <3> DEFINE r == [req[h] EXCEPT !.pc = "patch_commit"]
    <3>1. r \in ReqType
      BY DEF IndInv, TypeOK, ReqType
    <3>2. ReqOK(r, ride.recipient)
      BY DEF IndInv, TypeOK, ReqType, ReqInv, ReqOK, PatchPcs, PatchReadLock
    <3> QED
      BY <2>1, <3>1, <3>2
  <2>2. CASE Answer(h)
    BY <2>2, IdleTypes DEF Answer, IdleReq, ReqOK, PatchPcs
  <2> QED
    BY <2>1, <2>2 DEF PatchReadLock
<1>2. SafeRest /\ UNCHANGED <<ride, monitor>>
  BY DEF IndInv, TypeOK, PatchReadLock, SafeRest, tables
<1> QED
  BY <1>1, <1>2, RideUnchanged, RequestStep

(* Only what the PATCH changed reaches the row: status and last_client_ts. *)
LEMMA PatchCommitSafe ==
  ASSUME IndInv, NEW h \in Handlers, PatchCommit(h)
  PROVE  SafeWrite
<1>1. req[h] \in ReqType /\ ReqOK(req[h], ride.recipient) /\ ride \in Ride
  BY DEF IndInv, TypeOK, ReqInv
<1>2. /\ req[h].to \in Status /\ req[h].ts \in 0..MaxTs /\ req[h].ride \in Ride
      /\ req[h].to \in {"compensating", "cancelled"} \/ ride.recipient # None
  BY <1>1, TargetsAssumption DEF PatchCommit, ReqOK, PatchPcs, ReqType
<1>3. ride' = Flush(ride, req[h].ride, Transitioned(req[h].ride, req[h].to, req[h].ts))
  BY DEF PatchCommit
<1>4. ride' \in Ride /\ ride'.recipient = ride.recipient
      /\ ride'.auction = ride.auction /\ ride'.status \in {req[h].to, ride.status}
  BY <1>1, <1>2, <1>3, FlushStatus
<1>5. ride'.status \in Assigned => ride.recipient # None
  BY <1>2, <1>4 DEF Assigned, IndInv, AssignedToWinner
<1> QED
  BY <1>4, <1>5 DEF SafeWrite

LEMMA PatchCommitInd ==
  ASSUME IndInv, NEW h \in Handlers, PatchCommit(h)
  PROVE  IndInv'
<1> DEFINE r == [req[h] EXCEPT !.pc = "patch_audit", !.ride = NewRide]
<1>1. SafeRest /\ UNCHANGED monitor /\ Become(h, r)
  BY DEF IndInv, TypeOK, PatchCommit, SafeRest
<1>2. req[h] \in ReqType /\ ReqOK(req[h], ride.recipient)
  BY DEF IndInv, TypeOK, ReqInv
<1>3. r \in ReqType /\ ReqOK(r, ride.recipient)
  BY <1>2, NewRideType DEF ReqType, ReqOK, PatchPcs, PatchCommit
<1> QED
  BY <1>1, <1>3, PatchCommitSafe, RequestStep

LEMMA PatchAuditInd ==
  ASSUME IndInv, NEW h \in Handlers, PatchAudit(h)
  PROVE  IndInv'
<1>1. req[h] \in ReqType /\ ReqOK(req[h], ride.recipient) /\ ride \in Ride
  BY DEF IndInv, TypeOK, ReqInv
<1>2. req[h].svc \in Groups /\ req[h].ts \in Timestamps
  BY <1>1 DEF PatchAudit, ReqOK, PatchPcs
<1>3. PICK r \in ReqType : Become(h, r) /\ ReqOK(r, ride.recipient)
  <2>1. CASE req[h].to = "compensating"
    <3> DEFINE r == [req[h] EXCEPT !.pc = "patch_reopen", !.ride = ride]
    <3>1. r \in ReqType /\ ReqOK(r, ride.recipient)
      BY <1>1 DEF ReqType, ReqOK, PatchPcs, PatchAudit
    <3> QED
      BY <2>1, <3>1 DEF PatchAudit
  <2>2. CASE Answer(h)
    BY <2>2, IdleTypes DEF Answer, IdleReq, ReqOK, PatchPcs
  <2> QED
    BY <2>1, <2>2 DEF PatchAudit
<1>4. audit' \in [Groups -> [Timestamps -> Nat]]
  BY <1>2 DEF IndInv, TypeOK, PatchAudit
<1>5. SafeRest /\ UNCHANGED <<ride, monitor>>
  BY <1>4 DEF IndInv, TypeOK, PatchAudit, SafeRest
<1> QED
  BY <1>3, <1>5, RideUnchanged, RequestStep

LEMMA PatchReopenSafe ==
  ASSUME IndInv, NEW h \in Handlers, PatchReopen(h)
  PROVE  /\ SafeWrite
         /\ Excluidos(req[h].ride, req[h].svc) \in SUBSET Groups
<1>1. req[h] \in ReqType /\ ReqOK(req[h], ride.recipient) /\ ride \in Ride
  BY DEF IndInv, TypeOK, ReqInv
<1>2. req[h].ride \in Ride /\ Excluidos(req[h].ride, req[h].svc) \in SUBSET Groups
  BY <1>1 DEF PatchReopen, ReqOK, ReqType, Ride, Excluidos
<1> QED
  BY <1>1, <1>2, ReopenSafe DEF PatchReopen, SafeWrite, IndInv, AssignedToWinner

LEMMA PatchReopenInd ==
  ASSUME IndInv, NEW h \in Handlers, PatchReopen(h)
  PROVE  IndInv'
<1> DEFINE r == [req[h] EXCEPT !.pc = "patch_publish", !.ride = NewRide,
                               !.excluded = Excluidos(req[h].ride, req[h].svc)]
<1>1. SafeRest /\ UNCHANGED monitor /\ Become(h, r)
  BY DEF IndInv, TypeOK, PatchReopen, SafeRest
<1>2. req[h] \in ReqType /\ ReqOK(req[h], ride.recipient)
  BY DEF IndInv, TypeOK, ReqInv
<1>3. r \in ReqType /\ ReqOK(r, ride.recipient)
  BY <1>2, NewRideType, PatchReopenSafe DEF ReqType, ReqOK, PatchPcs, PatchReopen
<1> QED
  BY <1>1, <1>3, PatchReopenSafe, RequestStep

(* An answered request leaves nothing behind.                              *)
LEMMA AnswerStep ==
  ASSUME IndInv, NEW h \in Handlers, Answer(h), SafeRest, UNCHANGED <<ride, monitor>>
  PROVE  IndInv'
BY IdleTypes, RideUnchanged, RequestStep DEF Answer, IdleReq, ReqOK, PatchPcs

LEMMA PatchPublishInd ==
  ASSUME IndInv, NEW h \in Handlers, PatchPublish(h)
  PROVE  IndInv'
<1>1. req[h].excluded \in SUBSET Groups
  BY DEF IndInv, TypeOK, ReqType
<1>2. SafeRest /\ UNCHANGED <<ride, monitor>>
  BY <1>1, PublishQueue DEF IndInv, TypeOK, PatchPublish, SafeRest, tables
<1> QED
  BY <1>2, AnswerStep DEF PatchPublish

LEMMA AcquireCheckInd ==
  ASSUME IndInv, NEW h \in Handlers, AcquireCheck(h)
  PROVE  IndInv'
<1>1. PICK svc \in Groups :
        Become(h, [req[h] EXCEPT !.pc = "acquire_select", !.svc = svc, !.seen = Seen(lock)])
  BY DEF AcquireCheck
<1> DEFINE r == [req[h] EXCEPT !.pc = "acquire_select", !.svc = svc, !.seen = Seen(lock)]
<1>2. r \in ReqType /\ ReqOK(r, ride.recipient)
  BY SeenType DEF IndInv, TypeOK, ReqType, ReqOK, PatchPcs
<1>3. SafeRest /\ UNCHANGED <<ride, monitor>>
  BY DEF IndInv, TypeOK, AcquireCheck, SafeRest, tables
<1> QED
  BY <1>1, <1>2, <1>3, RideUnchanged, RequestStep

LEMMA AcquireSelectInd ==
  ASSUME IndInv, NEW h \in Handlers, AcquireSelect(h)
  PROVE  IndInv'
<1> DEFINE seen == Select(req[h].seen)
           r == [req[h] EXCEPT !.pc = "acquire_commit", !.seen = seen]
<1>1. req[h] \in ReqType /\ ReqOK(req[h], ride.recipient)
  BY DEF IndInv, TypeOK, ReqInv
<1>2. seen \in SeenLock \cup {None}
  BY <1>1, SelectType DEF IndInv, TypeOK, ReqType
<1>3. r \in ReqType /\ ReqOK(r, ride.recipient)
  BY <1>1, <1>2 DEF ReqType, ReqOK, PatchPcs, AcquireSelect
<1>4. SafeRest /\ UNCHANGED <<ride, monitor>> /\ Become(h, r)
  BY DEF IndInv, TypeOK, AcquireSelect, SafeRest, tables
<1> QED
  BY <1>3, <1>4, RideUnchanged, RequestStep

LEMMA AcquireCommitInd ==
  ASSUME IndInv, NEW h \in Handlers, AcquireCommit(h)
  PROVE  IndInv'
<1>1. req[h] \in ReqType /\ req[h].svc \in Groups
  BY DEF IndInv, TypeOK, ReqInv, ReqOK, AcquireCommit
<1>2. lock' \in Lock \cup {None}
  BY <1>1, UpsertType DEF IndInv, TypeOK, ReqType, AcquireCommit
<1>3. SafeRest /\ UNCHANGED <<ride, monitor>>
  BY <1>2 DEF IndInv, TypeOK, AcquireCommit, SafeRest
<1> QED
  BY <1>3, AnswerStep DEF AcquireCommit

LEMMA ReleaseCheckInd ==
  ASSUME IndInv, NEW h \in Handlers, ReleaseCheck(h)
  PROVE  IndInv'
<1> DEFINE r == [req[h] EXCEPT !.pc = "release_delete", !.svc = lock.holder]
<1>1. lock.holder \in Groups
  BY DEF IndInv, TypeOK, ReleaseCheck, Lock
<1>2. r \in ReqType /\ ReqOK(r, ride.recipient)
  BY <1>1 DEF IndInv, TypeOK, ReqType, ReqOK, PatchPcs
<1>3. SafeRest /\ UNCHANGED <<ride, monitor>> /\ Become(h, r)
  BY DEF IndInv, TypeOK, ReleaseCheck, SafeRest, tables
<1> QED
  BY <1>2, <1>3, RideUnchanged, RequestStep

LEMMA ReleaseDeleteInd ==
  ASSUME IndInv, NEW h \in Handlers, ReleaseDelete(h)
  PROVE  IndInv'
<1>1. SafeRest /\ UNCHANGED <<ride, monitor>>
  BY DEF IndInv, TypeOK, ReleaseDelete, SafeRest
<1> QED
  BY <1>1, AnswerStep DEF ReleaseDelete
-----------------------------------------------------------------------------
(* The monitor.                                                            *)

LEMMA MonitorListInd ==
  ASSUME IndInv, MonitorList
  PROVE  IndInv'
<1>1. lock.holder \in Groups
  BY DEF IndInv, TypeOK, MonitorList, Lock
<1>2. monitor' \in MonitorType /\ MonitorOK(monitor')
  BY <1>1 DEF IndInv, TypeOK, MonitorList, MonitorType, MonitorOK
<1>3. SafeRest /\ UNCHANGED <<ride, req>>
  BY DEF IndInv, TypeOK, MonitorList, SafeRest, tables
<1> QED
  BY <1>2, <1>3, RideUnchanged, CoreStep

LEMMA MonitorReadRideInd ==
  ASSUME IndInv, MonitorReadRide
  PROVE  IndInv'
<1>1. monitor' \in MonitorType /\ MonitorOK(monitor')
  BY DEF IndInv, TypeOK, MonitorInv, MonitorReadRide, MonitorType, MonitorOK
<1>2. SafeRest /\ UNCHANGED <<ride, req>>
  BY DEF IndInv, TypeOK, MonitorReadRide, SafeRest, tables
<1> QED
  BY <1>1, <1>2, RideUnchanged, CoreStep

LEMMA MonitorDropInd ==
  ASSUME IndInv, MonitorDrop
  PROVE  IndInv'
<1>1. monitor' \in MonitorType /\ MonitorOK(monitor')
  BY IdleTypes DEF MonitorDrop, MonitorOK, IdleMonitor
<1>2. SafeRest /\ UNCHANGED <<ride, req>>
  BY DEF IndInv, TypeOK, MonitorDrop, SafeRest
<1> QED
  BY <1>1, <1>2, RideUnchanged, CoreStep

LEMMA MonitorDeleteInd ==
  ASSUME IndInv, MonitorDelete
  PROVE  IndInv'
<1>1. monitor' \in MonitorType /\ MonitorOK(monitor')
  BY DEF IndInv, TypeOK, MonitorInv, MonitorDelete, MonitorType, MonitorOK
<1>2. SafeRest /\ UNCHANGED <<ride, req>>
  BY DEF IndInv, TypeOK, MonitorDelete, SafeRest
<1> QED
  BY <1>1, <1>2, RideUnchanged, CoreStep

LEMMA MonitorCompensateSafe ==
  ASSUME IndInv, MonitorCompensate
  PROVE  SafeWrite
<1>1. ride \in Ride /\ monitor.ride \in Ride
  BY DEF IndInv, TypeOK, MonitorType
<1>2. ride' = Flush(ride, monitor.ride, [monitor.ride EXCEPT !.status = "compensating"])
  BY DEF MonitorCompensate
<1>3. ride' \in Ride /\ ride'.recipient = ride.recipient
      /\ ride'.auction = ride.auction /\ ride'.status \in {"compensating", ride.status}
  BY <1>1, <1>2, FlushCompensating
<1> QED
  BY <1>3 DEF SafeWrite, Assigned, IndInv, AssignedToWinner

LEMMA MonitorCompensateInd ==
  ASSUME IndInv, MonitorCompensate
  PROVE  IndInv'
<1>1. monitor' \in MonitorType /\ MonitorOK(monitor')
  BY NewRideType DEF IndInv, TypeOK, MonitorInv, MonitorCompensate, MonitorType, MonitorOK
<1>2. SafeRest /\ UNCHANGED req
  BY DEF IndInv, TypeOK, MonitorCompensate, SafeRest
<1> QED
  BY <1>1, <1>2, MonitorCompensateSafe, CoreStep

LEMMA MonitorRefreshInd ==
  ASSUME IndInv, MonitorRefresh
  PROVE  IndInv'
<1>1. monitor' \in MonitorType /\ MonitorOK(monitor')
  BY DEF IndInv, TypeOK, MonitorInv, MonitorRefresh, MonitorType, MonitorOK
<1>2. SafeRest /\ UNCHANGED <<ride, req>>
  BY DEF IndInv, TypeOK, MonitorRefresh, SafeRest, tables
<1> QED
  BY <1>1, <1>2, RideUnchanged, CoreStep

LEMMA MonitorReopenSafe ==
  ASSUME IndInv, MonitorReopen
  PROVE  /\ SafeWrite
         /\ Excluidos(monitor.ride, monitor.holder) \in SUBSET Groups
<1>1. monitor \in MonitorType /\ monitor.holder \in Groups /\ ride \in Ride
  BY DEF IndInv, TypeOK, MonitorInv, MonitorOK, MonitorReopen
<1>2. monitor.ride \in Ride /\ Excluidos(monitor.ride, monitor.holder) \in SUBSET Groups
  BY <1>1 DEF MonitorType, Ride, Excluidos
<1> QED
  BY <1>1, <1>2, ReopenSafe DEF MonitorReopen, SafeWrite, IndInv, AssignedToWinner

LEMMA MonitorReopenInd ==
  ASSUME IndInv, MonitorReopen
  PROVE  IndInv'
<1>1. monitor' \in MonitorType /\ MonitorOK(monitor')
  BY MonitorReopenSafe, IdleTypes DEF MonitorReopen, MonitorType, MonitorOK
<1>2. SafeRest /\ UNCHANGED req
  BY DEF IndInv, TypeOK, MonitorReopen, SafeRest
<1> QED
  BY <1>1, <1>2, MonitorReopenSafe, CoreStep

LEMMA MonitorPublishInd ==
  ASSUME IndInv, MonitorPublish
  PROVE  IndInv'
<1>1. monitor' \in MonitorType /\ MonitorOK(monitor')
  BY IdleTypes DEF MonitorPublish, MonitorOK, IdleMonitor
<1>2. monitor.excluded \in SUBSET Groups
  BY DEF IndInv, TypeOK, MonitorType
<1>3. SafeRest /\ UNCHANGED <<ride, req>>
  BY <1>2, PublishQueue DEF IndInv, TypeOK, MonitorPublish, SafeRest, tables
<1> QED
  BY <1>1, <1>3, RideUnchanged, CoreStep
-----------------------------------------------------------------------------
(* POST /rides, time and the process dying.                                *)

LEMMA CreateSelectLockInd ==
  ASSUME IndInv, CreateSelectLock
  PROVE  IndInv'
<1>1. create' \in CreateType
  BY SelectType DEF IndInv, TypeOK, CreateSelectLock, CreateType
<1>2. SafeRest /\ UNCHANGED <<ride, req, monitor>>
  BY <1>1 DEF IndInv, TypeOK, CreateSelectLock, SafeRest, tables
<1> QED
  BY <1>2, RideUnchanged, CoreStep DEF IndInv, TypeOK, MonitorInv

LEMMA CreateLockInd ==
  ASSUME IndInv, CreateLock
  PROVE  IndInv'
<1>1. lock' \in Lock \cup {None}
  BY UpsertType, GroupsAssumption DEF IndInv, TypeOK, CreateLock, CreateType
<1>2. create' \in CreateType
  BY DEF CreateLock, Created, CreateType
<1>3. SafeRest /\ UNCHANGED <<ride, req, monitor>>
  BY <1>1, <1>2 DEF IndInv, TypeOK, CreateLock, SafeRest
<1> QED
  BY <1>3, RideUnchanged, CoreStep DEF IndInv, TypeOK, MonitorInv

LEMMA CreatePublishInd ==
  ASSUME IndInv, CreatePublish
  PROVE  IndInv'
<1>1. create' \in CreateType
  BY IdleTypes DEF CreatePublish
<1>2. SafeRest /\ UNCHANGED <<ride, req, monitor>>
  BY <1>1, PublishQueue DEF IndInv, TypeOK, CreatePublish, SafeRest, tables
<1> QED
  BY <1>2, RideUnchanged, CoreStep DEF IndInv, TypeOK, MonitorInv

LEMMA LockExpiresInd ==
  ASSUME IndInv, LockExpires
  PROVE  IndInv'
<1>1. lock' \in Lock \cup {None}
  BY DEF IndInv, TypeOK, LockExpires, Lock
<1>2. SafeRest /\ UNCHANGED <<ride, req, monitor>>
  BY <1>1 DEF IndInv, TypeOK, LockExpires, SafeRest
<1> QED
  BY <1>2, RideUnchanged, CoreStep DEF IndInv, TypeOK, MonitorInv

LEMMA CrashInd ==
  ASSUME IndInv, Crash
  PROVE  IndInv'
<1>1. TypeOK'
  BY IdleTypes DEF IndInv, TypeOK, Crash, tables
<1>2. AssignedToWinner'
  BY DEF IndInv, AssignedToWinner, Crash, tables
<1>3. ReqInv' /\ WorkerInv' /\ MonitorInv'
  BY DEF ReqInv, ReqOK, PatchPcs, WorkerInv, MonitorInv, MonitorOK, Crash,
         IdleReq, IdleWorker, IdleMonitor
<1> QED
  BY <1>1, <1>2, <1>3 DEF IndInv
(* An exception leaves the tables as they are and makes one coroutine      *)
(* idle, and an idle coroutine knows nothing.                              *)
LEMMA RaisesInd ==
  ASSUME IndInv,
         CreateRaises \/ (\E h \in Handlers : RequestRaises(h))
           \/ WorkerRaises \/ MonitorRaises
  PROVE  IndInv'
<1>1. UNCHANGED tables /\ UNCHANGED queue /\ faults' \in Nat
  BY DEF IndInv, TypeOK, CreateRaises, RequestRaises, WorkerRaises, MonitorRaises,
         Raise
<1>2. \A h \in Handlers : req'[h] \in {req[h], IdleReq}
  BY DEF IndInv, TypeOK, CreateRaises, RequestRaises, WorkerRaises, MonitorRaises,
         Answer, Become
<1>3. /\ create' \in {create, Created} /\ worker' \in {worker, IdleWorker}
      /\ monitor' \in {monitor, IdleMonitor}
  BY DEF CreateRaises, RequestRaises, WorkerRaises, MonitorRaises
<1>4. req' \in [Handlers -> ReqType]
  BY IdleTypes DEF IndInv, TypeOK, CreateRaises, RequestRaises, WorkerRaises,
     MonitorRaises, Answer, Become
<1>5. TypeOK'
  BY <1>1, <1>3, <1>4, IdleTypes DEF IndInv, TypeOK, tables
<1>6. AssignedToWinner'
  BY <1>1 DEF IndInv, AssignedToWinner, tables
<1>7. ReqInv'
  BY <1>1, <1>2 DEF IndInv, ReqInv, ReqOK, PatchPcs, IdleReq, tables
<1>8. WorkerInv'
  BY <1>1, <1>3 DEF IndInv, WorkerInv, IdleWorker, tables
<1>9. MonitorInv'
  BY <1>3 DEF IndInv, MonitorInv, MonitorOK, IdleMonitor
<1> QED
  BY <1>5, <1>6, <1>7, <1>8, <1>9 DEF IndInv
-----------------------------------------------------------------------------
(* The worker.                                                             *)

LEMMA WorkerStep ==
  ASSUME IndInv, UNCHANGED <<audit, create, req, monitor, faults>>,
         ride' \in Ride, ride.recipient # None => ride'.recipient # None,
         lock' \in Lock \cup {None}, winners' \in SUBSET Groups,
         queue' \in Seq(SUBSET Groups), worker' \in WorkerType,
         AssignedToWinner', WorkerInv'
  PROVE  IndInv'
<1>1. TypeOK'
  BY DEF IndInv, TypeOK
<1>2. ReqInv' /\ MonitorInv'
  BY DEF IndInv, ReqInv, ReqOK, MonitorInv
<1> QED
  BY <1>1, <1>2 DEF IndInv

LEMMA WorkerIgnoreInd ==
  ASSUME IndInv, WorkerIgnore
  PROVE  IndInv'
<1>1. AssignedToWinner' /\ WorkerInv'
  BY DEF IndInv, AssignedToWinner, WorkerInv, WorkerIgnore, tables
<1> QED
  BY <1>1, WorkerStep DEF IndInv, TypeOK, WorkerIgnore, tables

LEMMA WorkerTakeInd ==
  ASSUME IndInv, WorkerTake
  PROVE  IndInv'
<1>1. Head(queue) \in SUBSET Groups
  BY DEF IndInv, TypeOK, WorkerTake
<1>2. worker' \in WorkerType
  BY <1>1 DEF IndInv, TypeOK, WorkerTake, WorkerType
<1>3. AssignedToWinner' /\ WorkerInv'
  BY DEF IndInv, TypeOK, AssignedToWinner, WorkerInv, WorkerTake, WorkerType,
         AuctionIsOpen, tables
<1> QED
  BY <1>2, <1>3, WorkerStep DEF IndInv, TypeOK, WorkerTake, tables

LEMMA WorkerSelectInd ==
  ASSUME IndInv, WorkerSelect
  PROVE  IndInv'
<1>1. PICK w \in Eligible(worker.excluded) \cup {None} :
        /\ worker' = [worker EXCEPT !.pc = "close", !.winner = w, !.excluded = {}]
        /\ winners' = winners \cup ({w} \ {None})
  BY DEF WorkerSelect
<1>2. worker \in WorkerType /\ w \in (Groups \ {Origin}) \cup {None}
  BY DEF IndInv, TypeOK, Eligible
<1>3. worker' \in WorkerType
  BY <1>1, <1>2 DEF WorkerType
<1>4. winners' \in SUBSET Groups
  BY <1>1, <1>2 DEF IndInv, TypeOK
<1>5. AssignedToWinner' /\ WorkerInv'
  BY <1>1, <1>2 DEF IndInv, AssignedToWinner, WorkerInv, WorkerSelect, WorkerType
<1> QED
  BY <1>3, <1>4, <1>5, WorkerStep DEF IndInv, TypeOK, WorkerSelect

(* The auction is still the one the worker read, so the winner it writes   *)
(* and the state that needs one reach the row together.                    *)
LEMMA WorkerCloseInd ==
  ASSUME IndInv, WorkerClose
  PROVE  IndInv'
<1> DEFINE new == AuctionClosed(worker.ride, worker.winner)
<1>1. worker \in WorkerType /\ worker.ride \in Ride /\ ride \in Ride
  BY DEF IndInv, TypeOK, WorkerType
<1>2. new \in Ride
  BY <1>1 DEF AuctionClosed, Ride, WorkerType, Status, AuctionStatus
<1>3. CASE worker.winner = None
  <2>1. new.recipient = worker.ride.recipient /\ new.status = "cancelled"
    BY <1>1, <1>3 DEF AuctionClosed, Ride
  <2> HIDE DEF new
  <2>2. ride' = Flush(ride, worker.ride, new)
    BY DEF WorkerClose, new
  <2>3. ride' \in Ride /\ ride'.recipient = ride.recipient
        /\ ride'.status \in {"cancelled", ride.status}
    BY <1>1, <1>2, <2>1, <2>2, FlushRide
  <2>4. AssignedToWinner' /\ WorkerInv'
    BY <1>3, <2>3 DEF IndInv, AssignedToWinner, WorkerInv, WorkerClose, WorkerType, Assigned
  <2>5. worker' \in WorkerType
    BY <1>1, NewRideType DEF WorkerClose, WorkerType
  <2> QED
    BY <2>3, <2>4, <2>5, WorkerStep DEF IndInv, TypeOK, WorkerClose
<1>4. CASE worker.winner # None
  <2>1. new.recipient = worker.winner /\ new.status = "match"
    BY <1>1, <1>4 DEF AuctionClosed, Ride
  <2> HIDE DEF new
  <2>2. ride' = Flush(ride, worker.ride, new)
    BY DEF WorkerClose, new
  <2>3. worker.ride.recipient = ride.recipient /\ worker.winner \in winners \ {Origin}
    BY <1>4 DEF IndInv, WorkerInv, WorkerClose
  <2>4. ride' \in Ride /\ ride'.recipient = worker.winner
    BY <1>1, <1>2, <2>1, <2>2, <2>3, FlushRide
  <2>5. AssignedToWinner' /\ WorkerInv'
    BY <1>1, <1>4, <2>3, <2>4 DEF IndInv, AssignedToWinner, WorkerInv, WorkerClose, WorkerType
  <2>6. worker' \in WorkerType
    BY <1>1, NewRideType DEF WorkerClose, WorkerType
  <2> QED
    BY <1>4, <2>4, <2>5, <2>6, WorkerStep DEF IndInv, TypeOK, WorkerClose
<1> QED
  BY <1>3, <1>4

LEMMA WorkerDropLockInd ==
  ASSUME IndInv, WorkerDropLock
  PROVE  IndInv'
<1>1. AssignedToWinner' /\ WorkerInv'
  BY DEF IndInv, TypeOK, AssignedToWinner, WorkerInv, WorkerDropLock, WorkerType
<1>2. worker' \in WorkerType
  BY DEF IndInv, TypeOK, WorkerDropLock, WorkerType
<1> QED
  BY <1>1, <1>2, WorkerStep DEF IndInv, TypeOK, WorkerDropLock

LEMMA WorkerSelectLockInd ==
  ASSUME IndInv, WorkerSelectLock
  PROVE  IndInv'
<1>1. AssignedToWinner' /\ WorkerInv'
  BY DEF IndInv, TypeOK, AssignedToWinner, WorkerInv, WorkerSelectLock, WorkerType, tables
<1>2. worker' \in WorkerType
  BY SelectType DEF IndInv, TypeOK, WorkerSelectLock, WorkerType
<1> QED
  BY <1>1, <1>2, WorkerStep DEF IndInv, TypeOK, WorkerSelectLock, tables

LEMMA WorkerTransferInd ==
  ASSUME IndInv, WorkerTransfer
  PROVE  IndInv'
<1>1. worker \in WorkerType /\ worker.winner \in Groups
  BY DEF IndInv, TypeOK, WorkerInv, WorkerTransfer
<1>2. lock' \in Lock \cup {None}
  BY <1>1, UpsertType DEF IndInv, TypeOK, WorkerTransfer, WorkerType
<1>3. worker' \in WorkerType
  BY <1>1, IdleTypes DEF WorkerTransfer, WorkerType
<1>4. AssignedToWinner'
  BY DEF IndInv, AssignedToWinner, WorkerTransfer
<1>5. WorkerInv'
  <2>1. CASE worker' = [worker EXCEPT !.pc = "ack", !.seen = None]
    <3>1. worker'.pc = "ack" /\ worker.pc # "idle" /\ UNCHANGED queue
      BY <1>1, <2>1 DEF WorkerTransfer, WorkerType
    <3> QED
      BY <3>1 DEF IndInv, WorkerInv
  <2>2. CASE worker' = IdleWorker
    BY <2>2 DEF WorkerInv, IdleWorker
  <2> QED
    BY <2>1, <2>2 DEF WorkerTransfer
<1> QED
  BY <1>2, <1>3, <1>4, <1>5, WorkerStep DEF IndInv, TypeOK, WorkerTransfer

LEMMA WorkerAckInd ==
  ASSUME IndInv, WorkerAck
  PROVE  IndInv'
<1>1. queue' \in Seq(SUBSET Groups)
  BY DEF IndInv, TypeOK, WorkerInv, WorkerAck
<1>2. AssignedToWinner' /\ WorkerInv'
  BY DEF IndInv, AssignedToWinner, WorkerInv, WorkerAck, IdleWorker, tables
<1> QED
  BY <1>1, <1>2, IdleTypes, WorkerStep DEF IndInv, TypeOK, WorkerAck, tables
-----------------------------------------------------------------------------
(* The theorems.                                                           *)

LEMMA InitInd == Init => IndInv
<1> SUFFICES ASSUME Init PROVE IndInv
  OBVIOUS
<1>1. TypeOK
  BY NewRideType, IdleTypes, BoundsAssumption DEF Init, TypeOK, CreateType
<1>2. AssignedToWinner
  BY GroupsAssumption DEF Init, AssignedToWinner, Assigned, NewRide
<1>3. ReqInv /\ WorkerInv /\ MonitorInv
  BY DEF Init, ReqInv, ReqOK, PatchPcs, WorkerInv, MonitorInv, MonitorOK,
         IdleReq, IdleWorker, IdleMonitor
<1> QED
  BY <1>1, <1>2, <1>3 DEF IndInv

LEMMA NextInd == IndInv /\ [Next]_vars => IndInv'
<1> SUFFICES ASSUME IndInv, [Next]_vars PROVE IndInv'
  OBVIOUS
<1>1. CASE CreateNext
  BY <1>1, CreateSelectLockInd, CreateLockInd, CreatePublishInd DEF CreateNext
<1>2. ASSUME NEW h \in Handlers, RequestArrives(h) PROVE IndInv'
  BY <1>2, PatchBeginInd, AcquireCheckInd, ReleaseCheckInd DEF RequestArrives
<1>3. ASSUME NEW h \in Handlers, RequestContinues(h) PROVE IndInv'
  BY <1>3, PatchReadRideInd, PatchReadLockInd, PatchCommitInd, PatchAuditInd,
     PatchReopenInd, PatchPublishInd, AcquireSelectInd, AcquireCommitInd,
     ReleaseDeleteInd DEF RequestContinues
<1>4. CASE WorkerNext
  BY <1>4, WorkerIgnoreInd, WorkerTakeInd, WorkerSelectInd, WorkerCloseInd,
     WorkerDropLockInd, WorkerSelectLockInd, WorkerTransferInd, WorkerAckInd
     DEF WorkerNext
<1>5. CASE MonitorNext
  BY <1>5, MonitorListInd, MonitorReadRideInd, MonitorDropInd, MonitorDeleteInd,
     MonitorCompensateInd, MonitorRefreshInd, MonitorReopenInd, MonitorPublishInd
     DEF MonitorNext
<1>6. CASE LockExpires
  BY <1>6, LockExpiresInd
<1>7. CASE Crash
  BY <1>7, CrashInd
<1>8. CASE CreateRaises \/ (\E h \in Handlers : RequestRaises(h))
             \/ WorkerRaises \/ MonitorRaises
  BY <1>8, RaisesInd
<1>9. CASE UNCHANGED vars
  BY <1>9 DEF vars, IndInv, TypeOK, AssignedToWinner, ReqInv, WorkerInv, MonitorInv
<1> QED
  BY <1>1, <1>2, <1>3, <1>4, <1>5, <1>6, <1>7, <1>8, <1>9 DEF Next

(* IndInv holds in every reachable state, for every value of the constants. *)
THEOREM Invariance == Spec => []IndInv
BY InitInd, NextInd, PTL DEF Spec

(* The tables, the queue and the coroutines' records keep their types.     *)
THEOREM TypeCorrect == Spec => []TypeOK
<1>1. IndInv => TypeOK
  BY DEF IndInv
<1> QED
  BY <1>1, Invariance, PTL

(* A ride past its auction belongs to a group that committed a winning     *)
(* proposal and is not the origin, whatever stale rows were written back.  *)
THEOREM Assignment == Spec => []AssignedToWinner
<1>1. IndInv => AssignedToWinner
  BY DEF IndInv
<1> QED
  BY <1>1, Invariance, PTL

LEMMA SettledStep == IndInv /\ [Next]_vars => [KeepsOutcome]_vars
<1> SUFFICES ASSUME IndInv, Next PROVE KeepsOutcome
  OBVIOUS
<1>1. CASE UNCHANGED ride
  BY <1>1 DEF KeepsOutcome
<1>2. CASE SafeWrite
  BY <1>2 DEF SafeWrite, KeepsOutcome
<1>3. CASE CreateNext \/ LockExpires \/ Crash \/ CreateRaises
             \/ (\E h \in Handlers : RequestRaises(h)) \/ WorkerRaises \/ MonitorRaises
  BY <1>1, <1>3 DEF CreateNext, CreateSelectLock, CreateLock, CreatePublish,
     LockExpires, Crash, CreateRaises, RequestRaises, WorkerRaises, MonitorRaises,
     Raise, tables
<1>4. ASSUME NEW h \in Handlers, RequestArrives(h) PROVE KeepsOutcome
  BY <1>1, <1>4 DEF RequestArrives, PatchBegin, AcquireCheck, ReleaseCheck, tables
<1>5. ASSUME NEW h \in Handlers, RequestContinues(h) PROVE KeepsOutcome
  <2>1. CASE PatchCommit(h) \/ PatchReopen(h)
    BY <1>2, <2>1, PatchCommitSafe, PatchReopenSafe
  <2> QED
    BY <1>1, <1>5, <2>1 DEF RequestContinues, PatchReadRide, PatchReadLock,
       PatchAudit, PatchPublish, AcquireSelect, AcquireCommit, ReleaseDelete, tables
<1>6. CASE WorkerNext
  <2>1. CASE WorkerClose
    BY <2>1 DEF IndInv, WorkerInv, WorkerClose, KeepsOutcome
  <2> QED
    BY <1>1, <1>6, <2>1 DEF WorkerNext, WorkerIgnore, WorkerTake, WorkerSelect,
       WorkerDropLock, WorkerSelectLock, WorkerTransfer, WorkerAck, tables
<1>7. CASE MonitorNext
  <2>1. CASE MonitorCompensate \/ MonitorReopen
    BY <1>2, <2>1, MonitorCompensateSafe, MonitorReopenSafe
  <2> QED
    BY <1>1, <1>7, <2>1 DEF MonitorNext, MonitorList, MonitorReadRide, MonitorDrop,
       MonitorDelete, MonitorRefresh, MonitorPublish, tables
<1> QED
  BY <1>3, <1>4, <1>5, <1>6, <1>7 DEF Next

(* A settled auction keeps its outcome until a compensation reopens it.    *)
THEOREM Settlement == Spec => SettledOnce
BY Invariance, SettledStep, PTL DEF Spec, SettledOnce
-----------------------------------------------------------------------------
(* Who writes what: frame lemmas for the proofs about particular clients.  *)

Requested(h) == RequestArrives(h) \/ RequestContinues(h)

WritesRide ==
  \/ WorkerClose \/ MonitorCompensate \/ MonitorReopen
  \/ \E h \in Handlers : PatchCommit(h) \/ PatchReopen(h)

LEMMA RideFrame ==
  ASSUME Next, ~WritesRide
  PROVE  UNCHANGED ride
<1>1. CASE CreateNext \/ WorkerNext
  BY <1>1 DEF WritesRide, CreateNext, CreateSelectLock, CreateLock, CreatePublish,
     WorkerNext, WorkerIgnore, WorkerTake, WorkerSelect, WorkerDropLock,
     WorkerSelectLock, WorkerTransfer, WorkerAck, tables
<1>2. CASE MonitorNext
  BY <1>2 DEF WritesRide, MonitorNext, MonitorList, MonitorReadRide, MonitorDrop,
     MonitorDelete, MonitorRefresh, MonitorPublish, tables
<1>3. ASSUME NEW h \in Handlers, Requested(h) PROVE UNCHANGED ride
  BY <1>3 DEF WritesRide, Requested, RequestArrives, PatchBegin, AcquireCheck,
     ReleaseCheck, RequestContinues, PatchReadRide, PatchReadLock, PatchAudit,
     PatchPublish, AcquireSelect, AcquireCommit, ReleaseDelete, tables
<1>4. CASE LockExpires \/ Crash \/ CreateRaises \/ WorkerRaises \/ MonitorRaises
             \/ (\E h \in Handlers : RequestRaises(h))
  BY <1>4 DEF LockExpires, Crash, CreateRaises, WorkerRaises, MonitorRaises,
     RequestRaises, Raise, tables
<1> QED
  BY <1>1, <1>2, <1>3, <1>4 DEF Next, Requested

(* A coroutine that does not move on itself can only be stopped.           *)
LEMMA CoroutineFrame ==
  ASSUME Next
  PROVE  /\ ~CreateNext => create' \in {create, Created}
         /\ ~WorkerNext => worker' \in {worker, IdleWorker}
         /\ ~MonitorNext => monitor' \in {monitor, IdleMonitor}
<1>1. CASE CreateNext \/ LockExpires \/ CreateRaises
  BY <1>1 DEF CreateNext, CreateSelectLock, CreateLock, CreatePublish, LockExpires,
     CreateRaises
<1>2. CASE WorkerNext \/ WorkerRaises
  BY <1>2 DEF WorkerNext, WorkerIgnore, WorkerTake, WorkerSelect, WorkerClose,
     WorkerDropLock, WorkerSelectLock, WorkerTransfer, WorkerAck, WorkerRaises
<1>3. CASE MonitorNext \/ MonitorRaises
  BY <1>3 DEF MonitorNext, MonitorList, MonitorReadRide, MonitorDrop, MonitorDelete,
     MonitorCompensate, MonitorRefresh, MonitorReopen, MonitorPublish, MonitorRaises
<1>4. ASSUME NEW h \in Handlers, Requested(h) \/ RequestRaises(h)
      PROVE  UNCHANGED <<create, worker, monitor>>
  BY <1>4 DEF Requested, RequestArrives, PatchBegin, AcquireCheck, ReleaseCheck,
     RequestContinues, PatchReadRide, PatchReadLock, PatchCommit, PatchAudit,
     PatchReopen, PatchPublish, AcquireSelect, AcquireCommit, ReleaseDelete,
     RequestRaises
<1>5. CASE Crash
  BY <1>5 DEF Crash
<1> QED
  BY <1>1, <1>2, <1>3, <1>4, <1>5 DEF Next, Requested

(* At most the request that moves on gets a new record.                    *)
LEMMA RequestFrame ==
  ASSUME IndInv, NEW h \in Handlers, Requested(h)
  PROVE  /\ UNCHANGED <<create, worker, monitor>>
         /\ \A k \in Handlers \ {h} : req'[k] = req[k]
<1>1. \E r : Become(h, r)
  BY DEF Requested, RequestArrives, RequestContinues, PatchBegin, AcquireCheck,
     ReleaseCheck, PatchReadRide, PatchReadLock, PatchCommit, PatchAudit,
     PatchReopen, PatchPublish, AcquireSelect, AcquireCommit, ReleaseDelete, Answer
<1>2. \A k \in Handlers \ {h} : req'[k] = req[k]
  BY <1>1 DEF IndInv, TypeOK, Become
<1>3. UNCHANGED <<create, worker, monitor>>
  BY DEF Requested, RequestArrives, PatchBegin, AcquireCheck, ReleaseCheck,
     RequestContinues, PatchReadRide, PatchReadLock, PatchCommit, PatchAudit,
     PatchReopen, PatchPublish, AcquireSelect, AcquireCommit, ReleaseDelete
<1> QED
  BY <1>2, <1>3

LEMMA NoRequestFrame ==
  ASSUME IndInv, Next, NEW h \in Handlers, \A k \in Handlers : ~Requested(k)
  PROVE  req'[h] \in {req[h], IdleReq}
<1>1. req \in [Handlers -> ReqType]
  BY DEF IndInv, TypeOK
<1>2. CASE CreateNext \/ WorkerNext \/ MonitorNext
  BY <1>2 DEF CreateNext, CreateSelectLock, CreateLock, CreatePublish,
     WorkerNext, WorkerIgnore, WorkerTake, WorkerSelect, WorkerClose,
     WorkerDropLock, WorkerSelectLock, WorkerTransfer, WorkerAck,
     MonitorNext, MonitorList, MonitorReadRide, MonitorDrop, MonitorDelete,
     MonitorCompensate, MonitorRefresh, MonitorReopen, MonitorPublish
<1>3. CASE LockExpires \/ CreateRaises \/ WorkerRaises \/ MonitorRaises \/ Crash
  BY <1>3 DEF LockExpires, CreateRaises, WorkerRaises, MonitorRaises, Crash
<1>4. ASSUME NEW k \in Handlers, RequestRaises(k) PROVE req'[h] \in {req[h], IdleReq}
  BY <1>1, <1>4 DEF RequestRaises, Answer, Become
<1> QED
  BY <1>2, <1>3, <1>4 DEF Next, Requested

(* Where a request that moves on can get to.                               *)
LEMMA RequestGoes ==
  ASSUME IndInv, NEW h \in Handlers, Requested(h)
  PROVE  /\ req'[h].pc = "patch_reopen" =>
              /\ PatchAudit(h) /\ req[h].to = "compensating"
              /\ req'[h].to = req[h].to /\ req'[h].ride = ride
         /\ req'[h].pc = "patch_publish" => PatchReopen(h)
         /\ req'[h].pc \in PatchPcs => "patch" \in Operations \/ req[h].pc \in PatchPcs
         /\ req'[h].pc \in {"acquire_select", "acquire_commit"} =>
              \/ "acquire" \in Operations
              \/ req[h].pc \in {"acquire_select", "acquire_commit"}
<1>1. req \in [Handlers -> ReqType]
  BY DEF IndInv, TypeOK
<1>2. CASE Answer(h)
  BY <1>1, <1>2 DEF Answer, Become, IdleReq, PatchPcs
<1>3. CASE PatchBegin(h)
  <2>1. PICK svc \in Groups, to \in Targets, ts \in Timestamps :
          Become(h, [req[h] EXCEPT !.pc = "patch_ride", !.svc = svc,
                                   !.to = to, !.ts = ts])
    BY <1>3 DEF PatchBegin
  <2>2. req'[h].pc = "patch_ride" /\ "patch" \in Operations
    BY <1>1, <1>3, <2>1 DEF Become, ReqType, PatchBegin
  <2> QED
    BY <2>2
<1>4. CASE AcquireCheck(h)
  <2>1. PICK svc \in Groups :
          Become(h, [req[h] EXCEPT !.pc = "acquire_select", !.svc = svc,
                                   !.seen = Seen(lock)])
    BY <1>4 DEF AcquireCheck
  <2>2. req'[h].pc = "acquire_select" /\ "acquire" \in Operations
    BY <1>1, <1>4, <2>1 DEF Become, ReqType, AcquireCheck
  <2> QED
    BY <2>2 DEF PatchPcs
<1>5. CASE ReleaseCheck(h) \/ AcquireSelect(h)
  <2>1. CASE ReleaseCheck(h)
    <3>1. Become(h, [req[h] EXCEPT !.pc = "release_delete", !.svc = lock.holder])
      BY <2>1 DEF ReleaseCheck
    <3>2. req'[h].pc = "release_delete"
      BY <1>1, <3>1 DEF Become, ReqType
    <3> QED
      BY <3>2 DEF PatchPcs
  <2>2. CASE AcquireSelect(h)
    BY <1>1, <2>2 DEF AcquireSelect, Become, ReqType, PatchPcs
  <2> QED
    BY <1>5, <2>1, <2>2
<1>6. CASE ~Answer(h) /\ (PatchReadRide(h) \/ PatchReadLock(h))
  BY <1>1, <1>6 DEF PatchReadRide, PatchReadLock, Become, ReqType, PatchPcs
<1>7. CASE ~Answer(h) /\ (PatchCommit(h) \/ PatchAudit(h) \/ PatchReopen(h))
  BY <1>1, <1>7 DEF PatchCommit, PatchAudit, PatchReopen, Become, ReqType, PatchPcs
<1>8. CASE PatchPublish(h) \/ AcquireCommit(h) \/ ReleaseDelete(h)
  BY <1>2, <1>8 DEF PatchPublish, AcquireCommit, ReleaseDelete
<1> QED
  BY <1>2, <1>3, <1>4, <1>5, <1>6, <1>7, <1>8
     DEF Requested, RequestArrives, RequestContinues

(* Only time makes a lock an expired one.                                  *)
LEMMA LockFrame ==
  ASSUME Next, ~LockExpires, lock' # None, lock'.expired
  PROVE  lock' = lock
<1>1. ASSUME NEW seen, NEW group, Upsert(seen, group) PROVE FALSE
  BY <1>1 DEF Upsert
<1>2. CASE CreateNext \/ WorkerNext
  BY <1>1, <1>2 DEF CreateNext, CreateSelectLock, CreateLock, CreatePublish,
     WorkerNext, WorkerIgnore, WorkerTake, WorkerSelect, WorkerClose, WorkerDropLock,
     WorkerSelectLock, WorkerTransfer, WorkerAck, tables
<1>3. CASE MonitorNext
  BY <1>3 DEF MonitorNext, MonitorList, MonitorReadRide, MonitorDrop, MonitorDelete,
     MonitorCompensate, MonitorRefresh, MonitorReopen, MonitorPublish, tables
<1>4. ASSUME NEW h \in Handlers, Requested(h) PROVE lock' = lock
  BY <1>1, <1>4 DEF Requested, RequestArrives, PatchBegin, AcquireCheck, ReleaseCheck,
     RequestContinues, PatchReadRide, PatchReadLock, PatchCommit, PatchAudit,
     PatchReopen, PatchPublish, AcquireSelect, AcquireCommit, ReleaseDelete, tables
<1>5. CASE Crash \/ CreateRaises \/ WorkerRaises \/ MonitorRaises
             \/ (\E h \in Handlers : RequestRaises(h))
  BY <1>5 DEF Crash, CreateRaises, WorkerRaises, MonitorRaises, RequestRaises,
     Raise, tables
<1> QED
  BY <1>2, <1>3, <1>4, <1>5 DEF Next, Requested

(* Only an upsert inserts a lock.                                          *)
LEMMA InsertFrame ==
  ASSUME Next, lock = None, ~CreateLock, ~WorkerTransfer,
         \A h \in Handlers : ~AcquireCommit(h)
  PROVE  lock' = None
<1>1. CASE CreateNext \/ WorkerNext
  BY <1>1 DEF CreateNext, CreateSelectLock, CreatePublish, WorkerNext, WorkerIgnore,
     WorkerTake, WorkerSelect, WorkerClose, WorkerDropLock, WorkerSelectLock,
     WorkerAck, tables
<1>2. CASE MonitorNext
  BY <1>2 DEF MonitorNext, MonitorList, MonitorReadRide, MonitorDrop, MonitorDelete,
     MonitorCompensate, MonitorRefresh, MonitorReopen, MonitorPublish, tables
<1>3. ASSUME NEW h \in Handlers, Requested(h) PROVE lock' = None
  BY <1>3 DEF Requested, RequestArrives, PatchBegin, AcquireCheck, ReleaseCheck,
     RequestContinues, PatchReadRide, PatchReadLock, PatchCommit, PatchAudit,
     PatchReopen, PatchPublish, AcquireSelect, ReleaseDelete, tables
<1>4. CASE LockExpires \/ Crash \/ CreateRaises \/ WorkerRaises \/ MonitorRaises
             \/ (\E h \in Handlers : RequestRaises(h))
  BY <1>4 DEF LockExpires, Crash, CreateRaises, WorkerRaises, MonitorRaises,
     RequestRaises, Raise, tables
<1> QED
  BY <1>1, <1>2, <1>3, <1>4 DEF Next, Requested

Publishes ==
  CreatePublish \/ MonitorPublish \/ \E h \in Handlers : PatchPublish(h)

(* Whoever does not publish leaves the queue, but for the worker, which    *)
(* removes the head.                                                       *)
LEMMA QueueFrame ==
  ASSUME Next, ~Publishes
  PROVE  UNCHANGED queue \/ (queue # <<>> /\ queue' = Tail(queue)) \/ WorkerAck
<1>1. CASE CreateNext \/ WorkerNext
  BY <1>1 DEF Publishes, CreateNext, CreateSelectLock, CreateLock, WorkerNext,
     WorkerIgnore, WorkerTake, WorkerSelect, WorkerClose, WorkerDropLock,
     WorkerSelectLock, WorkerTransfer, tables
<1>2. CASE MonitorNext
  BY <1>2 DEF Publishes, MonitorNext, MonitorList, MonitorReadRide, MonitorDrop,
     MonitorDelete, MonitorCompensate, MonitorRefresh, MonitorReopen, tables
<1>3. ASSUME NEW h \in Handlers, Requested(h) PROVE UNCHANGED queue
  BY <1>3 DEF Publishes, Requested, RequestArrives, PatchBegin, AcquireCheck,
     ReleaseCheck, RequestContinues, PatchReadRide, PatchReadLock, PatchCommit,
     PatchAudit, PatchReopen, AcquireSelect, AcquireCommit, ReleaseDelete, tables
<1>4. CASE LockExpires \/ Crash \/ CreateRaises \/ WorkerRaises \/ MonitorRaises
             \/ (\E h \in Handlers : RequestRaises(h))
  BY <1>4 DEF LockExpires, Crash, CreateRaises, WorkerRaises, MonitorRaises,
     RequestRaises, Raise, tables
<1> QED
  BY <1>1, <1>2, <1>3, <1>4 DEF Next, Requested

(* A request moves on, is stopped, or waits.                               *)
LEMMA RequestMoves ==
  ASSUME IndInv, Next, NEW h \in Handlers
  PROVE  Requested(h) \/ req'[h] \in {req[h], IdleReq}
<1>1. CASE \E k \in Handlers : Requested(k)
  BY <1>1, RequestFrame
<1>2. CASE \A k \in Handlers : ~Requested(k)
  BY <1>2, NoRequestFrame
<1> QED
  BY <1>1, <1>2

(* Where the monitor that moves on can get to, and what it then knows.     *)
LEMMA MonitorGoes ==
  ASSUME IndInv, MonitorNext
  PROVE  /\ monitor'.pc = "ride" => MonitorList
         /\ monitor'.pc = "delete" =>
              /\ MonitorReadRide /\ monitor'.ride = ride
              /\ ride.status \notin ESTADOS_TERMINAIS \cup {"compensating"}
         /\ monitor'.pc = "compensate" => MonitorDelete /\ monitor'.ride = monitor.ride
         /\ monitor'.pc = "refresh" => MonitorCompensate
         /\ monitor'.pc = "reopen" => MonitorRefresh /\ monitor'.ride = ride
         /\ monitor'.pc = "publish" =>
              /\ MonitorReopen
              /\ monitor'.excluded = Excluidos(monitor.ride, monitor.holder)
<1>1. monitor \in MonitorType
  BY DEF IndInv, TypeOK
<1>2. CASE MonitorList \/ MonitorReadRide
  BY <1>1, <1>2 DEF MonitorList, MonitorReadRide, MonitorType
<1>3. CASE MonitorDelete \/ MonitorCompensate \/ MonitorRefresh
  BY <1>1, <1>3 DEF MonitorDelete, MonitorCompensate, MonitorRefresh, MonitorType
<1>4. CASE MonitorReopen
  BY <1>4 DEF MonitorReopen, IdleMonitor
<1>5. CASE MonitorDrop \/ MonitorPublish
  BY <1>5 DEF MonitorDrop, MonitorPublish, IdleMonitor
<1> QED
  BY <1>2, <1>3, <1>4, <1>5 DEF MonitorNext

(* The same for the worker, up to the announcement of the outcome.         *)
LEMMA WorkerGoes ==
  ASSUME IndInv, WorkerNext, worker' # worker
  PROVE  /\ worker'.pc = "gather" =>
              /\ WorkerTake /\ ride.auction = "open" /\ worker'.ride = ride
              /\ queue # <<>> /\ worker'.excluded = Head(queue)
         /\ worker'.pc = "close" =>
              /\ WorkerSelect /\ worker'.ride = worker.ride
              /\ worker'.winner \in Eligible(worker.excluded) \cup {None}
<1>1. worker \in WorkerType
  BY DEF IndInv, TypeOK
<1>2. CASE WorkerTake
  BY <1>1, <1>2 DEF WorkerTake, WorkerType, AuctionIsOpen
<1>3. CASE WorkerSelect
  <2>1. PICK w \in Eligible(worker.excluded) \cup {None} :
          worker' = [worker EXCEPT !.pc = "close", !.winner = w, !.excluded = {}]
    BY <1>3 DEF WorkerSelect
  <2> QED
    BY <1>1, <1>3, <2>1 DEF WorkerType
<1>4. CASE WorkerClose \/ WorkerDropLock \/ WorkerSelectLock
  BY <1>1, <1>4 DEF WorkerClose, WorkerDropLock, WorkerSelectLock, WorkerType
<1>5. CASE WorkerTransfer
  <2>1. \/ worker' = [worker EXCEPT !.pc = "ack", !.seen = None]
        \/ worker' = IdleWorker
    BY <1>5 DEF WorkerTransfer
  <2>2. IdleWorker.pc = "idle"
    BY DEF IdleWorker
  <2> QED
    BY <1>1, <2>1, <2>2 DEF WorkerType
<1>6. CASE WorkerIgnore \/ WorkerAck
  BY <1>6 DEF WorkerIgnore, WorkerAck, IdleWorker
<1> QED
  BY <1>2, <1>3, <1>4, <1>5, <1>6 DEF WorkerNext

(* What each writer of the ride does to the row, whatever it read.         *)
LEMMA CloseRow ==
  ASSUME IndInv, WorkerClose
  PROVE  /\ ride.auction = "open"
         /\ ride'.auction = IF worker.winner = None THEN "no_proposals" ELSE "closed"
         /\ ride'.recipient = IF worker.winner = None THEN ride.recipient
                                                      ELSE worker.winner
         /\ worker.ride.status \notin {"match", "cancelled"} =>
              ride'.status = IF worker.winner = None THEN "cancelled" ELSE "match"
         /\ ride'.lastTs = ride.lastTs
         /\ ride'.excluded = ride.excluded
<1> DEFINE loaded == worker.ride
           new == AuctionClosed(worker.ride, worker.winner)
<1>1. /\ loaded \in Ride /\ ride \in Ride
      /\ worker.winner \in Groups \cup {None}
      /\ ride.auction = "open" /\ loaded.auction = "open"
      /\ loaded.recipient = ride.recipient
  BY DEF IndInv, TypeOK, WorkerType, WorkerInv, WorkerClose
<1>2. /\ new \in Ride
      /\ new.status = IF worker.winner = None THEN "cancelled" ELSE "match"
      /\ new.auction = IF worker.winner = None THEN "no_proposals" ELSE "closed"
      /\ new.recipient = IF worker.winner = None THEN loaded.recipient
                                                 ELSE worker.winner
      /\ new.lastTs = loaded.lastTs /\ new.excluded = loaded.excluded
  BY <1>1 DEF AuctionClosed, Ride, Status, AuctionStatus
<1>3. ride' = Flush(ride, loaded, new)
  BY DEF WorkerClose
<1> HIDE DEF new
<1>4. /\ ride'.recipient = IF new.recipient # loaded.recipient THEN new.recipient
                                                               ELSE ride.recipient
      /\ ride'.auction = IF new.auction # loaded.auction THEN new.auction ELSE ride.auction
      /\ ride'.status = IF new.status # loaded.status THEN new.status ELSE ride.status
      /\ ride'.lastTs = IF new.lastTs # loaded.lastTs THEN new.lastTs ELSE ride.lastTs
      /\ ride'.excluded = IF new.excluded # loaded.excluded THEN new.excluded
                                                            ELSE ride.excluded
  BY <1>1, <1>2, <1>3, FlushRide
<1> QED
  BY <1>1, <1>2, <1>4

LEMMA CompensateRow ==
  ASSUME IndInv, MonitorCompensate
  PROVE  /\ ride'.status = IF monitor.ride.status # "compensating"
                           THEN "compensating" ELSE ride.status
         /\ ride'.auction = ride.auction
         /\ ride'.lastTs = ride.lastTs /\ ride'.excluded = ride.excluded
<1>1. ride \in Ride /\ monitor.ride \in Ride
  BY DEF IndInv, TypeOK, MonitorType
<1>2. ride' = Flush(ride, monitor.ride, [monitor.ride EXCEPT !.status = "compensating"])
  BY DEF MonitorCompensate
<1> QED
  BY <1>1, <1>2, FlushCompensating

LEMMA CommitRow ==
  ASSUME IndInv, NEW h \in Handlers, PatchCommit(h)
  PROVE  ride'.auction = ride.auction /\ ride'.excluded = ride.excluded
<1> DEFINE loaded == req[h].ride
           to == req[h].to
           ts == req[h].ts
<1>1. req[h] \in ReqType /\ ReqOK(req[h], ride.recipient) /\ ride \in Ride
  BY DEF IndInv, TypeOK, ReqInv
<1>2. /\ loaded \in Ride /\ to \in Status /\ ts \in 0..MaxTs
      /\ ride' = Flush(ride, loaded, Transitioned(loaded, to, ts))
  BY <1>1, TargetsAssumption DEF PatchCommit, ReqOK, PatchPcs, ReqType
<1> HIDE DEF loaded, to, ts
<1> QED
  BY <1>1, <1>2, FlushStatus

LEMMA ReopenRow ==
  ASSUME IndInv, NEW loaded \in Ride, NEW group \in Groups,
         Reopen(loaded, Excluidos(loaded, group))
  PROVE  /\ ride'.status = ride.status
         /\ ride'.recipient = ride.recipient
         /\ ride'.auction \in {"open", ride.auction}
         /\ loaded.auction # "open" => ride'.auction = "open"
         /\ ride'.lastTs = ride.lastTs
         /\ ride'.excluded = Excluidos(loaded, group)
<1>1. ride \in Ride
  BY DEF IndInv, TypeOK
<1>2. Excluidos(loaded, group) \in SUBSET Groups
  BY DEF Excluidos, Ride
<1> QED
  BY <1>1, <1>2, ReopenSafe

LEMMA PatchReopenRow ==
  ASSUME IndInv, NEW h \in Handlers, PatchReopen(h)
  PROVE  /\ ride'.status = ride.status
         /\ ride'.recipient = ride.recipient
         /\ ride'.auction \in {"open", ride.auction}
         /\ req[h].ride.auction # "open" => ride'.auction = "open"
         /\ ride'.lastTs = ride.lastTs
         /\ ride'.excluded = Excluidos(req[h].ride, req[h].svc)
<1>1. req[h].ride \in Ride /\ req[h].svc \in Groups
  BY DEF IndInv, TypeOK, ReqType, ReqInv, ReqOK, PatchReopen
<1>2. Reopen(req[h].ride, Excluidos(req[h].ride, req[h].svc))
  BY DEF PatchReopen
<1> QED
  BY <1>1, <1>2, ReopenRow

LEMMA MonitorReopenRow ==
  ASSUME IndInv, MonitorReopen
  PROVE  /\ ride'.status = ride.status
         /\ ride'.recipient = ride.recipient
         /\ ride'.auction \in {"open", ride.auction}
         /\ ride'.lastTs = ride.lastTs
         /\ ride'.excluded = Excluidos(monitor.ride, monitor.holder)
<1>1. monitor.ride \in Ride /\ monitor.holder \in Groups
  BY DEF IndInv, TypeOK, MonitorType, MonitorInv, MonitorOK, MonitorReopen
<1>2. Reopen(monitor.ride, Excluidos(monitor.ride, monitor.holder))
  BY DEF MonitorReopen
<1> QED
  BY <1>1, <1>2, ReopenRow

(* A publication only adds copies of its message.                          *)
LEMMA PublishContents ==
  ASSUME queue \in Seq(SUBSET Groups), NEW excluded \in SUBSET Groups,
         Publish(excluded), \A i \in DOMAIN queue : queue[i] = excluded
  PROVE  \A i \in DOMAIN queue' : queue'[i] = excluded
<1>1. CASE queue' = Append(queue, excluded)
  BY <1>1
<1>2. CASE UNCHANGED queue
  BY <1>2
<1>3. CASE queue' = queue \o <<excluded, excluded>>
  <2>1. <<excluded, excluded>> \in Seq(SUBSET Groups)
    OBVIOUS
  <2> QED
    BY <1>3, <2>1
<1> QED
  BY <1>1, <1>2, <1>3 DEF Publish
-----------------------------------------------------------------------------
(* RideCore implements AuctionPromise: the candidate of the abstract       *)
(* auction is the winner the worker has committed and not yet announced;   *)
(* every step of the ride is a step of the abstract auction or leaves it   *)
(* alone.                                                                  *)

PromiseStep == [Promise!Next]_(Promise!vars)

(* Steps of the requests and the monitor: at most they open the auction.   *)
LEMMA SafePromise ==
  ASSUME IndInv, SafeWrite, UNCHANGED <<winners, worker>>
  PROVE  PromiseStep
<1>1. CASE ride'.auction = ride.auction
  BY <1>1 DEF SafeWrite, PromiseStep, Promise!vars
<1>2. CASE ride'.auction # ride.auction
  <2>1. Promise!Reopen
    BY <1>2 DEF SafeWrite, Promise!Reopen
  <2> QED
    BY <2>1 DEF PromiseStep, Promise!Next
<1> QED
  BY <1>1, <1>2

(* A worker that stops withdraws its candidate, if it had one.             *)
LEMMA StopPromise ==
  ASSUME UNCHANGED <<ride, winners>>, worker' = IdleWorker
  PROVE  PromiseStep
<1>1. CASE worker.pc = "close" /\ worker.winner # None
  <2>1. Promise!Withdraw
    BY <1>1 DEF Promise!Withdraw, IdleWorker
  <2> QED
    BY <2>1 DEF PromiseStep, Promise!Next
<1>2. CASE ~(worker.pc = "close" /\ worker.winner # None)
  BY <1>2 DEF IdleWorker, PromiseStep, Promise!vars
<1> QED
  BY <1>1, <1>2

LEMMA SelectPromise ==
  ASSUME IndInv, WorkerSelect
  PROVE  PromiseStep
<1>1. PICK w \in Eligible(worker.excluded) \cup {None} :
        /\ worker' = [worker EXCEPT !.pc = "close", !.winner = w, !.excluded = {}]
        /\ winners' = winners \cup ({w} \ {None})
  BY DEF WorkerSelect
<1>2. worker \in WorkerType /\ worker.pc = "gather" /\ ride.auction = "open"
      /\ UNCHANGED ride
  BY DEF IndInv, TypeOK, WorkerInv, WorkerSelect
<1>3. worker'.pc = "close" /\ worker'.winner = w
  BY <1>1, <1>2 DEF WorkerType
<1>4. CASE w = None
  BY <1>1, <1>2, <1>3, <1>4 DEF PromiseStep, Promise!vars
<1>5. CASE w # None
  <2>1. w \in Groups \ {Origin}
    BY <1>1, <1>5 DEF Eligible
  <2>2. Promise!Propose(w)
    BY <1>1, <1>2, <1>3, <1>5 DEF Promise!Propose
  <2> QED
    BY <2>1, <2>2 DEF PromiseStep, Promise!Next
<1> QED
  BY <1>4, <1>5

(* The row the worker writes back was open when it was read, so the write  *)
(* includes auction_status and assigns exactly the candidate.              *)
LEMMA ClosePromise ==
  ASSUME IndInv, WorkerClose
  PROVE  PromiseStep
<1>1. /\ ride.auction = "open"
      /\ ride'.auction = IF worker.winner = None THEN "no_proposals" ELSE "closed"
      /\ ride'.recipient = IF worker.winner = None THEN ride.recipient
                                                   ELSE worker.winner
  BY CloseRow
<1>2. /\ worker.pc = "close" /\ worker'.pc = "settle" /\ UNCHANGED winners
      /\ worker.winner \in Groups \cup {None}
  BY DEF IndInv, TypeOK, WorkerClose, WorkerType
<1>3. CASE worker.winner = None
  <2>1. Promise!Fail
    BY <1>1, <1>2, <1>3 DEF Promise!Fail
  <2> QED
    BY <2>1 DEF PromiseStep, Promise!Next
<1>4. CASE worker.winner # None
  <2>1. Promise!Award
    BY <1>1, <1>2, <1>4 DEF Promise!Award
  <2> QED
    BY <2>1 DEF PromiseStep, Promise!Next
<1> QED
  BY <1>3, <1>4

(* The worker's other steps neither have nor get a candidate.              *)
LEMMA WorkerPromise ==
  ASSUME IndInv, WorkerNext
  PROVE  PromiseStep
<1>1. CASE WorkerSelect
  BY <1>1, SelectPromise
<1>2. CASE WorkerClose
  BY <1>2, ClosePromise
<1>3. CASE ~WorkerSelect /\ ~WorkerClose
  <2>1. worker \in WorkerType
    BY DEF IndInv, TypeOK
  <2>2. UNCHANGED <<ride, winners>> /\ worker.pc # "close"
    BY <1>3 DEF WorkerNext, WorkerIgnore, WorkerTake, WorkerDropLock,
       WorkerSelectLock, WorkerTransfer, WorkerAck, tables
  <2>3. worker'.pc # "close"
    <3>1. CASE WorkerIgnore \/ WorkerAck
      BY <2>2, <3>1 DEF WorkerIgnore, WorkerAck, IdleWorker
    <3>4. CASE WorkerTake
      BY <2>1, <3>4 DEF WorkerTake, WorkerType
    <3>2. CASE WorkerDropLock \/ WorkerSelectLock
      BY <2>1, <3>2 DEF WorkerDropLock, WorkerSelectLock, WorkerType
    <3>3. CASE WorkerTransfer
      <4>1. CASE worker' = [worker EXCEPT !.pc = "ack", !.seen = None]
        BY <2>1, <4>1 DEF WorkerType
      <4>2. CASE worker' = IdleWorker
        BY <4>2 DEF IdleWorker
      <4> QED
        BY <3>3, <4>1, <4>2 DEF WorkerTransfer
    <3> QED
      BY <1>3, <3>1, <3>2, <3>3, <3>4 DEF WorkerNext
  <2> QED
    BY <2>2, <2>3 DEF PromiseStep, Promise!vars
<1> QED
  BY <1>1, <1>2, <1>3

LEMMA NextPromise == IndInv /\ [Next]_vars => PromiseStep
<1> SUFFICES ASSUME IndInv, [Next]_vars PROVE PromiseStep
  OBVIOUS
<1>1. CASE UNCHANGED ride /\ UNCHANGED <<winners, worker>>
  BY <1>1, RideUnchanged, SafePromise
<1>2. CASE UNCHANGED vars
  BY <1>1, <1>2 DEF vars
<1>3. CASE CreateNext \/ LockExpires \/ CreateRaises
             \/ (\E h \in Handlers : RequestRaises(h)) \/ MonitorRaises
  BY <1>1, <1>3 DEF CreateNext, CreateSelectLock, CreateLock, CreatePublish,
     LockExpires, CreateRaises, RequestRaises, MonitorRaises, Raise, tables
<1>4. CASE Crash \/ WorkerRaises
  BY <1>4, StopPromise DEF Crash, WorkerRaises, Raise, tables
<1>5. ASSUME NEW h \in Handlers, RequestArrives(h) PROVE PromiseStep
  BY <1>1, <1>5 DEF RequestArrives, PatchBegin, AcquireCheck, ReleaseCheck, tables
<1>6. ASSUME NEW h \in Handlers, RequestContinues(h) PROVE PromiseStep
  <2>1. CASE PatchCommit(h) \/ PatchReopen(h)
    <3>1. UNCHANGED <<winners, worker>>
      BY <2>1 DEF PatchCommit, PatchReopen
    <3> QED
      BY <2>1, <3>1, SafePromise, PatchCommitSafe, PatchReopenSafe
  <2> QED
    BY <1>1, <1>6, <2>1 DEF RequestContinues, PatchReadRide, PatchReadLock,
       PatchAudit, PatchPublish, AcquireSelect, AcquireCommit, ReleaseDelete, tables
<1>7. CASE WorkerNext
  BY <1>7, WorkerPromise
<1>8. CASE MonitorNext
  <2>1. CASE MonitorCompensate \/ MonitorReopen
    <3>1. UNCHANGED <<winners, worker>>
      BY <2>1 DEF MonitorCompensate, MonitorReopen
    <3> QED
      BY <2>1, <3>1, SafePromise, MonitorCompensateSafe, MonitorReopenSafe
  <2> QED
    BY <1>1, <1>8, <2>1 DEF MonitorNext, MonitorList, MonitorReadRide, MonitorDrop,
       MonitorDelete, MonitorRefresh, MonitorPublish, tables
<1> QED
  BY <1>2, <1>3, <1>4, <1>5, <1>6, <1>7, <1>8 DEF Next

LEMMA InitPromise == Init => Promise!Init
BY DEF Init, NewRide, IdleWorker, Promise!Init

(* The ride's auction keeps the abstract promise, whatever the requests,   *)
(* the monitor, duplicated messages, exceptions and crashes do.            *)
THEOREM Implementation == Spec => ImplementsPromise
BY Invariance, InitPromise, NextPromise, PTL
   DEF Spec, ImplementsPromise, Promise!Spec, PromiseStep
=============================================================================
