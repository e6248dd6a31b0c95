--------------------------- MODULE RideSagaProofs ---------------------------
(***************************************************************************)
(* The path of the ride through the saga, and the lock of its winner, for  *)
(* orderly clients: they send one request at a time, renew their leases    *)
(* before they run out, and do not cancel.  Without any one of these the   *)
(* properties fail (see the findings, and the README).  What is left to    *)
(* interleave is the worker with the requests, over rows both have read    *)
(* earlier.                                                                *)
(***************************************************************************)
EXTENDS RideOrderProofs

Orderly == Serial /\ ~LocksExpire /\ "cancelled" \notin Targets

(* A PATCH that was validated still finds the status it has seen; and one  *)
(* that compensates finds the ride as it left it, until it opens the       *)
(* auction again.                                                          *)
PatchAgrees(r) ==
  /\ r.pc \in {"patch_lock", "patch_commit"} =>
       /\ r.ride.status = ride.status
       /\ r.to \in TRANSICOES_VALIDAS[ride.status]
  /\ r.pc = "patch_reopen" => r.to = "compensating"
  /\ r.pc \in {"patch_audit", "patch_reopen"} /\ r.to = "compensating" =>
       ride.status = "compensating" /\ ride.auction # "open"

SagaInv ==
  /\ Quiet /\ OpenUnsettled /\ WorkerUnsettled
  /\ \A h \in Handlers : PatchAgrees(req[h])
-----------------------------------------------------------------------------
(* The steps that write the ride, besides WorkerClose (CloseWrites) and    *)
(* opening the auction again (PatchReopenRow).                             *)

LEMMA CommitWritesStatus ==
  ASSUME Orderly, IndInv, SagaInv, NEW h \in Handlers, PatchCommit(h)
  PROVE  /\ ride.status \in {"match", "confirm", "in_transit"}
         /\ ride'.status = req[h].to
         /\ req[h].to \in TRANSICOES_VALIDAS[ride.status]
         /\ ride'.auction = ride.auction /\ ride.auction # "open"
         /\ ride'.recipient = ride.recipient
<1> DEFINE loaded == req[h].ride
           new == Transitioned(req[h].ride, req[h].to, req[h].ts)
<1>1. req[h] \in ReqType /\ ReqOK(req[h], ride.recipient) /\ ride \in Ride
  BY DEF IndInv, TypeOK, ReqInv
<1>2. /\ req[h].to \in Targets /\ req[h].to \in Status /\ req[h].ts \in 0..MaxTs
      /\ loaded \in Ride
  BY <1>1, TargetsAssumption DEF PatchCommit, ReqOK, PatchPcs, ReqType
<1>3. loaded.status = ride.status /\ req[h].to \in TRANSICOES_VALIDAS[ride.status]
  BY DEF SagaInv, PatchAgrees, PatchCommit
<1>4. ride.status \in {"match", "confirm", "in_transit"} /\ req[h].to # ride.status
  BY <1>1, <1>2, <1>3 DEF Orderly, TRANSICOES_VALIDAS, Ride, Status
<1>5. ride.auction # "open"
  BY <1>4 DEF SagaInv, OpenUnsettled, Unsettled
<1>6. /\ new \in Ride
      /\ new.status = req[h].to
      /\ new.auction = loaded.auction /\ new.recipient = loaded.recipient
  BY <1>2 DEF Transitioned, Ride
<1>7. ride' = Flush(ride, loaded, new)
  BY DEF PatchCommit
<1> HIDE DEF loaded, new
<1>8. /\ ride'.status = IF new.status # loaded.status THEN new.status ELSE ride.status
      /\ ride'.auction = IF new.auction # loaded.auction THEN new.auction ELSE ride.auction
      /\ ride'.recipient = IF new.recipient # loaded.recipient THEN new.recipient
                                                               ELSE ride.recipient
  BY <1>1, <1>2, <1>6, <1>7, FlushRide
<1> QED
  BY <1>3, <1>4, <1>5, <1>6, <1>8

(* With the monitor quiet, nothing else writes the ride.                   *)
LEMMA OthersKeep ==
  ASSUME Orderly, IndInv, SagaInv, Next, ~WorkerClose,
         \A h \in Handlers : ~PatchCommit(h) /\ ~PatchReopen(h)
  PROVE  UNCHANGED ride
<1>1. ~MonitorNext
  BY QuietSteps DEF Orderly, SagaInv
<1> QED
  BY <1>1, RideFrame DEF WritesRide, MonitorNext
-----------------------------------------------------------------------------
(* The invariant.                                                          *)

(* A request that is validated has seen the row; one that moves on has     *)
(* what it saw, or has written it itself.                                  *)
LEMMA RequestAgrees ==
  ASSUME Orderly, IndInv, SagaInv, NEW h \in Handlers,
         RequestArrives(h) \/ RequestContinues(h)
  PROVE  PatchAgrees(req[h])'
<1>1. req \in [Handlers -> ReqType] /\ PatchAgrees(req[h])
  BY DEF IndInv, TypeOK, SagaInv
<1>2. CASE Answer(h)
  BY <1>1, <1>2 DEF Answer, Become, IdleReq, PatchAgrees
<1>3. CASE PatchReadRide(h) /\ ~Answer(h)
  <2>1. /\ UNCHANGED ride
        /\ req[h].to \in TRANSICOES_VALIDAS[ride.status]
        /\ Become(h, [req[h] EXCEPT !.pc = "patch_lock", !.ride = ride])
    BY <1>3 DEF PatchReadRide, tables
  <2>2. /\ req'[h].pc = "patch_lock" /\ req'[h].ride = ride
        /\ req'[h].to = req[h].to
    BY <1>1, <2>1 DEF Become, ReqType
  <2> QED
    BY <2>1, <2>2 DEF PatchAgrees
<1>4. CASE PatchReadLock(h) /\ ~Answer(h)
  <2>1. /\ UNCHANGED ride /\ req[h].pc = "patch_lock"
        /\ Become(h, [req[h] EXCEPT !.pc = "patch_commit"])
    BY <1>4 DEF PatchReadLock, tables
  <2>2. /\ req'[h].pc = "patch_commit" /\ req'[h].ride = req[h].ride
        /\ req'[h].to = req[h].to
    BY <1>1, <2>1 DEF Become, ReqType
  <2> QED
    BY <1>1, <2>1, <2>2 DEF PatchAgrees
<1>5. CASE PatchCommit(h)
  <2>1. req'[h].pc = "patch_audit" /\ req'[h].to = req[h].to
    BY <1>1, <1>5 DEF PatchCommit, Become, ReqType
  <2> QED
    BY <1>5, <2>1, CommitWritesStatus DEF PatchAgrees
<1>6. CASE PatchAudit(h) /\ ~Answer(h)
  <2>1. /\ UNCHANGED ride /\ req[h].pc = "patch_audit" /\ req[h].to = "compensating"
        /\ Become(h, [req[h] EXCEPT !.pc = "patch_reopen", !.ride = ride])
    BY <1>6 DEF PatchAudit
  <2>2. req'[h].pc = "patch_reopen" /\ req'[h].to = req[h].to
    BY <1>1, <2>1 DEF Become, ReqType
  <2> QED
    BY <1>1, <2>1, <2>2 DEF PatchAgrees
<1>7. CASE RequestArrives(h) \/ PatchReopen(h) \/ AcquireSelect(h)
  <2>1. req'[h].pc \in {"patch_ride", "patch_publish", "acquire_select",
                        "acquire_commit", "release_delete"}
    <3>1. CASE PatchBegin(h)
      <4>1. PICK svc \in Groups, to \in Targets, ts \in Timestamps :
              Become(h, [req[h] EXCEPT !.pc = "patch_ride", !.svc = svc,
                                       !.to = to, !.ts = ts])
        BY <3>1 DEF PatchBegin
      <4> QED
        BY <1>1, <4>1 DEF Become, ReqType
    <3>2. CASE AcquireCheck(h)
      <4>1. PICK svc \in Groups :
              Become(h, [req[h] EXCEPT !.pc = "acquire_select", !.svc = svc,
                                       !.seen = Seen(lock)])
        BY <3>2 DEF AcquireCheck
      <4> QED
        BY <1>1, <4>1 DEF Become, ReqType
    <3>3. CASE ReleaseCheck(h) \/ PatchReopen(h) \/ AcquireSelect(h)
      BY <1>1, <3>3 DEF ReleaseCheck, PatchReopen, AcquireSelect, Become, ReqType
    <3> QED
      BY <1>7, <3>1, <3>2, <3>3 DEF RequestArrives
  <2> QED
    BY <2>1 DEF PatchAgrees
<1>8. CASE PatchPublish(h) \/ AcquireCommit(h) \/ ReleaseDelete(h)
  BY <1>2, <1>8 DEF PatchPublish, AcquireCommit, ReleaseDelete
<1> QED
  BY <1>2, <1>3, <1>4, <1>5, <1>6, <1>7, <1>8 DEF RequestContinues

LEMMA RequestSaga ==
  ASSUME Orderly, IndInv, SagaInv, Next, NEW h \in Handlers,
         RequestArrives(h) \/ RequestContinues(h)
  PROVE  SagaInv'
<1>1. \A g \in Handlers : PatchAgrees(req[g])'
  BY RequestAgrees DEF Orderly, Serial
<1>2. UNCHANGED worker
  BY DEF RequestArrives, PatchBegin, AcquireCheck, ReleaseCheck, RequestContinues,
     PatchReadRide, PatchReadLock, PatchCommit, PatchAudit, PatchReopen, PatchPublish,
     AcquireSelect, AcquireCommit, ReleaseDelete
<1>3. OpenUnsettled'
  <2>1. CASE PatchCommit(h)
    BY <2>1, CommitWritesStatus DEF OpenUnsettled
  <2>2. CASE PatchReopen(h)
    <3>1. ride.status = "compensating"
      BY <2>2 DEF SagaInv, PatchAgrees, PatchReopen
    <3> QED
      BY <2>2, <3>1, PatchReopenRow DEF OpenUnsettled, Unsettled
  <2>3. CASE ~PatchCommit(h) /\ ~PatchReopen(h)
    <3>1. UNCHANGED ride
      BY <2>3 DEF RequestArrives, PatchBegin, AcquireCheck, ReleaseCheck,
         RequestContinues, PatchReadRide, PatchReadLock, PatchAudit, PatchPublish,
         AcquireSelect, AcquireCommit, ReleaseDelete, tables
    <3> QED
      BY <3>1 DEF SagaInv, OpenUnsettled
  <2> QED
    BY <2>1, <2>2, <2>3
<1> QED
  BY <1>1, <1>2, <1>3, QuietStays DEF Orderly, SagaInv, WorkerUnsettled

(* The worker settles only an open auction, and then no PATCH is between   *)
(* its validation and its commit.                                          *)
LEMMA WorkerSaga ==
  ASSUME Orderly, IndInv, SagaInv, Next, WorkerNext
  PROVE  SagaInv'
<1>1. UNCHANGED req
  BY DEF WorkerNext, WorkerIgnore, WorkerTake, WorkerSelect, WorkerClose,
     WorkerDropLock, WorkerSelectLock, WorkerTransfer, WorkerAck
<1>2. CASE WorkerClose
  <2>1. ride.auction = "open"
    BY <1>2 DEF IndInv, WorkerInv, WorkerClose
  <2>2. \A h \in Handlers : PatchAgrees(req[h])'
    <3> SUFFICES ASSUME NEW h \in Handlers PROVE PatchAgrees(req[h])'
      OBVIOUS
    <3>1. req[h].pc \notin {"patch_lock", "patch_commit"}
      <4>1. ride.status \in Unsettled
        BY <1>2, CloseWrites DEF SagaInv
      <4>2. req[h].pc \in {"patch_lock", "patch_commit"} => req[h].to \in Targets
        BY DEF IndInv, ReqInv, ReqOK, PatchPcs
      <4> QED
        BY <4>1, <4>2 DEF Orderly, SagaInv, PatchAgrees, Unsettled, Status,
           TRANSICOES_VALIDAS
    <3> QED
      BY <1>1, <2>1, <3>1 DEF SagaInv, PatchAgrees
  <2>3. worker'.pc = "settle"
    BY <1>2 DEF WorkerClose, IndInv, TypeOK, WorkerType
  <2> QED
    BY <1>2, <2>2, <2>3, CloseWrites, QuietStays
       DEF Orderly, SagaInv, OpenUnsettled, WorkerUnsettled
<1>3. CASE ~WorkerClose
  <2>1. UNCHANGED ride
    BY <1>3 DEF WorkerNext, WorkerIgnore, WorkerTake, WorkerSelect, WorkerDropLock,
       WorkerSelectLock, WorkerTransfer, WorkerAck, tables
  <2>2. WorkerUnsettled'
    BY UnsettledWorker DEF SagaInv
  <2>3. OpenUnsettled' /\ \A h \in Handlers : PatchAgrees(req[h])'
    BY <1>1, <2>1 DEF SagaInv, OpenUnsettled, PatchAgrees
  <2> QED
    BY <2>2, <2>3, QuietStays DEF Orderly, SagaInv
<1> QED
  BY <1>2, <1>3

LEMMA SagaInd ==
  ASSUME Orderly, IndInv, SagaInv, [Next]_vars
  PROVE  SagaInv'
<1>1. CASE UNCHANGED vars
  BY <1>1 DEF vars, SagaInv, Quiet, OpenUnsettled, WorkerUnsettled, PatchAgrees
<1>2. CASE Next /\ \E h \in Handlers : RequestArrives(h) \/ RequestContinues(h)
  BY <1>2, RequestSaga
<1>3. CASE Next /\ WorkerNext
  BY <1>3, WorkerSaga
<1>4. CASE Next /\ (CreateNext \/ CreateRaises \/ WorkerRaises \/ MonitorRaises \/ Crash
                    \/ \E h \in Handlers : RequestRaises(h))
  <2>1. UNCHANGED ride /\ worker' \in {worker, IdleWorker}
        /\ \A h \in Handlers : req'[h] \in {req[h], IdleReq}
    <3>1. req \in [Handlers -> ReqType]
      BY DEF IndInv, TypeOK
    <3> QED
      BY <1>4, <3>1 DEF CreateNext, CreateSelectLock, CreateLock, CreatePublish,
         CreateRaises, WorkerRaises, MonitorRaises, RequestRaises, Raise, Answer,
         Become, Crash, tables
  <2>2. WorkerUnsettled' /\ OpenUnsettled'
    BY <2>1 DEF SagaInv, WorkerUnsettled, OpenUnsettled, IdleWorker
  <2>3. ASSUME NEW h \in Handlers PROVE PatchAgrees(req[h])'
    BY <2>1 DEF SagaInv, PatchAgrees, IdleReq
  <2> QED
    BY <1>4, <2>2, <2>3, QuietStays DEF Orderly, SagaInv
<1>5. ~MonitorNext /\ ~LockExpires
  BY QuietSteps DEF Orderly, SagaInv
<1> QED
  BY <1>1, <1>2, <1>3, <1>4, <1>5 DEF Next

LEMMA SagaInit == Init => SagaInv
BY DEF Init, SagaInv, Quiet, OpenUnsettled, WorkerUnsettled, Unsettled, PatchAgrees,
   IdleMonitor, IdleWorker, IdleReq, NewRide

Follows == ride'.status # ride.status => ride'.status \in SagaEdge(ride.status)

LEMMA FollowsStep ==
  ASSUME Orderly, IndInv, SagaInv, [Next]_vars
  PROVE  Follows
<1>1. CASE UNCHANGED vars
  BY <1>1 DEF vars, Follows
<1>2. CASE Next /\ WorkerClose
  BY <1>2, CloseWrites DEF SagaInv, Follows, SagaEdge, Unsettled
<1>3. ASSUME Next, NEW h \in Handlers, PatchCommit(h) PROVE Follows
  BY <1>3, CommitWritesStatus DEF Follows, SagaEdge
<1>4. ASSUME Next, NEW h \in Handlers, PatchReopen(h) PROVE Follows
  BY <1>4, PatchReopenRow DEF Follows
<1> QED
  BY <1>1, <1>2, <1>3, <1>4, OthersKeep DEF Follows

(* Orderly clients, one request at a time: although the worker and each    *)
(* PATCH write a row they read earlier, every change of the status follows *)
(* an edge of the saga -- whatever messages are lost or repeated, and      *)
(* wherever the core raises or crashes.                                    *)
THEOREM OrderlySaga ==
  ASSUME Orderly
  PROVE  Spec => StepsFollowSaga
<1>1. Init => SagaInv
  BY SagaInit
<1>2. IndInv /\ SagaInv /\ [Next]_vars => SagaInv'
  BY SagaInd
<1>3. IndInv /\ SagaInv /\ [Next]_vars => Follows
  BY FollowsStep
<1>4. Follows => (ride'.status # ride.status => ride'.status \in SagaEdge(ride.status))
  BY DEF Follows
<1> QED
  BY <1>1, <1>2, <1>3, <1>4, Invariance, PTL DEF Spec, StepsFollowSaga
-----------------------------------------------------------------------------
(* The lock of the winner.  For this nobody may release it, no error or    *)
(* crash may come between the match and the transfer, and clients act on   *)
(* the ride only when POST /rides has told them its rideUuid.              *)

Undisturbed ==
  /\ Orderly
  /\ ~EarlyRequests /\ "release" \notin Operations
  /\ Faults \subseteq {"lost", "dup"}

Ended == ride.status \in ESTADOS_TERMINAIS

(* Until POST /rides is done nothing else happens; from then on the ride   *)
(* has a lock until it ends.                                               *)
CreateInv ==
  IF create = Created
  THEN Ended \/ lock # None
  ELSE /\ create.pc \in {"select", "lock", "publish"}
       /\ create.pc = "publish" <=> lock # None
       /\ create.seen = None
       /\ ride.status = "request" /\ queue = <<>> /\ worker.pc = "idle"
       /\ \A h \in Handlers : req[h].pc = "idle"

(* The row the worker is going to renew for the winner is still there, and *)
(* with the holder it has seen.                                            *)
TransferInv ==
  /\ worker.pc = "settle" /\ worker.winner = None => ride.status = "cancelled"
  /\ worker.pc \in {"settle", "transfer"} /\ worker.winner # None =>
       ride.recipient = worker.winner
  /\ worker.pc = "transfer" /\ ~Ended => lock # None /\ worker.seen = Seen(lock)
  /\ worker.pc \in {"idle", "ack"} /\ ride.status \in {"match", "confirm", "in_transit"}
       => lock.holder = ride.recipient

(* A request to acquire saw its group hold the row that is still there, so *)
(* it will not write held_by.                                              *)
AcquireAgrees(r) ==
  /\ r.pc # "release_delete"
  /\ r.pc \in {"acquire_select", "acquire_commit"} /\ ~Ended =>
       lock # None /\ r.seen = [holder |-> r.svc, row |-> lock.row]

LockInv == CreateInv /\ TransferInv /\ \A h \in Handlers : AcquireAgrees(req[h])

LEMMA LockInit == Init => LockInv
BY DEF Init, LockInv, CreateInv, TransferInv, AcquireAgrees, Ended, Created,
   IdleWorker, IdleReq, NewRide, ESTADOS_TERMINAIS

LEMMA EndedStep ==
  ASSUME Orderly, IndInv, SagaInv, [Next]_vars
  PROVE  Ended => Ended'
BY FollowsStep
   DEF Follows, SagaEdge, TRANSICOES_VALIDAS, ESTADOS_TERMINAIS, Status, Ended

LEMMA SeenSome ==
  ASSUME NEW l \in Lock
  PROVE  /\ l # None
         /\ Seen(l) = [holder |-> l.holder, row |-> l.row]
         /\ Seen(l) # None
         /\ Seen(l).holder = l.holder /\ Seen(l).row = l.row
<1>1. l # None
  BY NoneAssumption
<1>2. Seen(l) = [holder |-> l.holder, row |-> l.row]
  BY <1>1 DEF Seen
<1>3. Seen(l) \in SeenLock
  BY <1>2 DEF Lock, SeenLock
<1> QED
  BY <1>1, <1>2, <1>3, NoneAssumption

(* Renewing the row as it is seen: the key stays, and held_by is written   *)
(* unless it is the holder's own.                                          *)
LEMMA Renew ==
  ASSUME lock \in Lock, NEW group \in Groups, Upsert(Seen(lock), group)
  PROVE  /\ lock' \in Lock
         /\ lock'.holder = group
         /\ lock'.row = lock.row
<1>1. Seen(lock) # None /\ Seen(lock).holder = lock.holder /\ Seen(lock).row = lock.row
  BY SeenSome
<1>2. HeldBy(Seen(lock), group) = group
  BY <1>1 DEF HeldBy
<1>3. PICK n \in Rows :
        /\ n = lock.row
        /\ lock' = [holder |-> group, expired |-> FALSE, row |-> n]
  BY <1>1, <1>2 DEF Upsert
<1> QED
  BY <1>3 DEF Lock

(* A renewal by the holder the session saw leaves the holder there is.     *)
LEMMA RenewSame ==
  ASSUME lock \in Lock, NEW svc \in Groups, NEW seen,
         seen = [holder |-> svc, row |-> lock.row], Upsert(seen, svc)
  PROVE  /\ lock' \in Lock
         /\ lock'.holder = lock.holder
         /\ lock'.row = lock.row
<1>1. seen \in SeenLock /\ seen.holder = svc /\ seen.row = lock.row
  BY DEF SeenLock, Lock
<1>2. seen # None
  BY <1>1, NoneAssumption
<1>3. HeldBy(seen, svc) = lock.holder
  BY <1>1, <1>2 DEF HeldBy
<1>4. PICK n \in Rows :
        /\ n = lock.row
        /\ lock' = [holder |-> lock.holder, expired |-> FALSE, row |-> n]
  BY <1>1, <1>2, <1>3 DEF Upsert
<1> QED
  BY <1>4 DEF Lock

LEMMA CreateNextLock ==
  ASSUME Undisturbed, IndInv, SagaInv, LockInv, CreateNext
  PROVE  LockInv'
<1>1. create # Created /\ create \in CreateType
  BY DEF CreateNext, CreateSelectLock, CreateLock, CreatePublish, Created, IndInv, TypeOK
<1>2. /\ create.pc = "publish" <=> lock # None
      /\ create.seen = None
      /\ ride.status = "request" /\ worker.pc = "idle"
      /\ \A h \in Handlers : req[h].pc = "idle"
  BY <1>1 DEF LockInv, CreateInv
<1>3. UNCHANGED <<ride, worker, req>>
  BY DEF CreateNext, CreateSelectLock, CreateLock, CreatePublish, tables
<1>4. TransferInv' /\ \A h \in Handlers : AcquireAgrees(req[h])'
  BY <1>2, <1>3 DEF TransferInv, AcquireAgrees
<1>5. CreateInv'
  <2>1. CASE CreateSelectLock
    <3>1. UNCHANGED <<lock, queue>> /\ create' = [pc |-> "lock", seen |-> None]
      BY <1>2, <2>1 DEF CreateSelectLock, Select, Seen, tables
    <3> QED
      BY <1>1, <1>2, <1>3, <2>1, <3>1 DEF CreateSelectLock, LockInv, CreateInv, Created
  <2>2. CASE CreateLock
    <3>1. CanUpsert(None)
      BY <1>2, <2>2 DEF CreateLock, CanUpsert
    <3>2. Upsert(None, Origin) /\ create' = [pc |-> "publish", seen |-> None]
      BY <1>2, <2>2, <3>1 DEF CreateLock
    <3>3. lock' # None
      BY <3>2, UpsertType, GroupsAssumption, NoneAssumption DEF IndInv, TypeOK
    <3> QED
      BY <1>1, <1>2, <1>3, <2>2, <3>2, <3>3 DEF CreateLock, LockInv, CreateInv, Created
  <2>3. CASE CreatePublish
    BY <1>2, <2>3 DEF CreatePublish, CreateInv, tables
  <2> QED
    BY <2>1, <2>2, <2>3 DEF CreateNext
<1> QED
  BY <1>4, <1>5 DEF LockInv

(* A request, once POST /rides is done.                                    *)
LEMMA RequestNeedsCreated ==
  ASSUME Undisturbed, LockInv, NEW h \in Handlers,
         RequestArrives(h) \/ RequestContinues(h)
  PROVE  create = Created /\ UNCHANGED <<create, worker>>
<1>1. create = Created
  <2>1. CASE RequestArrives(h)
    BY <2>1 DEF Undisturbed, RequestArrives, PatchBegin, AcquireCheck, ReleaseCheck,
       MayArrive
  <2>2. CASE RequestContinues(h)
    BY <2>2 DEF LockInv, CreateInv, RequestContinues, PatchReadRide, PatchReadLock,
       PatchCommit, PatchAudit, PatchReopen, PatchPublish, AcquireSelect,
       AcquireCommit, ReleaseDelete
  <2> QED
    BY <2>1, <2>2
<1> QED
  BY <1>1 DEF RequestArrives, PatchBegin, AcquireCheck, ReleaseCheck, RequestContinues,
     PatchReadRide, PatchReadLock, PatchCommit, PatchAudit, PatchReopen, PatchPublish,
     AcquireSelect, AcquireCommit, ReleaseDelete

LEMMA PatchNextLock ==
  ASSUME Undisturbed, IndInv, SagaInv, LockInv, [Next]_vars, NEW h \in Handlers,
         \/ PatchBegin(h) \/ PatchReadRide(h) \/ PatchReadLock(h) \/ PatchCommit(h)
         \/ PatchAudit(h) \/ PatchReopen(h) \/ PatchPublish(h)
  PROVE  LockInv'
<1>1. create = Created /\ UNCHANGED <<create, worker>>
  BY RequestNeedsCreated DEF RequestArrives, RequestContinues
<1>2. req'[h].pc \notin {"acquire_select", "acquire_commit", "release_delete"}
  <2>1. req \in [Handlers -> ReqType]
    BY DEF IndInv, TypeOK
  <2>2. CASE Answer(h)
    BY <2>1, <2>2 DEF Answer, Become, IdleReq
  <2>3. CASE PatchBegin(h)
    <3>1. PICK svc \in Groups, to \in Targets, ts \in Timestamps :
            Become(h, [req[h] EXCEPT !.pc = "patch_ride", !.svc = svc,
                                     !.to = to, !.ts = ts])
      BY <2>3 DEF PatchBegin
    <3> QED
      BY <2>1, <3>1 DEF Become, ReqType
  <2>4. CASE ~PatchBegin(h) /\ ~Answer(h)
    BY <2>1, <2>4 DEF PatchReadRide, PatchReadLock, PatchCommit, PatchAudit, PatchReopen,
       PatchPublish, Become, ReqType
  <2> QED
    BY <2>2, <2>3, <2>4
<1>3. \A g \in Handlers : AcquireAgrees(req[g])'
  BY <1>2 DEF Undisturbed, Orderly, Serial, AcquireAgrees
<1>4. CASE ~PatchCommit(h)
  <2>1. UNCHANGED lock /\ ride'.status = ride.status /\ ride'.recipient = ride.recipient
    <3>1. CASE PatchReopen(h)
      BY <3>1, PatchReopenRow DEF PatchReopen
    <3>2. CASE ~PatchReopen(h)
      BY <1>4, <3>2 DEF PatchBegin, PatchReadRide, PatchReadLock, PatchAudit,
         PatchPublish, tables
    <3> QED
      BY <3>1, <3>2
  <2> QED
    BY <1>1, <1>3, <2>1 DEF LockInv, CreateInv, TransferInv, Ended, Seen
<1>5. CASE PatchCommit(h)
  <2>1. /\ ride.status \in {"match", "confirm", "in_transit"}
        /\ ride'.status = req[h].to
        /\ req[h].to \in TRANSICOES_VALIDAS[ride.status]
        /\ ride'.recipient = ride.recipient
    BY <1>5, CommitWritesStatus DEF Undisturbed
  <2>2. req[h].to \notin ESTADOS_TERMINAIS => UNCHANGED lock
    BY <1>5 DEF PatchCommit
  <2>3. ~Ended /\ (Ended' <=> req[h].to \in ESTADOS_TERMINAIS)
    BY <2>1 DEF Ended, ESTADOS_TERMINAIS
  <2>4. ride'.status \in {"match", "confirm", "in_transit"} => ~Ended'
    BY DEF Ended, ESTADOS_TERMINAIS
  <2> QED
    BY <1>1, <1>3, <2>1, <2>2, <2>3, <2>4 DEF LockInv, CreateInv, TransferInv, Seen
<1> QED
  BY <1>4, <1>5

LEMMA AcquireNextLock ==
  ASSUME Undisturbed, IndInv, SagaInv, LockInv, [Next]_vars, NEW h \in Handlers,
         AcquireCheck(h) \/ AcquireSelect(h) \/ AcquireCommit(h)
  PROVE  LockInv'
<1>1. create = Created /\ UNCHANGED <<create, worker, ride>>
  BY RequestNeedsCreated
     DEF RequestArrives, RequestContinues, AcquireCheck, AcquireSelect, AcquireCommit, tables
<1>2. /\ req[h] \in ReqType /\ req \in [Handlers -> ReqType]
      /\ AcquireAgrees(req[h]) /\ ReqOK(req[h], ride.recipient)
      /\ lock \in Lock \cup {None}
      /\ ~Ended => lock # None
  BY <1>1 DEF IndInv, TypeOK, ReqInv, LockInv, CreateInv
<1>3. \A g \in Handlers : g = h
  BY DEF Undisturbed, Orderly, Serial
<1>4. CASE AcquireCheck(h)
  <2>1. PICK svc \in Groups :
          /\ lock # None /\ lock.holder # svc => lock.expired
          /\ Become(h, [req[h] EXCEPT !.pc = "acquire_select", !.svc = svc,
                                      !.seen = Seen(lock)])
    BY <1>4 DEF AcquireCheck
  <2>2. req'[h].pc = "acquire_select" /\ req'[h].svc = svc /\ req'[h].seen = Seen(lock)
    BY <1>2, <2>1 DEF Become, ReqType
  <2>3. ~Ended => lock \in Lock /\ lock.holder = svc
    BY <1>2, <2>1 DEF SagaInv, Quiet
  <2>4. UNCHANGED lock
    BY <1>4 DEF AcquireCheck, tables
  <2>5. AcquireAgrees(req[h])'
    BY <1>1, <2>2, <2>3, <2>4, SeenSome DEF AcquireAgrees, Ended
  <2> QED
    BY <1>1, <1>3, <2>4, <2>5 DEF LockInv, CreateInv, TransferInv, Ended, Seen
<1>5. CASE AcquireSelect(h)
  <2>1. UNCHANGED lock
    BY <1>5 DEF AcquireSelect, tables
  <2>2. req'[h].pc = "acquire_commit" /\ req'[h].svc = req[h].svc
        /\ req'[h].seen = Select(req[h].seen)
    BY <1>2, <1>5 DEF AcquireSelect, Become, ReqType
  <2>3. ~Ended => Select(req[h].seen) = req[h].seen
    <3> SUFFICES ASSUME ~Ended PROVE Select(req[h].seen) = req[h].seen
      OBVIOUS
    <3>1. /\ lock \in Lock /\ req[h].svc \in Groups
          /\ req[h].seen = [holder |-> req[h].svc, row |-> lock.row]
      BY <1>2, <1>5 DEF AcquireSelect, AcquireAgrees, ReqOK
    <3>2. req[h].seen \in SeenLock /\ req[h].seen.row = lock.row
      BY <3>1 DEF Lock, SeenLock
    <3> QED
      BY <3>1, <3>2, NoneAssumption DEF Select
  <2>4. AcquireAgrees(req[h])'
    BY <1>1, <1>2, <1>5, <2>1, <2>2, <2>3 DEF AcquireAgrees, Ended, AcquireSelect
  <2> QED
    BY <1>1, <1>3, <2>1, <2>4 DEF LockInv, CreateInv, TransferInv, Ended, Seen
<1>6. CASE AcquireCommit(h)
  <2>1. AcquireAgrees(req[h])'
    BY <1>2, <1>6 DEF AcquireCommit, Answer, Become, IdleReq, AcquireAgrees
  <2>2. ~Ended => lock \in Lock /\ lock' \in Lock
                  /\ lock'.holder = lock.holder /\ lock'.row = lock.row
    <3> SUFFICES ASSUME ~Ended
                 PROVE  lock \in Lock /\ lock' \in Lock
                        /\ lock'.holder = lock.holder /\ lock'.row = lock.row
      OBVIOUS
    <3>1. /\ lock \in Lock /\ req[h].svc \in Groups
          /\ req[h].seen = [holder |-> req[h].svc, row |-> lock.row]
      BY <1>2, <1>6 DEF AcquireCommit, AcquireAgrees, ReqOK
    <3>2. CASE Upsert(req[h].seen, req[h].svc)
      BY <3>1, <3>2, RenewSame
    <3>3. CASE UNCHANGED lock
      BY <3>1, <3>3
    <3> QED
      BY <1>6, <3>2, <3>3 DEF AcquireCommit
  <2>3. ~Ended => lock' # None /\ Seen(lock') = Seen(lock)
    BY <2>2, SeenSome
  <2>4. CreateInv' /\ TransferInv'
    <3>1. CASE Ended
      BY <1>1, <3>1 DEF LockInv, CreateInv, TransferInv, Ended, ESTADOS_TERMINAIS
    <3>2. CASE ~Ended
      BY <1>1, <2>2, <2>3, <3>2 DEF LockInv, CreateInv, TransferInv, Ended, Seen
    <3> QED
      BY <3>1, <3>2
  <2> QED
    BY <1>3, <2>1, <2>4 DEF LockInv
<1> QED
  BY <1>4, <1>5, <1>6

LEMMA WorkerNextLock ==
  ASSUME Undisturbed, IndInv, SagaInv, LockInv, [Next]_vars, WorkerNext
  PROVE  LockInv'
<1>1. create = Created /\ UNCHANGED <<create, req>>
  <2>1. worker.pc # "idle" \/ queue # <<>>
    BY DEF WorkerNext, WorkerIgnore, WorkerTake, WorkerSelect, WorkerClose,
       WorkerDropLock, WorkerSelectLock, WorkerTransfer, WorkerAck
  <2> QED
    BY <2>1 DEF LockInv, CreateInv, WorkerNext, WorkerIgnore, WorkerTake, WorkerSelect,
       WorkerClose, WorkerDropLock, WorkerSelectLock, WorkerTransfer, WorkerAck, tables
<1>2. /\ worker \in WorkerType /\ lock \in Lock \cup {None}
      /\ ~Ended => lock \in Lock
  BY <1>1 DEF IndInv, TypeOK, LockInv, CreateInv
<1>3. CASE WorkerIgnore \/ WorkerTake \/ WorkerSelect \/ WorkerAck
  <2>1. UNCHANGED <<ride, lock>>
    BY <1>3 DEF WorkerIgnore, WorkerTake, WorkerSelect, WorkerAck, tables
  <2>2. \/ UNCHANGED worker
        \/ worker'.pc \in {"gather", "close"}
        \/ worker.pc = "ack" /\ worker'.pc = "idle"
    <3>1. CASE WorkerSelect
      <4>1. PICK w \in Eligible(worker.excluded) \cup {None} :
              worker' = [worker EXCEPT !.pc = "close", !.winner = w, !.excluded = {}]
        BY <3>1 DEF WorkerSelect
      <4> QED
        BY <1>2, <4>1 DEF WorkerType
    <3>2. CASE WorkerTake
      BY <1>2, <3>2 DEF WorkerTake, WorkerType
    <3>3. CASE WorkerIgnore \/ WorkerAck
      BY <3>3 DEF WorkerIgnore, WorkerAck, IdleWorker
    <3> QED
      BY <1>3, <3>1, <3>2, <3>3
  <2> QED
    BY <1>1, <2>1, <2>2 DEF LockInv, CreateInv, TransferInv, AcquireAgrees, Ended, Seen
<1>4. CASE WorkerClose
  <2>1. /\ ride.status \in Unsettled
        /\ ride'.status = IF worker.winner = None THEN "cancelled" ELSE "match"
        /\ worker.winner # None => ride'.recipient = worker.winner
    BY <1>4, CloseWrites DEF SagaInv
  <2>2. UNCHANGED lock /\ worker'.pc = "settle" /\ worker'.winner = worker.winner
    BY <1>2, <1>4 DEF WorkerClose, WorkerType
  <2>3. ~Ended
    BY <2>1 DEF Ended, ESTADOS_TERMINAIS, Unsettled
  <2> QED
    BY <1>1, <2>1, <2>2, <2>3 DEF LockInv, CreateInv, TransferInv, AcquireAgrees
<1>5. CASE WorkerDropLock
  <2>1. ride.status = "cancelled" /\ UNCHANGED ride
    BY <1>5 DEF LockInv, TransferInv, WorkerDropLock
  <2>2. worker'.pc = "ack"
    BY <1>2, <1>5 DEF WorkerDropLock, WorkerType
  <2> QED
    BY <1>1, <2>1, <2>2
       DEF LockInv, CreateInv, TransferInv, AcquireAgrees, Ended, ESTADOS_TERMINAIS
<1>6. CASE WorkerSelectLock
  <2>1. UNCHANGED <<ride, lock>>
    BY <1>6 DEF WorkerSelectLock, tables
  <2>2. worker.pc = "settle" /\ worker'.pc = "transfer" /\ worker'.winner = worker.winner
        /\ worker.winner # None /\ worker'.seen = Seen(lock)
    BY <1>2, <1>6 DEF WorkerSelectLock, WorkerType, Select
  <2> QED
    BY <1>1, <1>2, <2>1, <2>2 DEF LockInv, CreateInv, TransferInv, AcquireAgrees, Ended, Seen
<1>7. CASE WorkerTransfer
  <2>1. UNCHANGED ride /\ worker.pc = "transfer" /\ worker.winner \in Groups
    BY <1>2, <1>7 DEF WorkerTransfer, IndInv, WorkerInv, WorkerType
  <2>2. worker'.pc \in {"idle", "ack"}
    <3>1. \/ worker' = [worker EXCEPT !.pc = "ack", !.seen = None]
          \/ worker' = IdleWorker
      BY <1>7 DEF WorkerTransfer
    <3>2. IdleWorker.pc = "idle"
      BY DEF IdleWorker
    <3> QED
      BY <1>2, <3>1, <3>2 DEF WorkerType
  <2>3. CASE Ended
    BY <1>1, <2>1, <2>2, <2>3
       DEF LockInv, CreateInv, TransferInv, AcquireAgrees, Ended, ESTADOS_TERMINAIS
  <2>4. CASE ~Ended
    <3>1. lock \in Lock /\ worker.seen = Seen(lock) /\ ride.recipient = worker.winner
      BY <1>2, <2>1, <2>4, GroupsAssumption DEF LockInv, TransferInv
    <3>2. CanUpsert(worker.seen)
      BY <3>1, SeenSome DEF CanUpsert
    <3>3. Upsert(Seen(lock), worker.winner)
      BY <1>7, <3>1, <3>2 DEF WorkerTransfer
    <3>4. lock' \in Lock /\ lock'.holder = worker.winner /\ lock'.row = lock.row
      BY <2>1, <3>1, <3>3, Renew
    <3>5. lock' # None
      BY <3>4, SeenSome
    <3>6. CreateInv' /\ TransferInv'
      BY <1>1, <2>1, <2>2, <3>1, <3>4, <3>5 DEF CreateInv, TransferInv
    <3>7. \A h \in Handlers : AcquireAgrees(req[h])'
      BY <1>1, <2>1, <2>4, <3>4, <3>5 DEF LockInv, AcquireAgrees, Ended
    <3> QED
      BY <3>6, <3>7 DEF LockInv
  <2> QED
    BY <2>3, <2>4
<1> QED
  BY <1>3, <1>4, <1>5, <1>6, <1>7 DEF WorkerNext

LEMMA LockInvInd ==
  ASSUME Undisturbed, IndInv, SagaInv, LockInv, [Next]_vars
  PROVE  LockInv'
<1>1. CASE UNCHANGED vars
  BY <1>1 DEF vars, LockInv, CreateInv, TransferInv, AcquireAgrees, Ended, Seen
<1>2. ~MonitorNext /\ ~LockExpires
  BY QuietSteps DEF Undisturbed, Orderly, SagaInv
<1>3. /\ ~CreateRaises /\ ~WorkerRaises /\ ~MonitorRaises /\ ~Crash
      /\ \A h \in Handlers : ~RequestRaises(h)
  BY DEF Undisturbed, CreateRaises, WorkerRaises, MonitorRaises, RequestRaises, Raise, Crash
<1>4. ASSUME NEW h \in Handlers PROVE ~ReleaseCheck(h) /\ ~ReleaseDelete(h)
  BY DEF Undisturbed, ReleaseCheck, ReleaseDelete, LockInv, AcquireAgrees
<1>5. ASSUME NEW h \in Handlers, RequestArrives(h) \/ RequestContinues(h)
      PROVE  LockInv'
  BY <1>4, <1>5, PatchNextLock, AcquireNextLock DEF RequestArrives, RequestContinues
<1>6. CASE CreateNext
  BY <1>6, CreateNextLock
<1>7. CASE WorkerNext
  BY <1>7, WorkerNextLock
<1> QED
  BY <1>1, <1>2, <1>3, <1>5, <1>6, <1>7 DEF Next

(* Orderly and undisturbed clients: between auctions a ride under way is   *)
(* locked by its recipient.  The renewal of the origin that was checked    *)
(* before the transfer and commits after it does not take the lock back,   *)
(* and whatever duplicates of the request arrive, the row the worker saw   *)
(* is there when it renews it.                                             *)
THEOREM WinnerLock ==
  ASSUME Undisturbed
  PROVE  Spec => []WinnerHoldsLock
<1>1. Orderly
  BY DEF Undisturbed
<1>2. Init => SagaInv /\ LockInv
  BY SagaInit, LockInit
<1>3. IndInv /\ SagaInv /\ LockInv /\ [Next]_vars => SagaInv' /\ LockInv'
  BY <1>1, SagaInd, LockInvInd
<1>4. SagaInv /\ LockInv => WinnerHoldsLock
  BY DEF LockInv, CreateInv, TransferInv, Ended, ESTADOS_TERMINAIS, WinnerHoldsLock
<1> QED
  BY <1>2, <1>3, <1>4, Invariance, PTL DEF Spec
-----------------------------------------------------------------------------
(* Failed winners again, now with the compensations of clients: they can   *)
(* overtake neither the auction before, whose message the worker has not   *)
(* yet acknowledged, nor their own message.  Only a message that is        *)
(* published twice could come back (dup).                                  *)

(* The first message whose auction is still to come.                       *)
First == IF worker.pc \in {"settle", "transfer", "ack"} THEN 2 ELSE 1

NoneToCome == Len(queue) < First

OneToCome(excluded) ==
  Len(queue) <= First /\ \A i \in First..Len(queue) : queue[i] = excluded

(* At most one message, for an open auction, and up to date; none while a  *)
(* compensation is between the settled auction and its own message.        *)
FreshRequest(r) ==
  /\ r.pc = "patch_reopen" => r.ride.auction # "open"
  /\ r.pc = "patch_publish" =>
       r.excluded = ride.excluded /\ ride.auction = "open" /\ NoneToCome

FreshTables ==
  /\ create # Created => ride.auction = "open" /\ ride.excluded = {}
  /\ ride.auction # "open" => NoneToCome
  /\ OneToCome(ride.excluded)
  /\ worker.pc = "gather" => worker.excluded = ride.excluded
  /\ worker.pc = "close" => worker.winner \notin ride.excluded

FreshInv == ~Ended => FreshTables /\ \A h \in Handlers : FreshRequest(req[h])

LEMMA FreshInit == Init => FreshInv
BY DEF Init, FreshInv, FreshTables, FreshRequest, NoneToCome, OneToCome, First, NewRide,
   IdleWorker, IdleReq

(* A message that is on its way arrives alone, or behind the one that is   *)
(* being settled.                                                          *)
LEMMA PublishAlone ==
  ASSUME "dup" \notin Faults, IndInv, NEW excluded \in SUBSET Groups,
         NoneToCome, Publish(excluded), UNCHANGED worker
  PROVE  OneToCome(excluded)'
<1>1. queue \in Seq(SUBSET Groups) /\ First' = First /\ First \in Nat
  BY DEF IndInv, TypeOK, First
<1>2. queue' = queue \/ queue' = Append(queue, excluded)
  BY DEF Publish
<1> QED
  BY <1>1, <1>2 DEF NoneToCome, OneToCome

LEMMA CreateFresh ==
  ASSUME Undisturbed, "dup" \notin Faults, IndInv, LockInv, FreshInv, CreateNext
  PROVE  FreshInv'
<1>1. create # Created
  BY DEF CreateNext, CreateSelectLock, CreateLock, CreatePublish, Created
<1>2. /\ worker.pc = "idle" /\ queue = <<>> /\ ride.status = "request"
      /\ \A h \in Handlers : req[h].pc = "idle"
  BY <1>1 DEF LockInv, CreateInv
<1>3. UNCHANGED <<ride, worker, req>>
  BY DEF CreateNext, CreateSelectLock, CreateLock, CreatePublish, tables
<1>4. ~Ended
  BY <1>2 DEF Ended, ESTADOS_TERMINAIS
<1>5. ride.auction = "open" /\ ride.excluded = {}
  BY <1>1, <1>4 DEF FreshInv, FreshTables
<1>6. OneToCome({})'
  <2>1. NoneToCome
    BY <1>2 DEF NoneToCome, First
  <2>2. CASE CreatePublish
    BY <1>3, <2>1, <2>2, PublishAlone DEF CreatePublish
  <2>3. CASE CreateSelectLock \/ CreateLock
    BY <1>2, <1>3, <2>3 DEF CreateSelectLock, CreateLock, OneToCome, First
  <2> QED
    BY <2>2, <2>3 DEF CreateNext
<1> QED
  BY <1>2, <1>3, <1>5, <1>6 DEF FreshInv, FreshTables, FreshRequest

LEMMA RequestFresh ==
  ASSUME Undisturbed, "dup" \notin Faults, IndInv, SagaInv, LockInv, FreshInv, Next,
         NEW h \in Handlers, Requested(h)
  PROVE  FreshInv'
<1> SUFFICES ASSUME ~Ended' PROVE FreshTables' /\ \A k \in Handlers : FreshRequest(req[k])'
  BY DEF FreshInv
<1>1. ~Ended
  BY EndedStep DEF Undisturbed
<1>2. FreshTables /\ FreshRequest(req[h]) /\ \A k \in Handlers : k = h
  BY <1>1 DEF FreshInv, Undisturbed, Orderly, Serial
<1>3. UNCHANGED <<create, worker>> /\ create = Created /\ First' = First
  BY RequestFrame, RequestNeedsCreated DEF Requested, First
<1>4. queue \in Seq(SUBSET Groups) /\ ride.excluded \in SUBSET Groups /\ First \in Nat
  BY DEF IndInv, TypeOK, Ride, First
<1>5. CASE PatchReopen(h)
  <2>1. ride.auction # "open" /\ UNCHANGED queue
    BY <1>5 DEF PatchReopen, SagaInv, PatchAgrees
  <2>2. NoneToCome /\ worker.pc \notin {"gather", "close"}
    BY <1>2, <2>1 DEF FreshTables, IndInv, WorkerInv
  <2>3. /\ ride'.auction = "open"
        /\ ride'.excluded = Excluidos(req[h].ride, req[h].svc)
    BY <1>2, <1>5, PatchReopenRow DEF FreshRequest, PatchReopen
  <2>4. NoneToCome' /\ OneToCome(ride.excluded)'
    BY <1>3, <1>4, <2>1, <2>2 DEF NoneToCome, OneToCome
  <2>5. /\ req'[h].pc = "patch_publish"
        /\ req'[h].excluded = Excluidos(req[h].ride, req[h].svc)
    BY <1>5 DEF PatchReopen, Become, IndInv, TypeOK, ReqType
  <2>6. FreshRequest(req[h])'
    BY <2>3, <2>4, <2>5 DEF FreshRequest
  <2> QED
    BY <1>2, <1>3, <2>2, <2>3, <2>4, <2>6 DEF FreshTables
<1>6. CASE PatchPublish(h)
  <2>1. /\ NoneToCome /\ ride.auction = "open" /\ Publish(ride.excluded)
        /\ UNCHANGED ride
    BY <1>2, <1>6 DEF PatchPublish, FreshRequest, tables
  <2>2. OneToCome(ride.excluded)'
    BY <1>3, <1>4, <2>1, PublishAlone
  <2>3. req'[h].pc = "idle"
    BY <1>6 DEF PatchPublish, Answer, Become, IdleReq, IndInv, TypeOK
  <2> QED
    BY <1>2, <1>3, <2>1, <2>2, <2>3 DEF FreshTables, FreshRequest
<1>7. CASE ~PatchReopen(h) /\ ~PatchPublish(h)
  <2>1. ride'.auction = ride.auction /\ ride'.excluded = ride.excluded
    <3>1. CASE PatchCommit(h)
      BY <3>1, CommitRow
    <3>2. CASE ~PatchCommit(h)
      BY <1>7, <3>2 DEF Requested, RequestArrives, PatchBegin, AcquireCheck, ReleaseCheck,
         RequestContinues, PatchReadRide, PatchReadLock, PatchAudit, AcquireSelect,
         AcquireCommit, ReleaseDelete, tables
    <3> QED
      BY <3>1, <3>2
  <2>2. UNCHANGED queue
    BY <1>7 DEF Requested, RequestArrives, PatchBegin, AcquireCheck, ReleaseCheck,
       RequestContinues, PatchReadRide, PatchReadLock, PatchCommit, PatchAudit,
       AcquireSelect, AcquireCommit, ReleaseDelete, tables
  <2>3. FreshRequest(req[h])'
    <3>1. req'[h].pc # "patch_publish"
      BY <1>7, RequestGoes DEF Requested
    <3>2. req'[h].pc = "patch_reopen" => req'[h].ride.auction # "open"
      BY RequestGoes DEF PatchAudit, SagaInv, PatchAgrees
    <3> QED
      BY <3>1, <3>2 DEF FreshRequest
  <2> QED
    BY <1>2, <1>3, <2>1, <2>2, <2>3 DEF FreshTables, NoneToCome, OneToCome
<1> QED
  BY <1>5, <1>6, <1>7

(* Settling takes the only message out of those to come; the nack puts it  *)
(* back, but only when the ride has ended meanwhile.                       *)
LEMMA WorkerFresh ==
  ASSUME Undisturbed, IndInv, SagaInv, LockInv, FreshInv, Next, WorkerNext
  PROVE  FreshInv'
<1> SUFFICES ASSUME ~Ended' PROVE FreshTables' /\ \A h \in Handlers : FreshRequest(req[h])'
  BY DEF FreshInv
<1>1. ~Ended
  BY EndedStep DEF Undisturbed
<1>2. FreshTables /\ \A h \in Handlers : FreshRequest(req[h])
  BY <1>1 DEF FreshInv
<1>3. UNCHANGED <<create, req>>
  BY DEF WorkerNext, WorkerIgnore, WorkerTake, WorkerSelect, WorkerClose, WorkerDropLock,
     WorkerSelectLock, WorkerTransfer, WorkerAck, tables
<1>4. /\ worker \in WorkerType /\ queue \in Seq(SUBSET Groups)
      /\ worker.pc # "idle" => queue # <<>> /\ Len(queue) >= 1
  BY DEF IndInv, TypeOK, WorkerInv
<1>5. CASE WorkerIgnore
  BY <1>2, <1>4, <1>5 DEF WorkerIgnore, FreshTables, AuctionIsOpen, NoneToCome, First
<1>6. CASE WorkerTake \/ WorkerSelect
  <2>1. UNCHANGED <<ride, queue>> /\ worker.pc \in {"idle", "gather"}
    BY <1>6 DEF WorkerTake, WorkerSelect, tables
  <2>2. worker'.pc \in {"gather", "close"} /\ worker' # worker
    <3>1. CASE WorkerTake
      BY <1>4, <3>1 DEF WorkerTake, WorkerType
    <3>2. CASE WorkerSelect
      <4>1. PICK w \in Eligible(worker.excluded) \cup {None} :
              worker' = [worker EXCEPT !.pc = "close", !.winner = w, !.excluded = {}]
        BY <3>2 DEF WorkerSelect
      <4>2. worker'.pc = "close" /\ worker.pc = "gather"
        BY <1>4, <3>2, <4>1 DEF WorkerSelect, WorkerType
      <4> QED
        BY <4>2
    <3> QED
      BY <1>6, <3>1, <3>2
  <2>3. First = 1 /\ First' = 1
    BY <2>1, <2>2 DEF First
  <2>4. worker'.pc = "gather" => worker'.excluded = ride.excluded
    <3>1. queue # <<>> => Head(queue) = ride.excluded
      BY <1>2, <1>4, <2>3 DEF FreshTables, OneToCome
    <3> QED
      BY <2>2, <3>1, WorkerGoes
  <2>5. worker'.pc = "close" => worker'.winner \notin ride.excluded
    <3>1. ride.excluded \subseteq Groups
      BY DEF IndInv, TypeOK, Ride
    <3> QED
      BY <1>2, <2>2, <3>1, WorkerGoes, GroupsAssumption
         DEF WorkerSelect, FreshTables, Eligible
  <2> QED
    BY <1>2, <1>3, <2>1, <2>3, <2>4, <2>5
       DEF FreshTables, FreshRequest, NoneToCome, OneToCome
<1>7. CASE WorkerClose
  <2>1. /\ ride.auction = "open" /\ ride'.excluded = ride.excluded
        /\ worker.pc = "close" /\ worker'.pc = "settle" /\ UNCHANGED queue
    BY <1>4, <1>7, CloseRow DEF WorkerClose, WorkerType
  <2>2. First = 1 /\ First' = 2 /\ Len(queue) = 1
    <3>1. First = 1 /\ First' = 2
      BY <2>1 DEF First
    <3>2. Len(queue) <= 1
      BY <1>2, <3>1 DEF FreshTables, OneToCome
    <3>3. Len(queue) = 1
      <4>1. Len(queue) \in Nat
        BY <1>4
      <4>2. Len(queue) >= 1
        BY <1>4, <2>1
      <4> QED
        BY <3>2, <4>1, <4>2
    <3> QED
      BY <3>1, <3>3
  <2>3. NoneToCome' /\ OneToCome(ride.excluded)'
    BY <2>1, <2>2 DEF NoneToCome, OneToCome
  <2>4. create = Created
    BY <1>4, <2>1 DEF LockInv, CreateInv
  <2>5. \A h \in Handlers : req[h].pc \notin {"patch_reopen", "patch_publish"}
    BY <1>2, <2>1, <2>2 DEF FreshRequest, NoneToCome, SagaInv, PatchAgrees
  <2> QED
    BY <1>3, <2>1, <2>3, <2>4, <2>5 DEF FreshTables, FreshRequest
<1>8. CASE WorkerDropLock
  BY <1>1, <1>8 DEF WorkerDropLock, LockInv, TransferInv, Ended, ESTADOS_TERMINAIS
<1>9. CASE WorkerSelectLock \/ WorkerTransfer
  <2>1. UNCHANGED <<ride, queue>> /\ worker.pc \in {"settle", "transfer"}
    BY <1>9 DEF WorkerSelectLock, WorkerTransfer, tables
  <2>2. worker'.pc \in {"transfer", "ack"}
    <3>1. CASE WorkerSelectLock
      BY <1>4, <3>1 DEF WorkerSelectLock, WorkerType
    <3>2. CASE WorkerTransfer
      <4>1. lock \in Lock /\ worker.seen = Seen(lock)
        BY <1>1, <3>2 DEF WorkerTransfer, LockInv, TransferInv, IndInv, TypeOK
      <4>2. CanUpsert(worker.seen)
        BY <4>1, SeenSome DEF CanUpsert
      <4> QED
        BY <1>4, <3>2, <4>2 DEF WorkerTransfer, WorkerType
    <3> QED
      BY <1>9, <3>1, <3>2
  <2>3. First = 2 /\ First' = 2
    BY <2>1, <2>2 DEF First
  <2> QED
    BY <1>2, <1>3, <2>1, <2>2, <2>3 DEF FreshTables, FreshRequest, NoneToCome, OneToCome
<1>10. CASE WorkerAck
  <2>1. /\ UNCHANGED ride /\ queue' = Tail(queue) /\ worker.pc = "ack"
        /\ worker'.pc = "idle"
    BY <1>10 DEF WorkerAck, IdleWorker, tables
  <2>2. First = 2 /\ First' = 1
    BY <2>1 DEF First
  <2>3. /\ Len(queue') = Len(queue) - 1
        /\ \A i \in 1..Len(queue') : queue'[i] = queue[i + 1]
    BY <1>4, <2>1
  <2>4. (NoneToCome => NoneToCome') /\ OneToCome(ride.excluded)'
    BY <1>2, <1>4, <2>1, <2>2, <2>3 DEF NoneToCome, OneToCome, FreshTables
  <2> QED
    BY <1>2, <1>3, <2>1, <2>4 DEF FreshTables, FreshRequest
<1> QED
  BY <1>5, <1>6, <1>7, <1>8, <1>9, <1>10 DEF WorkerNext

LEMMA FreshInd ==
  ASSUME Undisturbed, "dup" \notin Faults, IndInv, SagaInv, LockInv, FreshInv, [Next]_vars
  PROVE  FreshInv'
<1>1. CASE UNCHANGED vars
  BY <1>1 DEF vars, FreshInv, FreshTables, FreshRequest, NoneToCome, OneToCome, First,
     Ended
<1>2. ~MonitorNext /\ ~LockExpires
  BY QuietSteps DEF Undisturbed, Orderly, SagaInv
<1>3. /\ ~CreateRaises /\ ~WorkerRaises /\ ~MonitorRaises /\ ~Crash
      /\ \A h \in Handlers : ~RequestRaises(h)
  BY DEF Undisturbed, CreateRaises, WorkerRaises, MonitorRaises, RequestRaises, Raise,
     Crash
<1>4. ASSUME Next, NEW h \in Handlers, RequestArrives(h) \/ RequestContinues(h)
      PROVE  FreshInv'
  BY <1>4, RequestFresh DEF Requested
<1> QED
  BY <1>1, <1>2, <1>3, <1>4, CreateFresh, WorkerFresh DEF Next

LEMMA ChoiceStep ==
  ASSUME IndInv, SagaInv, FreshInv, [Next]_vars
  PROVE  FreshWinner
<1>1. CASE WorkerClose
  <2>1. ~Ended
    BY <1>1, CloseWrites DEF SagaInv, Ended, Unsettled, ESTADOS_TERMINAIS
  <2> QED
    BY <1>1, <2>1, CloseRow DEF WorkerClose, FreshInv, FreshTables, FreshWinner
<1>2. CASE ~WorkerClose
  BY <1>2, OnlyCloseSettles DEF FreshWinner
<1> QED
  BY <1>1, <1>2

(* Undisturbed clients, who also compensate: a group that failed is not    *)
(* chosen again, unless a message is published twice.                      *)
THEOREM CompensatedNeverWins ==
  ASSUME Undisturbed, "dup" \notin Faults
  PROVE  Spec => NoRepeatWinner
<1>1. Orderly
  BY DEF Undisturbed
<1>2. Init => SagaInv /\ LockInv /\ FreshInv
  BY SagaInit, LockInit, FreshInit
<1>3. IndInv /\ SagaInv /\ LockInv /\ FreshInv /\ [Next]_vars
        => SagaInv' /\ LockInv' /\ FreshInv'
  BY <1>1, SagaInd, LockInvInd, FreshInd
<1>4. IndInv /\ SagaInv /\ FreshInv /\ [Next]_vars
        => (ride.auction = "open" /\ ride'.auction = "closed"
              => ride'.recipient \notin ride.excluded)
  BY ChoiceStep DEF FreshWinner
<1> QED
  BY <1>2, <1>3, <1>4, Invariance, PTL DEF Spec, NoRepeatWinner
=============================================================================
