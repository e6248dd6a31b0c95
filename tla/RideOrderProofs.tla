-------------------------- MODULE RideOrderProofs --------------------------
(***************************************************************************)
(* What the ride does not take back: the timestamp of a client, an         *)
(* excluded group, the failure of a winner, the end of the ride.  None of  *)
(* the four is safe against everything, because each depends on a row, a   *)
(* list or a message that some coroutine read or wrote earlier.  Each      *)
(* section names the least that clients, leases and monitor must not do    *)
(* together, and shows that then every interleaving, lost or repeated      *)
(* message, error and crash keeps what was recorded.                       *)
(***************************************************************************)
EXTENDS RideProofs

-----------------------------------------------------------------------------
(* The order of client timestamps.  PatchReadRide compares the request's   *)
(* timestamp with last_client_ts and PatchCommit writes it, in another     *)
(* step: with two PATCHes in progress the later commit need not carry the  *)
(* greater timestamp, and CausalOrder fails.  Here: it holds for clients   *)
(* that send one request at a time, against every interleaving with the    *)
(* worker, the monitor, expiring leases, faults and crashes.               *)

Serial == \A g, h \in Handlers : g = h

(* A PATCH that passed the comparison read, and will overwrite, an older   *)
(* timestamp.                                                              *)
Validated(r, lastTs) ==
  r.pc \in {"patch_lock", "patch_commit"} => lastTs < r.ts /\ r.ride.lastTs < r.ts

OrderInv == \A h \in Handlers : Validated(req[h], ride.lastTs)

SameTs == ride'.lastTs = ride.lastTs

(* Nothing but the commit of a PATCH changes last_client_ts.               *)
LEMMA OnlyPatchWrites ==
  ASSUME IndInv, Next, \A h \in Handlers : ~PatchCommit(h)
  PROVE  SameTs
<1>1. ASSUME NEW h \in Handlers, PatchReopen(h) PROVE SameTs
  BY <1>1, PatchReopenRow DEF SameTs
<1>2. CASE WorkerClose
  BY <1>2, CloseRow DEF SameTs
<1>3. CASE MonitorCompensate \/ MonitorReopen
  BY <1>3, CompensateRow, MonitorReopenRow DEF SameTs
<1> QED
  BY <1>1, <1>2, <1>3, RideFrame DEF WritesRide, SameTs

(* A commit moves last_client_ts to the timestamp of its request.          *)
LEMMA CommitWrites ==
  ASSUME IndInv, OrderInv, NEW h \in Handlers, PatchCommit(h)
  PROVE  ride'.lastTs = req[h].ts /\ ride.lastTs < req[h].ts
<1>1. req[h] \in ReqType /\ ReqOK(req[h], ride.recipient) /\ ride \in Ride
  BY DEF IndInv, TypeOK, ReqInv
<1>2. /\ req[h].to \in Status /\ req[h].ts \in 0..MaxTs /\ req[h].ride \in Ride
  BY <1>1, TargetsAssumption DEF PatchCommit, ReqOK, PatchPcs, ReqType
<1>3. ride.lastTs < req[h].ts /\ req[h].ride.lastTs < req[h].ts
  BY DEF OrderInv, Validated, PatchCommit
<1>4. req[h].ts # req[h].ride.lastTs
  BY <1>2, <1>3, BoundsAssumption DEF Ride
<1>5. ride' = Flush(ride, req[h].ride, Transitioned(req[h].ride, req[h].to, req[h].ts))
  BY DEF PatchCommit
<1>6. ride'.lastTs = IF req[h].ts # req[h].ride.lastTs THEN req[h].ts ELSE ride.lastTs
  <2> DEFINE loaded == req[h].ride
             to == req[h].to
             ts == req[h].ts
  <2>1. loaded \in Ride /\ to \in Status /\ ts \in 0..MaxTs
        /\ ride' = Flush(ride, loaded, Transitioned(loaded, to, ts))
    BY <1>2, <1>5
  <2> HIDE DEF loaded, to, ts
  <2>2. ride'.lastTs = IF ts # loaded.lastTs THEN ts ELSE ride.lastTs
    BY <1>1, <2>1, FlushStatus
  <2> QED
    BY <2>2 DEF loaded, ts
<1> QED
  BY <1>3, <1>4, <1>6

(* A step of the only request makes it pass the comparison or leave the    *)
(* places where it has passed.                                             *)
LEMMA RequestOrder ==
  ASSUME IndInv, OrderInv, NEW h \in Handlers, RequestArrives(h) \/ RequestContinues(h)
  PROVE  Validated(req'[h], ride'.lastTs)
<1>1. req \in [Handlers -> ReqType] /\ Validated(req[h], ride.lastTs)
  BY DEF IndInv, TypeOK, OrderInv
<1>2. CASE PatchReadRide(h)
  <2>1. UNCHANGED ride
    BY <1>2 DEF PatchReadRide, tables
  <2>2. CASE Newer(req[h].ts) /\ Become(h, [req[h] EXCEPT !.pc = "patch_lock", !.ride = ride])
    <3>1. req'[h].ts = req[h].ts /\ req'[h].ride = ride
      BY <1>1, <2>2 DEF Become, ReqType
    <3> QED
      BY <2>1, <2>2, <3>1 DEF Newer, Validated
  <2>3. CASE Answer(h)
    BY <1>1, <2>3 DEF Answer, Become, IdleReq, Validated
  <2> QED
    BY <1>2, <2>2, <2>3 DEF PatchReadRide
<1>3. CASE PatchReadLock(h)
  BY <1>1, <1>3 DEF PatchReadLock, Become, Answer, IdleReq, Validated, ReqType, tables
<1>4. CASE ~PatchReadRide(h) /\ ~PatchReadLock(h)
  <2>1. req'[h].pc \notin {"patch_lock", "patch_commit"}
    <3>1. CASE Answer(h)
      BY <1>1, <3>1 DEF Answer, Become, IdleReq
    <3>2. CASE RequestArrives(h)
      <4>1. CASE PatchBegin(h)
        <5>1. PICK svc \in Groups, to \in Targets, ts \in Timestamps :
                Become(h, [req[h] EXCEPT !.pc = "patch_ride", !.svc = svc,
                                         !.to = to, !.ts = ts])
          BY <4>1 DEF PatchBegin
        <5> QED
          BY <1>1, <5>1 DEF Become, ReqType
      <4>2. CASE AcquireCheck(h)
        <5>1. PICK svc \in Groups :
                Become(h, [req[h] EXCEPT !.pc = "acquire_select", !.svc = svc,
                                         !.seen = Seen(lock)])
          BY <4>2 DEF AcquireCheck
        <5> QED
          BY <1>1, <5>1 DEF Become, ReqType
      <4>3. CASE ReleaseCheck(h)
        BY <1>1, <4>3 DEF ReleaseCheck, Become, ReqType
      <4> QED
        BY <3>2, <4>1, <4>2, <4>3 DEF RequestArrives
    <3>3. CASE PatchCommit(h) \/ PatchAudit(h) \/ PatchReopen(h) \/ AcquireSelect(h)
      BY <1>1, <3>1, <3>3 DEF PatchCommit, PatchAudit, PatchReopen, AcquireSelect,
         Become, ReqType
    <3>4. CASE PatchPublish(h) \/ AcquireCommit(h) \/ ReleaseDelete(h)
      BY <3>1, <3>4 DEF PatchPublish, AcquireCommit, ReleaseDelete
    <3> QED
      BY <1>4, <3>2, <3>3, <3>4 DEF RequestContinues
  <2> QED
    BY <2>1 DEF Validated
<1> QED
  BY <1>2, <1>3, <1>4

LEMMA OrderInd ==
  ASSUME Serial, IndInv, OrderInv, [Next]_vars
  PROVE  OrderInv'
<1>1. CASE UNCHANGED vars
  BY <1>1 DEF vars, OrderInv
<1>2. ASSUME Next, NEW h \in Handlers PROVE Validated(req'[h], ride'.lastTs)
  <2>1. CASE Requested(h)
    BY <2>1, RequestOrder DEF Requested
  <2>2. CASE ~Requested(h)
    <3>1. req'[h] \in {req[h], IdleReq}
      BY <1>2, <2>2, RequestMoves
    <3>2. \A k \in Handlers : ~PatchCommit(k)
      BY <2>2 DEF Serial, Requested, RequestContinues
    <3>3. SameTs
      BY <1>2, <3>2, OnlyPatchWrites
    <3> QED
      BY <3>1, <3>3 DEF SameTs, OrderInv, Validated, IdleReq
  <2> QED
    BY <2>1, <2>2
<1> QED
  BY <1>1, <1>2 DEF OrderInv

(* A request whose pc moves from patch_commit to patch_audit committed.    *)
LEMMA CommitsCommit ==
  ASSUME IndInv, Next, NEW h \in Handlers, Commits(h)
  PROVE  PatchCommit(h)
<1>1. Requested(h)
  BY RequestMoves DEF Commits, IdleReq
<1> QED
  BY <1>1 DEF Commits, MayArrive, Requested, RequestArrives, RequestContinues,
     PatchBegin, AcquireCheck, ReleaseCheck, PatchReadRide, PatchReadLock, PatchAudit,
     PatchReopen, PatchPublish, AcquireSelect, AcquireCommit, ReleaseDelete

LEMMA OrderStep ==
  ASSUME IndInv, OrderInv, Next
  PROVE  KeepsOrder
<1>1. ride.lastTs \in Nat
  BY BoundsAssumption DEF IndInv, TypeOK, Ride
<1>2. ASSUME NEW h \in Handlers, PatchCommit(h)
      PROVE  ride'.lastTs > ride.lastTs
  <2>1. req[h].ts \in Nat
    BY BoundsAssumption DEF IndInv, TypeOK, ReqType
  <2> QED
    BY <1>1, <1>2, <2>1, CommitWrites
<1>3. ride'.lastTs >= ride.lastTs
  <2>1. CASE \E h \in Handlers : PatchCommit(h)
    <3>1. PICK h \in Handlers : PatchCommit(h)
      BY <2>1
    <3>2. req[h].ts \in Nat
      BY BoundsAssumption DEF IndInv, TypeOK, ReqType
    <3> QED
      BY <1>1, <3>1, <3>2, CommitWrites
  <2>2. CASE \A h \in Handlers : ~PatchCommit(h)
    BY <1>1, <2>2, OnlyPatchWrites DEF SameTs
  <2> QED
    BY <2>1, <2>2
<1> QED
  BY <1>2, <1>3, CommitsCommit DEF KeepsOrder

(* Clients that send one request at a time see last_client_ts only grow,   *)
(* and every PATCH that commits makes it grow.                             *)
THEOREM SerialCausalOrder ==
  ASSUME Serial
  PROVE  Spec => CausalOrder
<1>1. Init => OrderInv
  BY DEF Init, OrderInv, Validated, IdleReq
<1>2. IndInv /\ OrderInv /\ [Next]_vars => OrderInv'
  BY OrderInd
<1>3. IndInv /\ OrderInv /\ [Next]_vars => [KeepsOrder]_vars
  BY OrderStep
<1> QED
  BY <1>1, <1>2, <1>3, Invariance, PTL DEF Spec, CausalOrder
-----------------------------------------------------------------------------
(* Excluded groups.  Both compensations, the one a client asks for and the *)
(* monitor's, read the ride and write the list back with their group added *)
(* in another step: a list that grew in between loses a group.  Two        *)
(* requests can do that, and so can a request and the monitor; the monitor *)
(* alone cannot, and neither can one request where no lease runs out.      *)

OneCompensator == "compensating" \notin Targets \/ (Serial /\ ~LocksExpire)

(* The monitor never wakes up to an expired lock.                          *)
Quiet ==
  /\ monitor.pc = "idle"
  /\ lock # None => ~lock.expired

(* What is going to be written back is still what was read.                *)
ExcludedInv ==
  /\ LocksExpire \/ Quiet
  /\ monitor.pc = "reopen" => monitor.ride.excluded = ride.excluded
  /\ \A h \in Handlers : req[h].pc = "patch_reopen" =>
       req[h].to = "compensating" /\ req[h].ride.excluded = ride.excluded

LEMMA QuietSteps ==
  ASSUME ~LocksExpire, Quiet
  PROVE  ~MonitorNext /\ ~LockExpires
BY DEF Quiet, LockExpires, MonitorNext, MonitorList, MonitorReadRide, MonitorDrop,
   MonitorDelete, MonitorCompensate, MonitorRefresh, MonitorReopen, MonitorPublish

LEMMA QuietStays ==
  ASSUME ~LocksExpire, Quiet, Next
  PROVE  Quiet'
<1>1. ~MonitorNext /\ ~LockExpires
  BY QuietSteps
<1>2. monitor'.pc = "idle"
  BY <1>1, CoroutineFrame DEF Quiet, IdleMonitor
<1>3. lock' # None => ~lock'.expired
  BY <1>1, LockFrame DEF Quiet
<1> QED
  BY <1>2, <1>3 DEF Quiet

(* Nothing but opening an auction again writes excluded_groups.            *)
LEMMA OnlyReopenExcludes ==
  ASSUME IndInv, Next, ~MonitorReopen, \A h \in Handlers : ~PatchReopen(h)
  PROVE  ride'.excluded = ride.excluded
<1>1. ASSUME NEW h \in Handlers, PatchCommit(h) PROVE ride'.excluded = ride.excluded
  BY <1>1, CommitRow
<1> QED
  BY <1>1, CloseRow, CompensateRow, RideFrame DEF WritesRide

LEMMA ReopenAlone ==
  ASSUME OneCompensator, IndInv, ExcludedInv
  PROVE  /\ monitor.pc = "reopen" => \A h \in Handlers : req[h].pc # "patch_reopen"
         /\ \A h \in Handlers : req[h].pc = "patch_reopen" => Serial /\ ~LocksExpire
<1>1. ASSUME NEW h \in Handlers, req[h].pc = "patch_reopen"
      PROVE  Serial /\ ~LocksExpire
  BY <1>1 DEF OneCompensator, ExcludedInv, IndInv, ReqInv, ReqOK, PatchPcs
<1> QED
  BY <1>1 DEF ExcludedInv, Quiet

LEMMA ExcludedInd ==
  ASSUME OneCompensator, IndInv, ExcludedInv, Next
  PROVE  ExcludedInv' /\ ride.excluded \subseteq ride'.excluded
<1>1. LocksExpire \/ Quiet'
  BY QuietStays DEF ExcludedInv
<1>2. CASE MonitorReopen
  <2>1. LocksExpire
    BY <1>2, QuietSteps DEF ExcludedInv, MonitorNext
  <2>2. ride.excluded \subseteq ride'.excluded
    BY <1>2, MonitorReopenRow DEF MonitorReopen, ExcludedInv, Excluidos
  <2>3. monitor'.pc = "publish" /\ UNCHANGED req
    BY <1>2 DEF MonitorReopen, IdleMonitor
  <2>4. \A h \in Handlers : req[h].pc # "patch_reopen"
    BY <1>2, ReopenAlone DEF MonitorReopen
  <2> QED
    BY <2>1, <2>2, <2>3, <2>4 DEF ExcludedInv
<1>3. ASSUME NEW h \in Handlers, PatchReopen(h)
      PROVE  ExcludedInv' /\ ride.excluded \subseteq ride'.excluded
  <2>1. Serial /\ ~LocksExpire
    BY <1>3, ReopenAlone DEF PatchReopen
  <2>2. ride.excluded \subseteq ride'.excluded
    BY <1>3, PatchReopenRow DEF PatchReopen, ExcludedInv, Excluidos
  <2>3. req'[h].pc = "patch_publish"
    BY <1>3 DEF PatchReopen, Become, IndInv, TypeOK, ReqType
  <2>4. \A k \in Handlers : req'[k].pc # "patch_reopen"
    BY <2>1, <2>3 DEF Serial
  <2> QED
    BY <1>1, <2>1, <2>2, <2>4 DEF ExcludedInv, Quiet
<1>4. CASE ~MonitorReopen /\ \A h \in Handlers : ~PatchReopen(h)
  <2>1. ride'.excluded = ride.excluded
    BY <1>4, OnlyReopenExcludes
  <2>2. monitor'.pc = "reopen" => monitor'.ride.excluded = ride.excluded
    <3>1. CASE MonitorNext
      BY <3>1, MonitorGoes
    <3>2. CASE ~MonitorNext
      BY <3>2, CoroutineFrame DEF ExcludedInv, IdleMonitor
    <3> QED
      BY <3>1, <3>2
  <2>3. ASSUME NEW h \in Handlers, req'[h].pc = "patch_reopen"
        PROVE  req'[h].to = "compensating" /\ req'[h].ride.excluded = ride.excluded
    <3>1. CASE Requested(h)
      BY <2>3, <3>1, RequestGoes
    <3>2. CASE req'[h] \in {req[h], IdleReq}
      BY <2>3, <3>2 DEF ExcludedInv, IdleReq
    <3> QED
      BY <3>1, <3>2, RequestMoves
  <2> QED
    BY <1>1, <2>1, <2>2, <2>3 DEF ExcludedInv
<1> QED
  BY <1>2, <1>3, <1>4

LEMMA ExcludedInit == Init => ExcludedInv
BY DEF Init, ExcludedInv, Quiet, IdleMonitor, IdleReq

LEMMA ExcludedStep ==
  ASSUME OneCompensator, IndInv, ExcludedInv, [Next]_vars
  PROVE  ExcludedInv' /\ ride.excluded \subseteq ride'.excluded
<1>1. CASE UNCHANGED vars
  BY <1>1 DEF vars, ExcludedInv, Quiet
<1> QED
  BY <1>1, ExcludedInd

(* Where only one coroutine at a time can be opening the auction again,    *)
(* excluded_groups never forgets a group, although the list that is        *)
(* written was read in an earlier step.                                    *)
THEOREM ExcludedGrows ==
  ASSUME OneCompensator
  PROVE  Spec => ExcludedOnlyGrows
<1>1. Init => ExcludedInv
  BY ExcludedInit
<1>2. IndInv /\ ExcludedInv /\ [Next]_vars
        => ExcludedInv' /\ ride.excluded \subseteq ride'.excluded
  BY ExcludedStep
<1> QED
  BY <1>1, <1>2, Invariance, PTL DEF Spec, ExcludedOnlyGrows
-----------------------------------------------------------------------------
(* Failed winners.  The worker excludes the groups its message names, not  *)
(* the column excluded_groups: a message published before a later failure  *)
(* brings the loser back.  Here: if nobody renews or compensates and a     *)
(* lease lasts as long as its auction, there is never an old message --    *)
(* the monitor starts only on an empty queue, and until it has published   *)
(* there is no lock that could draw another cycle.  Clients may release    *)
(* locks and send the other PATCHes, and everything may fail.              *)

Unrenewed ==
  "acquire" \notin Operations /\ "compensating" \notin Targets /\ ~AuctionOutlivesLock

(* The monitor works on a ride without messages, and from its deletion of  *)
(* the lock to its message without a lock.                                 *)
CycleInv ==
  /\ monitor.pc # "idle" \/ (lock # None /\ lock.expired)
       => queue = <<>> /\ create = Created
  /\ monitor.pc \in {"compensate", "refresh", "reopen", "publish"} => lock = None
  /\ \A h \in Handlers : req[h].pc \notin {"acquire_select", "acquire_commit",
                                           "patch_reopen", "patch_publish"}

(* Every message names exactly the groups that have failed the ride.       *)
CurrentInv ==
  /\ create # Created => ride.excluded = {} /\ queue = <<>>
  /\ \A i \in DOMAIN queue : queue[i] = ride.excluded
  /\ monitor.pc = "publish" => monitor.excluded = ride.excluded
  /\ worker.pc = "gather" => worker.excluded = ride.excluded
  /\ worker.pc = "close" => worker.winner \notin ride.excluded

(* With an empty queue and POST /rides done only the monitor publishes.    *)
LEMMA EmptyStays ==
  ASSUME IndInv, Next, queue = <<>>, create = Created, ~MonitorPublish,
         \A h \in Handlers : ~PatchPublish(h)
  PROVE  queue' = <<>> /\ create' = Created
<1>1. ~CreateNext
  BY DEF CreateNext, CreateSelectLock, CreateLock, CreatePublish, Created
<1>2. ~Publishes /\ ~WorkerAck
  BY <1>1 DEF Publishes, CreateNext, WorkerAck, IndInv, WorkerInv
<1> QED
  BY <1>1, <1>2, QueueFrame, CoroutineFrame

LEMMA UnrenewedRequests ==
  ASSUME Unrenewed, IndInv, CycleInv, Next, NEW h \in Handlers
  PROVE  req'[h].pc \notin {"acquire_select", "acquire_commit",
                            "patch_reopen", "patch_publish"}
<1>1. CASE Requested(h)
  <2>1. ~PatchReopen(h)
    BY DEF CycleInv, PatchReopen
  <2>2. PatchAudit(h) => req[h].to \in Targets
    BY DEF IndInv, ReqInv, ReqOK, PatchPcs, PatchAudit
  <2> QED
    BY <1>1, <2>1, <2>2, RequestGoes DEF Unrenewed, CycleInv
<1>2. CASE req'[h] \in {req[h], IdleReq}
  BY <1>2 DEF CycleInv, IdleReq
<1> QED
  BY <1>1, <1>2, RequestMoves

LEMMA CycleInd ==
  ASSUME Unrenewed, IndInv, CycleInv, Next
  PROVE  CycleInv'
<1>1. \A h \in Handlers : ~PatchPublish(h) /\ ~AcquireCommit(h)
  BY DEF CycleInv, PatchPublish, AcquireCommit
<1>2. monitor'.pc # "idle" \/ (lock' # None /\ lock'.expired)
        => queue' = <<>> /\ create' = Created
  <2>1. CASE LockExpires
    BY <2>1 DEF LockExpires, AuctionPending, Unrenewed
  <2>2. CASE MonitorPublish
    <3>1. lock' = None /\ monitor'.pc = "idle"
      BY <2>2 DEF MonitorPublish, IdleMonitor, CycleInv, tables
    <3> QED
      BY <3>1
  <2>3. CASE ~LockExpires /\ ~MonitorPublish
    <3>1. ASSUME monitor'.pc # "idle" \/ (lock' # None /\ lock'.expired)
          PROVE  monitor.pc # "idle" \/ (lock # None /\ lock.expired)
      <4>1. CASE lock' # None /\ lock'.expired
        BY <2>3, <4>1, LockFrame
      <4>2. CASE monitor'.pc # "idle" /\ MonitorNext
        BY <4>2 DEF MonitorNext, MonitorList, MonitorReadRide, MonitorDrop,
           MonitorDelete, MonitorCompensate, MonitorRefresh, MonitorReopen,
           MonitorPublish
      <4>3. CASE monitor'.pc # "idle" /\ ~MonitorNext
        BY <4>3, CoroutineFrame DEF IdleMonitor
      <4> QED
        BY <3>1, <4>1, <4>2, <4>3
    <3> QED
      BY <1>1, <2>3, <3>1, EmptyStays DEF CycleInv
  <2> QED
    BY <2>1, <2>2, <2>3
<1>3. monitor'.pc \in {"compensate", "refresh", "reopen", "publish"} => lock' = None
  <2>1. CASE MonitorNext
    BY <2>1, MonitorGoes DEF CycleInv, MonitorDelete, MonitorCompensate,
       MonitorRefresh, MonitorReopen, tables
  <2>2. CASE ~MonitorNext
    <3> SUFFICES ASSUME monitor'.pc \in {"compensate", "refresh", "reopen", "publish"}
                 PROVE  lock' = None
      OBVIOUS
    <3>1. monitor.pc = monitor'.pc
      BY <2>2, CoroutineFrame DEF IdleMonitor
    <3>2. lock = None /\ queue = <<>> /\ create = Created
      BY <3>1 DEF CycleInv
    <3>3. ~CreateLock /\ ~WorkerTransfer
      BY <3>2 DEF CreateLock, Created, WorkerTransfer, IndInv, WorkerInv
    <3> QED
      BY <1>1, <3>2, <3>3, InsertFrame
  <2> QED
    BY <2>1, <2>2
<1> QED
  BY <1>2, <1>3, UnrenewedRequests DEF CycleInv

(* The monitor adds a group when there is nothing that does not name it.   *)
LEMMA ReopenCurrent ==
  ASSUME IndInv, CycleInv, MonitorReopen
  PROVE  CurrentInv'
<1>1. queue = <<>> /\ create = Created /\ worker.pc = "idle"
  BY DEF CycleInv, MonitorReopen, IndInv, WorkerInv
<1>2. UNCHANGED <<queue, create, worker>>
  BY DEF MonitorReopen
<1>3. monitor'.excluded = ride'.excluded
  BY MonitorReopenRow DEF MonitorReopen, IdleMonitor
<1> QED
  BY <1>1, <1>2, <1>3 DEF CurrentInv

LEMMA QueueCurrent ==
  ASSUME Unrenewed, IndInv, CycleInv, CurrentInv, Next, ride'.excluded = ride.excluded
  PROVE  /\ create' # Created => ride'.excluded = {} /\ queue' = <<>>
         /\ \A i \in DOMAIN queue' : queue'[i] = ride'.excluded
<1>1. \A h \in Handlers : ~PatchPublish(h)
  BY DEF CycleInv, PatchPublish
<1>2. queue \in Seq(SUBSET Groups) /\ ride.excluded \in SUBSET Groups
  BY DEF IndInv, TypeOK, Ride
<1>3. CASE CreatePublish
  <2>1. create # Created /\ create' = Created /\ Publish({})
    BY <1>3 DEF CreatePublish, Created
  <2> QED
    BY <1>2, <2>1, PublishContents DEF CurrentInv
<1>4. CASE MonitorPublish
  <2>1. create = Created /\ UNCHANGED create /\ Publish(ride.excluded)
    BY <1>4 DEF MonitorPublish, CycleInv, CurrentInv
  <2> QED
    BY <1>2, <2>1, PublishContents DEF CurrentInv
<1>5. CASE ~Publishes
  <2>1. queue' = queue \/ (queue # <<>> /\ queue' = Tail(queue))
    BY <1>5, QueueFrame DEF WorkerAck, IndInv, WorkerInv
  <2>2. create' # Created => create # Created
    <3>1. CASE CreateNext
      BY <3>1 DEF CreateNext, CreateSelectLock, CreateLock, CreatePublish, Created
    <3> QED
      BY <3>1, CoroutineFrame
  <2>3. \A i \in DOMAIN queue' : queue'[i] = ride.excluded
    BY <1>2, <2>1 DEF CurrentInv
  <2> QED
    BY <2>1, <2>2, <2>3 DEF CurrentInv
<1> QED
  BY <1>1, <1>3, <1>4, <1>5 DEF Publishes

LEMMA CurrentInd ==
  ASSUME Unrenewed, IndInv, CycleInv, CurrentInv, Next
  PROVE  CurrentInv'
<1>1. CASE MonitorReopen
  BY <1>1, ReopenCurrent
<1>2. CASE ~MonitorReopen
  <2>1. ride'.excluded = ride.excluded
    BY <1>2, OnlyReopenExcludes DEF CycleInv, PatchReopen
  <2>2. monitor'.pc = "publish" => monitor'.excluded = ride.excluded
    BY <1>2, MonitorGoes, CoroutineFrame DEF CurrentInv, IdleMonitor
  <2>3. /\ worker'.pc = "gather" => worker'.excluded = ride.excluded
        /\ worker'.pc = "close" => worker'.winner \notin ride.excluded
    <3>1. CASE WorkerNext /\ worker' # worker
      <4>1. worker'.pc = "gather" => worker'.excluded = ride.excluded
        <5>1. queue # <<>> => Head(queue) = ride.excluded
          BY DEF IndInv, TypeOK, CurrentInv
        <5> QED
          BY <3>1, <5>1, WorkerGoes
      <4>2. worker'.pc = "close" => worker'.winner \notin ride.excluded
        <5>1. ride.excluded \subseteq Groups
          BY DEF IndInv, TypeOK, Ride
        <5> QED
          BY <3>1, <5>1, WorkerGoes, GroupsAssumption
             DEF WorkerSelect, CurrentInv, Eligible
      <4> QED
        BY <4>1, <4>2
    <3>2. CASE worker' \in {worker, IdleWorker}
      BY <3>2 DEF CurrentInv, IdleWorker
    <3> QED
      BY <3>1, <3>2, CoroutineFrame
  <2> QED
    BY <2>1, <2>2, <2>3, QueueCurrent DEF CurrentInv
<1> QED
  BY <1>1, <1>2

FreshWinner ==
  ride.auction = "open" /\ ride'.auction = "closed" => ride'.recipient \notin ride.excluded

LEMMA OnlyCloseSettles ==
  ASSUME IndInv, [Next]_vars, ~WorkerClose
  PROVE  ride'.auction \in {ride.auction, "open"}
<1>1. ASSUME NEW h \in Handlers, PatchCommit(h) \/ PatchReopen(h)
      PROVE  ride'.auction \in {ride.auction, "open"}
  BY <1>1, CommitRow, PatchReopenRow
<1> QED
  BY <1>1, CompensateRow, MonitorReopenRow, RideFrame DEF WritesRide, vars

LEMMA FreshStep ==
  ASSUME IndInv, CurrentInv, [Next]_vars
  PROVE  FreshWinner
<1>1. CASE WorkerClose
  BY <1>1, CloseRow DEF WorkerClose, CurrentInv, FreshWinner
<1>2. CASE ~WorkerClose
  BY <1>2, OnlyCloseSettles DEF FreshWinner
<1> QED
  BY <1>1, <1>2

LEMMA CurrentInit == Init => CycleInv /\ CurrentInv
BY DEF Init, CycleInv, CurrentInv, NewRide, IdleMonitor, IdleWorker, IdleReq

LEMMA CurrentStep ==
  ASSUME Unrenewed, IndInv, CycleInv, CurrentInv, [Next]_vars
  PROVE  CycleInv' /\ CurrentInv'
<1>1. CASE UNCHANGED vars
  BY <1>1 DEF vars, CycleInv, CurrentInv
<1> QED
  BY <1>1, CycleInd, CurrentInd

(* A group that failed the ride is not chosen in a later auction, although *)
(* the worker only knows of the groups its message names: where leases     *)
(* outlive auctions and only the monitor compensates, every message that   *)
(* is queued, lost, repeated or redelivered after a crash is up to date.   *)
THEOREM FailedNeverWins ==
  ASSUME Unrenewed
  PROVE  Spec => NoRepeatWinner
<1>1. Init => CycleInv /\ CurrentInv
  BY CurrentInit
<1>2. IndInv /\ CycleInv /\ CurrentInv /\ [Next]_vars => CycleInv' /\ CurrentInv'
  BY CurrentStep
<1>3. IndInv /\ CycleInv /\ CurrentInv /\ [Next]_vars
        => (ride.auction = "open" /\ ride'.auction = "closed"
              => ride'.recipient \notin ride.excluded)
  BY FreshStep DEF FreshWinner
<1> QED
  BY <1>1, <1>2, <1>3, Invariance, PTL DEF Spec, NoRepeatWinner
-----------------------------------------------------------------------------
(* The end of the ride.  The worker and the monitor write a status they    *)
(* decided on when they read the ride.  Here: what each has read stays     *)
(* true enough, if no group sends a PATCH and a lease lasts as long as its *)
(* auction: the monitor and the worker are never both about to write.      *)

Unpatched == "patch" \notin Operations /\ ~AuctionOutlivesLock

(* Only these rides have an open auction, and the worker, which writes     *)
(* back the row it has read, has read such a ride.                         *)
Unsettled == {"request", "compensating"}

OpenUnsettled == ride.auction = "open" => ride.status \in Unsettled

WorkerUnsettled ==
  worker.pc \in {"gather", "close"} => worker.ride.status \in Unsettled

NoMessage == queue = <<>> /\ create = Created

(* A lease that runs out while the ride is in request leaves nothing to    *)
(* settle its auction, so the monitor still finds the status it has read;  *)
(* once it compensates, the auction is open only if it was so then.        *)
EndInv ==
  /\ \A h \in Handlers : req[h].pc \notin PatchPcs
  /\ OpenUnsettled /\ WorkerUnsettled
  /\ ride.status = "request" =>
       /\ (lock # None /\ lock.expired) \/ monitor.pc \in {"ride", "delete", "compensate"}
            => NoMessage
       /\ monitor.pc # "publish"
  /\ monitor.pc \in {"delete", "compensate"} =>
       /\ ride.status \notin ESTADOS_TERMINAIS \cup {"compensating"}
       /\ monitor.ride.status = ride.status
  /\ monitor.pc \in {"refresh", "reopen"} =>
       /\ ride.status = "compensating"
       /\ ride.auction = "open" => NoMessage

LEMMA CloseWrites ==
  ASSUME IndInv, OpenUnsettled, WorkerUnsettled, WorkerClose
  PROVE  /\ ride.status \in Unsettled
         /\ ride'.status = IF worker.winner = None THEN "cancelled" ELSE "match"
         /\ ride'.auction # "open"
         /\ worker.winner # None => ride'.recipient = worker.winner
<1>1. ride.auction = "open" /\ worker.ride.status \in Unsettled
  BY CloseRow DEF WorkerClose, WorkerUnsettled
<1> QED
  BY <1>1, CloseRow DEF OpenUnsettled, Unsettled

LEMMA UnsettledWorker ==
  ASSUME IndInv, Next, OpenUnsettled, WorkerUnsettled
  PROVE  WorkerUnsettled'
<1>1. CASE WorkerNext /\ worker' # worker
  BY <1>1, WorkerGoes DEF WorkerSelect, OpenUnsettled, WorkerUnsettled
<1>2. CASE worker' \in {worker, IdleWorker}
  BY <1>2 DEF WorkerUnsettled, IdleWorker
<1> QED
  BY <1>1, <1>2, CoroutineFrame

(* The worker settles only where there is a message, so neither side of    *)
(* the monitor's read and write.                                           *)
LEMMA CloseEnd ==
  ASSUME IndInv, EndInv, WorkerClose
  PROVE  monitor.pc \notin {"delete", "compensate", "refresh", "reopen"}
<1>1. queue # <<>> /\ ride.auction = "open"
  BY DEF IndInv, WorkerInv, WorkerClose
<1>2. ride.status \in Unsettled
  BY CloseWrites DEF EndInv
<1> QED
  BY <1>1, <1>2 DEF EndInv, NoMessage, Unsettled

(* What happens to the status and the auction of a ride nobody patches.    *)
LEMMA EndWrites ==
  ASSUME IndInv, EndInv, Next
  PROVE  \/ ride'.status = ride.status /\ ride'.auction = ride.auction
         \/ /\ WorkerClose /\ ride.status \in Unsettled
            /\ ride'.status \in {"match", "cancelled"} /\ ride'.auction # "open"
         \/ /\ MonitorCompensate /\ ride'.status = "compensating"
            /\ ride.status \notin ESTADOS_TERMINAIS \cup {"compensating"}
            /\ ride'.auction = ride.auction
         \/ /\ MonitorReopen /\ ride.status = "compensating"
            /\ ride'.status = ride.status /\ ride'.auction \in {"open", ride.auction}
<1>1. \A h \in Handlers : ~PatchCommit(h) /\ ~PatchReopen(h)
  BY DEF EndInv, PatchPcs, PatchCommit, PatchReopen
<1>2. CASE WorkerClose
  BY <1>2, CloseWrites DEF EndInv
<1>3. CASE MonitorCompensate
  BY <1>3, CompensateRow DEF EndInv, MonitorCompensate
<1>4. CASE MonitorReopen
  BY <1>4, MonitorReopenRow DEF EndInv, MonitorReopen
<1>5. CASE UNCHANGED ride
  BY <1>5
<1> QED
  BY <1>1, <1>2, <1>3, <1>4, <1>5, RideFrame DEF WritesRide

(* Messages come only from POST /rides and from the monitor.               *)
LEMMA EndQueue ==
  ASSUME IndInv, EndInv, Next, NoMessage, monitor.pc # "publish"
  PROVE  NoMessage'
<1>1. ~MonitorPublish /\ \A h \in Handlers : ~PatchPublish(h)
  BY DEF EndInv, PatchPcs, MonitorPublish, PatchPublish
<1> QED
  BY <1>1, EmptyStays DEF NoMessage

LEMMA EndRequest ==
  ASSUME Unpatched, IndInv, EndInv, Next, ride'.status = "request"
  PROVE  /\ (lock' # None /\ lock'.expired)
              \/ monitor'.pc \in {"ride", "delete", "compensate"} => NoMessage'
         /\ monitor'.pc # "publish"
<1>1. ride.status = "request"
  BY EndWrites
<1>2. monitor'.pc # "publish"
  BY <1>1, MonitorGoes, CoroutineFrame DEF EndInv, MonitorReopen, IdleMonitor
<1>3. CASE LockExpires
  BY <1>2, <1>3 DEF LockExpires, AuctionPending, Unpatched, NoMessage
<1>4. CASE ~LockExpires
  <2>1. ASSUME \/ lock' # None /\ lock'.expired
               \/ monitor'.pc \in {"ride", "delete", "compensate"}
        PROVE  NoMessage
    <3>1. CASE lock' # None /\ lock'.expired
      BY <1>1, <1>4, <3>1, LockFrame DEF EndInv
    <3>2. CASE monitor'.pc \in {"ride", "delete", "compensate"} /\ MonitorNext
      BY <1>1, <3>2, MonitorGoes DEF EndInv, MonitorList, MonitorReadRide, MonitorDelete
    <3>3. CASE monitor'.pc \in {"ride", "delete", "compensate"} /\ ~MonitorNext
      BY <1>1, <3>3, CoroutineFrame DEF EndInv, IdleMonitor
    <3> QED
      BY <2>1, <3>1, <3>2, <3>3
  <2> QED
    BY <1>1, <1>2, <2>1, EndQueue DEF EndInv
<1> QED
  BY <1>2, <1>3, <1>4

(* Between its read and its write the monitor's ride keeps its status.     *)
LEMMA EndMonitor ==
  ASSUME IndInv, EndInv, Next
  PROVE  /\ monitor'.pc \in {"delete", "compensate"} =>
              /\ ride'.status \notin ESTADOS_TERMINAIS \cup {"compensating"}
              /\ monitor'.ride.status = ride'.status
         /\ monitor'.pc \in {"refresh", "reopen"} =>
              /\ ride'.status = "compensating"
              /\ ride'.auction = "open" => NoMessage'
<1>1. CASE MonitorReadRide \/ MonitorDelete
  BY <1>1, MonitorGoes DEF MonitorNext, MonitorReadRide, MonitorDelete,
     MonitorCompensate, MonitorRefresh, EndInv, tables
<1>2. CASE MonitorCompensate
  <2>1. /\ ride'.status = "compensating" /\ ride'.auction = ride.auction
        /\ UNCHANGED <<queue, create>>
    BY <1>2, CompensateRow DEF MonitorCompensate, EndInv
  <2>2. ride.auction = "open" => NoMessage
    BY <1>2 DEF MonitorCompensate, EndInv, OpenUnsettled, Unsettled
  <2>3. monitor'.pc = "refresh"
    BY <1>2 DEF MonitorCompensate, IndInv, TypeOK, MonitorType
  <2> QED
    BY <2>1, <2>2, <2>3 DEF NoMessage
<1>3. CASE MonitorRefresh
  BY <1>3 DEF MonitorRefresh, EndInv, NoMessage, IndInv, TypeOK, MonitorType, tables
<1>4. CASE MonitorList \/ MonitorDrop \/ MonitorReopen \/ MonitorPublish
  BY <1>4, MonitorGoes DEF MonitorNext, MonitorList, MonitorReadRide, MonitorDrop,
     MonitorDelete, MonitorCompensate, MonitorRefresh, MonitorReopen, MonitorPublish,
     IdleMonitor
<1>5. CASE ~MonitorNext
  <2>1. monitor' \in {monitor, IdleMonitor}
    BY <1>5, CoroutineFrame
  <2>2. monitor'.pc \in {"delete", "compensate", "refresh", "reopen"}
          => /\ monitor' = monitor
             /\ ride'.status = ride.status /\ ride'.auction = ride.auction
    BY <1>5, <2>1, EndWrites, CloseEnd DEF MonitorNext, IdleMonitor
  <2> QED
    BY <2>2, EndQueue DEF EndInv
<1> QED
  BY <1>1, <1>2, <1>3, <1>4, <1>5 DEF MonitorNext

LEMMA EndInd ==
  ASSUME Unpatched, IndInv, EndInv, Next
  PROVE  EndInv'
<1>1. ASSUME NEW h \in Handlers PROVE req'[h].pc \notin PatchPcs
  <2>1. CASE Requested(h)
    BY <2>1, RequestGoes DEF EndInv, Unpatched
  <2>2. CASE req'[h] \in {req[h], IdleReq}
    BY <2>2 DEF EndInv, IdleReq, PatchPcs
  <2> QED
    BY <2>1, <2>2, RequestMoves
<1>2. OpenUnsettled'
  BY EndWrites DEF EndInv, OpenUnsettled, Unsettled
<1>3. WorkerUnsettled'
  BY UnsettledWorker DEF EndInv
<1> QED
  BY <1>1, <1>2, <1>3, EndRequest, EndMonitor DEF EndInv

StaysEnded == ride.status \in ESTADOS_TERMINAIS => ride'.status = ride.status

LEMMA EndStep ==
  ASSUME Unpatched, IndInv, EndInv, [Next]_vars
  PROVE  EndInv' /\ StaysEnded
<1>1. CASE UNCHANGED vars
  BY <1>1 DEF vars, EndInv, OpenUnsettled, WorkerUnsettled, NoMessage, StaysEnded
<1>2. CASE Next
  BY <1>2, EndInd, EndWrites DEF StaysEnded, ESTADOS_TERMINAIS, Unsettled
<1> QED
  BY <1>1, <1>2

LEMMA EndInit == Init => EndInv
BY DEF Init, EndInv, OpenUnsettled, WorkerUnsettled, Unsettled, NewRide, PatchPcs,
   IdleMonitor, IdleWorker, IdleReq

(* A ride that ended stays so, though the monitor compensates a ride it    *)
(* read two steps earlier and the worker settles one it read before the    *)
(* auction: whatever is acquired, released, lost, repeated or interrupted. *)
THEOREM EndIsFinal ==
  ASSUME Unpatched
  PROVE  Spec => TerminalIsFinal
<1>1. Init => EndInv
  BY EndInit
<1>2. IndInv /\ EndInv /\ [Next]_vars
        => /\ EndInv'
           /\ ride.status \in ESTADOS_TERMINAIS => ride'.status = ride.status
  BY EndStep DEF StaysEnded
<1> QED
  BY <1>1, <1>2, Invariance, PTL DEF Spec, TerminalIsFinal
=============================================================================
