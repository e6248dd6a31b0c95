------------------------------ MODULE RideCore ------------------------------
(***************************************************************************)
(* One ride in the core: the HTTP handlers of RideService, the auction     *)
(* worker, the lock monitor, the tables rides, ride_locks, ride_audit_     *)
(* events and ride_proposals, and the durable queue of auction requests.   *)
(*                                                                         *)
(* Everything runs in one asyncio process, so a step is what happens       *)
(* between two awaits that another coroutine can get in between: one       *)
(* database transaction, or one answer of the network.  What a handler     *)
(* read is kept in its own record, as its session's identity map keeps it, *)
(* and may be stale when it is written back (Flush, in Saga).              *)
(*                                                                         *)
(* Not in this module: the logical timestamps the core assigns, the        *)
(* circuit breakers (module CircuitBreaker; here any eligible group may be *)
(* missing from an auction), and the ranking of proposals (AuctionRound;   *)
(* here any eligible group may win, or nobody).                            *)
(***************************************************************************)
EXTENDS Saga, Naturals, Sequences, FiniteSets

CONSTANTS
  Groups,               \* the registered groups
  Origin,               \* the group that created the ride
  None,                 \* SQL NULL / Python None
  Handlers,             \* how many HTTP requests may be in progress at once
  Rows,                 \* primary keys a row of ride_locks can have
  EarlyRequests,        \* may clients act on the ride before POST /rides answers?
  Operations,           \* which of "patch", "acquire", "release" are called
  Targets,              \* the values of newState clients send
  MaxTs,                \* bound on the logicalTimestamp clients send
  LocksExpire,          \* may a lock's TTL run out?
  AuctionOutlivesLock,  \* ... also while an auction is queued or running?
  Faults,               \* subset of {"lost", "dup", "error", "crash"}
  MaxFaults,            \* bound on the number of faults
  MaxQueue              \* bound: the monitor starts no cycle with more messages

ASSUME GroupsAssumption == Origin \in Groups /\ None \notin Groups
ASSUME BoundsAssumption == MaxTs \in Nat /\ MaxFaults \in Nat /\ MaxQueue \in Nat
ASSUME RowsAssumption   == Rows \subseteq Nat
ASSUME TargetsAssumption == Targets \subseteq Status

VARIABLES
  ride,       \* the row of rides
  lock,       \* the row of ride_locks, or None
  audit,      \* state_transition rows per serviceId and clientLogicalTimestamp
  winners,    \* groups with a ride_proposals row that has is_winner = 1
  queue,      \* ridefleet.auction.requests: the excludedGroups of each message
  create,     \* progress of the POST /rides handler, after its INSERT
  req,        \* the other HTTP handlers in progress
  worker,     \* the auction worker
  monitor,    \* the lock monitor
  faults      \* faults so far

tables == <<ride, lock, audit, winners>>
vars == <<ride, lock, audit, winners, queue, create, req, worker, monitor, faults>>

Timestamps == 1..MaxTs

Ride == [status: Status, recipient: Groups \cup {None}, auction: AuctionStatus,
         excluded: SUBSET Groups, lastTs: 0..MaxTs]

Lock == [holder: Groups, expired: BOOLEAN, row: Rows]

\* What a session remembers of a lock row it has read.
SeenLock == [holder: Groups, row: Rows]
Seen(l) == IF l = None THEN None ELSE [holder |-> l.holder, row |-> l.row]

ASSUME NoneAssumption == None \notin Lock \cup SeenLock

NewRide == [status |-> "request", recipient |-> None, auction |-> "open",
            excluded |-> {}, lastTs |-> 0]

(* The ride, seen and excluded of a handler are its session's copies; they  *)
(* are reset as soon as nothing the handler still does depends on them.     *)
IdleReq == [pc |-> "idle", svc |-> None, to |-> None, ts |-> 0,
            ride |-> NewRide, seen |-> None, excluded |-> {}]
IdleWorker == [pc |-> "idle", ride |-> NewRide, excluded |-> {},
               winner |-> None, seen |-> None]
Created == [pc |-> "done", seen |-> None]
IdleMonitor == [pc |-> "idle", holder |-> None, ride |-> NewRide, excluded |-> {}]

(***************************************************************************)
(* publish_event: delivered, or the exception its caller swallows, or --   *)
(* the broker had accepted the message before the error that made          *)
(* publish_event reconnect and publish again -- delivered twice.           *)
(***************************************************************************)
Publish(excluded) ==
  \/ queue' = Append(queue, excluded) /\ UNCHANGED faults
  \/ /\ "lost" \in Faults /\ faults < MaxFaults
     /\ UNCHANGED queue /\ faults' = faults + 1
  \/ /\ "dup" \in Faults /\ faults < MaxFaults
     /\ queue' = queue \o <<excluded, excluded>> /\ faults' = faults + 1

(***************************************************************************)
(* LockRepository.criar_ou_renovar, second half: commit the row selected   *)
(* by the session.  A row deleted since makes the UPDATE fail (StaleData), *)
(* a row inserted since makes the INSERT fail (unique ride_uuid).          *)
(***************************************************************************)
FreshRow ==
  CHOOSE n \in Rows :
    \A s \in {Seen(lock), create.seen, worker.seen} \cup {req[h].seen : h \in Handlers} :
      s # None => s.row # n

CanUpsert(seen) == IF seen = None THEN lock = None
                                  ELSE lock # None /\ lock.row = seen.row

(* held_by is a column like any other: a renewal by the holder the session *)
(* has loaded does not write it.                                           *)
HeldByWholeRow(seen, group) == group

HeldBy(seen, group) ==
  IF seen # None /\ seen.holder = group THEN lock.holder ELSE group

Upsert(seen, group) ==
  \E n \in Rows :
    /\ n = IF seen = None THEN FreshRow ELSE seen.row
    /\ lock' = [holder |-> HeldBy(seen, group), expired |-> FALSE, row |-> n]

(* The select of criar_ou_renovar and deletar: a row the session already   *)
(* knows comes back with the values it was first loaded with.              *)
Select(seen) == IF lock # None /\ seen # None /\ seen.row = lock.row
                THEN seen ELSE Seen(lock)
-----------------------------------------------------------------------------
(* POST /rides.  The INSERT of the ride is the initial state.              *)

Init ==
  /\ ride = NewRide
  /\ lock = None
  /\ audit = [g \in Groups |-> [t \in Timestamps |-> 0]]
  /\ winners = {}
  /\ queue = <<>>
  /\ create = [pc |-> "select", seen |-> None]
  /\ req = [h \in Handlers |-> IdleReq]
  /\ worker = IdleWorker
  /\ monitor = IdleMonitor
  /\ faults = 0

CreateSelectLock ==
  /\ create.pc = "select"
  /\ create' = [pc |-> "lock", seen |-> Select(None)]
  /\ UNCHANGED <<tables, queue, req, worker, monitor, faults>>

(* When another request was faster the answer is 500, and no auction is    *)
(* requested.                                                              *)
CreateLock ==
  /\ create.pc = "lock"
  /\ IF CanUpsert(create.seen)
     THEN Upsert(create.seen, Origin) /\ create' = [pc |-> "publish", seen |-> None]
     ELSE create' = Created /\ UNCHANGED lock
  /\ UNCHANGED <<ride, audit, winners, queue, req, worker, monitor, faults>>

CreatePublish ==
  /\ create.pc = "publish"
  /\ Publish({})
  /\ create' = Created
  /\ UNCHANGED <<tables, req, worker, monitor>>

CreateNext == CreateSelectLock \/ CreateLock \/ CreatePublish
-----------------------------------------------------------------------------
(* PATCH /rides/{rideUuid}/status: RideService.atualizar_status and        *)
(* StateMachineService.aplicar_transicao_grupo.                            *)

Become(h, r) == req' = [req EXCEPT ![h] = r]

Answer(h) == Become(h, IdleReq)

(* A client learns the rideUuid from the answer of POST /rides, or before  *)
(* that from GET /rides, which lists the ride as soon as it is inserted.   *)
MayArrive(h) == req[h].pc = "idle" /\ (EarlyRequests \/ create = Created)

(* existe_idempotente found no row.  With one row the answer is 200, with  *)
(* more than one it is 500 (MultipleResultsFound); neither changes a table *)
(* or goes on.                                                             *)
PatchBegin(h) ==
  /\ "patch" \in Operations /\ MayArrive(h)
  /\ \E svc \in Groups, to \in Targets, ts \in Timestamps :
       /\ audit[svc][ts] = 0
       /\ Become(h, [req[h] EXCEPT !.pc = "patch_ride", !.svc = svc,
                                   !.to = to, !.ts = ts])
  /\ UNCHANGED <<tables, queue, create, worker, monitor, faults>>

Newer(ts) == ts > ride.lastTs

PatchReadRide(h) ==
  /\ req[h].pc = "patch_ride"
  /\ IF req[h].to \in TRANSICOES_VALIDAS[ride.status] /\ Newer(req[h].ts)
     THEN Become(h, [req[h] EXCEPT !.pc = "patch_lock", !.ride = ride])
     ELSE Answer(h)                                               \* 422
  /\ UNCHANGED <<tables, queue, create, worker, monitor, faults>>

PatchReadLock(h) ==
  /\ req[h].pc = "patch_lock"
  /\ IF req[h].to \in REQUER_LOCK => lock # None /\ lock.holder = req[h].svc
     THEN Become(h, [req[h] EXCEPT !.pc = "patch_commit"])
     ELSE Answer(h)                                               \* 409
  /\ UNCHANGED <<tables, queue, create, worker, monitor, faults>>

Transitioned(loaded, to, ts) == [loaded EXCEPT !.status = to, !.lastTs = ts]

(* The UPDATE of the ride and, for a terminal state, the DELETE of the     *)
(* lock share a transaction.                                               *)
PatchCommit(h) ==
  /\ req[h].pc = "patch_commit"
  /\ ride' = Flush(ride, req[h].ride,
                   Transitioned(req[h].ride, req[h].to, req[h].ts))
  /\ lock' = IF req[h].to \in ESTADOS_TERMINAIS THEN None ELSE lock
  /\ Become(h, [req[h] EXCEPT !.pc = "patch_audit", !.ride = NewRide])
  /\ UNCHANGED <<audit, winners, queue, create, worker, monitor, faults>>

(* The refresh that ends salvar, and the state_transition row.             *)
PatchAudit(h) ==
  /\ req[h].pc = "patch_audit"
  /\ audit' = [audit EXCEPT ![req[h].svc][req[h].ts] = @ + 1]
  /\ IF req[h].to = "compensating"
     THEN Become(h, [req[h] EXCEPT !.pc = "patch_reopen", !.ride = ride])
     ELSE Answer(h)
  /\ UNCHANGED <<ride, lock, winners, queue, create, worker, monitor, faults>>

(* What both compensations do next: append the group to excluded_groups    *)
(* and open the auction again.  The list only grows, so it differs from    *)
(* what was loaded and is always written.                                  *)
ExcluidosForgotten(loaded, group) == loaded.excluded

Excluidos(loaded, group) == loaded.excluded \cup {group}

ReopenLeavesStatus(loaded, excluidos) == ride' = [ride EXCEPT !.excluded = excluidos]

Reopen(loaded, excluidos) ==
  ride' = [Flush(ride, loaded, [loaded EXCEPT !.auction = "open"])
             EXCEPT !.excluded = excluidos]

PatchReopen(h) ==
  /\ req[h].pc = "patch_reopen"
  /\ LET excluidos == Excluidos(req[h].ride, req[h].svc)
     IN  /\ Reopen(req[h].ride, excluidos)
         /\ Become(h, [req[h] EXCEPT !.pc = "patch_publish", !.ride = NewRide,
                                     !.excluded = excluidos])
  /\ UNCHANGED <<lock, audit, winners, queue, create, worker, monitor, faults>>

PatchPublish(h) ==
  /\ req[h].pc = "patch_publish"
  /\ Publish(req[h].excluded)
  /\ Answer(h)
  /\ UNCHANGED <<tables, create, worker, monitor>>
-----------------------------------------------------------------------------
(* POST /locks/{rideUuid}: adquirir_lock.                                  *)

AcquireCheck(h) ==
  /\ "acquire" \in Operations /\ MayArrive(h)
  /\ \E svc \in Groups :
       /\ lock # None /\ lock.holder # svc => lock.expired        \* else 409
       /\ Become(h, [req[h] EXCEPT !.pc = "acquire_select", !.svc = svc,
                                   !.seen = Seen(lock)])
  /\ UNCHANGED <<tables, queue, create, worker, monitor, faults>>

AcquireSelect(h) ==
  /\ req[h].pc = "acquire_select"
  /\ Become(h, [req[h] EXCEPT !.pc = "acquire_commit", !.seen = Select(@)])
  /\ UNCHANGED <<tables, queue, create, worker, monitor, faults>>

AcquireCommit(h) ==
  /\ req[h].pc = "acquire_commit"
  /\ IF CanUpsert(req[h].seen) THEN Upsert(req[h].seen, req[h].svc)
                               ELSE UNCHANGED lock                \* 500
  /\ Answer(h)
  /\ UNCHANGED <<ride, audit, winners, queue, create, worker, monitor, faults>>

(* DELETE /locks/{rideUuid}: liberar_lock.                                 *)
ReleaseCheck(h) ==
  /\ "release" \in Operations /\ MayArrive(h)
  /\ lock # None
  /\ Become(h, [req[h] EXCEPT !.pc = "release_delete", !.svc = lock.holder])
  /\ UNCHANGED <<tables, queue, create, worker, monitor, faults>>

ReleaseDelete(h) ==
  /\ req[h].pc = "release_delete"
  /\ lock' = None
  /\ Answer(h)
  /\ UNCHANGED <<ride, audit, winners, queue, create, worker, monitor, faults>>

RequestArrives(h) == PatchBegin(h) \/ AcquireCheck(h) \/ ReleaseCheck(h)

RequestContinues(h) ==
  \/ PatchReadRide(h) \/ PatchReadLock(h) \/ PatchCommit(h) \/ PatchAudit(h)
  \/ PatchReopen(h) \/ PatchPublish(h)
  \/ AcquireSelect(h) \/ AcquireCommit(h)
  \/ ReleaseDelete(h)
-----------------------------------------------------------------------------
(* The auction worker: prefetch 1, so the head of the queue stays          *)
(* unacknowledged while its auction runs.                                  *)

AnyAuction == TRUE

AuctionIsOpen == ride.auction = "open"

WorkerIgnore ==
  /\ worker.pc = "idle" /\ queue # <<>>
  /\ ~AuctionIsOpen
  /\ queue' = Tail(queue)
  /\ UNCHANGED <<tables, create, req, worker, monitor, faults>>

WorkerTake ==
  /\ worker.pc = "idle" /\ queue # <<>>
  /\ AuctionIsOpen
  /\ worker' = [worker EXCEPT !.pc = "gather", !.ride = ride,
                              !.excluded = Head(queue)]
  /\ UNCHANGED <<tables, queue, create, req, monitor, faults>>

EligibleDespiteFailure(excluded) == Groups \ {Origin}

EligibleWithOrigin(excluded) == Groups \ excluded

Eligible(excluded) == Groups \ ({Origin} \cup excluded)

(* The gather is over, the winner (None: nobody accepted) is marked and    *)
(* the proposals are committed.                                            *)
WorkerSelect ==
  /\ worker.pc = "gather"
  /\ \E w \in Eligible(worker.excluded) \cup {None} :
       /\ worker' = [worker EXCEPT !.pc = "close", !.winner = w, !.excluded = {}]
       /\ winners' = winners \cup ({w} \ {None})
  /\ UNCHANGED <<ride, lock, audit, queue, create, req, monitor, faults>>

AuctionClosedSwapped(loaded, winner) ==
  IF winner = None
  THEN [loaded EXCEPT !.status = "no_proposals", !.auction = "cancelled"]
  ELSE [loaded EXCEPT !.status = "match", !.auction = "closed",
                      !.recipient = winner]

AuctionClosedOnlyByWinner(loaded, winner) ==
  IF winner = None
  THEN [loaded EXCEPT !.status = "cancelled"]
  ELSE [loaded EXCEPT !.status = "match", !.auction = "closed",
                      !.recipient = winner]

AuctionClosed(loaded, winner) ==
  IF winner = None
  THEN [loaded EXCEPT !.status = "cancelled", !.auction = "no_proposals"]
  ELSE [loaded EXCEPT !.status = "match", !.auction = "closed",
                      !.recipient = winner]

WorkerClose ==
  /\ worker.pc = "close"
  /\ ride' = Flush(ride, worker.ride, AuctionClosed(worker.ride, worker.winner))
  /\ worker' = [worker EXCEPT !.pc = "settle", !.ride = NewRide]
  /\ UNCHANGED <<lock, audit, winners, queue, create, req, monitor, faults>>

WorkerDropLock ==
  /\ worker.pc = "settle" /\ worker.winner = None
  /\ lock' = None
  /\ worker' = [worker EXCEPT !.pc = "ack"]
  /\ UNCHANGED <<ride, audit, winners, queue, create, req, monitor, faults>>

WorkerSelectLock ==
  /\ worker.pc = "settle" /\ worker.winner # None
  /\ worker' = [worker EXCEPT !.pc = "transfer", !.seen = Select(None)]
  /\ UNCHANGED <<tables, queue, create, req, monitor, faults>>

(* When the upsert raises, the message goes back to the head of the queue. *)
WorkerTransfer ==
  /\ worker.pc = "transfer"
  /\ IF CanUpsert(worker.seen)
     THEN /\ Upsert(worker.seen, worker.winner)
          /\ worker' = [worker EXCEPT !.pc = "ack", !.seen = None]
     ELSE worker' = IdleWorker /\ UNCHANGED lock                  \* nack
  /\ UNCHANGED <<ride, audit, winners, queue, create, req, monitor, faults>>

WorkerAck ==
  /\ worker.pc = "ack"
  /\ queue' = Tail(queue)
  /\ worker' = IdleWorker
  /\ UNCHANGED <<tables, create, req, monitor, faults>>

WorkerNext ==
  WorkerIgnore \/ WorkerTake \/ WorkerSelect \/ WorkerClose
  \/ WorkerDropLock \/ WorkerSelectLock \/ WorkerTransfer \/ WorkerAck
-----------------------------------------------------------------------------
(* The lock monitor: one cycle of monitorar_locks_expirados for this ride. *)

MonitorList ==
  /\ monitor.pc = "idle"
  /\ lock # None /\ lock.expired
  /\ Len(queue) <= MaxQueue
  /\ monitor' = [monitor EXCEPT !.pc = "ride", !.holder = lock.holder]
  /\ UNCHANGED <<tables, queue, create, req, worker, faults>>

(* A ride that ended or is already compensating only loses its lock;       *)
(* otherwise the expiry is recorded (lock_expired) and punished.           *)
MonitorReadRide ==
  /\ monitor.pc = "ride"
  /\ monitor' = IF ride.status \in ESTADOS_TERMINAIS \cup {"compensating"}
                THEN [monitor EXCEPT !.pc = "drop"]
                ELSE [monitor EXCEPT !.pc = "delete", !.ride = ride]
  /\ UNCHANGED <<tables, queue, create, req, worker, faults>>

MonitorSkip ==
  /\ monitor.pc = "drop"
  /\ monitor' = IdleMonitor
  /\ UNCHANGED <<tables, queue, create, req, worker, faults>>

MonitorDrop ==
  /\ monitor.pc = "drop"
  /\ lock' = None
  /\ monitor' = IdleMonitor
  /\ UNCHANGED <<ride, audit, winners, queue, create, req, worker, faults>>

MonitorDelete ==
  /\ monitor.pc = "delete"
  /\ lock' = None
  /\ monitor' = [monitor EXCEPT !.pc = "compensate"]
  /\ UNCHANGED <<ride, audit, winners, queue, create, req, worker, faults>>

MonitorCompensate ==
  /\ monitor.pc = "compensate"
  /\ ride' = Flush(ride, monitor.ride,
                   [monitor.ride EXCEPT !.status = "compensating"])
  /\ monitor' = [monitor EXCEPT !.pc = "refresh", !.ride = NewRide]
  /\ UNCHANGED <<lock, audit, winners, queue, create, req, worker, faults>>

(* The refresh of salvar; the state_transition row it is followed by has   *)
(* serviceId "core", which no client's key can match.                      *)
MonitorRefresh ==
  /\ monitor.pc = "refresh"
  /\ monitor' = [monitor EXCEPT !.pc = "reopen", !.ride = ride]
  /\ UNCHANGED <<tables, queue, create, req, worker, faults>>

MonitorReopen ==
  /\ monitor.pc = "reopen"
  /\ LET excluidos == Excluidos(monitor.ride, monitor.holder)
     IN  /\ Reopen(monitor.ride, excluidos)
         /\ monitor' = [IdleMonitor EXCEPT !.pc = "publish", !.excluded = excluidos]
  /\ UNCHANGED <<lock, audit, winners, queue, create, req, worker, faults>>

MonitorPublish ==
  /\ monitor.pc = "publish"
  /\ Publish(monitor.excluded)
  /\ monitor' = IdleMonitor
  /\ UNCHANGED <<tables, create, req, worker>>

MonitorNext ==
  MonitorList \/ MonitorReadRide \/ MonitorDrop \/ MonitorDelete
  \/ MonitorCompensate \/ MonitorRefresh \/ MonitorReopen \/ MonitorPublish
-----------------------------------------------------------------------------
(* Time, and the process dying.                                            *)

AuctionPending == create # Created \/ queue # <<>>

LockExpires ==
  /\ LocksExpire
  /\ lock # None /\ ~lock.expired
  /\ AuctionPending => AuctionOutlivesLock
  /\ lock' = [lock EXCEPT !.expired = TRUE]
  /\ UNCHANGED <<ride, audit, winners, queue, create, req, worker, monitor, faults>>

(* An exception, of the database or of code that does not expect one, ends *)
(* a coroutine where it is suspended: a request answers 500, the message   *)
(* of the worker goes back to the head of the queue, and the monitor       *)
(* abandons its cycle until the next one.                                  *)
Raise ==
  /\ "error" \in Faults /\ faults < MaxFaults
  /\ faults' = faults + 1
  /\ UNCHANGED <<tables, queue>>

CreateRaises ==
  /\ Raise
  /\ create # Created /\ create' = Created
  /\ UNCHANGED <<req, worker, monitor>>

RequestRaises(h) ==
  /\ Raise
  /\ req[h] # IdleReq /\ Answer(h)
  /\ UNCHANGED <<create, worker, monitor>>

WorkerRaises ==
  /\ Raise
  /\ worker # IdleWorker /\ worker' = IdleWorker
  /\ UNCHANGED <<create, req, monitor>>

MonitorRaises ==
  /\ Raise
  /\ monitor # IdleMonitor /\ monitor' = IdleMonitor
  /\ UNCHANGED <<create, req, worker>>

(* The tables and the durable queue survive; the unacknowledged message is *)
(* redelivered to the restarted worker.                                    *)
Crash ==
  /\ "crash" \in Faults /\ faults < MaxFaults
  /\ faults' = faults + 1
  /\ create' = Created
  /\ req' = [h \in Handlers |-> IdleReq]
  /\ worker' = IdleWorker
  /\ monitor' = IdleMonitor
  /\ UNCHANGED <<tables, queue>>
-----------------------------------------------------------------------------
Next ==
  \/ CreateNext
  \/ \E h \in Handlers : RequestArrives(h) \/ RequestContinues(h)
  \/ WorkerNext
  \/ MonitorNext
  \/ LockExpires
  \/ CreateRaises \/ (\E h \in Handlers : RequestRaises(h))
  \/ WorkerRaises \/ MonitorRaises
  \/ Crash

Spec == Init /\ [][Next]_vars

(* The event loop runs every coroutine that can go on; the monitor wakes   *)
(* up every 5 s, the worker consumes as long as there are messages, and a  *)
(* lease that is not renewed runs out.  Nobody has to send a request.      *)
(* Awaits end: RabbitMQ is there or comes back, and no group sends its     *)
(* answer for ever.                                                        *)
Fairness ==
  /\ WF_vars(CreateNext)
  /\ \A h \in Handlers : WF_vars(RequestContinues(h))
  /\ WF_vars(WorkerNext)
  /\ WF_vars(MonitorNext)
  /\ WF_vars(LockExpires)

FairSpec == Spec /\ Fairness
=============================================================================
