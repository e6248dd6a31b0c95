----------------------------- MODULE AuditClock -----------------------------
(***************************************************************************)
(* The Lamport clock of the core and the audit log of one ride.  A         *)
(* coroutine takes a timestamp (tick, or update when it received one) and  *)
(* only later records the event that carries it; meanwhile others take     *)
(* theirs.  The clock is an object in memory and starts at 0 again when    *)
(* the core does, while the log and the queued auction requests, with the  *)
(* timestamps they carry, survive.                                         *)
(*                                                                         *)
(* Which operations are accepted is the business of RideCore: here any of  *)
(* them may happen once the ride is inserted.                              *)
(***************************************************************************)
EXTENDS Naturals, Sequences

CONSTANTS
  Handlers,   \* HTTP requests handled at once
  Worker,     \* the auction worker
  Monitor,    \* the lock monitor
  ClientTs,   \* logicalTimestamps clients send
  OtherTs,    \* timestamps the core merges on account of other rides
  MaxInt,     \* the largest value of rides.core_logical_ts, an INTEGER column
  MaxClock,   \* bound: no timestamp is taken when the clock is above it
  MaxRows,    \* bound: no operation starts with as many rows in the log
  MaxBoots    \* bound on the restarts

Procs == Handlers \cup {Worker, Monitor}

ASSUME ProcsAssumption ==
  Worker \notin Handlers /\ Monitor \notin Handlers /\ Worker # Monitor
ASSUME ClockAssumption ==
  ClientTs \subseteq Nat /\ OtherTs \subseteq Nat /\ MaxInt \in Nat /\ MaxClock \in Nat
  /\ MaxRows \in Nat /\ MaxBoots \in Nat

VARIABLES
  clock,     \* LamportClock._value
  boot,      \* how often the core was restarted
  inserted,  \* is the ride in the table rides?
  log,       \* the rows of ride_audit_events, in the order of their INSERTs
  queue,     \* ridefleet.auction.requests
  run        \* the coroutines

vars == <<clock, boot, inserted, log, queue, run>>

(***************************************************************************)
(* ts is the timestamp a coroutine took last and seen how many rows the    *)
(* log had when it did: events that had happened before.  after is the     *)
(* last row its own past contains, through its program or the message it   *)
(* received (0: none).                                                     *)
(***************************************************************************)
Idle == [pc |-> "idle", ts |-> 0, seen |-> 0, after |-> 0]

tick == clock + 1

updateWithoutStep(received) == IF clock >= received THEN clock ELSE received

update(received) == (IF clock >= received THEN clock ELSE received) + 1

InBounds == clock <= MaxClock

Stamp(p, next, ts) ==
  /\ InBounds
  /\ clock' = ts
  /\ run' = [run EXCEPT ![p].pc = next, ![p].ts = ts, ![p].seen = Len(log)]

(* audit_repo.registrar: the row carries the timestamp taken before.       *)
Record(p, event, next) ==
  /\ log' = Append(log, [event |-> event, ts |-> run[p].ts, seen |-> run[p].seen,
                         after |-> run[p].after, boot |-> boot])
  /\ run' = [run EXCEPT ![p].pc = next, ![p].after = Len(log) + 1]

Goto(p, next) == run' = [run EXCEPT ![p].pc = next]

Stop(p) == run' = [run EXCEPT ![p] = Idle]

(* Writing the ride writes core_logical_ts, and fails when the timestamp   *)
(* is too large for the column; the log's column is a BIGINT.              *)
Fits(p) == run[p].ts <= MaxInt

(* publish_event("auction_request", ..., await lamport_clock.tick(), ...). *)
Request(p) ==
  /\ InBounds
  /\ clock' = tick
  /\ queue' = Append(queue, [ts |-> tick, after |-> run[p].after])
  /\ Stop(p)
  /\ UNCHANGED <<boot, inserted, log>>

(* Without RabbitMQ the core starts all the same, and has no worker.       *)
Started ==
  {[p \in Procs |-> IF p = Worker THEN [Idle EXCEPT !.pc = pc] ELSE Idle] :
     pc \in {"idle", "absent"}}
-----------------------------------------------------------------------------
Init ==
  /\ clock = 0
  /\ boot = 0
  /\ inserted = FALSE
  /\ log = <<>>
  /\ queue = <<>>
  /\ run \in Started

Begins(p) == run[p].pc = "idle" /\ Len(log) < MaxRows

(* POST /rides: the timestamp and the INSERT of the ride.                  *)
CreateStamp(h) ==
  /\ Begins(h) /\ ~inserted
  /\ \E c \in ClientTs : Stamp(h, "insert", update(c))
  /\ UNCHANGED <<boot, inserted, log, queue>>

CreateInsert(h) ==
  /\ run[h].pc = "insert"
  /\ IF Fits(h) /\ ~inserted THEN inserted' = TRUE /\ Goto(h, "created")
                             ELSE UNCHANGED inserted /\ Stop(h)
  /\ UNCHANGED <<clock, boot, log, queue>>

CreateRecord(h) ==
  /\ run[h].pc = "created"
  /\ Record(h, "ride_created", "request")
  /\ UNCHANGED <<clock, boot, inserted, queue>>

(* PATCH .../status: the timestamp is taken before the transaction, the    *)
(* row is written after it; a compensation asks for an auction.            *)
PatchStamp(h) ==
  /\ Begins(h) /\ inserted
  /\ \E c \in ClientTs : Stamp(h, "commit", update(c))
  /\ UNCHANGED <<boot, inserted, log, queue>>

PatchCommit(h) ==
  /\ run[h].pc = "commit"
  /\ IF Fits(h) THEN Goto(h, "committed") ELSE Stop(h)            \* 500
  /\ UNCHANGED <<clock, boot, inserted, log, queue>>

PatchRecord(h) ==
  /\ run[h].pc = "committed"
  /\ \E next \in {"request", "answer"} : Record(h, "state_transition", next)
  /\ UNCHANGED <<clock, boot, inserted, queue>>

(* POST and DELETE /locks: a timestamp once the lock has changed.          *)
LockStamp(h) ==
  /\ Begins(h) /\ inserted
  /\ Stamp(h, "lock", tick)
  /\ UNCHANGED <<boot, inserted, log, queue>>

LockRecord(h) ==
  /\ run[h].pc = "lock"
  /\ \E event \in {"lock_acquired", "lock_released"} : Record(h, event, "answer")
  /\ UNCHANGED <<clock, boot, inserted, queue>>

Answer(h) ==
  /\ run[h].pc = "answer"
  /\ Stop(h)
  /\ UNCHANGED <<clock, boot, inserted, log, queue>>

RequestAuction(h) == run[h].pc = "request" /\ Request(h)

RequestBegins(h) == CreateStamp(h) \/ PatchStamp(h) \/ LockStamp(h)

RequestContinues(h) ==
  \/ CreateInsert(h) \/ CreateRecord(h)
  \/ PatchCommit(h) \/ PatchRecord(h)
  \/ LockRecord(h) \/ Answer(h) \/ RequestAuction(h)
-----------------------------------------------------------------------------
(* The worker merges the timestamp of the message.                         *)

ReceivedNothing(message) == 0

Received(message) == message.ts

WorkerTake ==
  /\ run[Worker].pc = "idle" /\ queue # <<>>
  /\ InBounds
  /\ clock' = update(Received(Head(queue)))
  /\ run' = [run EXCEPT ![Worker].pc = "taken", ![Worker].after = Head(queue).after]
  /\ UNCHANGED <<boot, inserted, log, queue>>

(* The auction is no longer open.                                          *)
WorkerIgnoreUnacked ==
  /\ run[Worker].pc = "taken"
  /\ Goto(Worker, "waiting")
  /\ UNCHANGED <<clock, boot, inserted, log, queue>>

WorkerIgnore ==
  /\ run[Worker].pc = "taken"
  /\ Goto(Worker, "ack")
  /\ UNCHANGED <<clock, boot, inserted, log, queue>>

WorkerStamp ==
  /\ run[Worker].pc = "taken"
  /\ Stamp(Worker, "close", tick)
  /\ UNCHANGED <<boot, inserted, log, queue>>

(* Otherwise the message goes back to the head of the queue.               *)
WorkerClose ==
  /\ run[Worker].pc = "close"
  /\ IF Fits(Worker) THEN Goto(Worker, "closed") ELSE Stop(Worker)
  /\ UNCHANGED <<clock, boot, inserted, log, queue>>

WorkerRecord ==
  /\ run[Worker].pc = "closed"
  /\ \E next \in {"transferred", "ack"} : Record(Worker, "auction_closed", next)
  /\ UNCHANGED <<clock, boot, inserted, queue>>

WorkerLockStamp ==
  /\ run[Worker].pc = "transferred"
  /\ Stamp(Worker, "lock", tick)
  /\ UNCHANGED <<boot, inserted, log, queue>>

WorkerLockRecord ==
  /\ run[Worker].pc = "lock"
  /\ Record(Worker, "lock_acquired", "ack")
  /\ UNCHANGED <<clock, boot, inserted, queue>>

WorkerAck ==
  /\ run[Worker].pc = "ack"
  /\ queue' = Tail(queue)
  /\ Stop(Worker)
  /\ UNCHANGED <<clock, boot, inserted, log>>

WorkerNext ==
  \/ WorkerTake \/ WorkerIgnore \/ WorkerStamp \/ WorkerClose
  \/ WorkerRecord \/ WorkerLockStamp \/ WorkerLockRecord \/ WorkerAck
-----------------------------------------------------------------------------
(* The monitor: lock_expired, then the transition to compensating.         *)

MonitorStamp ==
  /\ Begins(Monitor) /\ inserted
  /\ Stamp(Monitor, "expired", tick)
  /\ UNCHANGED <<boot, inserted, log, queue>>

MonitorRecord ==
  /\ run[Monitor].pc = "expired"
  /\ Record(Monitor, "lock_expired", "compensate")
  /\ UNCHANGED <<clock, boot, inserted, queue>>

MonitorCompensate ==
  /\ run[Monitor].pc = "compensate"
  /\ Stamp(Monitor, "commit", tick)
  /\ UNCHANGED <<boot, inserted, log, queue>>

MonitorCommit ==
  /\ run[Monitor].pc = "commit"
  /\ IF Fits(Monitor) THEN Goto(Monitor, "committed") ELSE Stop(Monitor)
  /\ UNCHANGED <<clock, boot, inserted, log, queue>>

MonitorTransition ==
  /\ run[Monitor].pc = "committed"
  /\ Record(Monitor, "state_transition", "request")
  /\ UNCHANGED <<clock, boot, inserted, queue>>

MonitorRequest == run[Monitor].pc = "request" /\ Request(Monitor)

MonitorContinues ==
  MonitorRecord \/ MonitorCompensate \/ MonitorCommit \/ MonitorTransition
  \/ MonitorRequest
-----------------------------------------------------------------------------
(* Other rides, and the publications that only inform, use the same clock. *)
Elsewhere ==
  /\ InBounds
  /\ \E c \in OtherTs : clock' = update(c)
  /\ UNCHANGED <<boot, inserted, log, queue, run>>

Restart ==
  /\ boot < MaxBoots
  /\ boot' = boot + 1
  /\ clock' = 0
  /\ run' \in Started
  /\ UNCHANGED <<inserted, log, queue>>

Next ==
  \/ \E h \in Handlers : RequestBegins(h) \/ RequestContinues(h)
  \/ WorkerNext
  \/ MonitorStamp \/ MonitorContinues
  \/ Elsewhere
  \/ Restart

Spec == Init /\ [][Next]_vars

(* The event loop goes on with whatever can go on, RabbitMQ answers, and   *)
(* auctions end.                                                           *)
FairSpec ==
  /\ Spec
  /\ \A h \in Handlers : WF_vars(RequestContinues(h))
  /\ WF_vars(WorkerNext)
  /\ WF_vars(MonitorContinues)
-----------------------------------------------------------------------------
Row == [event: {"ride_created", "state_transition", "lock_acquired",
                "lock_released", "auction_closed", "lock_expired"},
        ts: Nat, seen: Nat, after: Nat, boot: Nat]

Pcs == {"idle", "insert", "created", "commit", "committed", "request",
        "lock", "answer", "taken", "close", "closed", "transferred", "ack",
        "expired", "compensate", "absent"}

(* Type correctness of the clock, the log, the queue and the coroutines.   *)
TypeOK ==
  /\ clock \in Nat
  /\ boot \in Nat
  /\ inserted \in BOOLEAN
  /\ log \in Seq(Row)
  /\ queue \in Seq([ts: Nat, after: Nat])
  /\ run \in [Procs -> [pc: Pcs, ts: Nat, seen: Nat, after: Nat]]

Rows == 1..Len(log)

(* Sorting by logicalTimestamp (listar_por_corrida) recovers happened-     *)
(* before for the events of one run of the core: an event that was         *)
(* recorded before another took its timestamp sorts before it, and no two  *)
(* events tie -- although timestamps are taken long before their rows are  *)
(* written, and rows are written in another order.                         *)
HappenedBefore ==
  \A i, j \in Rows : i # j /\ log[i].boot = log[j].boot =>
    /\ log[i].ts # log[j].ts
    /\ i <= log[j].seen => log[i].ts < log[j].ts

(* What a request causes sorts after the request, also when the core was   *)
(* restarted in between and the clock had started again: the message       *)
(* carries a timestamp above the row, and the worker merges it.            *)
CauseFirst == \A j \in Rows : LET i == log[j].after
                              IN  i # 0 => i < j /\ log[i].ts < log[j].ts

(* A core with a worker serves the queue, whatever timestamps the messages *)
(* carry, until its clock has outgrown core_logical_ts: then the worker    *)
(* cannot close the auction and requeues the message, which carries the    *)
(* timestamp past every restart.  A core that was started while RabbitMQ   *)
(* was away has no worker.                                                 *)
QueueServed == <>[](queue = <<>> \/ clock > MaxInt \/ run[Worker].pc = "absent")
=============================================================================
