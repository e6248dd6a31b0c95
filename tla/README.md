# RideFleet Core: a TLA+ specification

RideFleet Core is the mediator between taxi groups: a group posts a ride, the
core auctions it among the other groups, gives the winner a lock with a lease,
follows the ride through a saga and auctions it again when the winner fails.
Everything runs in one asyncio process over a SQL database and a RabbitMQ
broker. What is hard about it is that each handler, the auction worker and the
lock monitor read a row, wait, and write it back: this project models where
they can interleave, fail, crash and lose or repeat messages, model-checks what
must hold nevertheless, and proves part of it for every size.

## 1. The system

| component (under `src/app`) | state | operations | talks to |
|---|---|---|---|
| Ride service, state machine (`services/ride_service.py`, `services/state_machine_service.py`, `controllers/ride_controller.py`, `repositories/ride_repository.py`) | table `rides`: status, recipient, auction_status, excluded_groups, last_client_ts | `POST /rides`, `PATCH /rides/{uuid}/status`, reads | lock and audit tables, broker, breakers |
| Distributed lock (`repositories/lock_repository.py`, `models/ride_lock.py`) | table `ride_locks`: one row per ride, holder, expires_at | `POST` and `DELETE /locks/{uuid}`; create-or-renew, delete, list expired | used by service, worker, monitor |
| Auction worker (`workers/auction_worker.py`) | the unacknowledged message; table `ride_proposals` | consume `auction_request`, invite the groups by HTTP, choose, close the auction, transfer the lock | broker, groups, breakers, `rides`, `ride_locks` |
| Lock monitor (`workers/lock_monitor.py`) | none between cycles | every 5 s: for each expired lock, delete it, compensate the ride, request a new auction | all tables, broker, breakers |
| Circuit breaker (`core/circuit_breaker.py`, `..._manager.py`) | in memory, per group: state, failures, time of opening | check, success, failure | controllers, worker, monitor |
| Broker client (`rabbitmq.py`) | connection, channel, exchange | connect with retries, publish with one retry | RabbitMQ |
| Lamport clock and audit log (`core/lamport_clock.py`, `repositories/audit_repository.py`) | a counter in memory; table `ride_audit_events` | tick, update; append, list, look up a transition | everybody |
| Group registry and authentication (`services/auth_service.py`, `repositories/group_repository.py`, `core/security.py`) | table `groups` | register, verify the API key | controllers |
| Lifecycle and database (`main.py`, `database.py`) | the background tasks | start, stop | all |
| DTOs, exception handlers, metrics, dashboards, deployment | none the core reads back | formatting, counting | – |

Interactions: handlers, worker and monitor share the tables and nothing else
but the breakers and the clock; handler and monitor hand work to the worker
through the durable queue `ridefleet.auction.requests`. Every session is opened
with `expire_on_commit=False`, so an object read before an auction is the
object written back after it.

Hard behaviours, and what makes each component correct:

* **stale rows**: the worker (seconds), a PATCH and the monitor write rows they
  read earlier. The ride must keep a recipient who won, an order of timestamps,
  its excluded groups, and its place in the saga.
* **check, then act**: idempotence, the timestamp, the holder of the lock are
  checked in one transaction and relied on in another.
* **at-least-once messages**: duplicates (publish retry), redelivery after a
  crash, requests that waited. An auction is settled once.
* **swallowed errors and crashes** between the transactions of one operation.
* **shared objects**: one broker connection and one clock that every coroutine
  reads, waits, and uses or resets; a clock that restarts at 0 beside tables and
  a queue that do not.
* **leases** that run out while an auction, a PATCH or the monitor is at work.
* **liveness**: compensations end, rides nobody acts on end, rounds end, blocked
  groups are served again, the queue is served when the broker is back, an
  expired lock is reaped although cycles of the monitor fail.

`PROJECT.json` has every hazard at its line with the properties that cover it.

## 2. The modules

```
AuctionPromise            what the core promises about the auction of a ride
Saga                      statuses, transitions, the ORM's write-back (Flush)
  RideCore                one ride: handlers, worker, monitor, queue, faults
    RideProperties        types, safety, liveness, the inductive invariant,
                          and the refinement of AuctionPromise
      MCRide              symmetry for TLC
      RideProofs          the invariant, and RideCore implements AuctionPromise
        RideOrderProofs   what is not taken back: timestamps, excluded groups,
                          failed winners, the end of the ride
          RideSagaProofs  the saga, the winner's lock and failed winners, for
                          orderly clients
MonitorCycle              the lock monitor over several rides
  MonitorCycleProofs
AuctionRound              one round of an auction: answers, ranking, deadline
  MCAuctionRound          the values of offers
  AuctionRoundProofs
CircuitBreaker            one breaker under overlapping calls
  CircuitBreakerProofs
AuditClock                the Lamport clock and the audit log of one ride
  AuditClockProofs
Broker                    the shared connection, publications, the worker's loop
  BrokerProofs
```

How they fit together: RideCore is the centre, and takes the others at their
word. Its `Publish` puts zero, one or two copies of a message into the queue and
then returns or fails, which is what Broker shows of `publish_event` (`copies`
of a publication, and `ReportedIsQueued` that a reported one was queued). Its
`WorkerSelect` chooses any group that was eligible, or none, which AuctionRound
refines by answers and ranking and CircuitBreaker by who is asked. Its monitor
deals with one ride; MonitorCycle has the list. Its audit counts what
AuditClock orders.

### RideCore

A step is what happens between two `await`s that let another coroutine in, in
practice one database transaction or one answer of the network.

| state | code |
|---|---|
| `ride` | the row of `rides`; `recipient` is recipient_group_id, `auction` auction_status, `lastTs` last_client_ts. The request that creates the ride carries the smallest timestamp, 0 |
| `lock` | the row of `ride_locks`, or `None`; `expired` is expires_at <= now, `row` its primary key |
| `audit` | number of `state_transition` rows per serviceId and clientLogicalTimestamp, what `existe_idempotente` counts |
| `winners` | groups with a committed proposal that has is_winner = 1 |
| `queue` | messages of `ridefleet.auction.requests`, each its excludedGroups; the head stays until it is acknowledged (prefetch 1) |
| `create`, `req`, `worker`, `monitor` | where each coroutine is suspended, and its session's copies of rows |

| actions | code |
|---|---|
| `Init`, `CreateSelectLock`, `CreateLock`, `CreatePublish` | `criar_corrida`: insert, lock for the origin, request the auction; if another request locked the ride in between, 500 and no auction |
| `MayArrive` | when a request may name the ride: after the 202, or, with `EarlyRequests`, as soon as `GET /rides` lists it |
| `PatchBegin` | `existe_idempotente` in `atualizar_status` |
| `PatchReadRide`, `PatchReadLock`, `PatchCommit`, `PatchAudit` | `aplicar_transicao_grupo`: validation (422), lock (409), the transaction with the UPDATE and, for a terminal state, the DELETE of the lock, and the audit row |
| `PatchReopen`, `PatchPublish` | the compensation in `atualizar_status` |
| `AcquireCheck`, `AcquireSelect`, `AcquireCommit` | `adquirir_lock` and `criar_ou_renovar`; a row deleted or inserted meanwhile makes the commit fail (500) |
| `ReleaseCheck`, `ReleaseDelete` | `liberar_lock` |
| `WorkerIgnore`, `WorkerTake`, `WorkerSelect`, `WorkerClose` | `_executar_leilao` up to the commit of the result |
| `WorkerDropLock`, `WorkerSelectLock`, `WorkerTransfer`, `WorkerAck` | the lock afterwards, and ack or nack |
| `MonitorList` ... `MonitorPublish` | a cycle of `monitorar_locks_expirados` for this ride |
| `LockExpires`, `Crash` | time; the process dies: tables and queue stay, an unacknowledged message is delivered again |
| `CreateRaises`, `RequestRaises`, `WorkerRaises`, `MonitorRaises` | an exception at any await (a database error, a lost connection): the handler answers 500 and the rest of it is not done, the worker's message is put back, the monitor's cycle is abandoned |

What is abstracted, and why it may be:

* `Flush` writes the columns that differ from the loaded ones, as SQLAlchemy's
  unit of work does; the same holds for the holder of a renewed lock
  (`HeldBy`), and a session that selects a row it already knows gets its own
  copy (`Select`). Row keys are drawn from `Rows` and reused only when nobody
  remembers them.
* The refresh that ends a commit and the audit INSERT that follows are one step:
  the INSERT touches nothing another coroutine reads, except the look-up of
  `existe_idempotente`, before which the step may be moved.
* `deletar` selects and deletes by primary key in one step: it removes the row
  it found or nothing.
* Publications other than `auction_request` and the callback to the
  winner change no state of the core and are left out; so are the timestamps
  the core assigns, the breakers (any eligible group may be missing from an
  auction) and the ranking of proposals (any eligible group may win, or none).
* PATCHes that answer without a change because they were recorded before
  start nothing (`PatchBegin` requires `audit[svc][ts] = 0`).

### AuctionPromise

The abstract specification, with four variables: the auction (open, closed,
no_proposals), the ride's recipient, the winner that is proposed but not yet
announced, and the groups ever proposed. It has no worker, queue, message,
lock, timestamp or fault. `Promise` in RideProperties is the refinement mapping:
`auction` and `recipient` are columns of the ride, the candidate is the choice of
the worker between the commit of the proposals and that of the ride, and the
offers are `winners`. Everything else of RideCore is a stutter; an exception or a
crash of the worker between its two commits is a `Withdraw`.

### MonitorCycle

Several rides, for each the lock and how often each group let a lease lapse
(`due`) less how often the monitor punished it. A cycle lists the expired locks
once (`listar_expirados`) and keeps their holders (`monitor.holder`, the loaded
objects) until it comes to them; `Lease`, `Release` and `LockExpires` change the
locks meanwhile. `MonitorRaises` is the `except` around a cycle.

### CircuitBreaker

`state`, `fail_counter`, `wait` (what is left of RECOVERY_TIMEOUT, in ticks) and
`calls`. No method of the class awaits, so each is atomic; what interleaves is
the call that `Admit` (check_state) lets through and the `Succeed`, `Fail` or
`Refuse` (403, 404, 409, 422) it ends with, the monitor's `Punish`, time, and
`Restart` (breakers live in memory). The lazy change to HALF_OPEN is
`CurrentState`. `fail_counter` saturates at `MaxFailures`, above the threshold:
the code only compares it with the threshold.

### AuctionRound

One round, from the list of participants to the winner: which groups are
invited and in which order the query returned them, their answers (`Respond`),
the deadline, the client's timeout two seconds later (`Timeout`), and `Gather`,
which classifies the answers and takes `min` by (price, ETA, group id).
`sending` are the groups in the middle of their answer: the client's timeout is
for each connect, write and read, so one that sends in pieces (`Trickle`) is not
timed out until it stops (`Pause`).
`Best[i]` is what `min` has kept of the first i results. RideCore has the round
as the single step `WorkerSelect`.

### AuditClock

The clock, the log of one ride, the queue with the timestamps its messages
carry, and each coroutine between the call of `tick` or `update` and the INSERT of
the row. Two history variables tell what happened before what: `seen`, how long
the log was when the timestamp was taken, and `after`, the row in the coroutine's
own past, also across the queue. `Restart` loses the clock and the coroutines;
a core that starts while RabbitMQ is away has no worker (`Started`).
`core_logical_ts` is an INTEGER column that a timestamp may outgrow (`Fits`), the
log's column is a BIGINT. Which operations are accepted is left to RideCore:
here any may happen once the ride is inserted.

### Broker

`up` is whether RabbitMQ can be reached, `server` what it has declared, `link`
which of connection, channel and exchange are set on the object that all
coroutines share. A publication and the worker run from one await to the next
through `connect` (`dial`, `channel`, `exchange`, `queues`, `bound`), and whoever
fails sets the link to `Disconnected`, also under somebody else's `connect`.
While RabbitMQ is away a new connection is refused; what is awaited on a
connection that was made raises, or is held until aio-pika has restored the
connection – the model allows both at each await. The
worker's loop counts consecutive failures; at the 1025th the delay
`base_delay * 2 ** (n - 1)` overflows a float, the OverflowError leaves the
handler, and the task is gone (`dead`). The same coroutine is the start of the core, which
goes on without a worker (`absent`) when RabbitMQ is away.

## 3. What is checked

TLC; the largest run takes a minute or two. `CHECK_DEADLOCK FALSE` where a ride or
a round ends and leaves nothing to do; the breaker is checked for deadlock.

| run | specification | properties | what it shows |
|---|---|---|---|
| `ride_everything` | Spec | `TypeOK`, `AssignedToWinner`, `IndInv`, `SettledOnce`, `CausalOrder`, `ExcludedOnlyGrows`, `ImplementsPromise` | two groups, all client operations, also before `POST /rides` has answered, leases that run out at any moment, and one fault of any kind: no stale write, duplicate, exception or crash assigns a ride to a group that did not win, settles an auction twice, puts last_client_ts back or loses an excluded group; every step is one of AuctionPromise or changes nothing of it |
| `ride_clients` | FairSpec | `WinnerHoldsLock`, `StepsFollowSaga`, `CompensatingResolves`, `ImplementsFairPromise` | three groups, PATCHes up to three and overlapping renewals, one duplicated message: a ride under way is locked by its recipient, each change of status follows the saga from the status it overwrites, a compensation ends and every auction that is opened is settled |
| `ride_silent` | FairSpec | `SilentRideEnds`, `NoRepeatWinner`, `ResidualLockReaped`, `TerminalIsFinal` | five groups, nobody acts, and up to three faults – crashes or exceptions, wherever they may strike without losing the ride: each lease runs out, each failed group is left out of the next auction, the ride ends cancelled, and a lock left on a ride that has ended is reaped without bringing it back |
| `monitor_cycle` | FairSpec | `TypeOK`, `PunishedForLapse`, `ExpiredIsReaped` | two rides and two exceptions: although the list a cycle works through is old, a group is only punished for a lease of its own that ran out, and a failed cycle forgets no lock |
| `breaker` | FairSpec | `TypeOK`, `ClosedWithinThreshold`, `ServedAgain` | three overlapping calls: closed exactly while the failures are within the threshold; late failures do not prolong a block |
| `auction_round` | FairSpec | `TypeOK`, `WinnerIsBest`, `RoundEnds` | all answers of up to three groups, with prices and ETAs on both sides of the limits of `_validar_proposta`, in every order of query and answers, and groups that send it in pieces: the best valid offer wins, and the round ends unless a group goes on sending for ever |
| `audit_clock` | FairSpec | `TypeOK`, `HappenedBefore`, `CauseFirst`, `QueueServed` | one request beside the worker and the monitor, and a restart: within one run of the core, sorting by timestamp recovers happened-before and nothing ties; what a request caused sorts after it even across the restart; a core that has a worker serves the queue unless its clock has outgrown its column |
| `broker` | FairSpec | `TypeOK`, `ReportedIsQueued`, `PublishReturns`, `QueueServed` | two publications and the worker over one link, RabbitMQ going away and coming back at any await: in a core that started with its worker a publication that returns was queued; once RabbitMQ stays, every publication returns or raises, and the queue is served unless the worker was never started or died |

Every property is broken by the plausible bug in `PROJECT.json` "mutants"; the
operators with the bugs (`FlushWholeRow`, `AnyAuction`, ...) stand beside the
ones they would replace.

### Disagreements with the documents

Each of these runs ends in a counterexample.

| run | property | what happens |
|---|---|---|
| `f_worker_revives` | `TerminalIsFinal` | the origin cancels a ride whose auction is running; the worker then closes the auction from the row it read before, and the cancelled ride is a match |
| `f_duplicate_patch` | `IdempotentOnce` | two copies of one PATCH both find no audit row, both are applied and recorded; from then on a replay fails with MultipleResultsFound |
| `f_two_holders` | `ActiveLockNotStolen` | two groups find the lock expired (or absent) and both acquire it; the second takes the active lock of the first |
| `f_renewed_lock` | `ActiveLockKept` | a holder acquires its lock again after the monitor listed it as expired; the monitor deletes the lock all the same and compensates the ride |

Disagreements without a run, found with properties of the same kind and kept
here for the record. About rides and locks:

* The monitor read a ride that its holder then completed; it sets it
  compensating (`lock_monitor.py:96`, `state-machine.md:72`).
* A crash after the monitor deleted the lock and before it compensated the
  ride: nothing expires any more and the match stays for ever
  (`lock_monitor.py:92`, `state-machine.md:82`).
* The `auction_request` of a compensation that cannot be published is logged and
  never retried: the ride stays compensating (`lock_monitor.py:138`,
  `docs/fluxo-delegacao.md:109`).
* When the worker is late, the initial lock of the origin expires, and the
  monitor punishes and excludes the origin itself (`lock_monitor.py:67-71`;
  `state-machine.md:82` has match, confirm and in_transit only).
* Two different PATCHes in progress at once may commit in the other order of
  their timestamps (`state_machine_service.py:107`, `state-machine.md:64`).
* Only `held_by` is compared, so a holder whose lease ran out is accepted until
  the monitor wakes up (`state_machine_service.py:115`, `state-machine.md:66`).
* Between the commit of the match and the transfer of the lock, the origin can
  confirm (`auction_worker.py:323-374`, `state-machine.md:50`), and a ride that
  ended by then is locked again (`state-machine.md:74`).
* A re-auction leaves out the groups its message names; a duplicate of an older
  message does not name the group that just failed (`auction_worker.py:131`).
* A PATCH and the monitor compensating one ride overwrite each other's excluded
  group (`lock_monitor.py:101`). If the lease of a transferred lock also runs
  out within one PATCH, the ride can stay compensating without any fault.
* With `EarlyRequests`, an acquire by the origin that found no lock yet and
  renews only after the auction takes the lock from the winner
  (`ride_service.py:375-388`, `openapi.yaml:446`); an acquire that inserts the
  lock before `criar_corrida` does leaves the ride without an auction
  (`ride_service.py:135`).
* Clients may compensate a ride, and cancel it in any state but the final ones
  and compensating: `_TRANSICOES_VALIDAS`
  (`state_machine_service.py:27-47`) is one table for all, where
  `state-machine.md:58` lets a client only confirm, drive, complete, and cancel
  from request.
* A PATCH to compensating keeps the lock of the failed group
  (`state_machine_service.py:145`, `openapi.yaml:336`).

About auctions and breakers:

* After a re-auction several proposals have is_winner = 1, and the API reports
  them all (`ride_service.py:333`, `openapi.yaml:1192`); a crash between the
  commit of the proposals and that of the ride leaves two winners of one auction.
* A call admitted before a breaker opened closes it again when it succeeds
  (`circuit_breaker.py:49`, `openapi.yaml:654`), and a breaker opens with the
  third failure (`circuit_breaker.py:36`, `docs/fluxo-delegacao.md:99`).
* A group that sends its answer in pieces, each within the timeout of one read,
  keeps the auction open, and the worker with it, which takes one message at a
  time (`auction_worker.py:415-419`, `:219`); `openapi.yaml:117` has
  auctionTimeoutSeconds limit how long the core waits, `:1185` has an open
  auction within it. `RoundEnds` names this exception.
* An offer that arrives within two seconds after the deadline counts
  (`auction_worker.py:418`, `openapi.yaml:633`).

About the clock and the broker:

* After a restart the clock is at 0, and the events that follow sort before the
  older ones unless a message or a client carried a larger timestamp
  (`lamport_clock.py:16`, `openapi.yaml:401-404`).
* The timestamps of proposals and of lock requests are never merged
  (`auction_worker.py:454`, against `lamport_clock.py:4-6`), and nothing limits
  what is merged: `MAX_CLOCK_JUMP` of `CONTRIBUTING.md:106` does not exist. Once the clock has
  outgrown `core_logical_ts` (`ride.py:70`) no ride can be written, and the worker
  requeues its message, whose timestamp is as large, also after a restart.
* A core that was started while RabbitMQ was away has no worker
  (`main.py:41-47`), and although its publications connect later, nothing serves
  the queue; the worker is meant to reconnect without limit and never to leave
  the API up with no auction processed (`auction_worker.py:545-548`). In such a
  core a message can also be published before its queue is bound
  (`rabbitmq.py:37-43`), and is then dropped. Both `QueueServed` and
  `ReportedIsQueued` leave such a core out.
* A publication on an exchange that exists has no timeout (`rabbitmq.py:124`,
  `:141`). On a robust connection aio-pika 9.4.3, which is not in the repository,
  holds it until RabbitMQ is back, so a request, the worker or the monitor may
  wait as long as RabbitMQ is away; the retry of `publish_event` is for
  publications that raise. `PublishReturns` is about what follows.
* After 1024 consecutive failures the task of the worker ends with an
  OverflowError although its loop is to reconnect for ever
  (`auction_worker.py:610`, `auction_worker.py:545-548`). With one failure per
  minute that is 17 hours; while each `connect` goes through its own attempts,
  a week.

### Bounds

* `Groups`: two (origin and one other) suffice for who is assigned, three for a
  re-auction with another winner, five for three successive failures and the
  auction without participants.
* `Handlers`: one request at a time in the passing runs of RideCore – the worker,
  the monitor and `criar_corrida` interleave with it. With two, the checks the
  code makes before it acts fail, as the findings show; the findings use two.
* `MaxTs`: timestamps clients send; each PATCH needs a new one, so it bounds the
  length of a saga: 3 takes a ride from match to complete, or through two
  compensations. `MaxFaults`: 1 with clients, 3 where nobody acts.
* `MaxQueue` of RideCore: the monitor starts no cycle while more messages wait;
  without it expiring leases could fill the queue for ever. In `ride_everything`
  it is 0: a cycle starts on an empty queue, and overlaps with the auction that
  `criar_corrida` requests meanwhile; duplicates and the cycle's own request
  still bring the queue to three messages. With 1 the run has 17 million states
  and finds no error either.
* `EarlyRequests`: TRUE in `ride_everything`, FALSE elsewhere, where clients
  act on a ride once they were told its rideUuid.
* `AuctionOutlivesLock` TRUE lets a lease run out while an auction is queued or
  running. The initial lease is the auction timeout plus an extra, so this
  needs a worker that is behind; the liveness runs, which are about what
  happens without such delays, set it FALSE.
* `Rows`: four keys, more than the sessions that can remember one.
* MonitorCycle: two rides make a list with a remainder; `MaxErrors` 2 lets a
  retried cycle fail again; `MaxDue` 1 forbids only that a group lets a lease
  lapse twice before the monitor has looked once (with 2 the run has 933,000
  states and finds no error either).
* Breaker: threshold 2 as in the code, timeout 3 ticks instead of 20 s – only
  zero and positive differ –, counter up to 4.
* AuditClock: one handler beside worker and monitor is enough for timestamps taken
  in one order and recorded in the other; client timestamps 0 and 4, with
  `MaxInt` 6 and `MaxClock` 6, reach behind, ahead, and the limit of the column;
  two rows before an operation starts give logs of more than two; one restart.
* Broker: two publications, so that one resets the link under the other and under
  the worker; 2 attempts of `connect` instead of 10 (the first, and the last that
  raises); `FloatLimit` 1 instead of 1024; no publication starts while a message
  waits, and both copies of both publications fit nevertheless.
* Symmetry (groups other than the origin, handlers) is used only in runs without
  liveness.

### Fairness

`FairSpec` of RideCore: the event loop resumes every coroutine that can go on
(`RequestContinues`, `CreateNext`), the monitor is a loop with a 5 s sleep, the
worker consumes while there are messages, a lease that is not renewed runs out.
Nobody has to send a request, and no fault has to happen. MonitorCycle: the
monitor's loop. These two and AuditClock have publications and auctions end:
RabbitMQ comes back while something is held by it, and no group sends its
answer for ever. AuctionRound: time passes, the HTTP client times out on a
group that is silent, `gather` returns; a group need neither answer nor stop
sending, and `RoundEnds` says so. CircuitBreaker: time passes. AuditClock: the
event loop resumes requests, worker and monitor. Broker: sleeps end and a new
connection is made or refused, but what is awaited on an existing connection is
only sure to go on while RabbitMQ is reachable. RabbitMQ may be away for ever,
and `PublishReturns` and `QueueServed` say so in their premise.

## 4. What is proved

By TLAPS, for all values of the constants that satisfy the named assumptions of
the modules (`GroupsAssumption`, `BoundsAssumption`, ...): any number of groups,
rides, concurrent requests, publications, timestamps, faults and messages.

| theorem | statement |
|---|---|
| `RideProofs!Invariance` | `Spec => []IndInv` |
| `RideProofs!TypeCorrect` | `Spec => []TypeOK` |
| `RideProofs!Assignment` | `Spec => []AssignedToWinner` |
| `RideProofs!Settlement` | `Spec => SettledOnce` |
| `RideOrderProofs!SerialCausalOrder` | one request at a time: `Spec => CausalOrder` |
| `RideOrderProofs!ExcludedGrows` | `OneCompensator`: `Spec => ExcludedOnlyGrows` |
| `RideOrderProofs!FailedNeverWins` | `Unrenewed`: `Spec => NoRepeatWinner` |
| `RideOrderProofs!EndIsFinal` | `Unpatched`: `Spec => TerminalIsFinal` |
| `RideSagaProofs!OrderlySaga` | `Orderly`: `Spec => StepsFollowSaga` |
| `RideSagaProofs!WinnerLock` | `Undisturbed`: `Spec => []WinnerHoldsLock` |
| `RideSagaProofs!CompensatedNeverWins` | `Undisturbed`, no message published twice: `Spec => NoRepeatWinner` |
| `RideProofs!Implementation` | `Spec => ImplementsPromise` |
| `AuctionRoundProofs!RoundTypes`, `Winner` | `Spec => []TypeOK`, `Spec => []WinnerIsBest` |
| `MonitorCycleProofs!Types`, `Punishment` | `Spec => []TypeOK`, `Spec => []PunishedForLapse` |
| `CircuitBreakerProofs!BreakerTypes`, `BreakerCloses` | `Spec => []TypeOK`, `Spec => []ClosedWithinThreshold` |
| `AuditClockProofs!Types`, `LogOrder`, `CausalOrderOfRequests` | `Spec => []TypeOK`, `Spec => []HappenedBefore`, `Spec => []CauseFirst` |
| `BrokerProofs!Bounded`, `Reported` | `Spec => []TypeOK`, `Spec => []ReportedIsQueued` |

**The invariant of RideCore.** `AssignedToWinner` is not inductive: whether a
write is safe depends on what the writer read. `IndInv` adds what each suspended
coroutine knows. `ReqInv`: a PATCH that has validated a status past the auction
saw a ride with a recipient, and recipients are never taken away. `WorkerInv`:
while an auction runs its message is in the queue, the auction is open and the
recipient is the one the worker read – so the flush of the stale row assigns
exactly the winner –, and the winner's proposal is committed before the ride
is. `MonitorInv`: the monitor has a holder to exclude.

**The argument.** Most steps move one coroutine and, if they write the ride,
neither assign it nor settle its auction (`SafeWrite`); `RequestStep` and
`CoreStep` show once that such a step keeps the invariant, and each action is
shown to be one. The worker's steps are done by hand. `Settlement` follows from
the invariant: only `WorkerClose` settles, and it runs only while the auction
is open. `Implementation` uses the same invariant: `WorkerClose` is an `Award`
because the recipient it writes is the candidate, and everything that is not a
step of the worker or a compensation leaves the four abstract variables alone.

**Who writes what.** The theorems that follow are about particular clients. They
rest on frame lemmas of RideProofs, each of which says once which actions can
change a variable and how: `RideFrame`, `LockFrame`, `QueueFrame`, where a
request, the worker or the monitor can get to (`RequestGoes`, `WorkerGoes`, `MonitorGoes`), and what the
flush of a stale row leaves in the table for each writer (`CloseRow`, `CommitRow`,
`CompensateRow`, `ReopenRow`). An action in none of the lists is dealt with by
the frame.

**What is not taken back.** Four properties are false without assumptions, each
with a counterexample TLC finds when one of its assumptions is dropped:

* *Timestamps*, one request at a time. `OrderInv`: a PATCH between its comparison
  and its commit has a timestamp above both the row and its own copy of it.
  Nobody but a PATCH changes last_client_ts (`OnlyPatchWrites`), so the
  comparison still holds at the commit. Two PATCHes may commit in the wrong
  order.
* *Excluded groups*. The list written back is the one read, with one group
  more; in between, nobody else may write one. `OneCompensator`: clients do not
  compensate (only the monitor does), or requests come one at a time and leases
  do not run out (only one request does). `ExcludedInv`: whoever is about to open
  the auction again has read the list that is in the table. With two requests
  compensating, or one and the monitor, the list loses a group.
* *Failed winners*. The worker excludes the groups its message names, not those
  of the ride. `Unrenewed`: no lock is renewed or taken by a client, only the
  monitor compensates, and leases outlive auctions. `CycleInv`: from a lease
  that runs out to the end of the cycle of the monitor no message waits, and
  from the deletion of the lock on there is none that could run out.
  `CurrentInv`: so a group is only added when no message is under way, and every
  message, queued or in the worker's hand, names exactly the groups that have
  failed; copies of it do no harm. This stands up to every fault.
  `CompensatedNeverWins` has clients compensate instead, perhaps while the
  auction's message is still unacknowledged: `FreshInv` says that at most one
  message is to come and that it is up to date. A message published twice
  breaks it: the second copy is taken for the request of the next auction.
* *The end*. `Unpatched`: no PATCH, and leases outlive auctions. `EndInv`: the
  worker's copy and the ride of an open auction are in request or compensating,
  so what it settles has not ended; between the monitor's read and its write
  the status stays what was read, because a ride in request whose lease ran out
  has no message left that could settle its auction. With a PATCH to cancel
  (`f_worker_revives`), or with a worker that is behind, the property is false.

TLC checked `CycleInv`, `CurrentInv` and `EndInv` on the instance of
`ride_silent`, `ExcludedInv` on those of `ride_everything` and `ride_clients`,
and `FreshInv` with four groups, clients that compensate and lost messages (1.5
million states). `ride_everything` and `ride_clients` satisfy `OneCompensator`,
`ride_silent` satisfies `Unrenewed` and `Unpatched`, so the assumptions hold in
runs where the properties are at stake.

**Saga and lock.** `Orderly`: clients send one request at a time and do not cancel,
and no lease runs out; `Undisturbed` adds that nobody releases the lock or acts
before the 202, and that nothing raises or crashes. Each assumption has a
counterexample without it, in a finding or in the list above; what remains is the
worker against a request, over rows both read earlier. `SagaInv`: only rides in
request or compensating have an open auction, the worker has read such a ride,
and a PATCH between its validation and its commit still finds the status it saw.
The worker settles only an open auction, so it does not run under such a PATCH.
`LockInv`: the row the worker is about to renew is there, with the holder it saw,
and an acquire in progress saw its own group as the holder of the row that is
still there, so its UPDATE does not write held_by. `SagaInv` and `LockInv` were
checked by TLC on the instance of `ride_clients` and, for `SagaInv`, on that of
`ride_everything` without cancellations and expiring leases, with two faults.

**The round.** `min` is a scan, so `Winner` is about what the scan has kept:
`Best[i]` is an accepted offer of the first i that no other accepted one of them
precedes, or `None` if there is none. It is shown for every i by least
counterexample (the naturals are well-founded: `LeastNumber`), because the
prover cannot instantiate an induction rule; `Precedes` is a strict total order
on accepted offers. `RoundTypes` says besides the types that whoever answered
was invited.

**The clock.** The invariant says that every timestamp in the log or in the hand
of a coroutine of this run of the core is at most the clock (so the next one is
new), that timestamps in hand differ from each other and from those recorded,
that one taken after a row was written is above it, and that what a message or
a coroutine carries is above the row in its past – the part that survives a
restart.

**The broker.** `DeclaredInv`: whoever has been through `connect` found or left the
queues declared, whatever became of the link, because each declaration reads
channel and exchange anew and fails when they were reset; what is declared is
durable; and a core that started with its worker has been through `connect`.
`CopiesInv` counts the copies by the point the publication has reached.

**The monitor.** `Covered`: each punishment that is still to come (`Pending`: a
listed lock with the holder it was listed with, or an expired lock that no
cycle has in hand) is for a lapse that was counted and not yet punished. An
abandoned cycle may punish a lock again that it had punished and not yet
deleted, once for each of `errors`.

**Only model-checked.** Liveness (`SilentRideEnds`, `CompensatingResolves`,
`ResidualLockReaped`, `ImplementsFairPromise`, `ExpiredIsReaped`, `ServedAgain`,
`RoundEnds`, `QueueServed`, `PublishReturns`), which is out of the prover's
reach. `Spec => P` of a property that needs assumptions is proved under them;
without them it is false.

## 5. What is not modelled, and the plan

Not modelled: the group registry (an upsert of one row whose two races end in an
error or in a mix of two registrations of one group, and a look-up of an API
key; nothing else depends on it), read endpoints, listings and DTOs (no state),
the exception handlers' formatting, metrics and dashboards, deployment, the
group callbacks.

Next, in this order:

1. The breakers composed with eligibility and with the monitor's punishment:
   how often a silent group is asked, and for how long it is not.
2. WorkerSelect implemented by AuctionRound.
3. `GroupRegistry`: registration as check and insert.
4. Proofs: that each step of AuctionRound is a stutter of RideCore or its
   `WorkerSelect`.
