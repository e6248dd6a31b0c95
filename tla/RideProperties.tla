--------------------------- MODULE RideProperties ---------------------------
(***************************************************************************)
(* What the core should guarantee about one ride.  The first part holds of *)
(* the code (in the configurations the README names); the second part is   *)
(* what the repository's documents say and the code does not do.           *)
(***************************************************************************)
EXTENDS RideCore

ReqType ==
  [pc: {"idle", "patch_ride", "patch_lock", "patch_commit", "patch_audit",
        "patch_reopen", "patch_publish", "acquire_select", "acquire_commit",
        "release_delete"},
   svc: Groups \cup {None}, to: Targets \cup {None}, ts: 0..MaxTs, ride: Ride,
   seen: SeenLock \cup {None}, excluded: SUBSET Groups]

CreateType == [pc: {"select", "lock", "publish", "done"}, seen: SeenLock \cup {None}]

WorkerType ==
  [pc: {"idle", "gather", "close", "settle", "transfer", "ack"},
   ride: Ride, excluded: SUBSET Groups, winner: Groups \cup {None},
   seen: SeenLock \cup {None}]

MonitorType ==
  [pc: {"idle", "ride", "drop", "delete", "compensate", "refresh", "reopen",
        "publish"},
   holder: Groups \cup {None}, ride: Ride, excluded: SUBSET Groups]

(* Type correctness of the tables, the queue and the coroutines' records.  *)
TypeOK ==
  /\ ride \in Ride
  /\ lock \in Lock \cup {None}
  /\ audit \in [Groups -> [Timestamps -> Nat]]
  /\ winners \in SUBSET Groups
  /\ queue \in Seq(SUBSET Groups)
  /\ create \in CreateType
  /\ req \in [Handlers -> ReqType]
  /\ worker \in WorkerType
  /\ monitor \in MonitorType
  /\ faults \in Nat
-----------------------------------------------------------------------------
(* Properties that hold.                                                   *)

KeepsOutcome ==
  ride.auction # "open" => /\ ride'.recipient = ride.recipient
                           /\ ride'.auction \in {ride.auction, "open"}

(* The worker's comment "duplicatas e mensagens atrasadas sao inofensivas" *)
(* (auction_worker.py:587): once an auction is settled, no message, late,  *)
(* duplicated or redelivered after a crash, gives it another outcome; only *)
(* a compensation opens it again.                                          *)
SettledOnce == [][KeepsOutcome]_vars

(* The core keeps the abstract promise of AuctionPromise: the winner that  *)
(* is announced is the one the worker has just committed as winner, in an  *)
(* auction that is still open; a crash or an exception withdraws it; no    *)
(* request, message or monitor cycle settles or assigns anything else.     *)
Promise == INSTANCE AuctionPromise WITH
  auction   <- ride.auction,
  recipient <- ride.recipient,
  candidate <- IF worker.pc = "close" THEN worker.winner ELSE None,
  offers    <- winners

ImplementsPromise == Promise!Spec

(* ... and while no message is lost and nothing fails, every auction ends. *)
ImplementsFairPromise == Promise!FairSpec

Assigned == {"match", "confirm", "in_transit", "complete"}

(* A ride that is past its auction has a recipient, and the recipient is a *)
(* group other than the origin that has a committed winning proposal --    *)
(* whatever stale row a PATCH or the monitor wrote back in between.        *)
AssignedToWinner ==
  /\ ride.status \in Assigned => ride.recipient # None
  /\ ride.recipient # None => ride.recipient \in winners \ {Origin}

Commits(h) == req[h].pc = "patch_commit" /\ req'[h].pc = "patch_audit"

KeepsOrder ==
  /\ ride'.lastTs >= ride.lastTs
  /\ \A h \in Handlers : Commits(h) => ride'.lastTs > ride.lastTs

(* A transition of a group commits with a timestamp above every one that   *)
(* was committed before, and nothing else -- an auction closing, a reopen, *)
(* a compensation by the monitor -- puts last_client_ts back.              *)
CausalOrder == [][KeepsOrder]_vars

(* The saga's edges: those a group may ask for, and those the core takes   *)
(* when an auction ends.                                                   *)
SagaEdge(s) == TRANSICOES_VALIDAS[s] \cup
               (IF s \in {"request", "compensating"} THEN {"match", "cancelled"} ELSE {})

(* Although every write starts from a row read earlier, each change of     *)
(* ride.status follows an edge of the saga from the status it overwrites.  *)
StepsFollowSaga ==
  [][ ride'.status # ride.status => ride'.status \in SagaEdge(ride.status) ]_vars

(* complete and cancelled are final (spec/saga/state-machine.md:72).       *)
TerminalIsFinal ==
  [][ ride.status \in ESTADOS_TERMINAIS => ride'.status = ride.status ]_vars

(* While nobody's lease runs out, a ride under way is locked by its        *)
(* recipient: neither the origin renewing the lock it had during the       *)
(* auction, nor any acquire, takes it away after the transfer.             *)
WinnerHoldsLock ==
  ride.status \in {"match", "confirm", "in_transit"} /\ worker.pc = "idle"
    => lock # None /\ lock.holder = ride.recipient

(* A group that failed this ride is not chosen again in a later auction.   *)
NoRepeatWinner ==
  [][ ride.auction = "open" /\ ride'.auction = "closed"
        => ride'.recipient \notin ride.excluded ]_vars

(* excluded_groups never forgets a group.                                  *)
ExcludedOnlyGrows == [][ ride.excluded \subseteq ride'.excluded ]_vars

(* If no group ever acts on the ride, leases run out one after the other   *)
(* and the ride ends: it does not loop and does not get stuck.  The one    *)
(* way to be left behind is a fault that leaves no lock to expire -- the   *)
(* auction's message lost, or a stop between the deletion of the lock and  *)
(* the compensation -- since nothing but a lock draws the monitor to a     *)
(* ride.                                                                   *)
LeftBehind == faults > 0 /\ lock = None

SilentRideEnds == <>[](ride.status = "cancelled" \/ LeftBehind)

(* A compensation always comes to an end (docs/fluxo-delegacao.md:109): a  *)
(* new match, or the cancellation.                                         *)
CompensatingResolves == ride.status = "compensating" ~> ride.status # "compensating"

(* A lock left on a ride that ended (the core died before deleting it) is  *)
(* removed, the "lock residual" of lock_monitor.py:67-69.                  *)
ResidualLockReaped ==
  ride.status \in ESTADOS_TERMINAIS /\ lock # None ~> lock = None
-----------------------------------------------------------------------------
(* Why SettledOnce and AssignedToWinner hold: what every coroutine knows   *)
(* of the tables while it is suspended.  The conjunction is inductive.     *)

PatchPcs == {"patch_ride", "patch_lock", "patch_commit", "patch_audit",
             "patch_reopen", "patch_publish"}

(* A request in progress has the parameters its operation needs.  A PATCH  *)
(* that has validated confirm, in_transit or complete has seen a ride past *)
(* its auction, and a recipient is never taken away again.                 *)
ReqOK(r, recipient) ==
  /\ r.pc # "idle" => r.svc \in Groups
  /\ r.pc \in PatchPcs => r.to \in Targets /\ r.ts \in Timestamps
  /\ r.pc \in {"patch_lock", "patch_commit"}
       => r.to \in {"compensating", "cancelled"} \/ recipient # None

ReqInv == \A h \in Handlers : ReqOK(req[h], ride.recipient)

(* While an auction runs its message is at the head of the queue, nothing  *)
(* else settles the auction or assigns the ride, and the winner's proposal *)
(* is committed before the winner is.                                      *)
WorkerInv ==
  /\ worker.pc # "idle" => queue # <<>>
  /\ worker.pc \in {"gather", "close"} =>
       /\ ride.auction = "open" /\ worker.ride.auction = "open"
       /\ worker.ride.recipient = ride.recipient
  /\ worker.pc \in {"close", "settle", "transfer"} /\ worker.winner # None
       => worker.winner \in winners \ {Origin}
  /\ worker.pc = "transfer" => worker.winner # None

MonitorOK(m) == m.pc \notin {"idle", "publish"} => m.holder \in Groups

MonitorInv == MonitorOK(monitor)

IndInv == TypeOK /\ AssignedToWinner /\ ReqInv /\ WorkerInv /\ MonitorInv
-----------------------------------------------------------------------------
(* What the documents say and the code does not do: see the findings.      *)

(* state-machine.md:70: the same serviceId + logicalTimestamp submitted    *)
(* twice changes the state once; existe_idempotente relies on there being  *)
(* at most one row.                                                        *)
IdempotentOnce == \A svc \in Groups, ts \in Timestamps : audit[svc][ts] <= 1

(* openapi.yaml:446: an active lock keeps other groups out.                *)
ActiveLockNotStolen ==
  [][ lock # None /\ lock' # None =>
        \/ lock'.holder = lock.holder
        \/ lock.expired
        \/ worker.pc = "transfer" /\ worker'.pc = "ack" ]_vars
=============================================================================
