---------------------------- MODULE MonitorCycle ----------------------------
(***************************************************************************)
(* The lock monitor over all rides.  A cycle lists the expired locks once  *)
(* and then deals with one after the other, for minutes when RabbitMQ is   *)
(* away, with the holders it loaded at the start; requests and the worker  *)
(* change the locks meanwhile.  An exception abandons the rest of the      *)
(* list.  RideCore has all that a cycle does to one ride; this module has  *)
(* the list, and whom the monitor reports to the circuit breakers.         *)
(***************************************************************************)
EXTENDS Integers

CONSTANTS
  Rides,
  Groups,
  None,
  MaxErrors,   \* bound on the exceptions and restarts
  MaxDue       \* bound on the lapses of a group not yet punished

ASSUME NoneAssumption == None \notin Groups
ASSUME LimitsAssumption == MaxErrors \in Nat /\ MaxDue \in Nat

VARIABLES
  lock,      \* ride_locks: the row of each ride, or None
  monitor,   \* where the cycle is suspended, and what it loaded
  due,       \* how often a group let its lease of a ride run out, less how
             \* often the monitor punished it for that
  errors     \* cycles abandoned so far

vars == <<lock, monitor, due, errors>>

Lock == [holder: Groups, expired: BOOLEAN]

Expired(r) == lock[r] # None /\ lock[r].expired

Active(r) == lock[r] # None /\ ~lock[r].expired

(* todo is what is left of the list, ride the one being dealt with, and    *)
(* holder the held_by of the locks as they were listed.                    *)
IdleMonitor ==
  [pc |-> "idle", todo |-> {}, ride |-> None, holder |-> [r \in Rides |-> None]]

Init ==
  /\ lock = [r \in Rides |-> None]
  /\ monitor = IdleMonitor
  /\ due = [r \in Rides |-> [g \in Groups |-> 0]]
  /\ errors = 0
-----------------------------------------------------------------------------
(* A cycle of monitorar_locks_expirados.                                   *)

MonitorList ==
  /\ monitor.pc = "idle"
  /\ \E r \in Rides : Expired(r)
  /\ monitor' = [pc |-> "next", todo |-> {r \in Rides : Expired(r)}, ride |-> None,
                 holder |-> [r \in Rides |-> IF Expired(r) THEN lock[r].holder
                                                           ELSE None]]
  /\ UNCHANGED <<lock, due, errors>>

MonitorEnds ==
  /\ monitor.pc = "next" /\ monitor.todo = {}
  /\ monitor' = IdleMonitor
  /\ UNCHANGED <<lock, due, errors>>

Turn(r, pc) ==
  /\ monitor.pc = "next" /\ r \in monitor.todo
  /\ monitor' = [monitor EXCEPT !.pc = pc, !.ride = r, !.todo = @ \ {r}]

(* The ride has ended or is being compensated already.                     *)
MonitorResidual(r) ==
  /\ Turn(r, "drop")
  /\ UNCHANGED <<lock, due, errors>>

HolderNow(r) == IF lock[r] = None THEN monitor.holder[r] ELSE lock[r].holder

Holder(r) == monitor.holder[r]

(* get_breaker(lock.held_by).fail_increment(): no await comes between the  *)
(* look at the ride and the punishment.                                    *)
MonitorPunish(r) ==
  /\ Turn(r, "delete")
  /\ due' = [due EXCEPT ![r][Holder(r)] = @ - 1]
  /\ UNCHANGED <<lock, errors>>

(* deletar finds the lock of the ride, whatever has become of it.          *)
MonitorDelete ==
  /\ monitor.pc \in {"drop", "delete"}
  /\ lock' = [lock EXCEPT ![monitor.ride] = None]
  /\ monitor' = [monitor EXCEPT !.pc = IF @ = "drop" THEN "next" ELSE "compensate"]
  /\ UNCHANGED <<due, errors>>

(* The ride becomes compensating and its auction is requested again.       *)
MonitorCompensate ==
  /\ monitor.pc = "compensate"
  /\ monitor' = [monitor EXCEPT !.pc = "next"]
  /\ UNCHANGED <<lock, due, errors>>

MonitorNext ==
  \/ MonitorList \/ MonitorEnds
  \/ \E r \in Rides : MonitorResidual(r) \/ MonitorPunish(r)
  \/ MonitorDelete \/ MonitorCompensate

(* The except around a cycle: the other locks wait for the next one.  A    *)
(* restart of the core has the same effect.                                *)
TaskEnds == [IdleMonitor EXCEPT !.pc = "ended"]

CycleEnds == IdleMonitor

MonitorRaises ==
  /\ monitor.pc # "idle" /\ errors < MaxErrors
  /\ monitor' = CycleEnds
  /\ errors' = errors + 1
  /\ UNCHANGED <<lock, due>>
-----------------------------------------------------------------------------
(* The other users of the locks, and time.                                 *)

(* criar_ou_renovar, by adquirir_lock (the holder renews, or another group *)
(* finds the lock expired or absent) or by the worker.                     *)
Lease(r) ==
  /\ \E g \in Groups : lock' = [lock EXCEPT ![r] = [holder |-> g, expired |-> FALSE]]
  /\ UNCHANGED <<monitor, due, errors>>

(* deletar, by liberar_lock, the end of the ride, or the worker.           *)
Release(r) ==
  /\ lock[r] # None
  /\ lock' = [lock EXCEPT ![r] = None]
  /\ UNCHANGED <<monitor, due, errors>>

LockExpires(r) ==
  /\ Active(r) /\ due[r][lock[r].holder] < MaxDue
  /\ lock' = [lock EXCEPT ![r].expired = TRUE]
  /\ due' = [due EXCEPT ![r][lock[r].holder] = @ + 1]
  /\ UNCHANGED <<monitor, errors>>

Next ==
  \/ MonitorNext
  \/ MonitorRaises
  \/ \E r \in Rides : Lease(r) \/ Release(r) \/ LockExpires(r)

Spec == Init /\ [][Next]_vars

(* The monitor wakes up every 5 s, and an await returns or raises (while   *)
(* RabbitMQ is away a publication may keep it waiting, but not for ever).  *)
FairSpec == Spec /\ WF_vars(MonitorNext)
-----------------------------------------------------------------------------
(* Type correctness of the locks, the cycle and the count.                 *)
TypeOK ==
  /\ lock \in [Rides -> Lock \cup {None}]
  /\ monitor \in [pc: {"idle", "next", "drop", "delete", "compensate"},
                  todo: SUBSET Rides, ride: Rides \cup {None},
                  holder: [Rides -> Groups \cup {None}]]
  /\ monitor.pc \in {"drop", "delete"} => monitor.ride \in Rides
  /\ \A r \in monitor.todo : monitor.holder[r] # None
  /\ due \in [Rides -> [Groups -> Int]]
  /\ errors \in Nat

(* lock_monitor.py:67-69: a failure is only reported to the breaker of a   *)
(* group for a lease of its own that ran out, and once for each -- though  *)
(* the list is old by the time its end is reached, and the lock may have   *)
(* another holder.  Only a cycle abandoned after the report, and before    *)
(* the lock was deleted, reports the same lease again.                     *)
PunishedForLapse == \A r \in Rides, g \in Groups : due[r][g] >= -errors

(* An exception abandons the locks listed after it, but forgets none: as   *)
(* long as cycles do not fail for ever, each expired lock is removed, if   *)
(* its holder does not renew it first.                                     *)
ExpiredIsReaped == \A r \in Rides : Expired(r) ~> ~Expired(r)
-----------------------------------------------------------------------------
(* openapi.yaml:450-453, 460-462: a holder may acquire its lock again      *)
(* after it expired, and from then on has the new ttlSeconds: the monitor  *)
(* compensates no ride whose lock is active when it deletes it.            *)
ActiveLockKept ==
  [][ monitor.pc = "delete" /\ monitor'.pc = "compensate"
        => ~Active(monitor.ride) ]_vars
=============================================================================
