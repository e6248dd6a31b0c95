--------------------------- MODULE CircuitBreaker ---------------------------
(***************************************************************************)
(* The circuit breaker the core keeps for one group, and everything that   *)
(* touches it: PATCH and lock requests of the group, the invitations the   *)
(* auction worker sends it, and the lock monitor.  Breakers of different   *)
(* groups share nothing (get_breaker makes one per group).                 *)
(*                                                                         *)
(* A breaker method never awaits, so it is one step; what interleaves is   *)
(* the call a check admits and the success or failure it reports later.    *)
(***************************************************************************)
EXTENDS Naturals

CONSTANTS
  Calls,              \* requests and invitations that may overlap
  FailureThreshold,   \* FAILURE_THRESHOLD
  RecoveryTimeout,    \* RECOVERY_TIMEOUT, in ticks
  MaxFailures         \* bound: fail_counter is not counted beyond it

ASSUME ThresholdAssumption == FailureThreshold \in Nat
ASSUME TimeoutAssumption   == RecoveryTimeout \in Nat \ {0}
ASSUME FailuresAssumption  == MaxFailures \in Nat /\ MaxFailures > FailureThreshold

VARIABLES
  state,          \* _state
  fail_counter,   \* _fail_counter
  wait,           \* what is left of the recovery timeout (_last_time_opened)
  calls           \* progress of each call

vars == <<state, fail_counter, wait, calls>>

CircuitBreakerState == {"CLOSED", "OPEN", "HALF_OPEN"}

(* The property `state`: an OPEN breaker is found HALF_OPEN by the first   *)
(* check_state after the timeout.                                          *)
CurrentState == IF state = "OPEN" /\ wait = 0 THEN "HALF_OPEN" ELSE state

TripsAgain == fail_counter + 1 > FailureThreshold \/ state = "HALF_OPEN"

(* Both tests of fail_increment read _state, not the property: a failure   *)
(* reported to an OPEN breaker is only counted, however old the opening.   *)
Trips == \/ state = "CLOSED" /\ fail_counter + 1 > FailureThreshold
         \/ state = "HALF_OPEN"

OpenTooLong == state' = "OPEN" /\ wait' = RecoveryTimeout + 1

Open == state' = "OPEN" /\ wait' = RecoveryTimeout

(* All that is ever asked of the counter is whether it exceeds the         *)
(* threshold, so beyond MaxFailures it need not grow.                      *)
fail_increment ==
  /\ fail_counter' = IF fail_counter < MaxFailures THEN fail_counter + 1
                                                   ELSE fail_counter
  /\ IF Trips THEN Open ELSE UNCHANGED <<state, wait>>

success_keeps_counter ==
  /\ UNCHANGED fail_counter
  /\ state' = "CLOSED"
  /\ wait' = 0

success ==
  /\ fail_counter' = 0
  /\ state' = "CLOSED"
  /\ wait' = 0
-----------------------------------------------------------------------------
Init ==
  /\ state = "CLOSED"
  /\ fail_counter = 0
  /\ wait = 0
  /\ calls = [c \in Calls |-> "idle"]

(* check_state lets the call through (else: 503, or not invited).          *)
Admit(c) ==
  /\ calls[c] = "idle"
  /\ CurrentState # "OPEN"
  /\ state' = CurrentState
  /\ calls' = [calls EXCEPT ![c] = "running"]
  /\ UNCHANGED <<fail_counter, wait>>

Succeed(c) ==
  /\ calls[c] = "running"
  /\ success
  /\ calls' = [calls EXCEPT ![c] = "idle"]

Fail(c) ==
  /\ calls[c] = "running"
  /\ fail_increment
  /\ calls' = [calls EXCEPT ![c] = "idle"]

(* 403, 404, 409 and 422 say nothing about the health of the group.        *)
Refuse(c) ==
  /\ calls[c] = "running"
  /\ calls' = [calls EXCEPT ![c] = "idle"]
  /\ UNCHANGED <<state, fail_counter, wait>>

(* The monitor finds an expired lock of the group; it does not check first. *)
Punish ==
  /\ fail_increment
  /\ UNCHANGED calls

Tick ==
  /\ wait > 0
  /\ wait' = wait - 1
  /\ UNCHANGED <<state, fail_counter, calls>>

(* Breakers live in memory.                                                *)
Restart ==
  /\ success
  /\ calls' = [c \in Calls |-> "idle"]

Next ==
  \/ \E c \in Calls : Admit(c) \/ Succeed(c) \/ Fail(c) \/ Refuse(c)
  \/ Punish
  \/ Tick
  \/ Restart

Spec == Init /\ [][Next]_vars

(* Time passes; nobody has to call.                                        *)
FairSpec == Spec /\ WF_vars(Tick)
-----------------------------------------------------------------------------
(* Type correctness of the breaker and of the calls.                       *)
TypeOK ==
  /\ state \in CircuitBreakerState
  /\ fail_counter \in Nat
  /\ wait \in 0..RecoveryTimeout
  /\ calls \in [Calls -> {"idle", "running"}]

(* However calls overlap, a breaker is CLOSED exactly while the failures   *)
(* since the last success are within the threshold: no report that arrives *)
(* late can leave it closed above the threshold, or blocking below it.     *)
ClosedWithinThreshold == state = "CLOSED" <=> fail_counter <= FailureThreshold

(* A blocked group can be served again, although the monitor and calls     *)
(* admitted before may go on reporting failures: they do not prolong the   *)
(* block.                                                                  *)
ServedAgain == CurrentState = "OPEN" ~> CurrentState # "OPEN"
=============================================================================
