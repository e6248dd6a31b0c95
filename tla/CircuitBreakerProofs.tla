------------------------ MODULE CircuitBreakerProofs ------------------------
(***************************************************************************)
(* Theorems about one breaker, for every set of calls, threshold and       *)
(* timeout.                                                                *)
(***************************************************************************)
EXTENDS CircuitBreaker, TLAPS

BreakerInv == TypeOK /\ ClosedWithinThreshold

LEMMA FailInd ==
  ASSUME BreakerInv, fail_increment, calls' \in [Calls -> {"idle", "running"}]
  PROVE  BreakerInv'
<1>1. TypeOK'
  BY ThresholdAssumption, TimeoutAssumption, FailuresAssumption
     DEF BreakerInv, TypeOK, fail_increment, Open, CircuitBreakerState
<1>2. CASE Trips
  BY <1>1, <1>2, ThresholdAssumption, FailuresAssumption
     DEF BreakerInv, TypeOK, ClosedWithinThreshold, fail_increment, Trips, Open
<1>3. CASE ~Trips
  BY <1>1, <1>3, ThresholdAssumption, FailuresAssumption
     DEF BreakerInv, TypeOK, ClosedWithinThreshold, fail_increment, Trips,
         CircuitBreakerState
<1> QED
  BY <1>1, <1>2, <1>3 DEF BreakerInv

LEMMA SuccessInd ==
  ASSUME BreakerInv, success, calls' \in [Calls -> {"idle", "running"}]
  PROVE  BreakerInv'
BY ThresholdAssumption, TimeoutAssumption
   DEF BreakerInv, TypeOK, ClosedWithinThreshold, success, CircuitBreakerState

LEMMA BreakerInit == Init => BreakerInv
BY ThresholdAssumption, TimeoutAssumption
   DEF Init, BreakerInv, TypeOK, ClosedWithinThreshold, CircuitBreakerState

LEMMA BreakerInd == BreakerInv /\ [Next]_vars => BreakerInv'
<1> SUFFICES ASSUME BreakerInv, [Next]_vars PROVE BreakerInv'
  OBVIOUS
<1>1. ASSUME NEW c \in Calls, Admit(c) PROVE BreakerInv'
  <2>1. TypeOK'
    BY <1>1 DEF BreakerInv, TypeOK, Admit, CurrentState, CircuitBreakerState
  <2>2. ClosedWithinThreshold'
    BY <1>1 DEF BreakerInv, ClosedWithinThreshold, Admit, CurrentState
  <2> QED
    BY <2>1, <2>2 DEF BreakerInv
<1>2. ASSUME NEW c \in Calls, Succeed(c) PROVE BreakerInv'
  BY <1>2, SuccessInd DEF Succeed, BreakerInv, TypeOK
<1>3. ASSUME NEW c \in Calls, Fail(c) PROVE BreakerInv'
  BY <1>3, FailInd DEF Fail, BreakerInv, TypeOK
<1>4. ASSUME NEW c \in Calls, Refuse(c) PROVE BreakerInv'
  BY <1>4 DEF Refuse, BreakerInv, TypeOK, ClosedWithinThreshold
<1>5. CASE Punish
  BY <1>5, FailInd DEF Punish, BreakerInv, TypeOK
<1>6. CASE Tick
  BY <1>6, TimeoutAssumption DEF Tick, BreakerInv, TypeOK, ClosedWithinThreshold
<1>7. CASE Restart
  BY <1>7, SuccessInd DEF Restart
<1>8. CASE UNCHANGED vars
  BY <1>8 DEF vars, BreakerInv, TypeOK, ClosedWithinThreshold
<1> QED
  BY <1>1, <1>2, <1>3, <1>4, <1>5, <1>6, <1>7, <1>8 DEF Next

(* BreakerInv is inductive: the types and the threshold support each other. *)
THEOREM BreakerInvariance == Spec => []BreakerInv
BY BreakerInit, BreakerInd, PTL DEF Spec

(* The breaker and the calls keep their types.                             *)
THEOREM BreakerTypes == Spec => []TypeOK
<1>1. BreakerInv => TypeOK
  BY DEF BreakerInv
<1> QED
  BY <1>1, BreakerInvariance, PTL

(* A breaker is closed exactly while its failures are within the threshold, *)
(* in every interleaving of calls, punishments, time and restarts.         *)
THEOREM BreakerCloses == Spec => []ClosedWithinThreshold
<1>1. BreakerInv => ClosedWithinThreshold
  BY DEF BreakerInv
<1> QED
  BY <1>1, BreakerInvariance, PTL
=============================================================================
