------------------------- MODULE MonitorCycleProofs -------------------------
(***************************************************************************)
(* The monitor punishes a group at most once for each lease it let run     *)
(* out, for any number of rides, groups and abandoned cycles.              *)
(***************************************************************************)
EXTENDS MonitorCycle, TLAPS

(* The current cycle has this ride's lock in its list, or in hand.         *)
Held(r) ==
  \/ r \in monitor.todo
  \/ monitor.pc \in {"drop", "delete"} /\ monitor.ride = r

(* The monitor is going to punish g for ride r: in this cycle, or once a   *)
(* later one finds the lock.  A lock that the cycle holds is deleted       *)
(* before the next list is read, so it is not counted twice.               *)
Pending(r, g) ==
  \/ r \in monitor.todo /\ monitor.holder[r] = g
  \/ ~Held(r) /\ Expired(r) /\ lock[r].holder = g

(* Every punishment still to come is for a lapse that was counted, unless  *)
(* an abandoned cycle punished it before.                                  *)
Covered == \A r \in Rides, g \in Groups :
  /\ due[r][g] + errors >= 0
  /\ Pending(r, g) => due[r][g] + errors >= 1

IdleInv == monitor.pc = "idle" => monitor.todo = {}

Inv == TypeOK /\ IdleInv /\ Covered

LEMMA InitInv == Init => Inv
BY NoneAssumption, LimitsAssumption
   DEF Init, Inv, TypeOK, IdleInv, Covered, Pending, Held, Expired, IdleMonitor, Lock

(* A cycle that takes its turn or moves on, and leaves locks and counts.   *)
LEMMA ListStep == Inv /\ MonitorList => Inv'
<1> SUFFICES ASSUME Inv, MonitorList PROVE Inv'
  OBVIOUS
<1>1. TypeOK'
  <2>1. \A r \in Rides : Expired(r) => lock[r].holder \in Groups
    BY DEF Inv, TypeOK, Expired, Lock
  <2>2. [r \in Rides |-> IF Expired(r) THEN lock[r].holder ELSE None]
          \in [Rides -> Groups \cup {None}]
    BY <2>1
  <2>3. \A r \in monitor'.todo : monitor'.holder[r] # None
    BY <2>1, NoneAssumption DEF MonitorList
  <2>4. monitor' \in [pc: {"idle", "next", "drop", "delete", "compensate"},
                      todo: SUBSET Rides, ride: Rides \cup {None},
                      holder: [Rides -> Groups \cup {None}]]
    BY <2>2 DEF MonitorList
  <2> QED BY <2>3, <2>4 DEF Inv, TypeOK, MonitorList
<1>2. IdleInv'
  BY DEF MonitorList, IdleInv
<1>3. Covered'
  <2> SUFFICES ASSUME NEW r \in Rides, NEW g \in Groups
               PROVE  /\ due'[r][g] + errors' >= 0
                      /\ Pending(r, g)' => due'[r][g] + errors' >= 1
    BY DEF Covered
  <2>1. due' = due /\ errors' = errors
    BY DEF MonitorList
  <2>2. Pending(r, g)' => Pending(r, g)
    BY DEF MonitorList, Pending, Held, Expired, Inv, IdleInv
  <2> QED BY <2>1, <2>2 DEF Inv, Covered
<1> QED BY <1>1, <1>2, <1>3 DEF Inv

LEMMA TurnStep ==
  ASSUME Inv, NEW r \in Rides, MonitorResidual(r) \/ MonitorPunish(r)
  PROVE  Inv'
<1>0. PICK pc \in {"drop", "delete"} :
        monitor' = [pc |-> pc, todo |-> monitor.todo \ {r}, ride |-> r,
                    holder |-> monitor.holder]
  <2>1. PICK pc \in {"drop", "delete"} :
          monitor' = [monitor EXCEPT !.pc = pc, !.ride = r, !.todo = @ \ {r}]
    BY DEF MonitorResidual, MonitorPunish, Turn
  <2>2. monitor \in [pc: {"idle", "next", "drop", "delete", "compensate"},
                      todo: SUBSET Rides, ride: Rides \cup {None},
                      holder: [Rides -> Groups \cup {None}]]
    BY DEF Inv, TypeOK
  <2> QED BY <2>1, <2>2
<1>1. TypeOK'
  <2>1. monitor' \in [pc: {"idle", "next", "drop", "delete", "compensate"},
                      todo: SUBSET Rides, ride: Rides \cup {None},
                      holder: [Rides -> Groups \cup {None}]]
    BY <1>0 DEF Inv, TypeOK
  <2>2. due' \in [Rides -> [Groups -> Int]]
    <3>1. \A g \in Groups : due[r][g] - 1 \in Int
      BY DEF Inv, TypeOK
    <3>2. Holder(r) \in Groups
      BY DEF Inv, TypeOK, MonitorResidual, MonitorPunish, Turn, Holder
    <3>3. CASE MonitorResidual(r)
      BY <3>3 DEF MonitorResidual, Inv, TypeOK
    <3>4. CASE MonitorPunish(r)
      <4> DEFINE row == [due[r] EXCEPT ![Holder(r)] = @ - 1]
      <4>1. row \in [Groups -> Int]
        BY <3>1, <3>2 DEF Inv, TypeOK
      <4>2. due' = [due EXCEPT ![r] = row]
        BY <3>4 DEF MonitorPunish
      <4> HIDE DEF row
      <4> QED BY <4>1, <4>2 DEF Inv, TypeOK
    <3> QED BY <3>3, <3>4
  <2>3. UNCHANGED <<lock, errors>>
    BY DEF MonitorResidual, MonitorPunish
  <2> QED BY <1>0, <2>1, <2>2, <2>3 DEF Inv, TypeOK
<1>2. IdleInv'
  BY <1>0 DEF IdleInv
<1>3. Covered'
  <2> SUFFICES ASSUME NEW s \in Rides, NEW g \in Groups
               PROVE  /\ due'[s][g] + errors' >= 0
                      /\ Pending(s, g)' => due'[s][g] + errors' >= 1
    BY DEF Covered
  <2>1. lock' = lock /\ errors' = errors
    BY DEF MonitorResidual, MonitorPunish
  <2>2. due[s][g] \in Int /\ errors \in Nat
    BY DEF Inv, TypeOK
  <2>3. Pending(s, g)' => s # r /\ Pending(s, g)
    <3>1. monitor.pc = "next"
      BY DEF MonitorResidual, MonitorPunish, Turn
    <3> QED BY <1>0, <2>1, <3>1 DEF Pending, Held, Expired
  <2>4. CASE MonitorResidual(r)
    BY <2>1, <2>3, <2>4 DEF MonitorResidual, Inv, Covered
  <2>5. CASE MonitorPunish(r)
    <3>1. CASE s = r /\ g = Holder(r)
      <4>1. Pending(r, g)
        BY <2>5, <3>1 DEF MonitorPunish, Turn, Pending, Holder
      <4>2. due'[r][g] = due[r][g] - 1
        BY <2>5, <3>1 DEF MonitorPunish, Inv, TypeOK
      <4> QED BY <2>1, <2>2, <2>3, <3>1, <4>1, <4>2 DEF Inv, Covered
    <3>2. CASE ~(s = r /\ g = Holder(r))
      <4>1. due'[s][g] = due[s][g]
        BY <2>5, <3>2 DEF MonitorPunish, Inv, TypeOK
      <4> QED BY <2>1, <2>3, <4>1 DEF Inv, Covered
    <3> QED BY <3>1, <3>2
  <2> QED BY <2>4, <2>5
<1> QED BY <1>1, <1>2, <1>3 DEF Inv

(* The counts stay, and nothing new becomes pending.                       *)
LEMMA QuietStep ==
  ASSUME Inv, MonitorEnds \/ MonitorDelete \/ MonitorCompensate
  PROVE  Inv'
<1>1. TypeOK'
  <2>1. CASE MonitorEnds
    BY <2>1 DEF MonitorEnds, Inv, TypeOK, IdleMonitor
  <2>2. CASE MonitorDelete
    BY <2>2 DEF MonitorDelete, Inv, TypeOK
  <2>3. CASE MonitorCompensate
    BY <2>3 DEF MonitorCompensate, Inv, TypeOK
  <2> QED BY <2>1, <2>2, <2>3
<1>2. IdleInv'
  BY DEF Inv, TypeOK, IdleInv, MonitorEnds, MonitorDelete, MonitorCompensate, IdleMonitor
<1>3. due' = due /\ errors' = errors
  BY DEF MonitorEnds, MonitorDelete, MonitorCompensate
<1>4. ASSUME NEW s \in Rides, NEW g \in Groups, Pending(s, g)'
      PROVE  Pending(s, g)
  <2>1. CASE MonitorEnds
    BY <1>4, <2>1 DEF MonitorEnds, Inv, TypeOK, Pending, Held, Expired, IdleMonitor
  <2>2. CASE MonitorDelete
    BY <1>4, <2>2 DEF MonitorDelete, Inv, TypeOK, Pending, Held, Expired
  <2>3. CASE MonitorCompensate
    BY <1>4, <2>3 DEF MonitorCompensate, Inv, TypeOK, Pending, Held, Expired
  <2> QED BY <2>1, <2>2, <2>3
<1> QED BY <1>1, <1>2, <1>3, <1>4 DEF Inv, Covered

LEMMA RaiseStep == Inv /\ MonitorRaises => Inv'
<1> SUFFICES ASSUME Inv, MonitorRaises PROVE Inv'
  OBVIOUS
<1>1. TypeOK' /\ IdleInv'
  BY DEF Inv, TypeOK, IdleInv, MonitorRaises, CycleEnds, IdleMonitor
<1>2. due' = due /\ errors' = errors + 1
  BY DEF MonitorRaises
<1>3. Covered'
  BY <1>2 DEF Inv, Covered, TypeOK
<1> QED BY <1>1, <1>3 DEF Inv

(* A lease begins or is given up: nothing new becomes pending.             *)
LEMMA LeaseStep ==
  ASSUME Inv, NEW r \in Rides, Lease(r) \/ Release(r)
  PROVE  Inv'
<1>1. lock' \in [Rides -> Lock \cup {None}]
  <2>1. CASE Lease(r)
    <3>1. \A g \in Groups : [holder |-> g, expired |-> FALSE] \in Lock
      BY DEF Lock
    <3> QED BY <2>1, <3>1 DEF Inv, TypeOK, Lease
  <2>2. CASE Release(r)
    BY <2>2 DEF Inv, TypeOK, Release
  <2> QED BY <2>1, <2>2
<1>2. UNCHANGED <<due, errors, monitor>>
  BY DEF Lease, Release
<1>4. TypeOK' /\ IdleInv'
  BY <1>1, <1>2 DEF Inv, TypeOK, IdleInv
<1>3. ASSUME NEW s \in Rides, NEW g \in Groups, Pending(s, g)'
      PROVE  Pending(s, g)
  BY <1>2, <1>3, NoneAssumption
     DEF Inv, TypeOK, Lease, Release, Pending, Held, Expired
<1> QED BY <1>2, <1>3, <1>4 DEF Inv, Covered

LEMMA LapseStep ==
  ASSUME Inv, NEW r \in Rides, LockExpires(r)
  PROVE  Inv'
<1> DEFINE h == lock[r].holder
<1>1. lock[r] \in Lock /\ h \in Groups
  BY DEF LockExpires, Active, Inv, TypeOK, Lock
<1>2. UNCHANGED <<monitor, errors>>
  BY DEF LockExpires
<1>3. TypeOK' /\ IdleInv'
  <2>1. lock' \in [Rides -> Lock \cup {None}]
    BY <1>1 DEF Inv, TypeOK, LockExpires, Lock
  <2>2. \A g \in Groups : due[r][g] + 1 \in Int
    BY DEF Inv, TypeOK
  <2>3. due' \in [Rides -> [Groups -> Int]]
    BY <1>1, <2>2 DEF Inv, TypeOK, LockExpires
  <2> QED BY <1>2, <2>1, <2>3 DEF Inv, TypeOK, IdleInv
<1>4. Covered'
  <2> SUFFICES ASSUME NEW s \in Rides, NEW g \in Groups
               PROVE  /\ due'[s][g] + errors' >= 0
                      /\ Pending(s, g)' => due'[s][g] + errors' >= 1
    BY DEF Covered
  <2>1. due[s][g] \in Int /\ errors \in Nat /\ due[s][g] + errors >= 0
    BY DEF Inv, TypeOK, Covered
  <2>2. CASE s = r /\ g = h
    <3>1. due'[s][g] = due[s][g] + 1
      BY <1>1, <2>2 DEF LockExpires, Inv, TypeOK
    <3> QED BY <1>2, <2>1, <3>1
  <2>3. CASE ~(s = r /\ g = h)
    <3>1. due'[s][g] = due[s][g]
      BY <1>1, <2>3 DEF LockExpires, Inv, TypeOK
    <3>2. Pending(s, g)' => Pending(s, g)
      BY <1>1, <1>2, <2>3 DEF LockExpires, Inv, TypeOK, Pending, Held, Expired, Lock
    <3> QED BY <1>2, <2>1, <3>1, <3>2 DEF Inv, Covered
  <2> QED BY <2>2, <2>3
<1> QED BY <1>3, <1>4 DEF Inv

LEMMA NextInv == Inv /\ [Next]_vars => Inv'
<1> SUFFICES ASSUME Inv, [Next]_vars PROVE Inv'
  OBVIOUS
<1>1. CASE MonitorNext
  BY <1>1, ListStep, TurnStep, QuietStep DEF MonitorNext
<1>2. CASE MonitorRaises
  BY <1>2, RaiseStep
<1>3. CASE \E r \in Rides : Lease(r) \/ Release(r) \/ LockExpires(r)
  BY <1>3, LeaseStep, LapseStep
<1>4. CASE UNCHANGED vars
  BY <1>4 DEF vars, Inv, TypeOK, IdleInv, Covered, Pending, Held, Expired
<1> QED BY <1>1, <1>2, <1>3, <1>4 DEF Next

(* The strengthened invariant holds in every reachable state.              *)
THEOREM Invariance == Spec => []Inv
BY InitInv, NextInv, PTL DEF Spec

(* The list, the locks and the count keep their types.                     *)
THEOREM Types == Spec => []TypeOK
<1>1. Inv => TypeOK
  BY DEF Inv
<1> QED BY <1>1, Invariance, PTL

(* lock_monitor.py:67-71: whatever becomes of the locks between the list   *)
(* and the punishment, a group answers only for leases of its own that ran *)
(* out, and once for each, but for cycles abandoned after the report.      *)
THEOREM Punishment == Spec => []PunishedForLapse
<1>1. Inv => PunishedForLapse
  BY DEF Inv, TypeOK, Covered, PunishedForLapse
<1> QED BY <1>1, Invariance, PTL
=============================================================================
