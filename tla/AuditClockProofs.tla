-------------------------- MODULE AuditClockProofs --------------------------
(***************************************************************************)
(* For any number of requests at once, any timestamps of the clients and   *)
(* any number of restarts: the audit log of one run of the core is         *)
(* causally ordered, and what a request causes sorts after it also across  *)
(* a restart.                                                              *)
(***************************************************************************)
EXTENDS AuditClock, SequenceTheorems, TLAPS

(* A timestamp that was taken for an event that is not in the log yet.     *)
Pending(p) == run[p].pc \in {"insert", "created", "commit", "committed", "lock",
                             "close", "closed", "expired"}

ThisBoot(i) == log[i].boot = boot

(* Rows know only earlier rows, and this run's are within the clock.       *)
RowsInv ==
  \A i \in Rows : /\ log[i].seen < i
                  /\ log[i].boot <= boot
                  /\ ThisBoot(i) => log[i].ts <= clock

(* Timestamps in flight are unique, and above all that was seen.           *)
StampsInv ==
  \A p \in Procs :
    /\ run[p].seen <= Len(log)
    /\ Pending(p) =>
         /\ run[p].ts <= clock
         /\ \A i \in Rows : ThisBoot(i) =>
              /\ log[i].ts # run[p].ts
              /\ i <= run[p].seen => log[i].ts < run[p].ts
         /\ \A q \in Procs : p # q /\ Pending(q) => run[p].ts # run[q].ts

(* The last row in the past of a coroutine, or of a message, is below the  *)
(* next timestamp it takes, or carries.                                    *)
CausesInv ==
  /\ \A p \in Procs : LET i == run[p].after
                      IN  i # 0 => /\ i \in Rows
                                   /\ log[i].ts <= clock
                                   /\ Pending(p) => log[i].ts < run[p].ts
  /\ \A k \in 1..Len(queue) : LET i == queue[k].after
                              IN  i # 0 => i \in Rows /\ log[i].ts < queue[k].ts

(* The message the worker handles stays at the head of the queue.          *)
HandledInv == run[Worker].pc \notin {"idle", "absent"} => queue # <<>>

Inv == /\ TypeOK /\ HandledInv /\ RowsInv /\ StampsInv /\ CausesInv
       /\ HappenedBefore /\ CauseFirst

USE ProcsAssumption, ClockAssumption

(* What the invariants compare are natural numbers. *)
Numbers ==
  /\ clock \in Nat /\ boot \in Nat /\ Len(log) \in Nat /\ Len(queue) \in Nat
  /\ \A i \in Rows : log[i] \in Row /\ log[i].ts \in Nat /\ log[i].seen \in Nat
                     /\ log[i].after \in Nat /\ log[i].boot \in Nat
  /\ \A p \in Procs : run[p].ts \in Nat /\ run[p].seen \in Nat
                      /\ run[p].after \in Nat
  /\ \A k \in 1..Len(queue) : queue[k].ts \in Nat /\ queue[k].after \in Nat

LEMMA NumbersFact ==
  ASSUME Inv
  PROVE  Numbers
<1>1. /\ clock \in Nat /\ boot \in Nat /\ log \in Seq(Row)
      /\ queue \in Seq([ts: Nat, after: Nat])
      /\ run \in [Procs -> [pc: Pcs, ts: Nat, seen: Nat, after: Nat]]
  BY DEF Inv, TypeOK
<1>2. Len(log) \in Nat /\ \A i \in Rows : log[i] \in Row
  BY <1>1 DEF Rows
<1>3. Len(queue) \in Nat
      /\ \A k \in 1..Len(queue) : queue[k] \in [ts: Nat, after: Nat]
  BY <1>1, LenProperties, ElementOfSeq
<1>4. \A r \in Row : r.ts \in Nat /\ r.seen \in Nat /\ r.after \in Nat /\ r.boot \in Nat
  BY DEF Row
<1>5. \A p \in Procs : run[p] \in [pc: Pcs, ts: Nat, seen: Nat, after: Nat]
  BY <1>1
<1> QED BY <1>1, <1>2, <1>3, <1>4, <1>5 DEF Numbers

(* A timestamp above the clock is taken. *)
LEMMA StampInd ==
  ASSUME Inv, NEW p \in Procs, NEW ts \in Nat, ts > clock, NEW next \in Pcs,
         p = Worker => run[p].pc \notin {"idle", "absent"},
         Stamp(p, next, ts), UNCHANGED <<boot, inserted, log, queue>>
  PROVE  Inv'
<1> USE DEF Inv
<1>1. /\ run' = [run EXCEPT ![p].pc = next, ![p].ts = ts, ![p].seen = Len(log)]
      /\ clock' = ts
  BY DEF Stamp
<1>2. Numbers
  BY NumbersFact
<1>3. TypeOK'
  BY <1>1, <1>2 DEF TypeOK, Numbers
<1>4. /\ \A q \in Procs \ {p} : run'[q] = run[q]
      /\ run'[p].ts = ts /\ run'[p].seen = Len(log) /\ run'[p].after = run[p].after
      /\ run'[p].pc = next
  BY <1>1 DEF TypeOK
<1>5. RowsInv'
  <2>1. \A i \in Rows : log[i].ts <= clock => log[i].ts <= clock'
    BY <1>1, <1>2 DEF Numbers
  <2> QED BY <2>1 DEF RowsInv, Rows, ThisBoot
<1>6. \A i \in Rows : ThisBoot(i) => log[i].ts < ts
  BY <1>2 DEF RowsInv, Numbers
<1>7. \A q \in Procs \ {p} : Pending(q) => run[q].ts < ts
  BY <1>2 DEF StampsInv, Numbers
<1>8. StampsInv'
  <2>1. \A q \in Procs \ {p} : Pending(q)' <=> Pending(q)
    BY <1>4 DEF Pending
  <2>2. \A q \in Procs \ {p} : Pending(q) => run[q].ts <= clock'
    BY <1>1, <1>2, <1>7 DEF Numbers
  <2>3. ASSUME NEW i \in Rows, ThisBoot(i)
        PROVE  log[i].ts # ts /\ log[i].ts < ts
    BY <1>2, <1>6, <2>3 DEF Numbers
  <2>4. ASSUME NEW q \in Procs \ {p}, Pending(q)
        PROVE  run[q].ts # ts
    BY <1>2, <1>7, <2>4 DEF Numbers
  <2>5. Len(log) <= Len(log) /\ ts <= ts
    BY <1>2 DEF Numbers
  <2>6. ASSUME NEW q \in Procs \ {p}, Pending(q)'
        PROVE  /\ run'[q].ts <= clock'
               /\ \A i \in Rows : ThisBoot(i) =>
                    /\ log[i].ts # run'[q].ts
                    /\ i <= run'[q].seen => log[i].ts < run'[q].ts
               /\ \A r \in Procs : q # r /\ Pending(r)' => run'[q].ts # run'[r].ts
    BY <1>4, <2>1, <2>2, <2>4, <2>6 DEF StampsInv
  <2>7. /\ run'[p].ts <= clock'
        /\ \A i \in Rows : ThisBoot(i) =>
             /\ log[i].ts # run'[p].ts
             /\ i <= run'[p].seen => log[i].ts < run'[p].ts
        /\ \A r \in Procs : p # r /\ Pending(r)' => run'[p].ts # run'[r].ts
    BY <1>1, <1>4, <2>1, <2>3, <2>4, <2>5
  <2>8. \A q \in Procs : run'[q].seen <= Len(log)
    BY <1>4, <2>5 DEF StampsInv
  <2> QED BY <2>6, <2>7, <2>8 DEF StampsInv, Rows, ThisBoot
<1>9. CausesInv'
  <2>1. ASSUME NEW i \in Rows, log[i].ts <= clock
        PROVE  log[i].ts <= clock' /\ log[i].ts < ts
    BY <1>1, <1>2, <2>1 DEF Numbers
  <2>2. \A q \in Procs \ {p} : Pending(q)' <=> Pending(q)
    BY <1>4 DEF Pending
  <2> QED BY <1>1, <1>4, <2>1, <2>2 DEF CausesInv, Rows
<1>10. HappenedBefore' /\ CauseFirst'
  BY DEF HappenedBefore, CauseFirst, Rows
<1>11. HandledInv'
  BY <1>4 DEF HandledInv, Procs
<1> QED BY <1>3, <1>5, <1>8, <1>9, <1>10, <1>11

(* The row of a timestamp taken before is written. *)
LEMMA RecordInd ==
  ASSUME Inv, NEW p \in Procs, Pending(p), NEW event, NEW next \in Pcs,
         [event |-> event, ts |-> run[p].ts, seen |-> run[p].seen,
          after |-> run[p].after, boot |-> boot] \in Row,
         next \in {"request", "answer", "transferred", "ack", "compensate"},
         Record(p, event, next), UNCHANGED <<clock, boot, inserted, queue>>
  PROVE  Inv'
<1> USE DEF Inv
<1> DEFINE row == [event |-> event, ts |-> run[p].ts, seen |-> run[p].seen,
                   after |-> run[p].after, boot |-> boot]
           n == Len(log) + 1
<1>1. /\ log' = Append(log, row)
      /\ run' = [run EXCEPT ![p].pc = next, ![p].after = n]
  BY DEF Record
<1>2. Numbers
  BY NumbersFact
<1>3. row \in Row
  OBVIOUS
<1>4. /\ row.ts = run[p].ts /\ row.seen = run[p].seen /\ row.boot = boot
      /\ row.after = run[p].after
  OBVIOUS
<1> HIDE DEF row
<1>5. log \in Seq(Row)
  BY DEF TypeOK
<1>6. /\ log' \in Seq(Row) /\ Len(log') = n
      /\ log'[n] = row
      /\ \A i \in 1..Len(log) : log'[i] = log[i]
  BY <1>1, <1>3, <1>5, AppendProperties
<1>7. /\ Rows' = Rows \cup {n} /\ n \in Nat /\ n # 0
      /\ \A i \in Rows : log'[i] = log[i] /\ i < n /\ i \in Nat /\ i # n
  BY <1>2, <1>6 DEF Rows, Numbers
<1>8. /\ \A q \in Procs \ {p} : run'[q] = run[q]
      /\ run'[p].ts = run[p].ts /\ run'[p].seen = run[p].seen
      /\ run'[p].after = n /\ run'[p].pc = next
      /\ ~Pending(p)'
      /\ \A q \in Procs \ {p} : Pending(q)' <=> Pending(q)
  BY <1>1 DEF TypeOK, Pending
<1>9. TypeOK'
  BY <1>1, <1>6, <1>7 DEF TypeOK
<1>10. /\ row.ts <= clock /\ row.seen < n
       /\ \A i \in Rows : ThisBoot(i) =>
            log[i].ts # row.ts /\ (i <= row.seen => log[i].ts < row.ts)
       /\ \A q \in Procs \ {p} : Pending(q) => run[q].ts # row.ts
  BY <1>2, <1>4 DEF StampsInv, Numbers
<1>11. RowsInv'
  <2>1. boot <= boot
    BY <1>2 DEF Numbers
  <2> QED BY <1>4, <1>6, <1>7, <1>10, <2>1 DEF RowsInv, ThisBoot
<1>12. StampsInv'
  <2>1. \A q \in Procs : run[q].seen <= Len(log) /\ run[q].seen < n
                         /\ run[q].seen <= Len(log') /\ ~(n <= run[q].seen)
    BY <1>2, <1>6 DEF StampsInv, Numbers
  <2> QED BY <1>6, <1>7, <1>8, <1>10, <2>1 DEF StampsInv, ThisBoot
<1>13. CausesInv'
  BY <1>6, <1>7, <1>8, <1>10 DEF CausesInv
<1>14. HappenedBefore'
  <2>1. \A j \in Rows : log[j].seen < j /\ ~(n <= log[j].seen)
    BY <1>2, <1>7 DEF RowsInv, Numbers
  <2> QED BY <1>4, <1>6, <1>7, <1>10, <2>1 DEF HappenedBefore, ThisBoot
<1>15. CauseFirst'
  <2>1. ASSUME NEW j \in Rows, log[j].after # 0
        PROVE  log[j].after \in Rows /\ log'[log[j].after] = log[log[j].after]
    BY <1>2, <1>7, <2>1 DEF CauseFirst, Numbers, Rows
  <2> QED BY <1>4, <1>6, <1>7, <2>1 DEF CauseFirst, CausesInv
<1>16. HandledInv'
  BY <1>8 DEF HandledInv, Procs, Pending
<1> QED BY <1>9, <1>11, <1>12, <1>13, <1>14, <1>15, <1>16

(* A coroutine goes on without touching clock, log or queue, or ends. *)
LEMMA MoveInd ==
  ASSUME Inv, NEW p \in Procs, NEW next \in Pcs,
         (next \in {"insert", "created", "commit", "committed", "lock", "close",
                    "closed", "expired"}) => Pending(p),
         p = Worker => run[p].pc \notin {"idle", "absent"},
         Goto(p, next) \/ Stop(p),
         UNCHANGED <<clock, boot, log, queue>>, inserted' \in BOOLEAN
  PROVE  Inv'
<1> USE DEF Inv
<1>1. run' = [run EXCEPT ![p] = [run[p] EXCEPT !.pc = next]]
      \/ run' = [run EXCEPT ![p] = Idle]
  BY DEF Goto, Stop
<1>2. Numbers
  BY NumbersFact
<1>3. TypeOK'
  <2>1. Idle \in [pc: Pcs, ts: Nat, seen: Nat, after: Nat]
    BY DEF Idle, Pcs
  <2>2. [run[p] EXCEPT !.pc = next] \in [pc: Pcs, ts: Nat, seen: Nat, after: Nat]
    BY DEF TypeOK
  <2> QED BY <1>1, <2>1, <2>2 DEF TypeOK
<1>4. \A q \in Procs : /\ Pending(q)' => Pending(q) /\ run'[q].ts = run[q].ts
                       /\ Pending(q)' => run'[q].seen = run[q].seen
                       /\ run'[q].seen = 0 \/ run'[q].seen = run[q].seen
                       /\ run'[q].after = 0 \/ run'[q].after = run[q].after
  <2>1. \A q \in Procs \ {p} : run'[q] = run[q]
    BY <1>1 DEF TypeOK
  <2>2. CASE run'[p] = Idle
    BY <2>1, <2>2 DEF Pending, Idle
  <2>3. CASE run'[p] = [run[p] EXCEPT !.pc = next]
    <3>1. /\ run'[p].pc = next /\ run'[p].ts = run[p].ts
          /\ run'[p].seen = run[p].seen /\ run'[p].after = run[p].after
      BY <2>3 DEF TypeOK
    <3> QED BY <2>1, <3>1 DEF Pending
  <2> QED BY <1>1, <2>2, <2>3 DEF TypeOK
<1>5. RowsInv' /\ HappenedBefore' /\ CauseFirst'
  BY DEF RowsInv, HappenedBefore, CauseFirst, ThisBoot, Rows
<1>6. StampsInv'
  <2>1. 0 <= Len(log)
    BY <1>2 DEF Numbers
  <2> QED BY <1>4, <2>1 DEF StampsInv, Rows, ThisBoot
<1>7. CausesInv'
  BY <1>4 DEF CausesInv, Rows
<1>8. HandledInv'
  BY <1>1 DEF HandledInv, TypeOK, Procs
<1> QED BY <1>3, <1>5, <1>6, <1>7, <1>8

(* A request for an auction carries a timestamp above its cause. *)
LEMMA RequestInd ==
  ASSUME Inv, NEW p \in Procs, Request(p)
  PROVE  Inv'
<1> USE DEF Inv
<1> DEFINE message == [ts |-> clock + 1, after |-> run[p].after]
<1>1. /\ queue' = Append(queue, message)
      /\ run' = [run EXCEPT ![p] = Idle]
      /\ clock' = clock + 1
      /\ UNCHANGED <<boot, inserted, log>>
  BY DEF Request, Stop, tick
<1>2. Numbers
  BY NumbersFact
<1>3. /\ message \in [ts: Nat, after: Nat]
      /\ message.ts = clock + 1 /\ message.after = run[p].after
  BY <1>2 DEF Numbers
<1> HIDE DEF message
<1>4. queue \in Seq([ts: Nat, after: Nat])
  BY DEF TypeOK
<1>5. /\ queue' \in Seq([ts: Nat, after: Nat]) /\ queue' # <<>>
      /\ Len(queue') = Len(queue) + 1
      /\ \A k \in 1..Len(queue) : queue'[k] = queue[k]
      /\ queue'[Len(queue) + 1] = message
  <2>1. queue' = Append(queue, message)
    BY <1>1
  <2>2. message \in [ts: Nat, after: Nat]
    BY <1>3
  <2> QED BY <1>4, <2>1, <2>2, AppendProperties, EmptySeq
<1>6. TypeOK'
  BY <1>1, <1>2, <1>5 DEF TypeOK, Idle, Pcs, Numbers
<1>7. \A i \in Rows : log[i].ts <= clock => log[i].ts <= clock' /\ log[i].ts < clock + 1
  BY <1>1, <1>2 DEF Numbers
<1>8. \A q \in Procs : run[q].ts <= clock => run[q].ts <= clock'
  BY <1>1, <1>2 DEF Numbers
<1>9. /\ \A q \in Procs \ {p} : run'[q] = run[q] /\ (Pending(q)' <=> Pending(q))
      /\ run'[p].seen = 0 /\ run'[p].after = 0 /\ ~Pending(p)'
      /\ run'[p].pc = "idle"
  BY <1>1 DEF TypeOK, Idle, Pending
<1>10. RowsInv' /\ HappenedBefore' /\ CauseFirst'
  BY <1>1, <1>7 DEF RowsInv, HappenedBefore, CauseFirst, ThisBoot, Rows
<1>11. StampsInv'
  <2>1. 0 <= Len(log)
    BY <1>2 DEF Numbers
  <2> QED BY <1>1, <1>8, <1>9, <2>1 DEF StampsInv, Rows, ThisBoot
<1>12. CausesInv'
  <2>1. \A k \in 1..Len(queue') : k \in 1..Len(queue) \/ k = Len(queue) + 1
    BY <1>2, <1>5 DEF Numbers
  <2>2. run[p].after # 0 => /\ run[p].after \in Rows
                            /\ log[run[p].after].ts < clock + 1
    BY <1>7 DEF CausesInv
  <2>3. \A k \in 1..Len(queue') :
          LET i == queue'[k].after
          IN  i # 0 => i \in Rows /\ log[i].ts < queue'[k].ts
    BY <1>3, <1>5, <2>1, <2>2 DEF CausesInv
  <2>4. \A q \in Procs : LET i == run'[q].after
                         IN  i # 0 => /\ i \in Rows
                                      /\ log[i].ts <= clock'
                                      /\ Pending(q)' => log[i].ts < run'[q].ts
    BY <1>7, <1>9 DEF CausesInv
  <2> QED BY <1>1, <2>3, <2>4 DEF CausesInv, Rows
<1>13. HandledInv'
  BY <1>5 DEF HandledInv
<1> QED BY <1>6, <1>10, <1>11, <1>12, <1>13

(* The worker merges the timestamp of the message it takes. *)
LEMMA TakeInd ==
  ASSUME Inv, WorkerTake
  PROVE  Inv'
<1> USE DEF Inv
<1> DEFINE message == Head(queue)
<1>1. /\ run' = [run EXCEPT ![Worker].pc = "taken", ![Worker].after = message.after]
      /\ clock' = update(message.ts)
      /\ UNCHANGED <<boot, inserted, log, queue>>
      /\ queue # <<>>
  BY DEF WorkerTake, Received
<1>2. Numbers
  BY NumbersFact
<1>3. /\ 1 \in 1..Len(queue)
      /\ message = queue[1]
      /\ message.ts \in Nat /\ message.after \in Nat
  <2>1. Len(queue) \in Nat \ {0}
    BY <1>1, EmptySeq DEF TypeOK
  <2>2. 1 \in 1..Len(queue)
    BY <2>1
  <2>3. message = queue[1]
    BY <1>1
  <2> QED BY <1>2, <2>2, <2>3 DEF Numbers
<1> HIDE DEF message
<1>4. clock' \in Nat /\ clock' > clock /\ clock' > message.ts
  BY <1>1, <1>2, <1>3 DEF update, Numbers
<1>5. Worker \in Procs
  BY DEF Procs
<1>6. TypeOK'
  BY <1>1, <1>3, <1>4, <1>5 DEF TypeOK, Pcs
<1>7. /\ \A q \in Procs \ {Worker} : run'[q] = run[q]
      /\ run'[Worker].pc = "taken" /\ run'[Worker].after = message.after
      /\ run'[Worker].seen = run[Worker].seen
      /\ ~Pending(Worker)'
      /\ \A q \in Procs \ {Worker} : Pending(q)' <=> Pending(q)
  BY <1>1, <1>5 DEF TypeOK, Pending
<1>8. /\ \A i \in Rows : log[i].ts <= clock => log[i].ts <= clock'
      /\ \A i \in Rows : log[i].ts < message.ts => log[i].ts <= clock'
      /\ \A q \in Procs : run[q].ts <= clock => run[q].ts <= clock'
  BY <1>2, <1>3, <1>4 DEF Numbers
<1>9. RowsInv' /\ HappenedBefore' /\ CauseFirst'
  BY <1>1, <1>8 DEF RowsInv, HappenedBefore, CauseFirst, ThisBoot, Rows
<1>10. StampsInv'
  <2>1. \A q \in Procs : Pending(q)' => q # Worker /\ Pending(q) /\ run'[q] = run[q]
    BY <1>7
  <2>2. \A q \in Procs : run'[q].seen <= Len(log)
    BY <1>5, <1>7 DEF StampsInv
  <2> QED BY <1>1, <1>8, <2>1, <2>2 DEF StampsInv, Rows, ThisBoot
<1>11. CausesInv'
  <2>1. LET i == message.after IN i # 0 => i \in Rows /\ log[i].ts < message.ts
    BY <1>3 DEF CausesInv
  <2> QED BY <1>1, <1>7, <1>8, <2>1 DEF CausesInv, Rows
<1>12. HandledInv'
  BY <1>1 DEF HandledInv
<1> QED BY <1>6, <1>9, <1>10, <1>11, <1>12

(* The worker removes the message. *)
LEMMA AckInd ==
  ASSUME Inv, WorkerAck
  PROVE  Inv'
<1> USE DEF Inv
<1>1. /\ queue' = Tail(queue)
      /\ run' = [run EXCEPT ![Worker] = Idle]
      /\ UNCHANGED <<clock, boot, inserted, log>>
  BY DEF WorkerAck, Stop
<1>2. Worker \in Procs
  BY DEF Procs
<1>3. queue # <<>>
  BY DEF WorkerAck, HandledInv
<1>4. /\ Tail(queue) \in Seq([ts: Nat, after: Nat])
      /\ \A k \in 1..Len(Tail(queue)) : /\ Tail(queue)[k] = queue[k + 1]
                                       /\ k + 1 \in 1..Len(queue)
  BY <1>3 DEF TypeOK
<1>5. TypeOK'
  BY <1>1, <1>4 DEF TypeOK, Idle, Pcs
<1>6. RowsInv' /\ HappenedBefore' /\ CauseFirst'
  BY <1>1 DEF RowsInv, HappenedBefore, CauseFirst, ThisBoot, Rows
<1>7. StampsInv'
  BY <1>1 DEF StampsInv, TypeOK, Rows, ThisBoot, Pending, Idle
<1>8. CausesInv'
  BY <1>1, <1>4 DEF CausesInv, TypeOK, Rows, Pending, Idle
<1>9. HandledInv'
  BY <1>1, <1>2 DEF HandledInv, TypeOK, Idle
<1> QED BY <1>5, <1>6, <1>7, <1>8, <1>9

(* Other rides move the clock forward. *)
LEMMA ElsewhereInd ==
  ASSUME Inv, Elsewhere
  PROVE  Inv'
<1> USE DEF Inv
<1>1. clock' \in Nat /\ clock' > clock
  BY DEF Elsewhere, update, TypeOK
<1>2. UNCHANGED <<boot, inserted, log, queue, run>>
  BY DEF Elsewhere
<1>3. Numbers
  BY NumbersFact
<1>4. TypeOK' /\ HandledInv' /\ HappenedBefore' /\ CauseFirst'
  BY <1>1, <1>2 DEF TypeOK, HandledInv, HappenedBefore, CauseFirst, Rows
<1>5. /\ \A i \in Rows : log[i].ts <= clock => log[i].ts <= clock'
      /\ \A q \in Procs : run[q].ts <= clock => run[q].ts <= clock'
  BY <1>1, <1>3 DEF Numbers
<1>6. RowsInv' /\ CausesInv'
  BY <1>2, <1>5 DEF RowsInv, CausesInv, ThisBoot, Rows, Pending
<1>7. StampsInv'
  BY <1>2, <1>5 DEF StampsInv, ThisBoot, Rows, Pending
<1> QED BY <1>4, <1>6, <1>7

(* The coroutines of a core that starts, with a worker or without. *)
LEMMA StartedFact ==
  ASSUME NEW start \in Started
  PROVE  /\ start \in [Procs -> [pc: Pcs, ts: Nat, seen: Nat, after: Nat]]
         /\ \A p \in Procs : /\ start[p].pc \in {"idle", "absent"}
                             /\ start[p].ts = 0 /\ start[p].seen = 0
                             /\ start[p].after = 0
         /\ start[Worker].pc \in {"idle", "absent"}
<1>1. PICK pc \in {"idle", "absent"} :
        start = [p \in Procs |->
                   IF p = Worker THEN [Idle EXCEPT !.pc = pc] ELSE Idle]
  BY DEF Started
<1>2. Worker \in Procs
  BY DEF Procs
<1>3. ASSUME NEW p \in Procs
      PROVE  \/ start[p] = [pc |-> "idle", ts |-> 0, seen |-> 0, after |-> 0]
             \/ start[p] = [pc |-> pc, ts |-> 0, seen |-> 0, after |-> 0]
  BY <1>1 DEF Idle
<1>4. \A p \in Procs : /\ start[p] \in [pc: Pcs, ts: Nat, seen: Nat, after: Nat]
                       /\ start[p].pc \in {"idle", "absent"}
                       /\ start[p].ts = 0 /\ start[p].seen = 0
                       /\ start[p].after = 0
  BY <1>3 DEF Pcs
<1> QED BY <1>1, <1>2, <1>4

(* The core starts again: no row is of the new run. *)
LEMMA RestartInd ==
  ASSUME Inv, Restart
  PROVE  Inv'
<1> USE DEF Inv
<1>1. /\ boot' = boot + 1 /\ clock' = 0
      /\ run' \in Started
      /\ UNCHANGED <<inserted, log, queue>>
  BY DEF Restart
<1>2. Numbers
  BY NumbersFact
<1>3. TypeOK' /\ HandledInv'
  BY <1>1, StartedFact DEF TypeOK, HandledInv
<1>4. ASSUME NEW i \in Rows
      PROVE  log[i].boot <= boot' /\ log[i].boot # boot'
  <2>1. log[i].boot <= boot
    BY DEF RowsInv
  <2> QED BY <1>1, <1>2, <2>1 DEF Numbers
<1>5. RowsInv' /\ HappenedBefore' /\ CauseFirst'
  BY <1>1, <1>4 DEF RowsInv, HappenedBefore, CauseFirst, ThisBoot, Rows
<1>6. \A p \in Procs : run'[p].after = 0 /\ run'[p].seen = 0 /\ ~Pending(p)'
  BY <1>1, StartedFact DEF Pending
<1>7. StampsInv' /\ CausesInv'
  <2>1. 0 <= Len(log)
    BY <1>2 DEF Numbers
  <2> QED BY <1>1, <1>6, <2>1 DEF StampsInv, CausesInv, Rows
<1> QED BY <1>3, <1>5, <1>7

(* Every timestamp taken is above the clock. *)
LEMMA Advances ==
  ASSUME Inv
  PROVE  /\ tick \in Nat /\ tick > clock
         /\ \A c \in ClientTs : update(c) \in Nat /\ update(c) > clock
BY DEF Inv, TypeOK, tick, update

(* Rows are well typed. *)
LEMMA RowType ==
  ASSUME Inv, NEW p \in Procs,
         NEW event \in {"ride_created", "state_transition", "lock_acquired",
                        "lock_released", "auction_closed", "lock_expired"}
  PROVE  [event |-> event, ts |-> run[p].ts, seen |-> run[p].seen,
          after |-> run[p].after, boot |-> boot] \in Row
BY DEF Inv, TypeOK, Row

(* A request preserves the invariant. *)
LEMMA HandlerInd ==
  ASSUME Inv, NEW h \in Handlers, RequestBegins(h) \/ RequestContinues(h)
  PROVE  Inv'
<1>1. h \in Procs /\ h # Worker
  BY DEF Procs
<1>2. CASE CreateStamp(h) \/ PatchStamp(h)
  <2>1. PICK c \in ClientTs, next \in {"insert", "commit"} :
          Stamp(h, next, update(c)) /\ UNCHANGED <<boot, inserted, log, queue>>
    BY <1>2 DEF CreateStamp, PatchStamp
  <2> QED BY <1>1, <2>1, Advances, StampInd DEF Pcs
<1>3. CASE LockStamp(h)
  BY <1>1, <1>3, Advances, StampInd DEF LockStamp, Pcs
<1>4. CASE CreateInsert(h)
  BY <1>1, <1>4, MoveInd DEF CreateInsert, Pcs, Pending, Inv, TypeOK
<1>5. CASE PatchCommit(h)
  BY <1>1, <1>5, MoveInd DEF PatchCommit, Pcs, Pending, Inv, TypeOK
<1>6. CASE Answer(h)
  BY <1>1, <1>6, MoveInd DEF Answer, Pcs, Inv, TypeOK
<1>7. CASE CreateRecord(h) \/ PatchRecord(h) \/ LockRecord(h)
  <2>1. PICK event \in {"ride_created", "state_transition", "lock_acquired",
                        "lock_released"},
             next \in {"request", "answer"} : Record(h, event, next)
    BY <1>7 DEF CreateRecord, PatchRecord, LockRecord
  <2>2. Pending(h) /\ UNCHANGED <<clock, boot, inserted, queue>>
    BY <1>7 DEF CreateRecord, PatchRecord, LockRecord, Pending
  <2> QED BY <1>1, <2>1, <2>2, RowType, RecordInd DEF Pcs
<1>8. CASE RequestAuction(h)
  BY <1>1, <1>8, RequestInd DEF RequestAuction
<1> QED BY <1>2, <1>3, <1>4, <1>5, <1>6, <1>7, <1>8
        DEF RequestBegins, RequestContinues

(* The worker preserves the invariant. *)
LEMMA WorkerInd ==
  ASSUME Inv, WorkerNext
  PROVE  Inv'
<1>1. Worker \in Procs
  BY DEF Procs
<1>2. CASE WorkerTake
  BY <1>2, TakeInd
<1>3. CASE WorkerAck
  BY <1>3, AckInd
<1>4. CASE WorkerIgnore
  BY <1>1, <1>4, MoveInd DEF WorkerIgnore, Pcs, Inv, TypeOK
<1>5. CASE WorkerClose
  BY <1>1, <1>5, MoveInd DEF WorkerClose, Pcs, Pending, Inv, TypeOK
<1>6. CASE WorkerStamp \/ WorkerLockStamp
  <2>1. PICK next \in {"close", "lock"} :
          Stamp(Worker, next, tick) /\ UNCHANGED <<boot, inserted, log, queue>>
    BY <1>6 DEF WorkerStamp, WorkerLockStamp
  <2>2. run[Worker].pc \notin {"idle", "absent"}
    BY <1>6 DEF WorkerStamp, WorkerLockStamp
  <2> QED BY <1>1, <2>1, <2>2, Advances, StampInd DEF Pcs
<1>7. CASE WorkerRecord \/ WorkerLockRecord
  <2>1. PICK event \in {"auction_closed", "lock_acquired"},
             next \in {"transferred", "ack"} : Record(Worker, event, next)
    BY <1>7 DEF WorkerRecord, WorkerLockRecord
  <2>2. Pending(Worker) /\ UNCHANGED <<clock, boot, inserted, queue>>
    BY <1>7 DEF WorkerRecord, WorkerLockRecord, Pending
  <2> QED BY <1>1, <2>1, <2>2, RowType, RecordInd DEF Pcs
<1> QED BY <1>2, <1>3, <1>4, <1>5, <1>6, <1>7 DEF WorkerNext

(* The monitor preserves the invariant. *)
LEMMA MonitorInd ==
  ASSUME Inv, MonitorStamp \/ MonitorContinues
  PROVE  Inv'
<1>1. Monitor \in Procs /\ Monitor # Worker
  BY DEF Procs
<1>2. CASE MonitorStamp \/ MonitorCompensate
  <2>1. PICK next \in {"expired", "commit"} :
          Stamp(Monitor, next, tick) /\ UNCHANGED <<boot, inserted, log, queue>>
    BY <1>2 DEF MonitorStamp, MonitorCompensate
  <2> QED BY <1>1, <2>1, Advances, StampInd DEF Pcs
<1>3. CASE MonitorCommit
  BY <1>1, <1>3, MoveInd DEF MonitorCommit, Pcs, Pending, Inv, TypeOK
<1>4. CASE MonitorRecord \/ MonitorTransition
  <2>1. PICK event \in {"lock_expired", "state_transition"},
             next \in {"compensate", "request"} : Record(Monitor, event, next)
    BY <1>4 DEF MonitorRecord, MonitorTransition
  <2>2. Pending(Monitor) /\ UNCHANGED <<clock, boot, inserted, queue>>
    BY <1>4 DEF MonitorRecord, MonitorTransition, Pending
  <2> QED BY <1>1, <2>1, <2>2, RowType, RecordInd DEF Pcs
<1>5. CASE MonitorRequest
  BY <1>1, <1>5, RequestInd DEF MonitorRequest
<1> QED BY <1>2, <1>3, <1>4, <1>5 DEF MonitorContinues

(* The invariant holds in every state. *)
THEOREM Invariance == Spec => []Inv
<1>1. Init => Inv
  <2> SUFFICES ASSUME Init
               PROVE  Inv
    OBVIOUS
  <2>1. TypeOK /\ HandledInv
    <3>1. log \in Seq(Row) /\ queue \in Seq([ts: Nat, after: Nat])
      BY EmptySeq DEF Init
    <3> QED BY <3>1, StartedFact DEF Init, TypeOK, HandledInv
  <2>2. Rows = {} /\ 1..Len(queue) = {} /\ Len(log) = 0
    BY DEF Init, Rows
  <2>3. RowsInv /\ HappenedBefore /\ CauseFirst
    BY <2>2 DEF RowsInv, HappenedBefore, CauseFirst
  <2>4. \A p \in Procs : run[p].after = 0 /\ run[p].seen = 0 /\ ~Pending(p)
    BY StartedFact DEF Init, Pending
  <2>5. StampsInv /\ CausesInv
    BY <2>2, <2>4 DEF StampsInv, CausesInv
  <2> QED BY <2>1, <2>3, <2>5 DEF Inv
<1>2. Inv /\ [Next]_vars => Inv'
  <2> SUFFICES ASSUME Inv, [Next]_vars
               PROVE  Inv'
    OBVIOUS
  <2>1. CASE \E h \in Handlers : RequestBegins(h) \/ RequestContinues(h)
    BY <2>1, HandlerInd
  <2>2. CASE WorkerNext
    BY <2>2, WorkerInd
  <2>3. CASE MonitorStamp \/ MonitorContinues
    BY <2>3, MonitorInd
  <2>4. CASE Elsewhere
    BY <2>4, ElsewhereInd
  <2>5. CASE Restart
    BY <2>5, RestartInd
  <2>6. CASE UNCHANGED vars
    BY <2>6 DEF vars, Inv, TypeOK, HandledInv, RowsInv, StampsInv, CausesInv,
                HappenedBefore, CauseFirst, Rows, ThisBoot, Pending
  <2> QED BY <2>1, <2>2, <2>3, <2>4, <2>5, <2>6 DEF Next
<1> QED BY <1>1, <1>2, PTL DEF Spec

(* The types hold in every state, whatever the number of requests, the     *)
(* timestamps of the clients and the restarts.                             *)
THEOREM Types == Spec => []TypeOK
<1>1. Inv => TypeOK
  BY DEF Inv
<1> QED BY <1>1, Invariance, PTL

(* The audit log of one run of the core is causally ordered by             *)
(* logicalTimestamp, and no two of its events tie.                         *)
THEOREM LogOrder == Spec => []HappenedBefore
<1>1. Inv => HappenedBefore
  BY DEF Inv
<1> QED BY <1>1, Invariance, PTL

(* What a request causes sorts after it, also when the worker received it  *)
(* after a restart.                                                        *)
THEOREM CausalOrderOfRequests == Spec => []CauseFirst
<1>1. Inv => CauseFirst
  BY DEF Inv
<1> QED BY <1>1, Invariance, PTL
=============================================================================
