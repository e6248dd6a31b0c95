---------------------------- MODULE BrokerProofs ----------------------------
(***************************************************************************)
(* For any number of publications at once, of retries and of failures:     *)
(* what a core with a worker reports as published is queued, and no        *)
(* publication sends more than two copies.                                 *)
(***************************************************************************)
EXTENDS Broker, TLAPS

(* Nobody publishes before the core has started.                           *)
QuietInv == started = "no" => \A h \in Publishers : run[h].pc = "idle"

(* Whoever has been through connect found or left the queues declared, and *)
(* a declared queue stays.                                                 *)
DeclaredInv ==
  /\ \A p \in Procs : run[p].pc = "bound" => server = "queues"
  /\ started = "working" => server = "queues"

(* The copies sent, by the point publish_event has reached.                *)
CopiesInv ==
  \A h \in Publishers :
    /\ run[h].pc \in Connecting \cup {"publish"} => run[h].copies < run[h].try
    /\ run[h].pc = "confirm" => run[h].copies <= run[h].try
    /\ started = "working" /\ run[h].pc \in {"confirm", "done"} =>
         run[h].copies >= 1

Inv == TypeOK /\ QuietInv /\ DeclaredInv /\ CopiesInv

Link == [connection: BOOLEAN, channel: BOOLEAN, exchange: BOOLEAN]

Coroutine == [pc: Pcs, attempt: 0..MaxRetries - 1, try: 1..2, copies: 0..2]

USE WorkerAssumption, BrokerAssumption

(* A step of one coroutine keeps the types if its own new state has them. *)
LEMMA RunType ==
  ASSUME Inv, NEW p \in Procs, NEW c \in Coroutine, run' = [run EXCEPT ![p] = c]
  PROVE  /\ run' \in [Procs -> Coroutine]
         /\ run'[p] = c
         /\ \A q \in Procs \ {p} : run'[q] = run[q]
BY DEF Inv, TypeOK, Coroutine

(* The invariant is kept by a step of p that stays within these rules. *)
LEMMA StepInd ==
  ASSUME Inv, NEW p \in Procs, NEW c \in Coroutine, run' = [run EXCEPT ![p] = c],
         up' \in BOOLEAN, queue' \in Nat, failures' \in 0..FloatLimit + 1,
         link' \in Link,
         server' \in {"nothing", "exchange", "queues"},
         started' \in {"no", "working", "workerless"},
         server = "queues" => server' = "queues",
         c.pc = "bound" => server' = "queues",
         started' # started => p = Worker /\ started = "no",
         started' = "working" => server' = "queues",
         p \in Publishers => started # "no" \/ run[p].pc # "idle",
         p \in Publishers =>
           /\ c.pc \in Connecting \cup {"publish"} => c.copies < c.try
           /\ c.pc = "confirm" => c.copies <= c.try
           /\ started = "working" /\ c.pc \in {"confirm", "done"} => c.copies >= 1
  PROVE  Inv'
<1>1. /\ run' \in [Procs -> Coroutine]
      /\ run'[p] = c
      /\ \A q \in Procs \ {p} : run'[q] = run[q]
  BY RunType
<1>2. TypeOK'
  BY <1>1 DEF TypeOK, Coroutine, Link
<1>3. \A h \in Publishers : h \in Procs /\ h # Worker
  BY DEF Procs
<1>4. p \in Publishers => started # "no"
  BY DEF Inv, QuietInv
<1>5. QuietInv'
  BY <1>1, <1>3, <1>4 DEF Inv, QuietInv
<1>6. DeclaredInv'
  BY <1>1 DEF Inv, DeclaredInv
<1>7. CopiesInv'
  <2> SUFFICES ASSUME NEW h \in Publishers
               PROVE  /\ run'[h].pc \in Connecting \cup {"publish"} =>
                           run'[h].copies < run'[h].try
                      /\ run'[h].pc = "confirm" => run'[h].copies <= run'[h].try
                      /\ started' = "working"
                           /\ run'[h].pc \in {"confirm", "done"} =>
                           run'[h].copies >= 1
    BY DEF CopiesInv
  <2>1. CASE h = p
    BY <1>1, <1>3, <2>1
  <2>2. CASE h # p /\ started' = started
    BY <1>1, <1>3, <2>2 DEF Inv, CopiesInv
  <2>3. CASE h # p /\ started' # started
    BY <1>1, <1>3, <2>3 DEF Inv, CopiesInv, QuietInv
  <2> QED BY <2>1, <2>2, <2>3
<1> QED BY <1>2, <1>5, <1>6, <1>7 DEF Inv

(* What a coroutine becomes when it goes on. *)
LEMMA GotoStep ==
  ASSUME Inv, NEW p \in Procs, NEW pc \in Pcs, Goto(p, pc)
  PROVE  \E c \in Coroutine : /\ run' = [run EXCEPT ![p] = c]
                              /\ c.pc = pc
                              /\ c.try = run[p].try
                              /\ c.copies = run[p].copies
<1> DEFINE c == [run[p] EXCEPT !.pc = pc,
                               !.attempt = IF pc \in Connecting THEN @ ELSE 0]
<1>1. c \in Coroutine
  <2>1. run[p] \in Coroutine
    BY DEF Inv, TypeOK, Coroutine
  <2>2. 0 \in 0..MaxRetries - 1
    OBVIOUS
  <2>3. run[p].attempt \in 0..MaxRetries - 1
    BY <2>1 DEF Coroutine
  <2>4. (IF pc \in Connecting THEN run[p].attempt ELSE 0) \in 0..MaxRetries - 1
    BY <2>2, <2>3
  <2> QED BY <2>1, <2>4 DEF Coroutine
<1>2. run' = [run EXCEPT ![p] = c]
  BY DEF Goto, Inv, TypeOK
<1>3. c.pc = pc /\ c.try = run[p].try /\ c.copies = run[p].copies
  BY DEF Inv, TypeOK
<1> QED BY <1>1, <1>2, <1>3

(* The types as the steps use them: Booleans and numbers apart. *)
LEMMA Flags ==
  ASSUME Inv
  PROVE  up \in BOOLEAN /\ link \in Link /\ Disconnected \in Link
BY DEF Inv, TypeOK, Link, Disconnected

LEMMA Values ==
  ASSUME Inv
  PROVE  /\ queue \in Nat /\ failures \in 0..FloatLimit + 1
         /\ server \in {"nothing", "exchange", "queues"}
         /\ started \in {"no", "working", "workerless"}
BY DEF Inv, TypeOK

LEMMA Running ==
  ASSUME Inv, NEW p \in Procs
  PROVE  /\ run[p] \in Coroutine
         /\ run[p].attempt \in 0..MaxRetries - 1 /\ run[p].copies \in 0..2
         /\ run[p].try \in 1..2
BY DEF Inv, TypeOK, Coroutine

LEMMA Declared ==
  ASSUME Inv
  PROVE  started = "working" => server = "queues"
BY DEF Inv, DeclaredInv

(* A step that only moves p, within connect or to a harmless place. *)
LEMMA GotoInd ==
  ASSUME Inv, NEW p \in Procs, NEW pc \in Pcs, Goto(p, pc),
         UNCHANGED <<up, server, queue, started>>,
         failures' \in 0..FloatLimit + 1, link' \in Link,
         pc = "bound" => server = "queues",
         p \in Publishers =>
           /\ run[p].pc # "idle" /\ pc # "confirm"
           /\ pc \in Connecting \cup {"publish"} => run[p].pc \in Connecting
           /\ pc = "done" => run[p].pc = "confirm"
  PROVE  Inv'
<1>1. PICK c \in Coroutine : /\ run' = [run EXCEPT ![p] = c]
                             /\ c.pc = pc
                             /\ c.try = run[p].try
                             /\ c.copies = run[p].copies
  BY GotoStep
<1>2. p \in Publishers =>
        /\ c.pc \in Connecting \cup {"publish"} => c.copies < c.try
        /\ ~(c.pc = "confirm")
        /\ started = "working" /\ c.pc = "done" => c.copies >= 1
  BY <1>1 DEF Inv, CopiesInv
<1>3. started' = "working" => server' = "queues"
  BY Declared
<1> QED BY <1>1, <1>2, <1>3, Flags, Values, Running, StepInd

(* A failure of the worker's loop. *)
LEMMA FailedInd ==
  ASSUME Inv, NEW l \in Link, Failed(l), UNCHANGED <<up, server, queue, started>>
  PROVE  Inv'
<1>1. Worker \in Procs /\ Worker \notin Publishers
  BY DEF Procs
<1>2. failures' \in 0..FloatLimit + 1
  <2>1. failures \in 0..FloatLimit + 1
    BY Values
  <2>2. failures <= FloatLimit /\ failures' = failures + 1
    BY <2>1 DEF Failed
  <2> QED BY <2>1, <2>2
<1>3. link' \in Link
  BY Flags DEF Failed
<1>4. PICK pc \in {"sleep", "dead"} : Goto(Worker, pc)
  BY DEF Failed
<1> QED BY <1>1, <1>2, <1>3, <1>4, GotoInd DEF Pcs

(* An exception inside connect. *)
LEMMA RetryInd ==
  ASSUME Inv, NEW p \in Procs, NEW l \in Link, RetryOrRaise(p, l),
         run[p].pc \in Connecting, UNCHANGED <<up, queue>>,
         server' \in {"nothing", "exchange", "queues"},
         server = "queues" => server' = "queues"
  PROVE  Inv'
<1> USE DEF Connecting
<1>1. \A q \in Publishers : q # Worker
  OBVIOUS
<1>2. CASE run[p].attempt < MaxRetries - 1
  <2> DEFINE c == [run[p] EXCEPT !.pc = "dial", !.attempt = @ + 1]
  <2>1. /\ run' = [run EXCEPT ![p].pc = "dial", ![p].attempt = @ + 1]
        /\ link' = l /\ UNCHANGED <<started, failures>>
    <3>1. run[p].attempt \in 0..MaxRetries - 1
      BY Running
    <3>2. run[p].attempt # MaxRetries - 1
      BY <1>2, <3>1
    <3> QED BY <3>2 DEF RetryOrRaise
  <2>2. run' = [run EXCEPT ![p] = c]
    BY <2>1 DEF Inv, TypeOK
  <2>3. run[p] \in Coroutine /\ run[p].attempt + 1 \in 0..MaxRetries - 1
    BY <1>2, Running
  <2>4. /\ c \in Coroutine
        /\ c.pc = "dial" /\ c.try = run[p].try /\ c.copies = run[p].copies
    BY <2>3 DEF Coroutine, Pcs
  <2> HIDE DEF c
  <2>5. p \in Publishers => c.copies < c.try
    BY <2>4 DEF Inv, CopiesInv
  <2>6. started' = "working" => server' = "queues"
    <3>1. started = "working" => server = "queues"
      BY Declared
    <3> QED BY <2>1, <3>1
  <2>7. up' \in BOOLEAN /\ link' \in Link
    BY <2>1, Flags
  <2>8. /\ queue' \in Nat /\ failures' \in 0..FloatLimit + 1
        /\ started' = started /\ started' \in {"no", "working", "workerless"}
    BY <2>1, Values
  <2>9. run[p].pc # "idle"
    OBVIOUS
  <2> QED BY <2>2, <2>4, <2>5, <2>6, <2>7, <2>8, <2>9, StepInd
<1>3. CASE run[p].attempt = MaxRetries - 1
  <2>1. \/ /\ p \in Publishers /\ link' = l /\ Goto(p, "failed")
           /\ UNCHANGED <<started, failures>>
        \/ /\ p = Worker /\ started = "no" /\ link' = l
           /\ started' = "workerless" /\ Goto(p, "absent") /\ UNCHANGED failures
        \/ /\ p = Worker /\ started = "working" /\ Failed(l) /\ UNCHANGED started
    <3>1. run[p].attempt \in 0..MaxRetries - 1
      BY Running
    <3>2. ~(run[p].attempt < MaxRetries - 1)
      BY <1>3, <3>1
    <3> QED BY <3>2 DEF RetryOrRaise
  <2>2. PICK pc \in {"failed", "absent", "sleep", "dead"} :
          Goto(p, pc) /\ (p \in Publishers => pc = "failed")
    BY <1>1, <2>1 DEF Failed
  <2>3. failures' \in 0..FloatLimit + 1
    <3>1. failures \in 0..FloatLimit + 1
      BY Values
    <3>2. UNCHANGED failures \/ (failures <= FloatLimit /\ failures' = failures + 1)
      BY <2>1, <3>1 DEF Failed
    <3> QED BY <3>1, <3>2
  <2>4. link' \in Link
    BY <2>1, Flags DEF Failed
  <2>5. /\ started' \in {"no", "working", "workerless"}
        /\ started' # started => p = Worker /\ started = "no"
        /\ started' = "working" => started = "working"
    BY <2>1, Values
  <2>6. PICK c \in Coroutine : run' = [run EXCEPT ![p] = c] /\ c.pc = pc
    BY <2>2, GotoStep DEF Pcs
  <2>7. started' = "working" => server' = "queues"
    BY <2>5, Declared
  <2> QED BY <2>2, <2>3, <2>4, <2>5, <2>6, <2>7, Flags, Values, Running, StepInd
<1> QED BY <1>2, <1>3 DEF RetryOrRaise

(* publish_event tries again. *)
LEMMA AgainInd ==
  ASSUME Inv, NEW p \in Publishers, Again(p), run[p].try = 1,
         link' \in Link, UNCHANGED <<up, server, queue, started, failures>>,
         run[p].pc \in Connecting \cup {"publish", "confirm"}
  PROVE  Inv'
<1> DEFINE c == [run[p] EXCEPT !.pc = "dial", !.attempt = 0, !.try = 2]
<1>1. p \in Procs
  BY DEF Procs
<1>2. run' = [run EXCEPT ![p] = c]
  BY DEF Again, Inv, TypeOK
<1>3. /\ c \in Coroutine
      /\ c.pc = "dial" /\ c.try = 2 /\ c.copies = run[p].copies
  <2>1. 0 \in 0..MaxRetries - 1 /\ 2 \in 1..2 /\ "dial" \in Pcs
    BY DEF Pcs, Connecting
  <2>2. run[p] \in Coroutine
    BY <1>1, Running
  <2> QED BY <2>1, <2>2 DEF Coroutine
<1>4. run[p].copies <= 1
  <2>1. run[p].copies \in 0..2
    BY <1>1, Running
  <2>2. run[p].copies < run[p].try \/ run[p].copies <= run[p].try
    BY DEF Inv, CopiesInv
  <2> QED BY <2>1, <2>2
<1> HIDE DEF c
<1>5. started' = "working" => server' = "queues"
  BY Declared
<1>6. run[p].pc # "idle"
  BY DEF Connecting
<1>7. up' \in BOOLEAN
  BY Flags
<1>8. /\ queue' \in Nat /\ failures' \in 0..FloatLimit + 1
      /\ server' = server /\ server' \in {"nothing", "exchange", "queues"}
      /\ started' = started /\ started' \in {"no", "working", "workerless"}
  BY Values
<1>9. c.copies < c.try
  BY <1>1, <1>3, <1>4, Running
<1> QED BY <1>1, <1>2, <1>3, <1>5, <1>6, <1>7, <1>8, <1>9, StepInd

(* connect preserves the invariant, whoever calls it. *)
LEMMA ConnectInd ==
  ASSUME Inv, NEW p \in Procs, ConnectNext(p)
  PROVE  Inv'
<1> USE DEF Connecting
<1>1. CASE Refused(p)
  BY <1>1, Flags, Values, Running, RetryInd DEF Refused
<1>2. CASE Dialed(p)
  <2>1. link' \in Link
    BY <1>2, Flags, Values, Running DEF Dialed, Link
  <2> QED BY <1>2, <2>1, Flags, Values, Running, GotoInd DEF Dialed, Pcs
<1>3. CASE ChannelOpened(p)
  <2>1. link' \in Link
    BY <1>3, Flags, Values, Running DEF ChannelOpened, Link
  <2> QED BY <1>3, <2>1, Flags, Values, Running, GotoInd DEF ChannelOpened, Pcs
<1>4. CASE ExchangeDeclared(p)
  <2> DEFINE l == [link EXCEPT !.exchange = TRUE]
  <2>1. l \in Link
    BY Flags, Values, Running DEF Link
  <2>2. /\ server' \in {"nothing", "exchange", "queues"}
        /\ server = "queues" => server' = "queues"
        /\ run[p].pc = "exchange" /\ UNCHANGED <<up, queue>>
    BY <1>4, Flags, Values, Running DEF ExchangeDeclared
  <2> HIDE DEF l
  <2>3. CASE RetryOrRaise(p, l)
    BY <2>1, <2>2, <2>3, RetryInd
  <2>4. CASE link' = l /\ Goto(p, "queues") /\ UNCHANGED <<started, failures>>
    <3>1. PICK c \in Coroutine : /\ run' = [run EXCEPT ![p] = c]
                                 /\ c.pc = "queues"
                                 /\ c.try = run[p].try
                                 /\ c.copies = run[p].copies
      BY <2>4, GotoStep DEF Pcs
    <3>2. p \in Publishers => c.copies < c.try
      BY <2>2, <3>1 DEF Inv, CopiesInv
    <3>3. started' = "working" => server' = "queues"
      BY <2>2, <2>4, Declared
    <3> QED BY <2>1, <2>2, <2>4, <3>1, <3>2, <3>3, Flags, Values, Running, StepInd
  <2> QED BY <1>4, <2>3, <2>4 DEF ExchangeDeclared, l
<1>5. CASE QueuesDeclared(p)
  <2>1. CASE RetryOrRaise(p, link) /\ UNCHANGED server
    BY <1>5, <2>1, Flags, Values, Running, RetryInd DEF QueuesDeclared
  <2>2. CASE server' = "queues" /\ Goto(p, "bound") /\ UNCHANGED <<link, started, failures>>
    <3>1. PICK c \in Coroutine : /\ run' = [run EXCEPT ![p] = c]
                                 /\ c.pc = "bound"
                                 /\ c.try = run[p].try
                                 /\ c.copies = run[p].copies
      BY <2>2, GotoStep DEF Pcs
    <3>2. run[p].pc = "queues" /\ UNCHANGED <<up, queue>>
      BY <1>5 DEF QueuesDeclared
    <3>3. p \in Publishers => c.copies < c.try
      BY <3>1, <3>2 DEF Inv, CopiesInv
    <3> QED BY <2>2, <3>1, <3>2, <3>3, Flags, Values, Running, StepInd
  <2> QED BY <1>5, <2>1, <2>2 DEF QueuesDeclared
<1>6. CASE Connected(p)
  <2>1. run[p].pc = "bound" /\ UNCHANGED <<up, server, queue>> /\ server = "queues"
    BY <1>6 DEF Connected, Inv, DeclaredInv
  <2>2. CASE p \in Publishers
    <3>1. p # Worker
      BY <2>2
    <3>2. CASE (Goto(p, "publish") \/ Goto(p, "failed")) /\ UNCHANGED <<link, started, failures>>
      BY <2>1, <3>2, Flags, Values, Running, GotoInd DEF Pcs
    <3>3. CASE /\ run[p].try = 1 /\ link' = Disconnected
               /\ Again(p) /\ UNCHANGED <<started, failures>>
      BY <2>1, <2>2, <3>3, Flags, Values, Running, AgainInd
    <3> QED BY <1>6, <3>1, <3>2, <3>3 DEF Connected
  <2>3. CASE p = Worker /\ started = "no"
    <3>1. /\ started' = "working" /\ Goto(p, "check") /\ UNCHANGED <<link, failures>>
      BY <1>6, <2>3 DEF Connected
    <3>2. PICK c \in Coroutine : run' = [run EXCEPT ![p] = c] /\ c.pc = "check"
      BY <3>1, GotoStep DEF Pcs
    <3> QED BY <2>1, <2>3, <3>1, <3>2, Flags, Values, Running, StepInd
  <2>4. CASE p = Worker /\ started # "no"
    <3>1. CASE Goto(p, "open") /\ UNCHANGED <<link, started, failures>>
      BY <2>1, <2>4, <3>1, Flags, Values, Running, GotoInd DEF Pcs
    <3>2. CASE Failed(link) /\ UNCHANGED started
      BY <2>1, <3>2, Flags, Values, Running, FailedInd
    <3> QED BY <1>6, <2>4, <3>1, <3>2 DEF Connected
  <2> QED BY <2>2, <2>3, <2>4 DEF Procs
<1> QED BY <1>1, <1>2, <1>3, <1>4, <1>5, <1>6 DEF ConnectNext

(* publish_event preserves the invariant. *)
LEMMA PublishInd ==
  ASSUME Inv, NEW h \in Publishers, PublishBegin(h) \/ PublishContinues(h)
  PROVE  Inv'
<1>1. h \in Procs
  BY DEF Procs
<1>2. CASE PublishBegin(h)
  <2> DEFINE c == Begin(IF link.exchange THEN "publish" ELSE "dial")
  <2>1. /\ c \in Coroutine /\ c.pc \in {"publish", "dial"}
        /\ c.try = 1 /\ c.copies = 0
    BY DEF Begin, Coroutine, Pcs, Connecting
  <2>2. /\ run' = [run EXCEPT ![h] = c] /\ started # "no"
        /\ UNCHANGED <<up, server, queue, link, started, failures>>
    BY <1>2 DEF PublishBegin
  <2> HIDE DEF c
  <2>3. started' = "working" => server' = "queues"
    <3>1. started = "working" => server = "queues"
      BY Declared
    <3> QED BY <2>2, <3>1
  <2>4. up' \in BOOLEAN /\ link' \in Link
    BY <2>2, Flags
  <2>5. /\ queue' \in Nat /\ failures' \in 0..FloatLimit + 1
        /\ server' = server /\ server' \in {"nothing", "exchange", "queues"}
        /\ started' = started /\ started' \in {"no", "working", "workerless"}
    BY <2>2, Values
  <2>6. c.copies < c.try
    BY <2>1
  <2> QED BY <1>1, <2>1, <2>2, <2>3, <2>4, <2>5, <2>6, StepInd
<1>3. CASE ConnectNext(h)
  BY <1>1, <1>3, ConnectInd
<1>4. CASE Send(h)
  <2> DEFINE routed == IF server = "queues" THEN 1 ELSE 0
             c == [run[h] EXCEPT !.pc = "confirm", !.copies = @ + routed]
  <2>1. /\ run[h] \in Coroutine /\ run[h].copies < run[h].try
        /\ run[h].copies \in 0..2 /\ run[h].try \in 1..2
    <3>1. run[h].copies < run[h].try
      BY <1>4 DEF Send, Inv, CopiesInv
    <3> QED BY <1>1, <3>1, Running
  <2>2. routed \in 0..1 /\ (started = "working" => routed = 1)
    BY Declared
  <2>3. /\ run[h].copies + routed \in 0..2
        /\ run[h].copies + routed <= run[h].try
        /\ started = "working" => run[h].copies + routed >= 1
    BY <2>1, <2>2
  <2>4. run' = [run EXCEPT ![h] = c]
    BY <1>4 DEF Send, Inv, TypeOK
  <2>5. queue' = queue + routed /\ UNCHANGED <<up, server, link, started, failures>>
    BY <1>4 DEF Send
  <2> HIDE DEF routed
  <2>6. /\ c \in Coroutine /\ c.pc = "confirm"
        /\ c.try = run[h].try /\ c.copies = run[h].copies + routed
    BY <2>1, <2>3 DEF Coroutine, Pcs
  <2> HIDE DEF c
  <2>7. queue' \in Nat
    <3>1. queue \in Nat
      BY Values
    <3> QED BY <2>2, <2>5, <3>1
  <2>8. run[h].pc = "publish"
    BY <1>4 DEF Send
  <2>9. started' = "working" => server' = "queues"
    BY <2>5, Declared
  <2> QED BY <1>1, <2>3, <2>4, <2>5, <2>6, <2>7, <2>8, <2>9,
             Flags, Values, StepInd DEF Connecting
<1>5. CASE Confirmed(h)
  BY <1>1, <1>5, Flags, Values, Running, GotoInd DEF Confirmed, Pcs, Connecting
<1>6. CASE PublishFails(h)
  <2>1. CASE run[h].try = 1 /\ link' = Disconnected /\ Again(h)
    BY <1>6, <2>1, Flags, Values, Running, AgainInd DEF PublishFails
  <2>2. CASE Goto(h, "failed") /\ UNCHANGED link
    BY <1>1, <1>6, <2>2, Flags, Values, Running, GotoInd DEF PublishFails, Pcs, Connecting
  <2> QED BY <1>6, <2>1, <2>2 DEF PublishFails
<1> QED BY <1>2, <1>3, <1>4, <1>5, <1>6 DEF PublishContinues

(* The worker's loop preserves the invariant. *)
LEMMA WorkerInd ==
  ASSUME Inv, WorkerContinues
  PROVE  Inv'
<1>1. Worker \in Procs
  BY DEF Procs
<1>2. CASE ConnectNext(Worker)
  BY <1>1, <1>2, ConnectInd
<1>3. CASE Check
  <2>1. PICK pc \in {"open", "dial"} : Goto(Worker, pc)
    BY <1>3 DEF Check
  <2>2. UNCHANGED <<up, server, queue, link, started, failures>>
    BY <1>3 DEF Check
  <2> QED BY <1>1, <2>1, <2>2, Flags, Values, Running, GotoInd DEF Pcs, Connecting
<1>4. CASE Consuming
  <2>1. failures' \in 0..FloatLimit + 1 /\ link' \in Link
    BY <1>4, Flags DEF Consuming
  <2> QED BY <1>1, <1>4, <2>1, GotoInd DEF Consuming, Pcs
<1>5. CASE Consume
  <2>1. queue' \in Nat
    <3>1. queue \in Nat
      BY Values
    <3>2. queue > 0 /\ queue' = queue - 1
      BY <1>5 DEF Consume
    <3> QED BY <3>1, <3>2
  <2> QED BY <1>5, <2>1
          DEF Consume, Inv, TypeOK, QuietInv, DeclaredInv, CopiesInv
<1>6. CASE Interrupted
  BY <1>6, Flags, Values, Running, FailedInd DEF Interrupted
<1>7. CASE Wake
  BY <1>1, <1>7, Flags, Values, Running, GotoInd DEF Wake, Pcs
<1> QED BY <1>2, <1>3, <1>4, <1>5, <1>6, <1>7 DEF WorkerContinues

(* The invariant holds in every state. *)
THEOREM Invariance == Spec => []Inv
<1>1. Init => Inv
  <2> SUFFICES ASSUME Init
               PROVE  Inv
    OBVIOUS
  <2>1. \A p \in Procs : run[p] \in Coroutine /\ run[p].pc \in {"dial", "idle"}
                         /\ (p # Worker => run[p].pc = "idle")
                         /\ (p = Worker => run[p].pc = "dial")
    BY DEF Init, Begin, Coroutine, Pcs, Connecting
  <2>2. TypeOK
    BY <2>1 DEF Init, TypeOK, Coroutine, Disconnected
  <2>3. \A h \in Publishers : h \in Procs /\ h # Worker
    BY DEF Procs
  <2>4. QuietInv /\ DeclaredInv /\ CopiesInv
    BY <2>1, <2>3 DEF Init, QuietInv, DeclaredInv, CopiesInv, Connecting
  <2> QED BY <2>2, <2>4 DEF Inv
<1>2. Inv /\ [Next]_vars => Inv'
  <2> SUFFICES ASSUME Inv, [Next]_vars
               PROVE  Inv'
    OBVIOUS
  <2>1. CASE \E h \in Publishers : PublishBegin(h) \/ PublishContinues(h)
    BY <2>1, PublishInd
  <2>2. CASE WorkerContinues
    BY <2>2, WorkerInd
  <2>3. CASE Fall \/ Rise \/ UNCHANGED vars
    BY <2>3 DEF Fall, Rise, vars, Inv, TypeOK, QuietInv, DeclaredInv, CopiesInv
  <2> QED BY <2>1, <2>2, <2>3 DEF Next
<1> QED BY <1>1, <1>2, PTL DEF Spec

(* connect never makes more than MaxRetries attempts, a failing worker     *)
(* counts at most one failure more than a float can delay, and             *)
(* publish_event never sends more than two copies.                         *)
THEOREM Bounded == Spec => []TypeOK
<1>1. Inv => TypeOK
  BY DEF Inv
<1> QED BY <1>1, Invariance, PTL

(* However the connects and resets of any number of coroutines interleave, *)
(* a core that started with its worker reports no publication that reached *)
(* no queue.                                                               *)
THEOREM Reported == Spec => []ReportedIsQueued
<1>1. Inv => ReportedIsQueued
  BY DEF Inv, CopiesInv, ReportedIsQueued
<1> QED BY <1>1, Invariance, PTL
=============================================================================
