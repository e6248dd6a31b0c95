------------------------------- MODULE Broker -------------------------------
(***************************************************************************)
(* The core's client of RabbitMQ, and the two loops that keep it working.  *)
(* All coroutines share one connection, channel and exchange (the link).   *)
(* Whoever fails resets it, also in the middle of somebody else's connect, *)
(* and whoever finds it missing connects.  Publications of auction         *)
(* requests retry once; the worker reconnects in a loop; the start of the  *)
(* core connects once, and without RabbitMQ goes on without the worker.    *)
(*                                                                         *)
(* Each action runs from one await to the next.  RabbitMQ itself is        *)
(* reachable or not; what it has declared, and its messages, are durable.  *)
(* While it is away a new connection is refused.  What is awaited on a     *)
(* connection that was made (a channel, a declaration, a publication, the  *)
(* next message) has no timeout: it raises, or aio-pika holds it until it  *)
(* has restored the connection.                                            *)
(***************************************************************************)
EXTENDS Naturals

CONSTANTS
  Publishers,  \* publications in progress
  Worker,      \* the auction worker, and before it the start of the core
  MaxRetries,  \* max_retries of connect (10)
  FloatLimit,  \* failures in a row whose delay is still a float (1024)
  MaxQueue     \* bound: no publication starts with more messages queued

Procs == Publishers \cup {Worker}

ASSUME WorkerAssumption == Worker \notin Publishers
ASSUME BrokerAssumption ==
  MaxRetries \in Nat \ {0} /\ FloatLimit \in Nat /\ MaxQueue \in Nat

VARIABLES
  up,        \* is RabbitMQ reachable?
  server,    \* what it has declared: nothing, the exchange, or the queues too
  queue,     \* the number of messages in ridefleet.auction.requests
  link,      \* RabbitMQBroker.connection, channel, exchange: are they set?
  started,   \* has the core started, with or without the worker?
  failures,  \* consecutive_failures
  run        \* the coroutines

vars == <<up, server, queue, link, started, failures, run>>

Disconnected == [connection |-> FALSE, channel |-> FALSE, exchange |-> FALSE]

(* attempt is that of connect, try is the first or the second publication  *)
(* of publish_event, and copies how often the message was put in the queue.*)
Begin(pc) == [pc |-> pc, attempt |-> 0, try |-> 1, copies |-> 0]

Connecting == {"dial", "channel", "exchange", "queues", "bound"}

(* The number of the attempt is local to connect.                          *)
Goto(p, pc) ==
  run' = [run EXCEPT ![p].pc = pc,
                     ![p].attempt = IF pc \in Connecting THEN @ ELSE 0]

(* publish_event tries again.                                              *)
Again(p) ==
  run' = [run EXCEPT ![p].pc = "dial", ![p].attempt = 0, ![p].try = 2]

(* A failure of the worker's loop, with the link as it then is.  The delay *)
(* is computed, as a float, before the link is reset.                      *)
FailedLoopEnds(l) ==
  /\ failures' = failures
  /\ link' = Disconnected
  /\ Goto(Worker, "ended")

Failed(l) ==
  \/ /\ failures < FloatLimit
     /\ failures' = failures + 1
     /\ link' = Disconnected
     /\ Goto(Worker, "sleep")
  \/ /\ failures = FloatLimit
     /\ failures' = failures + 1
     /\ link' = l
     /\ Goto(Worker, "dead")

(* An exception inside connect.                                            *)
RetryOrRaise(p, l) ==
  \/ /\ run[p].attempt < MaxRetries - 1                \* and sleeps
     /\ link' = l
     /\ run' = [run EXCEPT ![p].pc = "dial", ![p].attempt = @ + 1]
     /\ UNCHANGED <<started, failures>>
  \/ /\ run[p].attempt = MaxRetries - 1
     /\ \/ /\ p \in Publishers
           /\ link' = l
           /\ Goto(p, "failed")
           /\ UNCHANGED <<started, failures>>
        \/ /\ p = Worker /\ started = "no"
           /\ link' = l
           /\ started' = "workerless"
           /\ Goto(p, "absent")
           /\ UNCHANGED failures
        \/ /\ p = Worker /\ started = "working"
           /\ Failed(l)
           /\ UNCHANGED started
-----------------------------------------------------------------------------
Init ==
  /\ up \in BOOLEAN
  /\ server \in {"nothing", "queues"}
  /\ queue = 0
  /\ link = Disconnected
  /\ started = "no"
  /\ failures = 0
  /\ run = [p \in Procs |-> Begin(IF p = Worker THEN "dial" ELSE "idle")]

(* connect.  With RabbitMQ away every await in it can fail, and only the   *)
(* first has to.                                                           *)

Refused(p) ==
  /\ run[p].pc \in Connecting /\ ~up
  /\ RetryOrRaise(p, link)
  /\ UNCHANGED <<up, server, queue>>

DialedIfMissing(p) ==
  /\ run[p].pc = "dial" /\ up /\ ~link.connection
  /\ link' = [link EXCEPT !.connection = TRUE]
  /\ Goto(p, "channel")
  /\ UNCHANGED <<up, server, queue, started, failures>>

Dialed(p) ==
  /\ run[p].pc = "dial" /\ up
  /\ link' = [link EXCEPT !.connection = TRUE]
  /\ Goto(p, "channel")
  /\ UNCHANGED <<up, server, queue, started, failures>>

ChannelOpened(p) ==
  /\ run[p].pc = "channel" /\ up
  /\ link' = [link EXCEPT !.channel = TRUE]
  /\ Goto(p, "exchange")
  /\ UNCHANGED <<up, server, queue, started, failures>>

(* The exchange can be published to before the queues are bound to it.     *)
ExchangeDeclared(p) ==
  /\ run[p].pc = "exchange" /\ up
  /\ server' = IF server = "nothing" THEN "exchange" ELSE server
  /\ LET l == [link EXCEPT !.exchange = TRUE]
     IN  \/ link.channel /\ link' = l /\ Goto(p, "queues")
            /\ UNCHANGED <<started, failures>>
         \/ ~link.channel /\ RetryOrRaise(p, l)
  /\ UNCHANGED <<up, queue>>

QueuesForgotten(p) ==
  /\ run[p].pc = "queues" /\ up
  /\ Goto(p, "bound")
  /\ UNCHANGED <<up, server, queue, link, started, failures>>

(* Every declaration reads the channel and the exchange anew.              *)
QueuesDeclared(p) ==
  /\ run[p].pc = "queues" /\ up
  /\ \/ /\ link.channel /\ link.exchange
        /\ server' = "queues"
        /\ Goto(p, "bound")
        /\ UNCHANGED <<link, started, failures>>
     \/ /\ ~(link.channel /\ link.exchange)
        /\ RetryOrRaise(p, link)
        /\ UNCHANGED server
  /\ UNCHANGED <<up, queue>>

(* connect returns; the link may have been reset since.                    *)
Connected(p) ==
  /\ run[p].pc = "bound" /\ up
  /\ \/ /\ p \in Publishers /\ link.exchange
        /\ Goto(p, "publish")
        /\ UNCHANGED <<link, started, failures>>
     \/ /\ p \in Publishers /\ ~link.exchange /\ run[p].try = 1
        /\ link' = Disconnected
        /\ Again(p)
        /\ UNCHANGED <<started, failures>>
     \/ /\ p \in Publishers /\ ~link.exchange /\ run[p].try = 2
        /\ Goto(p, "failed")
        /\ UNCHANGED <<link, started, failures>>
     \/ /\ p = Worker /\ started = "no"
        /\ started' = "working"
        /\ Goto(p, "check")
        /\ UNCHANGED <<link, failures>>
     \/ /\ p = Worker /\ started # "no" /\ link.connection
        /\ Goto(p, "open")
        /\ UNCHANGED <<link, started, failures>>
     \/ /\ p = Worker /\ started # "no" /\ ~link.connection
        /\ Failed(link)
        /\ UNCHANGED started
  /\ UNCHANGED <<up, server, queue>>

ConnectNext(p) ==
  \/ Refused(p) \/ Dialed(p) \/ ChannelOpened(p)
  \/ ExchangeDeclared(p) \/ QueuesDeclared(p) \/ Connected(p)
-----------------------------------------------------------------------------
(* publish_event                                                           *)

PublishBegin(h) ==
  /\ run[h].pc \in {"idle", "done", "failed"}
  /\ started # "no" /\ queue <= MaxQueue
  /\ run' = [run EXCEPT ![h] = Begin(IF link.exchange THEN "publish" ELSE "dial")]
  /\ UNCHANGED <<up, server, queue, link, started, failures>>

Send(h) ==
  /\ run[h].pc = "publish" /\ up
  /\ LET routed == IF server = "queues" THEN 1 ELSE 0
     IN  /\ queue' = queue + routed
         /\ run' = [run EXCEPT ![h].pc = "confirm", ![h].copies = @ + routed]
  /\ UNCHANGED <<up, server, link, started, failures>>

Confirmed(h) ==
  /\ run[h].pc = "confirm" /\ up
  /\ Goto(h, "done")
  /\ UNCHANGED <<up, server, queue, link, started, failures>>

(* A publication raises, or waits for RabbitMQ in "publish" or "confirm".  *)
(* The first failure resets the link and connects again, for everybody.    *)
PublishFailsAlways(h) ==
  /\ run[h].pc \in {"publish", "confirm"} /\ ~up
  /\ link' = Disconnected
  /\ run' = [run EXCEPT ![h].pc = "dial"]
  /\ UNCHANGED <<up, server, queue, started, failures>>

PublishFails(h) ==
  /\ run[h].pc \in {"publish", "confirm"} /\ ~up
  /\ \/ /\ run[h].try = 1
        /\ link' = Disconnected
        /\ Again(h)
     \/ /\ run[h].try = 2
        /\ Goto(h, "failed")
        /\ UNCHANGED link
  /\ UNCHANGED <<up, server, queue, started, failures>>

PublishContinues(h) ==
  ConnectNext(h) \/ Send(h) \/ Confirmed(h) \/ PublishFails(h)
-----------------------------------------------------------------------------
(* iniciar_worker                                                          *)

Check ==
  /\ run[Worker].pc = "check"
  /\ IF link.connection THEN Goto(Worker, "open") ELSE Goto(Worker, "dial")
  /\ UNCHANGED <<up, server, queue, link, started, failures>>

Consuming ==
  /\ run[Worker].pc = "open" /\ up
  /\ failures' = 0
  /\ Goto(Worker, "consume")
  /\ UNCHANGED <<up, server, queue, link, started>>

Consume ==
  /\ run[Worker].pc = "consume" /\ up /\ queue > 0
  /\ queue' = queue - 1
  /\ UNCHANGED <<up, server, link, started, failures, run>>

(* The channel or the iterator fails, or waits for RabbitMQ.  A message in *)
(* hand stays queued.                                                      *)
Interrupted ==
  /\ run[Worker].pc \in {"open", "consume"} /\ ~up
  /\ Failed(link)
  /\ UNCHANGED <<up, server, queue, started>>

Wake ==
  /\ run[Worker].pc = "sleep"
  /\ Goto(Worker, "check")
  /\ UNCHANGED <<up, server, queue, link, started, failures>>

WorkerContinues ==
  ConnectNext(Worker) \/ Check \/ Consuming \/ Consume \/ Interrupted \/ Wake
-----------------------------------------------------------------------------
Fall == up /\ up' = FALSE /\ UNCHANGED <<server, queue, link, started, failures, run>>

Rise == ~up /\ up' = TRUE /\ UNCHANGED <<server, queue, link, started, failures, run>>

Next ==
  \/ \E h \in Publishers : PublishBegin(h) \/ PublishContinues(h)
  \/ WorkerContinues
  \/ Fall \/ Rise

Spec == Init /\ [][Next]_vars

(* A sleep ends and a new connection is made or refused.  Whatever is      *)
(* awaited on an existing connection is only sure to go on while RabbitMQ  *)
(* is reachable.                                                           *)
FairSpec ==
  /\ Spec
  /\ \A h \in Publishers :
       WF_vars((up \/ run[h].pc = "dial") /\ PublishContinues(h))
  /\ WF_vars((up \/ run[Worker].pc \in {"dial", "check", "sleep"})
               /\ WorkerContinues)
-----------------------------------------------------------------------------
Pcs == Connecting \cup {"idle", "publish", "confirm", "done", "failed",
                        "check", "open", "consume", "sleep", "absent", "dead"}

(* Type correctness of the link, the queue and the coroutines; connect     *)
(* makes at most MaxRetries attempts, and publish_event sends at most two  *)
(* copies.                                                                 *)
TypeOK ==
  /\ up \in BOOLEAN
  /\ server \in {"nothing", "exchange", "queues"}
  /\ queue \in Nat
  /\ link \in [connection: BOOLEAN, channel: BOOLEAN, exchange: BOOLEAN]
  /\ started \in {"no", "working", "workerless"}
  /\ failures \in 0..FloatLimit + 1
  /\ run \in [Procs -> [pc: Pcs, attempt: 0..MaxRetries - 1, try: 1..2,
                        copies: 0..2]]

(* A core that started with its worker never reports a publication that    *)
(* reached no queue: whoever resets the link, and however two connects     *)
(* interleave, an exchange that can be used has its queues.                *)
ReportedIsQueued ==
  started = "working" =>
    \A h \in Publishers : run[h].pc = "done" => run[h].copies >= 1

(* Once RabbitMQ stays reachable every publication returns or raises,      *)
(* whoever else connects at the same time, and whatever half of a link     *)
(* their failures left behind.  While RabbitMQ is away a publication on an *)
(* existing exchange, and with it the request, the worker or the monitor   *)
(* that publishes, may be held as long as that lasts.                      *)
PublishReturns ==
  <>[]up => \A h \in Publishers :
              run[h].pc \in Connecting \cup {"publish", "confirm"}
                ~> run[h].pc \in {"done", "failed"}

(* Once RabbitMQ stays up, the worker goes on consuming until the queue is *)
(* empty, although every failed publication of another coroutine took its  *)
(* link away -- unless the core started without the worker, or it died.    *)
QueueServed ==
  <>[]up => \/ <>(run[Worker].pc \in {"absent", "dead"})
            \/ []<>(queue = 0)
            \/ []<><<Consume>>_vars
=============================================================================
