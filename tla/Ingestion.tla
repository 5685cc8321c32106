------------------------------- MODULE Ingestion ------------------------------
(***************************************************************************)
(* The ingestion service (ingestion/service.py): one asyncio task that     *)
(* consumes the broker's session and writes every message to the database, *)
(* across broker and database failures, SIGTERM, SIGKILL and restarts.     *)
(*                                                                         *)
(* pc names the await the task is suspended at.  An action is the outcome  *)
(* of that await together with all the code up to the next one, so what    *)
(* can interleave with the task here is what the event loop lets           *)
(* interleave.  paho acknowledges a message in the callback that buffers   *)
(* it: Deliver moves it out of the session before the task sees it.        *)
(***************************************************************************)
EXTENDS Storage, Broker

CONSTANTS FaultKinds,   \* the kinds of fault the environment may inject
          MaxFaults,    \* bound: faults in a behaviour
          MaxStarts     \* bound: starts of the process in a behaviour

ASSUME BoundsAssumption ==
  /\ FaultKinds \subseteq {"db", "link", "ack", "broker", "kill"}
  /\ MaxFaults \in Nat
  /\ MaxStarts \in Nat \ {0}

VARIABLES
  pc,         \* the await the task is suspended at, or how the process ended
  loop,       \* the loop of run() whose item is, or was last, handled
  stop,       \* the stop event
  messages,   \* aiomqtt's queue: acknowledged, not yet seen by the task
  pending,    \* the deque of acknowledged messages not yet written
  latest,     \* newest measured_at seen per device; Never where it has no entry
  counters,
  health,     \* HealthState: db_connected and broker_connected
  reported,   \* history: messages counted by an acked_messages_dropped log line
  faults,     \* faults injected so far
  starts      \* starts of the process so far

workVars  == <<loop, messages, pending, latest, counters>>
memVars   == <<pc, stop, health, workVars>>
boundVars == <<faults, starts>>
outerVars == <<published, session, stop, reported>>
vars      == <<dbVars, brokerVars, memVars, reported, boundVars>>

Never == MinTime - 1

Statement == {"upsert_device", "insert_reading", "record_dedupe",
              "insert_dead_letter"}
Ended     == {"exited", "crashed", "killed"}
PC        == Statement \cup Ended \cup
             {"db_connect", "mqtt_connect", "subscribe", "next_message",
              "raise", "backoff", "flush_connect"}
Loop      == {"replay", "consume", "drain", "flush"}
Counter   == {"ingested", "deduplicated", "dead_lettered", "out_of_order"}
Flag      == {"db_connected", "broker_connected"}

Zero == [k \in Counter |-> 0]
Down == [f \in Flag |-> FALSE]
Unseen == [d \in DeviceId |-> Never]

TypeOK ==
  /\ StorageTypeOK
  /\ BrokerTypeOK
  /\ pc \in PC
  /\ loop \in Loop
  /\ stop \in BOOLEAN
  /\ messages \in Seq(Msg)
  /\ pending \in Seq(Msg)
  /\ latest \in [DeviceId -> Instant \cup {Never}]
  /\ counters \in [Counter -> Nat]
  /\ health \in [Flag -> BOOLEAN]
  /\ reported \subseteq Msg
  /\ faults \in 0 .. MaxFaults
  /\ starts \in 1 .. MaxStarts

Init ==
  /\ StorageInit
  /\ BrokerInit
  /\ pc = "db_connect"
  /\ loop = "replay"
  /\ stop = FALSE
  /\ messages = <<>>
  /\ pending = <<>>
  /\ latest = Unseen
  /\ counters = Zero
  /\ health = Down
  /\ reported = {}
  /\ faults = 0
  /\ starts = 1

Fault(kind) ==
  /\ kind \in FaultKinds
  /\ faults < MaxFaults
  /\ faults' = faults + 1
  /\ UNCHANGED starts

Count(c, k) == [c EXCEPT ![k] = @ + 1]

-------------------------------------------------------------------------------
(* _handle_one up to its first await.                                      *)

Outcome(m) == Classify(Wire[m])

(* The in-memory arrival observation that precedes every write.            *)
Observe(r, c) ==
  LET older == r.measured_at < latest[r.device_id]
  IN  /\ counters' = IF older THEN Count(c, "out_of_order") ELSE c
      /\ latest' = IF older THEN latest
                   ELSE [latest EXCEPT ![r.device_id] = r.measured_at]

(* Start on m in loop lp, with the deque q (m in it), the queue ms and the *)
(* counters c.                                                             *)
Handle(m, lp, q, ms, c) ==
  /\ loop' = lp
  /\ pending' = q
  /\ messages' = ms
  /\ \/ /\ Outcome(m).kind = "reading"
        /\ Observe(Outcome(m).reading, c)
        /\ pc' = "upsert_device"
     \/ /\ Outcome(m).kind = "dead_letter"
        /\ counters' = c
        /\ pc' = "insert_dead_letter"
        /\ UNCHANGED latest
     \/ /\ Outcome(m).kind = "raised"
        /\ counters' = c
        /\ pc' = "raise"
        /\ UNCHANGED latest

(* The message being handled: the replay and the flush loop handle         *)
(* pending[0], the other two the message they have just appended.          *)
Item == IF loop \in {"replay", "flush"} THEN Head(pending)
        ELSE pending[Len(pending)]

-------------------------------------------------------------------------------
(* The loops of run().                                                     *)

(* After the reconnect loop: flush what is still owed, or be done.         *)
AfterLoop(q) == IF q = <<>> THEN "exited" ELSE "flush_connect"

(* Mutant: the flags are not dropped.                                      *)
BugTeardownKeepsHealth == messages' = <<>> /\ link' = FALSE /\ UNCHANGED health

(* The client context is left and the inner finally runs: the queue and    *)
(* the connection are gone, and both health flags drop.                    *)
Teardown ==
  /\ messages' = <<>>
  /\ link' = FALSE
  /\ health' = Down

(* Control passes to the loop head of lp with the deque q and counters c:  *)
(* the while conditions of the replay, consume and drain loops in turn,    *)
(* or of the flush loop.  h is the health while the client stays entered.  *)
Proceed(lp, q, c, h) ==
  \/ /\ lp = "flush" \/ (lp = "replay" /\ ~stop)
     /\ q # <<>>
     /\ Handle(Head(q), lp, q, messages, c)
     /\ health' = h
     /\ UNCHANGED link
  \/ /\ lp # "flush" /\ ~stop
     /\ lp = "replay" => q = <<>>
     /\ pc' = "next_message" /\ loop' = "consume"
     /\ pending' = q /\ counters' = c /\ health' = h
     /\ UNCHANGED <<messages, latest, link>>
  \/ /\ lp # "flush" /\ stop
     /\ messages # <<>>
     /\ Handle(Head(messages), "drain", Append(q, Head(messages)),
               Tail(messages), c)
     /\ health' = h
     /\ UNCHANGED link
  \/ /\ lp # "flush" /\ stop
     /\ messages = <<>>
     /\ Teardown
     /\ pc' = AfterLoop(q)
     /\ pending' = q /\ counters' = c
     /\ UNCHANGED <<loop, latest>>
  \/ /\ lp = "flush" /\ q = <<>>
     /\ pc' = "exited"
     /\ pending' = q /\ counters' = c /\ health' = h
     /\ UNCHANGED <<loop, messages, latest, link>>

(* Mutant: the deque is not popped.                                        *)
BugNoPop(k) ==
  /\ Proceed(loop, pending, Count(counters, k), health)
  /\ UNCHANGED <<outerVars, subscribed, boundVars>>

(* _handle_one returned: each loop drops pending[0], whichever message it  *)
(* handled.                                                                *)
ItemDone(k) ==
  /\ Proceed(loop, Tail(pending), Count(counters, k), health)
  /\ UNCHANGED <<outerVars, subscribed, boundVars>>

(* Mutant: the deque does not outlive the client.                          *)
BugReconnectForgets(q) ==
  /\ Teardown
  /\ pending' = <<>>
  /\ pc' = IF stop THEN "exited" ELSE "backoff"
  /\ UNCHANGED <<outerVars, loop, latest, counters>>

(* An exception leaves the client context and the reconnect loop catches   *)
(* it, with q owed: break when stopping, else back off.                    *)
Reconnect(q) ==
  /\ Teardown
  /\ pending' = q
  /\ pc' = IF stop THEN AfterLoop(q) ELSE "backoff"
  /\ UNCHANGED <<outerVars, loop, latest, counters>>

-------------------------------------------------------------------------------
(* Connecting.                                                             *)

ConnectDb ==
  /\ pc = "db_connect"
  /\ pc' = "mqtt_connect"
  /\ health' = [health EXCEPT !["db_connected"] = TRUE]
  /\ UNCHANGED <<dbVars, brokerVars, workVars, stop, reported, boundVars>>

ConnectMqtt ==
  /\ pc = "mqtt_connect"
  /\ pc' = "subscribe"
  /\ link' = TRUE
  /\ UNCHANGED <<dbVars, workVars, outerVars, subscribed, health, boundVars>>

Subscribe ==
  /\ pc = "subscribe" /\ link
  /\ subscribed' = TRUE
  /\ Proceed("replay", pending, counters,
             [health EXCEPT !["broker_connected"] = TRUE])
  /\ UNCHANGED <<dbVars, outerVars, boundVars>>

(* The backoff wait ends, by timeout or because stop was set.              *)
BackoffEnds ==
  /\ pc = "backoff"
  /\ pc' = IF stop THEN AfterLoop(pending) ELSE "db_connect"
  /\ UNCHANGED <<dbVars, brokerVars, workVars, stop, health, reported,
                 boundVars>>

ConnectFails ==
  /\ \/ pc = "db_connect" /\ Fault("db")
     \/ pc = "mqtt_connect" /\ Fault("link")
  /\ Reconnect(pending)
  /\ UNCHANGED <<dbVars, subscribed>>

(* subscribe raises MqttError: the SUBACK did not come in time, though the *)
(* broker may have taken the subscription.  There is no salvage here: what *)
(* the session has already delivered goes with the client.                 *)
SubscribeFails ==
  /\ pc = "subscribe" /\ link
  /\ Fault("link")
  /\ subscribed' \in {subscribed, TRUE}
  /\ Reconnect(pending)
  /\ UNCHANGED dbVars

SubscribeOnDeadLink ==
  /\ pc = "subscribe" /\ ~link
  /\ Reconnect(pending)
  /\ UNCHANGED <<dbVars, subscribed, boundVars>>

-------------------------------------------------------------------------------
(* _next_message: the queue raced against the stop event.                  *)

(* A queued message wins even when stop is set or the link is gone.        *)
TakeMessage ==
  /\ pc = "next_message"
  /\ messages # <<>>
  /\ Handle(Head(messages), "consume", Append(pending, Head(messages)),
            Tail(messages), counters)
  /\ UNCHANGED <<dbVars, brokerVars, stop, health, reported, boundVars>>

(* Mutant: stop is noticed only when a message arrives.                    *)
BugStopAfterMessage ==
  /\ pc = "next_message" /\ stop /\ messages # <<>>
  /\ Proceed("consume", pending, counters, health)
  /\ UNCHANGED <<dbVars, outerVars, subscribed, boundVars>>

StopNoticed ==
  /\ pc = "next_message" /\ stop
  /\ Proceed("consume", pending, counters, health)
  /\ UNCHANGED <<dbVars, outerVars, subscribed, boundVars>>

(* Mutant: a lost link is noticed only when stopping.                      *)
BugDisconnectUnnoticed ==
  /\ pc = "next_message" /\ stop
  /\ messages = <<>> /\ ~link
  /\ Reconnect(pending)
  /\ UNCHANGED <<dbVars, subscribed, boundVars>>

(* MqttError, once the queue is empty and the link is gone.                *)
Disconnected ==
  /\ pc = "next_message"
  /\ messages = <<>> /\ ~link
  /\ Reconnect(pending)
  /\ UNCHANGED <<dbVars, subscribed, boundVars>>

-------------------------------------------------------------------------------
(* _handle_one: the writes.                                                *)

DeadLetterOf(m) == [topic |-> Wire[m].topic, payload |-> Wire[m].payload,
                    reason |-> Outcome(m).reason]

UpsertDevice ==
  /\ pc = "upsert_device"
  /\ upsert_device(Outcome(Item).reading)
  /\ pc' = "insert_reading"
  /\ UNCHANGED <<brokerVars, workVars, stop, health, reported, boundVars>>

InsertNew ==
  /\ pc = "insert_reading"
  /\ ~KeyTaken(Outcome(Item).reading)
  /\ insert_reading(Outcome(Item).reading)
  /\ ItemDone("ingested")

InsertDuplicate ==
  /\ pc = "insert_reading"
  /\ KeyTaken(Outcome(Item).reading)
  /\ insert_reading(Outcome(Item).reading)
  /\ pc' = "record_dedupe"
  /\ UNCHANGED <<brokerVars, workVars, stop, health, reported, boundVars>>

RecordDedupe ==
  /\ pc = "record_dedupe"
  /\ record_dedupe(Outcome(Item).reading)
  /\ ItemDone("deduplicated")

InsertDeadLetter ==
  /\ pc = "insert_dead_letter"
  /\ insert_dead_letter(DeadLetterOf(Item))
  /\ ItemDone("dead_lettered")

(* What the statement at pc does to the tables.                            *)
Execute ==
  \/ pc = "upsert_device"      /\ upsert_device(Outcome(Item).reading)
  \/ pc = "insert_reading"     /\ insert_reading(Outcome(Item).reading)
  \/ pc = "record_dedupe"      /\ record_dedupe(Outcome(Item).reading)
  \/ pc = "insert_dead_letter" /\ insert_dead_letter(DeadLetterOf(Item))

(* Mutants: the queue is not salvaged; the message in hand is dropped.     *)
BugNoSalvage ==
  /\ pc \in Statement /\ loop # "flush"
  /\ Fault("db")
  /\ Execute \/ UNCHANGED dbVars
  /\ Reconnect(pending)
  /\ UNCHANGED subscribed

BugDropInHand ==
  /\ pc \in Statement /\ loop # "flush"
  /\ Fault("db")
  /\ Execute \/ UNCHANGED dbVars
  /\ Reconnect(Tail(pending) \o messages)
  /\ UNCHANGED subscribed

(* OperationalError from a write: the connection is lost before or after   *)
(* the statement commits.  The queue is salvaged, then the client goes.    *)
WriteFails ==
  /\ pc \in Statement /\ loop # "flush"
  /\ Fault("db")
  /\ Execute \/ UNCHANGED dbVars
  /\ Reconnect(pending \o messages)
  /\ UNCHANGED subscribed

-------------------------------------------------------------------------------
(* The final flush.                                                        *)

ConnectFlush ==
  /\ pc = "flush_connect"
  /\ Proceed("flush", pending, counters, health)
  /\ UNCHANGED <<dbVars, outerVars, subscribed, boundVars>>

(* Any exception of the flush is caught and the count of what is still     *)
(* owed is logged; then the process ends.                                  *)
Report ==
  /\ reported' = reported \cup {pending[i] : i \in DOMAIN pending}
  /\ pending' = <<>>
  /\ pc' = "exited"
  /\ UNCHANGED <<brokerVars, loop, stop, messages, latest, counters, health>>

(* The database fails, or the flush's timeout expires.                     *)
FlushFails ==
  /\ pc = "flush_connect" \/ (pc \in Statement /\ loop = "flush")
  /\ Fault("db")
  /\ Execute \/ UNCHANGED dbVars
  /\ Report

(* An exception of classify is no OperationalError: in the flush it is     *)
(* reported, elsewhere it leaves run() and the process ends at once.       *)
RaiseInFlush ==
  /\ pc = "raise" /\ loop = "flush"
  /\ Report
  /\ UNCHANGED <<dbVars, boundVars>>

EndProcess(how) ==
  /\ pc' = how
  /\ pending' = <<>>
  /\ Teardown
  /\ UNCHANGED <<dbVars, outerVars, subscribed, loop, latest, counters>>

RaiseEndsRun ==
  /\ pc = "raise" /\ loop # "flush"
  /\ EndProcess("crashed")
  /\ UNCHANGED boundVars

-------------------------------------------------------------------------------
(* The environment: devices, network, broker, signals, supervisor.         *)

DevicePublishes ==
  /\ \E m \in Msg : Publish(m)
  /\ UNCHANGED <<dbVars, memVars, reported, boundVars>>

(* paho buffers the head of the session and acknowledges it.  No callback  *)
(* runs while an exception unwinds the task.                               *)
Buffer ==
  /\ link /\ session # <<>> /\ pc # "raise"
  /\ messages' = Append(messages, Head(session))
  /\ UNCHANGED <<dbVars, published, subscribed, pc, loop, stop, pending,
                 latest, counters, health, reported>>

Deliver ==
  /\ Buffer
  /\ session' = Tail(session)
  /\ UNCHANGED <<link, boundVars>>

(* The acknowledgement is lost with the link: the broker will redeliver.   *)
DeliverAckLost ==
  /\ Buffer
  /\ Fault("ack")
  /\ link' = FALSE
  /\ UNCHANGED session

LinkDrops ==
  /\ link
  /\ Fault("link")
  /\ link' = FALSE
  /\ UNCHANGED <<dbVars, published, session, subscribed, memVars, reported>>

BrokerRestarts ==
  /\ Fault("broker")
  /\ ForgetSession
  /\ UNCHANGED <<dbVars, memVars, reported>>

SigTerm ==
  /\ pc \notin Ended /\ ~stop
  /\ stop' = TRUE
  /\ UNCHANGED <<dbVars, brokerVars, workVars, pc, health, reported,
                 boundVars>>

Kill ==
  /\ pc \notin Ended
  /\ Fault("kill")
  /\ EndProcess("killed")

Start ==
  /\ pc \in Ended /\ starts < MaxStarts
  /\ starts' = starts + 1
  /\ pc' = "db_connect"
  /\ loop' = "replay"
  /\ stop' = FALSE
  /\ latest' = Unseen
  /\ counters' = Zero
  /\ UNCHANGED <<dbVars, brokerVars, messages, pending, health, reported,
                 faults>>

-------------------------------------------------------------------------------
(* The steps of the task that need no fault and no signal.                 *)
Service ==
  \/ ConnectDb \/ ConnectMqtt \/ Subscribe \/ BackoffEnds
  \/ SubscribeOnDeadLink \/ TakeMessage \/ StopNoticed \/ Disconnected
  \/ UpsertDevice \/ InsertNew \/ InsertDuplicate \/ RecordDedupe
  \/ InsertDeadLetter \/ ConnectFlush \/ RaiseInFlush \/ RaiseEndsRun

Failure == ConnectFails \/ SubscribeFails \/ WriteFails \/ FlushFails

Environment ==
  \/ DevicePublishes \/ Deliver \/ DeliverAckLost \/ LinkDrops
  \/ BrokerRestarts \/ SigTerm \/ Kill \/ Start

Next == Service \/ Failure \/ Environment

Spec == Init /\ [][Next]_vars

(* The event loop runs a task that can run, and a connected broker         *)
(* delivers.  Faults, signals and restarts are never owed.                 *)
FairSpec == Spec /\ WF_vars(Service) /\ WF_vars(Deliver)
===============================================================================
