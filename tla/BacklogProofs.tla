----------------------------- MODULE BacklogProofs ----------------------------
(***************************************************************************)
(* No acknowledged message is lost silently but by a kill or at a gap; and *)
(* what follows from it for the registry, the health flags and the         *)
(* counters.                                                               *)
(*                                                                         *)
(* A step can empty aiomqtt's queue only where the queue is known to be    *)
(* empty, or salvaged, and pop the deque only where its head is the        *)
(* message just written.  QueueInv states both: it says where the service  *)
(* is offline with nothing queued, and which loops hold one message.       *)
(***************************************************************************)
EXTENDS IngestionProofs, FiniteSetTheorems

Offline ==
  \/ pc \in {"db_connect", "mqtt_connect", "backoff", "flush_connect"} \cup Ended
  \/ loop = "flush"

QueueInv ==
  /\ Offline => ~link /\ messages = <<>>
  /\ loop = "flush" => pc \in Statement \cup {"raise"} \cup Ended
  /\ loop = "drain" => stop
  /\ NothingOwedWhenIdle

LEMMA ProceedQueue ==
  ASSUME NEW lp, NEW c, NEW h, NEW q \in Seq(Msg), Proceed(lp, q, c, h),
         UNCHANGED stop,
         loop = "drain" => stop,
         lp = "consume" => q = <<>>,
         lp = "drain" => stop,
         lp \in Loop,
         lp = "flush" => ~link /\ messages = <<>>,
         lp # "flush" => loop # "flush"
  PROVE  QueueInv'
<1> USE DEF QueueInv, Offline, NothingOwedWhenIdle, Statement, Ended, Loop
<1>1. CASE /\ lp = "flush" \/ (lp = "replay" /\ ~stop)
           /\ Handle(Head(q), lp, q, messages, c)
           /\ UNCHANGED link
  BY <1>1 DEF Handle
<1>2. CASE /\ lp # "flush" /\ ~stop
           /\ lp = "replay" => q = <<>>
           /\ pc' = "next_message" /\ loop' = "consume"
           /\ pending' = q
  BY <1>2
<1>3. CASE /\ lp # "flush" /\ stop
           /\ Handle(Head(messages), "drain", Append(q, Head(messages)),
                     Tail(messages), c)
  BY <1>3 DEF Handle
<1>4. CASE /\ lp # "flush" /\ stop
           /\ Teardown /\ pc' = AfterLoop(q) /\ UNCHANGED loop
  BY <1>4 DEF Teardown, AfterLoop
<1>5. CASE /\ lp = "flush"
           /\ pc' = "exited"
           /\ UNCHANGED <<loop, messages, link>>
  BY <1>5
<1> QED
  BY <1>1, <1>2, <1>3, <1>4, <1>5 DEF Proceed

LEMMA QueueStep ==
  ASSUME TypeInv, QueueInv, [Next]_vars
  PROVE  QueueInv'
<1> USE DEF QueueInv, Offline, NothingOwedWhenIdle
<1>1. /\ pending \in Seq(Msg) /\ messages \in Seq(Msg) /\ loop \in Loop
      /\ pc \in Statement => pending # <<>>
  BY DEF TypeInv, TypeOK, ItemOK
<1>2. ASSUME NEW q, Reconnect(q), loop # "flush"
      PROVE  QueueInv'
  BY <1>2 DEF Reconnect, Teardown, AfterLoop, Statement, Ended, outerVars
<1>3. ASSUME NEW how \in Ended, EndProcess(how)
      PROVE  QueueInv'
  BY <1>3 DEF EndProcess, Teardown, Statement, Ended, outerVars
<1>4. ASSUME UNCHANGED <<pc, loop, stop, link, messages, pending>>
      PROVE  QueueInv'
  BY <1>4
<1>5. CASE Service
  <2>1. CASE ConnectDb \/ ConnectMqtt \/ BackoffEnds
    BY <2>1
       DEF ConnectDb, ConnectMqtt, BackoffEnds, AfterLoop, Statement, Ended,
           brokerVars, workVars, outerVars
  <2>2. CASE Subscribe \/ StopNoticed
    <3>1. PICK lp \in {"replay", "consume"} : \E h :
            /\ Proceed(lp, pending, counters, h)
            /\ lp = "consume" => pc = "next_message"
      BY <2>2 DEF Subscribe, StopNoticed
    <3>2. UNCHANGED stop /\ pc \in {"subscribe", "next_message"}
      BY <2>2 DEF Subscribe, StopNoticed, outerVars
    <3>3. loop # "flush"
      BY <3>2 DEF Statement, Ended
    <3> QED
      BY <1>1, <3>1, <3>2, <3>3, ProceedQueue DEF Loop
  <2>3. CASE SubscribeOnDeadLink \/ Disconnected
    BY <1>2, <2>3 DEF SubscribeOnDeadLink, Disconnected, Statement, Ended
  <2>4. CASE TakeMessage
    <3>1. pending = <<>> /\ messages # <<>> /\ loop' = "consume"
          /\ pending' = Append(pending, Head(messages))
          /\ pc' \in {"upsert_device", "insert_dead_letter", "raise"}
      BY <2>4 DEF TakeMessage, Handle
    <3>2. Len(pending') = 1
      BY <1>1, <3>1
    <3> QED
      BY <3>1, <3>2 DEF Ended
  <2>5. CASE UpsertDevice \/ InsertDuplicate
    BY <2>5
       DEF UpsertDevice, InsertDuplicate, Statement, Ended, brokerVars, workVars
  <2>6. CASE InsertNew \/ RecordDedupe \/ InsertDeadLetter
    <3>1. PICK k \in Counter : ItemDone(k)
      BY <2>6 DEF InsertNew, RecordDedupe, InsertDeadLetter, Counter
    <3>2. pc \in Statement
      BY <2>6 DEF InsertNew, RecordDedupe, InsertDeadLetter, Statement
    <3>3. /\ Tail(pending) \in Seq(Msg)
          /\ loop = "consume" => Tail(pending) = <<>>
      <4>1. pending # <<>> /\ (loop = "consume" => Len(pending) = 1)
        BY <1>1, <3>2
      <4>2. Tail(pending) \in Seq(Msg) /\ Len(Tail(pending)) = Len(pending) - 1
        BY <1>1, <4>1
      <4>3. ASSUME NEW s \in Seq(Msg), Len(s) = 0
            PROVE  s = <<>>
        BY <4>3
      <4> QED
        BY <4>1, <4>2, <4>3
    <3> QED
      BY <1>1, <3>1, <3>3, ProceedQueue DEF ItemDone, outerVars
  <2>7. CASE ConnectFlush
    BY <1>1, <2>7, ProceedQueue DEF ConnectFlush, outerVars, Loop
  <2>8. CASE RaiseInFlush
    BY <2>8 DEF RaiseInFlush, Report, Statement, Ended, brokerVars
  <2>9. CASE RaiseEndsRun
    BY <1>3, <2>9 DEF RaiseEndsRun, Ended
  <2> QED
    BY <1>5, <2>1, <2>2, <2>3, <2>4, <2>5, <2>6, <2>7, <2>8, <2>9 DEF Service
<1>6. CASE Failure
  <2>1. CASE FlushFails
    BY <2>1 DEF FlushFails, Report, Statement, Ended, brokerVars
  <2>2. CASE ConnectFails \/ SubscribeFails \/ WriteFails
    BY <1>2, <2>2
       DEF ConnectFails, SubscribeFails, WriteFails, Statement, Ended
  <2> QED
    BY <1>6, <2>1, <2>2 DEF Failure
<1>7. CASE Environment
  <2>1. CASE DevicePublishes
    BY <1>4, <2>1 DEF DevicePublishes, Publish, memVars, workVars
  <2>2. CASE Deliver \/ DeliverAckLost
    BY <2>2 DEF Deliver, DeliverAckLost, Buffer
  <2>3. CASE LinkDrops \/ BrokerRestarts
    BY <2>3
       DEF LinkDrops, BrokerRestarts, ForgetSession, memVars, workVars
  <2>4. CASE SigTerm
    BY <2>4 DEF SigTerm, brokerVars, workVars
  <2>5. CASE Kill
    BY <1>3, <2>5 DEF Kill, Ended
  <2>6. CASE Start
    BY <2>6 DEF Start, Statement, Ended, brokerVars
  <2> QED
    BY <1>7, <2>1, <2>2, <2>3, <2>4, <2>5, <2>6 DEF Environment
<1>8. CASE UNCHANGED vars
  BY <1>4, <1>8 DEF vars, brokerVars, memVars, workVars
<1> QED
  BY <1>5, <1>6, <1>7, <1>8 DEF Next

LEMMA QueueInvariant == Spec => []QueueInv
<1>1. Init => QueueInv
  BY DEF Init, BrokerInit, QueueInv, Offline, NothingOwedWhenIdle, Statement
<1>2. TypeInv /\ QueueInv /\ [Next]_vars => QueueInv'
  BY QueueStep
<1> QED
  BY <1>1, <1>2, TypeInvariant, PTL DEF Spec

(* The service waits for a message only when it owes none, and consumes    *)
(* one message at a time: popping the deque's head after a write is right  *)
(* in the consume loop because the deque holds one message                 *)
(* (service.py: run, the consume loop).                                    *)
THEOREM IdleOwesNothing == Spec => []NothingOwedWhenIdle
<1>1. QueueInv => NothingOwedWhenIdle
  BY DEF QueueInv
<1> QED
  BY <1>1, QueueInvariant, PTL

-------------------------------------------------------------------------------
(* What the operations on the two queues do to their elements.             *)

LEMMA ElementsSplit ==
  ASSUME NEW S, NEW s \in Seq(S), s # <<>>
  PROVE  Elements(s) = {Head(s)} \cup Elements(Tail(s))
<1> DEFINE t == Tail(s)
<1>1. /\ Len(s) \in Nat \ {0} /\ DOMAIN s = 1 .. Len(s)
      /\ DOMAIN t = 1 .. Len(s) - 1
      /\ \A i \in DOMAIN t : t[i] = s[i + 1]
      /\ Head(s) = s[1]
  OBVIOUS
<1> HIDE DEF t
<1>2. \A i \in DOMAIN s : i = 1 \/ (i - 1 \in DOMAIN t /\ t[i - 1] = s[i])
  BY <1>1
<1>3. \A i \in DOMAIN t : i + 1 \in DOMAIN s
  BY <1>1
<1>4. 1 \in DOMAIN s
  BY <1>1
<1>5. Elements(s) \subseteq {Head(s)} \cup Elements(t)
  BY <1>1, <1>2 DEF Elements
<1>6. {Head(s)} \cup Elements(t) \subseteq Elements(s)
  BY <1>1, <1>3, <1>4 DEF Elements
<1> QED
  BY <1>5, <1>6 DEF t

LEMMA ElementsConcat ==
  ASSUME NEW S, NEW s \in Seq(S), NEW t \in Seq(S)
  PROVE  Elements(s \o t) = Elements(s) \cup Elements(t)
<1> DEFINE c == s \o t
<1>1. /\ Len(s) \in Nat /\ Len(t) \in Nat
      /\ DOMAIN s = 1 .. Len(s) /\ DOMAIN t = 1 .. Len(t)
      /\ DOMAIN c = 1 .. Len(s) + Len(t)
      /\ \A i \in DOMAIN c :
           c[i] = IF i <= Len(s) THEN s[i] ELSE t[i - Len(s)]
  OBVIOUS
<1> HIDE DEF c
<1>2. \A i \in DOMAIN s : i \in DOMAIN c /\ c[i] = s[i]
  BY <1>1
<1>3. \A i \in DOMAIN t : i + Len(s) \in DOMAIN c /\ c[i + Len(s)] = t[i]
  BY <1>1
<1>4. \A i \in DOMAIN c : i \in DOMAIN s \/ i - Len(s) \in DOMAIN t
  BY <1>1
<1>5. Elements(c) \subseteq Elements(s) \cup Elements(t)
  BY <1>1, <1>4 DEF Elements
<1>6. Elements(s) \cup Elements(t) \subseteq Elements(c)
  BY <1>2, <1>3 DEF Elements
<1> QED
  BY <1>5, <1>6 DEF c

LEMMA ElementsNone == Elements(<<>>) = {}
  BY DEF Elements

-------------------------------------------------------------------------------
(* Moving to the next item keeps every element of the deque and the queue. *)
LEMMA ProceedKeeps ==
  ASSUME NEW lp, NEW c, NEW h, NEW q \in Seq(Msg), messages \in Seq(Msg),
         Proceed(lp, q, c, h)
  PROVE  Memory' = Elements(q) \cup Elements(messages)
<1>1. CASE pending' = q /\ messages' = messages
  BY <1>1 DEF Memory
<1>2. CASE /\ messages # <<>> /\ messages' = Tail(messages)
           /\ pending' = Append(q, Head(messages))
  <2>1. Head(messages) \in Msg
    BY <1>2
  <2> QED
    BY <1>2, <2>1, ElementsAppend, ElementsSplit DEF Memory
<1>3. CASE messages = <<>> /\ messages' = <<>> /\ pending' = q
  BY <1>3 DEF Memory
<1> QED
  BY <1>1, <1>2, <1>3 DEF Proceed, Handle, Teardown

(* The statement that completes an item has written it.                    *)
LEMMA WrittenIsLanded ==
  ASSUME TypeInv, NEW m, m = Item,
         \/ /\ pc = "insert_reading"
            /\ insert_reading(Outcome(Item).reading)
         \/ /\ pc = "insert_dead_letter"
            /\ insert_dead_letter(DeadLetterOf(Item))
  PROVE  Landed(m)'
<1>1. m \in Msg
  BY ItemTyped DEF TypeInv, TypeOK, ItemOK, Statement
<1>2. CASE /\ pc = "insert_reading"
           /\ insert_reading(Outcome(Item).reading)
  BY <1>2 DEF Landed, KeyTaken, insert_reading, TypeInv, ItemOK, Outcome
<1>3. CASE /\ pc = "insert_dead_letter"
           /\ insert_dead_letter(DeadLetterOf(Item))
  <2>1. Outcome(m).kind = "dead_letter"
    BY <1>3 DEF TypeInv, ItemOK
  <2>2. DeadLetterOf(m) \in Elements(dead_letter')
    BY <1>1, <1>3, <2>1, OutcomeTyped, ElementsAppend
       DEF insert_dead_letter, TypeInv, TypeOK, StorageTypeOK
  <2> QED
    BY <2>1, <2>2 DEF Landed, Outcome, DeadLetterOf
<1> QED
  BY <1>2, <1>3

LEMMA LandedStays ==
  ASSUME TypeInv, [Next]_vars, NEW m, Landed(m)
  PROVE  Landed(m)'
  BY TablesGrow DEF Landed, KeyTaken, Outcome, DeadLetterOf

(* A dedupe event is recorded only for a message whose key is stored.      *)
DedupeInv == pc = "record_dedupe" => Landed(Item)

LEMMA DedupeStep ==
  ASSUME TypeInv, DedupeInv, [Next]_vars
  PROVE  DedupeInv'
<1> SUFFICES ASSUME pc' = "record_dedupe"
             PROVE  Landed(Item)'
  BY DEF DedupeInv
<1>1. InsertDuplicate \/ UNCHANGED <<pc, loop, pending>>
  <2> USE DEF Handle, Proceed, Reconnect, AfterLoop
  <2>1. CASE UNCHANGED vars
    BY <2>1 DEF vars, memVars, workVars
  <2>2. CASE Service
    BY <2>2
       DEF Service, ConnectDb, ConnectMqtt, Subscribe, BackoffEnds,
           SubscribeOnDeadLink, TakeMessage, StopNoticed, Disconnected,
           UpsertDevice, InsertNew, RecordDedupe, InsertDeadLetter,
           ConnectFlush, RaiseInFlush, RaiseEndsRun, EndProcess, ItemDone,
           Report
  <2>3. CASE Failure
    BY <2>3
       DEF Failure, ConnectFails, SubscribeFails, WriteFails, FlushFails, Report
  <2>4. CASE Environment
    BY <2>4
       DEF Environment, DevicePublishes, Deliver, DeliverAckLost, Buffer,
           LinkDrops, BrokerRestarts, SigTerm, Kill, EndProcess, Start,
           memVars, workVars
  <2> QED
    BY <2>1, <2>2, <2>3, <2>4 DEF Next
<1>2. PICK m : m = Item
  OBVIOUS
<1>3. Item' = m
  BY <1>1, <1>2 DEF InsertDuplicate, workVars, Item
<1>4. Landed(m)'
  <2>1. CASE InsertDuplicate
    BY <1>2, <2>1, WrittenIsLanded DEF InsertDuplicate
  <2>2. CASE UNCHANGED <<pc, loop, pending>>
    <3>1. Landed(m)
      BY <1>2, <2>2 DEF DedupeInv
    <3> QED
      BY <3>1, LandedStays
  <2> QED
    BY <1>1, <2>1, <2>2
<1> QED
  BY <1>3, <1>4 DEF Landed, Outcome, DeadLetterOf

(* Outside a gap the message being written is the deque's head.            *)
LEMMA ItemIsHead ==
  ASSUME TypeInv, QueueInv, ~Gap, pc \in Statement
  PROVE  Item = Head(pending)
<1>1. pending \in Seq(Msg) /\ pending # <<>> /\ loop \in Loop
  BY DEF TypeInv, TypeOK, ItemOK
<1>2. CASE loop \in {"replay", "flush"}
  BY <1>2 DEF Item
<1>3. CASE loop \in {"consume", "drain"}
  <2>1. Len(pending) \in Nat \ {0}
    BY <1>1
  <2>2. loop = "drain" => ~(Len(pending) > 1)
    BY DEF Gap
  <2>3. loop = "consume" => Len(pending) = 1
    BY DEF QueueInv, NothingOwedWhenIdle
  <2>4. Len(pending) = 1
    BY <1>3, <2>1, <2>2, <2>3
  <2> QED
    BY <1>1, <1>3, <2>4 DEF Item
<1> QED
  BY <1>1, <1>2, <1>3 DEF Loop

LEMMA BacklogStep ==
  ASSUME TypeInv, QueueInv, DedupeInv, [Next]_vars,
         ~Gap, pc' # "killed", NEW m \in Memory
  PROVE  Accounted(m)'
<1>1. /\ pending \in Seq(Msg) /\ messages \in Seq(Msg)
      /\ pc \in Statement => pending # <<>>
  BY DEF TypeInv, TypeOK, ItemOK
<1>2. ASSUME m \in Memory' \/ Landed(m)' \/ m \in reported'
      PROVE  Accounted(m)'
  BY <1>2 DEF Accounted
<1>3. m \in Elements(pending) \cup Elements(messages)
  BY DEF Memory
<1>4. CASE UNCHANGED <<pending, messages>>
  BY <1>2, <1>3, <1>4 DEF Memory
<1>5. ASSUME NEW lp, NEW c, NEW h, Proceed(lp, pending, c, h)
      PROVE  Accounted(m)'
  BY <1>1, <1>2, <1>3, <1>5, ProceedKeeps
<1>6. ASSUME NEW q, Reconnect(q), m \in Elements(q)
      PROVE  Accounted(m)'
  BY <1>2, <1>6 DEF Reconnect, Memory
<1>7. ASSUME Report, messages = <<>>
      PROVE  Accounted(m)'
  <2>1. m \in Elements(pending)
    BY <1>3, <1>7, ElementsNone
  <2> QED
    BY <1>2, <1>7, <2>1 DEF Report, Elements
<1>8. ASSUME NEW i, i = Item, Landed(i)',
             NEW k, ItemDone(k), pc \in Statement
      PROVE  Accounted(m)'
  <2>1. Tail(pending) \in Seq(Msg)
    BY <1>1, <1>8
  <2>2. Memory' = Elements(Tail(pending)) \cup Elements(messages)
    BY <1>1, <1>8, <2>1, ProceedKeeps DEF ItemDone
  <2>3. m = Head(pending) \/ m \in Memory'
    BY <1>1, <1>3, <1>8, <2>2, ElementsSplit
  <2>4. Item = Head(pending)
    BY <1>8, ItemIsHead
  <2>5. CASE m \in Memory'
    BY <1>2, <2>5
  <2>6. CASE m = Head(pending)
    <3>1. m = i
      BY <1>8, <2>4, <2>6
    <3> QED
      BY <1>2, <1>8, <3>1
  <2> QED
    BY <2>3, <2>5, <2>6
<1>9. CASE Service
  <2>1. CASE ConnectDb \/ ConnectMqtt \/ BackoffEnds
    BY <1>4, <2>1 DEF ConnectDb, ConnectMqtt, BackoffEnds, workVars
  <2>2. CASE Subscribe \/ StopNoticed \/ ConnectFlush
    BY <1>5, <2>2 DEF Subscribe, StopNoticed, ConnectFlush
  <2>3. CASE Disconnected
    <3>1. m \in Elements(pending)
      BY <1>3, <2>3, ElementsNone DEF Disconnected
    <3> QED
      BY <1>6, <2>3, <3>1 DEF Disconnected
  <2>4. CASE SubscribeOnDeadLink
    BY <2>4 DEF SubscribeOnDeadLink, Reconnect, Teardown, AfterLoop, Gap
  <2>5. CASE TakeMessage
    <3>1. /\ messages # <<>> /\ messages' = Tail(messages)
          /\ pending' = Append(pending, Head(messages))
      BY <2>5 DEF TakeMessage, Handle
    <3>2. Head(messages) \in Msg
      BY <1>1, <3>1
    <3>3. m \in Memory'
      BY <1>1, <1>3, <3>1, <3>2, ElementsAppend, ElementsSplit DEF Memory
    <3> QED
      BY <1>2, <3>3
  <2>6. CASE UpsertDevice \/ InsertDuplicate
    BY <1>4, <2>6 DEF UpsertDevice, InsertDuplicate, workVars
  <2>7. CASE InsertNew \/ RecordDedupe \/ InsertDeadLetter
    <3>1. PICK i : i = Item
      OBVIOUS
    <3>2. PICK k \in Counter : ItemDone(k)
      BY <2>7 DEF InsertNew, RecordDedupe, InsertDeadLetter, Counter
    <3>3. pc \in Statement
      BY <2>7 DEF InsertNew, RecordDedupe, InsertDeadLetter, Statement
    <3>4. CASE InsertNew \/ InsertDeadLetter
      <4>1. Landed(i)'
        BY <3>1, <3>4, WrittenIsLanded DEF InsertNew, InsertDeadLetter
      <4> QED
        BY <1>8, <3>1, <3>2, <3>3, <4>1
    <3>5. CASE RecordDedupe
      <4>1. Landed(i)
        BY <3>1, <3>5 DEF RecordDedupe, DedupeInv
      <4>2. Landed(i)'
        BY <4>1, LandedStays
      <4> QED
        BY <1>8, <3>1, <3>2, <3>3, <4>2
    <3> QED
      BY <2>7, <3>4, <3>5
  <2>8. CASE RaiseInFlush \/ RaiseEndsRun
    BY <2>8 DEF RaiseInFlush, RaiseEndsRun, Gap
  <2> QED
    BY <1>9, <2>1, <2>2, <2>3, <2>4, <2>5, <2>6, <2>7, <2>8 DEF Service
<1>10. CASE Failure
  <2>1. CASE ConnectFails
    <3>1. m \in Elements(pending)
      BY <1>3, <2>1, ElementsNone DEF ConnectFails, QueueInv, Offline
    <3> QED
      BY <1>6, <2>1, <3>1 DEF ConnectFails
  <2>2. CASE SubscribeFails
    BY <2>2 DEF SubscribeFails, Reconnect, Teardown, AfterLoop, Gap
  <2>3. CASE WriteFails
    <3>1. m \in Elements(pending \o messages)
      BY <1>1, <1>3, ElementsConcat
    <3> QED
      BY <1>6, <2>3, <3>1 DEF WriteFails
  <2>4. CASE FlushFails
    BY <1>7, <2>4 DEF FlushFails, QueueInv, Offline
  <2> QED
    BY <1>10, <2>1, <2>2, <2>3, <2>4 DEF Failure
<1>11. CASE Environment
  <2>1. CASE Deliver \/ DeliverAckLost
    <3>1. /\ session # <<>> /\ messages' = Append(messages, Head(session))
          /\ pending' = pending
      BY <2>1 DEF Deliver, DeliverAckLost, Buffer
    <3>2. Head(session) \in Msg
      BY <3>1 DEF TypeInv, TypeOK, BrokerTypeOK
    <3>3. m \in Memory'
      BY <1>1, <1>3, <3>1, <3>2, ElementsAppend DEF Memory
    <3> QED
      BY <1>2, <3>3
  <2>2. CASE Kill
    BY <2>2 DEF Kill, EndProcess
  <2>3. CASE DevicePublishes \/ LinkDrops \/ BrokerRestarts \/ SigTerm \/ Start
    BY <1>4, <2>3
       DEF DevicePublishes, LinkDrops, BrokerRestarts, SigTerm, Start, memVars,
           workVars
  <2> QED
    BY <1>11, <2>1, <2>2, <2>3 DEF Environment
<1>12. CASE UNCHANGED vars
  BY <1>4, <1>12 DEF vars, memVars, workVars
<1> QED
  BY <1>9, <1>10, <1>11, <1>12 DEF Next

(* An acknowledged message stays in memory until it is written or its loss *)
(* is logged, whatever fails and however often, but for a kill and the     *)
(* three gaps (service.py: run, _salvage_queue, the final flush).          *)
THEOREM NothingIsLostSilently == Spec => BacklogSurvives
<1>1. Init => DedupeInv
  BY DEF Init, DedupeInv
<1>2. TypeInv /\ DedupeInv /\ [Next]_vars => DedupeInv'
  BY DedupeStep
<1>3. TypeInv /\ QueueInv /\ DedupeInv /\ [Next]_vars =>
        [\A m \in Memory : Accounted(m)' \/ Gap \/ pc' = "killed"]_vars
  BY BacklogStep
<1> QED
  BY <1>1, <1>2, <1>3, TypeInvariant, QueueInvariant, PTL
     DEF Spec, BacklogSurvives

-------------------------------------------------------------------------------
(***************************************************************************)
(* The registry converges: when the service waits for a message in its     *)
(* first life, first_seen and last_seen of every device are instants of    *)
(* readings it has stored.                                                 *)
(*                                                                         *)
(* An upsert runs before the insert it belongs to, and a failure between   *)
(* the two leaves an endpoint without its reading.  What holds throughout  *)
(* is that the reading is then still owed: each endpoint is the instant of *)
(* a stored reading or of a message of the deque (ConvInv).  A crash ends  *)
(* the guarantee, since the deque does not outlive the process, and so may *)
(* the drain, which pops the deque's head for another message.             *)
(***************************************************************************)

Live == starts = 1 /\ pc \notin Ended /\ (stop => pc = "next_message")

(* Whether t is an instant of device d that is stored, or owed.            *)
Stored(d, t) == \E r \in telemetry : r.device_id = d /\ r.measured_at = t

Reports(m, d, t) ==
  /\ Outcome(m).kind = "reading"
  /\ Outcome(m).reading.device_id = d
  /\ Outcome(m).reading.measured_at = t

Owed(d, t) == \E m \in Elements(pending) : Reports(m, d, t)

Justified(d, t) == Stored(d, t) \/ Owed(d, t)

Justifies(d) ==
  Justified(d, devices[d].first_seen) /\ Justified(d, devices[d].last_seen)

ConvInv == Live => \A d \in DOMAIN devices : Justifies(d)

-------------------------------------------------------------------------------
(* A life that goes on was going on before.                                *)
LEMMA LiveBefore ==
  ASSUME TypeInv, QueueInv, [Next]_vars, Live'
  PROVE  Live
<1>1. starts \in Nat \ {0}
  BY BoundsAssumption DEF TypeInv, TypeOK
<1>2. CASE UNCHANGED vars
  BY <1>2 DEF vars, memVars, boundVars, Live
<1>3. CASE Service
  <2>1. starts' = starts /\ stop' = stop /\ pc \notin Ended
    BY <1>3
       DEF Service, ConnectDb, ConnectMqtt, Subscribe, BackoffEnds,
           SubscribeOnDeadLink, TakeMessage, StopNoticed, Disconnected,
           UpsertDevice, InsertNew, InsertDuplicate, RecordDedupe,
           InsertDeadLetter, ConnectFlush, RaiseInFlush, RaiseEndsRun,
           EndProcess, ItemDone, Report, Reconnect, outerVars, boundVars, Ended
  <2>2. stop => pc' # "next_message"
    BY <1>3
       DEF Service, ConnectDb, ConnectMqtt, Subscribe, BackoffEnds,
           SubscribeOnDeadLink, TakeMessage, StopNoticed, Disconnected,
           UpsertDevice, InsertNew, InsertDuplicate, RecordDedupe,
           InsertDeadLetter, ConnectFlush, RaiseInFlush, RaiseEndsRun,
           EndProcess, ItemDone, Report, Reconnect, AfterLoop, Proceed, Handle
  <2> QED
    BY <2>1, <2>2 DEF Live
<1>4. CASE Failure
  <2>1. starts' = starts /\ stop' = stop /\ pc \notin Ended /\ pc' # "next_message"
    BY <1>4
       DEF Failure, ConnectFails, SubscribeFails, WriteFails, FlushFails,
           Report, Reconnect, AfterLoop, Fault, outerVars, Statement, Ended
  <2> QED
    BY <2>1 DEF Live
<1>5. CASE Start
  BY <1>1, <1>5 DEF Start, Live
<1>6. CASE Environment /\ ~Start
  <2>1. starts' = starts /\ (pc' = pc \/ pc' = "killed") /\ (stop => stop')
    BY <1>6
       DEF Environment, DevicePublishes, Deliver, DeliverAckLost, Buffer,
           LinkDrops, BrokerRestarts, SigTerm, Kill, EndProcess, Fault,
           memVars, outerVars, boundVars
  <2> QED
    BY <2>1 DEF Live, Ended
<1> QED
  BY <1>2, <1>3, <1>4, <1>5, <1>6 DEF Next, Environment

(* While the process lives, a message leaves the deque only written.       *)
LEMMA DequeKept ==
  ASSUME TypeInv, QueueInv, DedupeInv, [Next]_vars, Live',
         NEW m \in Elements(pending)
  PROVE  m \in Elements(pending') \/ Landed(m)'
<1>1. /\ pending \in Seq(Msg) /\ messages \in Seq(Msg)
      /\ pc \in Statement => pending # <<>>
  BY DEF TypeInv, TypeOK, ItemOK
<1>2. CASE UNCHANGED pending
  BY <1>2
<1>3. ASSUME NEW lp, NEW c, NEW h, NEW q \in Seq(Msg), Proceed(lp, q, c, h)
      PROVE  Elements(q) \subseteq Elements(pending')
  <2>1. CASE pending' = q
    BY <2>1
  <2>2. CASE messages # <<>> /\ pending' = Append(q, Head(messages))
    <3>1. Head(messages) \in Msg
      BY <1>1, <2>2
    <3> QED
      BY <2>2, <3>1, ElementsAppend
  <2> QED
    BY <1>3, <2>1, <2>2 DEF Proceed, Handle
<1>4. CASE Subscribe \/ StopNoticed \/ ConnectFlush
  BY <1>1, <1>3, <1>4 DEF Subscribe, StopNoticed, ConnectFlush
<1>5. CASE TakeMessage
  <2>1. messages # <<>> /\ pending' = Append(pending, Head(messages))
    BY <1>5 DEF TakeMessage, Handle
  <2>2. Head(messages) \in Msg
    BY <1>1, <2>1
  <2> QED
    BY <1>1, <2>1, <2>2, ElementsAppend
<1>6. CASE InsertNew \/ RecordDedupe \/ InsertDeadLetter
  <2>1. PICK k \in Counter : ItemDone(k)
    BY <1>6 DEF InsertNew, RecordDedupe, InsertDeadLetter, Counter
  <2>2. pc \in Statement
    BY <1>6 DEF InsertNew, RecordDedupe, InsertDeadLetter, Statement
  <2>3. ~stop
    BY <2>2, LiveBefore DEF Live, Statement
  <2>4. ~Gap
    BY <2>2, <2>3 DEF Gap, QueueInv, Statement
  <2>5. PICK i : i = Item
    OBVIOUS
  <2>6. i = Head(pending)
    BY <2>2, <2>4, <2>5, ItemIsHead
  <2>7. Landed(i)'
    <3>1. CASE InsertNew \/ InsertDeadLetter
      BY <2>5, <3>1, WrittenIsLanded DEF InsertNew, InsertDeadLetter
    <3>2. CASE RecordDedupe
      <4>1. Landed(i)
        BY <2>5, <3>2 DEF RecordDedupe, DedupeInv
      <4> QED
        BY <4>1, LandedStays
    <3> QED
      BY <1>6, <3>1, <3>2
  <2>8. Tail(pending) \in Seq(Msg) /\ pending # <<>>
    BY <1>1, <2>2
  <2>9. Elements(Tail(pending)) \subseteq Elements(pending')
    BY <1>3, <2>1, <2>8 DEF ItemDone
  <2>10. m = i \/ m \in Elements(Tail(pending))
    BY <1>1, <2>6, <2>8, ElementsSplit
  <2> QED
    BY <2>7, <2>9, <2>10
<1>7. CASE WriteFails
  <2>1. pending' = pending \o messages
    BY <1>7 DEF WriteFails, Reconnect
  <2> QED
    BY <1>1, <2>1, ElementsConcat
<1>8. CASE RaiseInFlush \/ RaiseEndsRun \/ FlushFails \/ Kill
  BY <1>8
     DEF RaiseInFlush, RaiseEndsRun, FlushFails, Kill, Report, EndProcess,
         Live, Ended
<1>9. CASE ConnectDb \/ ConnectMqtt \/ BackoffEnds \/ SubscribeOnDeadLink
           \/ Disconnected \/ UpsertDevice \/ InsertDuplicate
  BY <1>2, <1>9
     DEF ConnectDb, ConnectMqtt, BackoffEnds, SubscribeOnDeadLink,
         Disconnected, UpsertDevice, InsertDuplicate, Reconnect, workVars
<1>10. CASE ConnectFails \/ SubscribeFails
  BY <1>2, <1>10 DEF ConnectFails, SubscribeFails, Reconnect
<1>11. CASE Environment /\ ~Kill
  BY <1>2, <1>11
     DEF Environment, DevicePublishes, Deliver, DeliverAckLost, Buffer,
         LinkDrops, BrokerRestarts, SigTerm, Start, memVars, workVars
<1>12. CASE UNCHANGED vars
  BY <1>2, <1>12 DEF vars, memVars, workVars
<1> QED
  BY <1>4, <1>5, <1>6, <1>7, <1>8, <1>9, <1>10, <1>11, <1>12
     DEF Next, Service, Failure, Environment

(* So an instant that is justified stays justified.                        *)
LEMMA JustifiedStays ==
  ASSUME TypeInv, QueueInv, DedupeInv, [Next]_vars, Live',
         NEW d, NEW t, Justified(d, t)
  PROVE  Justified(d, t)'
<1>1. CASE Stored(d, t)
  <2>1. Stored(d, t)'
    BY <1>1, TablesGrow DEF Stored
  <2> QED
    BY <2>1 DEF Justified
<1>2. CASE Owed(d, t)
  <2>1. PICK m \in Elements(pending) : Reports(m, d, t)
    BY <1>2 DEF Owed
  <2>2. CASE m \in Elements(pending')
    BY <2>1, <2>2 DEF Justified, Owed, Elements, Reports, Outcome
  <2>3. CASE Landed(m)'
    BY <2>1, <2>3
       DEF Justified, Stored, Landed, KeyTaken, Key, Reports, Outcome
  <2> QED
    BY <2>1, <2>2, <2>3, DequeKept
<1> QED
  BY <1>1, <1>2 DEF Justified

(* The endpoints move only to the instant of the message in hand.          *)
LEMMA EndpointMoves ==
  ASSUME TypeInv, [Next]_vars, NEW d \in DOMAIN devices',
         NEW t \in {devices'[d].first_seen, devices'[d].last_seen}
  PROVE  \/ /\ d \in DOMAIN devices
            /\ t \in {devices[d].first_seen, devices[d].last_seen}
         \/ pc = "upsert_device" /\ Reports(Item, d, t)
<1>1. CASE pc = "upsert_device" /\ upsert_device(Outcome(Item).reading)
  <2> DEFINE r == Outcome(Item).reading
  <2>1. devices'[d] = IF d = r.device_id THEN Merged(r) ELSE devices[d]
    BY <1>1 DEF upsert_device
  <2>2. d \in DOMAIN devices \cup {r.device_id}
    BY <1>1 DEF upsert_device
  <2>3. Outcome(Item).kind = "reading"
    BY <1>1 DEF TypeInv, ItemOK
  <2>4. CASE d = r.device_id
    BY <1>1, <2>1, <2>3, <2>4 DEF Merged, Least, Greatest, Reports
  <2>5. CASE d # r.device_id
    BY <2>1, <2>2, <2>5
  <2> QED
    BY <2>4, <2>5
<1>2. CASE UNCHANGED devices
  BY <1>2
<1> QED
  BY <1>1, <1>2, TableStep
     DEF Execute, insert_reading, record_dedupe, insert_dead_letter, dbVars

LEMMA ConvStep ==
  ASSUME TypeInv, QueueInv, DedupeInv, ConvInv, [Next]_vars
  PROVE  ConvInv'
<1> SUFFICES ASSUME Live', NEW d \in DOMAIN devices',
                    NEW t \in {devices'[d].first_seen, devices'[d].last_seen}
             PROVE  Justified(d, t)'
  BY DEF ConvInv, Justifies, Justified, Stored, Owed
<1>1. CASE d \in DOMAIN devices /\ t \in {devices[d].first_seen, devices[d].last_seen}
  <2>1. Justified(d, t)
    BY <1>1, LiveBefore DEF ConvInv, Justifies
  <2> QED
    BY <2>1, JustifiedStays
<1>2. CASE pc = "upsert_device" /\ Reports(Item, d, t)
  <2>1. Item \in Elements(pending)
    <3>1. pending \in Seq(Msg) /\ pending # <<>>
      BY <1>2 DEF TypeInv, TypeOK, ItemOK, Statement
    <3>2. 1 \in DOMAIN pending /\ Len(pending) \in DOMAIN pending
          /\ Head(pending) = pending[1]
      BY <3>1
    <3> QED
      BY <3>2 DEF Item, Elements
  <2>2. Justified(d, t)
    BY <1>2, <2>1 DEF Justified, Owed
  <2> QED
    BY <2>2, JustifiedStays
<1> QED
  BY <1>1, <1>2, EndpointMoves

(* first_seen and last_seen converge on instants that are stored, whatever *)
(* order readings arrive in and however often writes fail and are retried  *)
(* (db.py: _UPSERT_DEVICE; service.py: the replay of pending).             *)
THEOREM RegistryIsExact == Spec => []RegistryConverges
<1>1. Init => ConvInv /\ DedupeInv
  BY DEF Init, StorageInit, ConvInv, DedupeInv
<1>2. TypeInv /\ DedupeInv /\ [Next]_vars => DedupeInv'
  BY DedupeStep
<1>3. TypeInv /\ QueueInv /\ DedupeInv /\ ConvInv /\ [Next]_vars => ConvInv'
  BY ConvStep
<1>4. QueueInv /\ ConvInv => RegistryConverges
  <2> SUFFICES ASSUME QueueInv, ConvInv, pc = "next_message", starts = 1,
                      NEW d \in DOMAIN devices,
                      NEW t \in {devices[d].first_seen, devices[d].last_seen}
               PROVE  \E r \in telemetry : r.device_id = d /\ r.measured_at = t
    BY DEF RegistryConverges
  <2>1. Justified(d, t)
    BY DEF ConvInv, Live, Ended, Justifies
  <2>2. Elements(pending) = {}
    BY ElementsNone DEF QueueInv, NothingOwedWhenIdle
  <2> QED
    BY <2>1, <2>2 DEF Justified, Owed, Stored
<1> QED
  BY <1>1, <1>2, <1>3, <1>4, TypeInvariant, QueueInvariant, PTL DEF Spec

-------------------------------------------------------------------------------
(***************************************************************************)
(* What the service says of itself.  The health flags are up exactly while *)
(* the task is inside the client and past the SUBACK.  They are set at two *)
(* awaits and dropped with the client; in between, every step that stays   *)
(* in the client keeps both, and no connection is opened while the         *)
(* broker's flag is up (HealthInv, its last conjunct).                     *)
(***************************************************************************)

Gone == pc \in Ended \cup {"backoff", "db_connect", "flush_connect"} \/ loop = "flush"

HealthInv ==
  /\ Consuming => Healthy
  /\ health["broker_connected"] /\ link => subscribed
  /\ Gone => health = Down
  /\ pc \in {"mqtt_connect", "subscribe"} =>
       ~health["broker_connected"] /\ health["db_connected"]

LEMMA DownFlags == ~Down["broker_connected"] /\ ~Down["db_connected"]
BY DEF Down, Flag

(* Leaving the client is honest, wherever control goes but to a connect.   *)
LEMMA DownIsHonest ==
  ASSUME health' = Down,
         pc' \in Ended \cup {"backoff", "db_connect", "flush_connect"}
  PROVE  HealthInv'
BY DownFlags DEF HealthInv, Gone, Ended, Consuming, Statement

(* Moving to the next item keeps the flags, or leaves the client.          *)
LEMMA ProceedHealth ==
  ASSUME NEW lp \in Loop, NEW q, NEW c, NEW h, Proceed(lp, q, c, h),
         h["broker_connected"] /\ link => subscribed',
         lp # "flush" => h["broker_connected"] /\ h["db_connected"],
         lp = "flush" => h = Down,
         lp # "flush" => loop # "flush"
  PROVE  HealthInv'
<1>1. CASE health' = h /\ pc' \in Statement \cup {"raise", "next_message"}
           /\ UNCHANGED link /\ (loop' = "flush" <=> lp = "flush")
  BY <1>1 DEF HealthInv, Gone, Statement, Ended, Consuming, Healthy
<1>2. CASE health' = h /\ lp = "flush" /\ pc' = "exited"
  BY <1>2, DownIsHonest DEF Ended
<1>3. CASE Teardown /\ pc' = AfterLoop(q)
  BY <1>3, DownIsHonest DEF Teardown, AfterLoop, Ended
<1> QED
  BY <1>1, <1>2, <1>3 DEF Proceed, Handle, Statement

LEMMA HealthStep ==
  ASSUME TypeInv, QueueInv, HealthInv, [Next]_vars
  PROVE  HealthInv'
<1>1. ASSUME UNCHANGED <<pc, loop, health, link, subscribed>>
      PROVE  HealthInv'
  BY <1>1 DEF HealthInv, Gone, Consuming, Healthy
<1>2. ASSUME NEW q, Reconnect(q)
      PROVE  HealthInv'
  BY <1>2, DownIsHonest DEF Reconnect, Teardown, AfterLoop, Ended
<1>3. ASSUME NEW how \in Ended, EndProcess(how)
      PROVE  HealthInv'
  BY <1>3, DownIsHonest DEF EndProcess, Teardown, Ended
<1>4. loop \in Loop /\ health \in [Flag -> BOOLEAN]
  BY DEF TypeInv, TypeOK
<1>5. CASE Service
  <2>1. CASE ConnectDb
    <3>1. health = Down /\ loop # "flush"
      BY <2>1 DEF ConnectDb, HealthInv, Gone, QueueInv, Statement, Ended
    <3>2. /\ ~health'["broker_connected"] /\ health'["db_connected"]
          /\ pc' = "mqtt_connect" /\ loop' = loop
      BY <2>1, <3>1, DownFlags, <1>4 DEF ConnectDb, Flag, workVars
    <3> QED
      BY <3>1, <3>2 DEF HealthInv, Gone, Ended, Consuming, Statement
  <2>2. CASE ConnectMqtt
    <3>1. pc = "mqtt_connect" /\ pc' = "subscribe"
          /\ UNCHANGED <<loop, health>>
      BY <2>2 DEF ConnectMqtt, workVars
    <3>2. loop # "flush"
      BY <3>1 DEF QueueInv, Statement, Ended
    <3> QED
      BY <3>1, <3>2 DEF HealthInv, Gone, Ended, Consuming, Statement
  <2>3. CASE Subscribe
    <3> DEFINE h == [health EXCEPT !["broker_connected"] = TRUE]
    <3>1. health["db_connected"]
      BY <2>3 DEF Subscribe, HealthInv
    <3>2. h["broker_connected"] /\ h["db_connected"]
      BY <1>4, <3>1 DEF Flag
    <3>3. subscribed' /\ loop # "flush"
      BY <2>3 DEF Subscribe, QueueInv, Statement, Ended
    <3>4. Proceed("replay", pending, counters, h)
      BY <2>3 DEF Subscribe
    <3>5. "replay" \in Loop /\ "replay" # "flush"
      BY DEF Loop
    <3> HIDE DEF h
    <3> QED
      BY <3>2, <3>3, <3>4, <3>5, ProceedHealth
  <2>4. CASE StopNoticed \/ InsertNew \/ RecordDedupe \/ InsertDeadLetter \/ ConnectFlush
    <3>1. PICK lp \in Loop :
            /\ \E q, c : Proceed(lp, q, c, health)
            /\ lp = "flush" => loop = "flush" \/ pc = "flush_connect"
            /\ lp # "flush" => loop # "flush" /\ pc # "flush_connect"
            /\ UNCHANGED subscribed
      <4>1. CASE StopNoticed
        BY <4>1 DEF StopNoticed, QueueInv, Statement, Ended, Loop
      <4>2. CASE InsertNew \/ RecordDedupe \/ InsertDeadLetter
        BY <1>4, <4>2 DEF InsertNew, RecordDedupe, InsertDeadLetter, ItemDone
      <4>3. CASE ConnectFlush
        BY <4>3 DEF ConnectFlush, Loop
      <4> QED
        BY <2>4, <4>1, <4>2, <4>3
    <3>2. lp = "flush" => health = Down
      BY <3>1 DEF HealthInv, Gone
    <3>3. lp # "flush" => Healthy
      BY <2>4, <3>1
         DEF StopNoticed, InsertNew, RecordDedupe, InsertDeadLetter,
             ConnectFlush, HealthInv, Consuming, Statement
    <3> QED
      BY <3>1, <3>2, <3>3, ProceedHealth DEF HealthInv, Healthy
  <2>5. CASE BackoffEnds
    <3>1. /\ pc = "backoff" /\ pc' \in {"exited", "flush_connect", "db_connect"}
          /\ UNCHANGED health
      BY <2>5 DEF BackoffEnds, AfterLoop
    <3>2. health' = Down
      BY <3>1 DEF HealthInv, Gone
    <3> QED
      BY <3>1, <3>2, DownIsHonest DEF Ended
  <2>6. CASE SubscribeOnDeadLink \/ Disconnected
    BY <1>2, <2>6 DEF SubscribeOnDeadLink, Disconnected
  <2>7. CASE TakeMessage
    BY <2>7
       DEF TakeMessage, Handle, HealthInv, Gone, Ended, brokerVars,
           Consuming, Healthy, Statement, QueueInv
  <2>8. CASE UpsertDevice \/ InsertDuplicate
    BY <2>8
       DEF UpsertDevice, InsertDuplicate, HealthInv, Gone, Ended, brokerVars,
           workVars, Consuming, Healthy, Statement
  <2>9. CASE RaiseInFlush
    <3>1. health' = Down /\ pc' = "exited"
      BY <2>9 DEF RaiseInFlush, Report, HealthInv, Gone
    <3> QED
      BY <3>1, DownIsHonest DEF Ended
  <2>10. CASE RaiseEndsRun
    BY <1>3, <2>10 DEF RaiseEndsRun, Ended
  <2> QED
    BY <1>5, <2>1, <2>2, <2>3, <2>4, <2>5, <2>6, <2>7, <2>8, <2>9, <2>10
       DEF Service
<1>6. CASE Failure
  <2>1. CASE FlushFails
    <3>1. health' = Down /\ pc' = "exited"
      BY <2>1 DEF FlushFails, Report, HealthInv, Gone
    <3> QED
      BY <3>1, DownIsHonest DEF Ended
  <2>2. CASE ConnectFails \/ SubscribeFails \/ WriteFails
    BY <1>2, <2>2 DEF ConnectFails, SubscribeFails, WriteFails
  <2> QED
    BY <1>6, <2>1, <2>2 DEF Failure
<1>7. CASE Environment
  <2>1. CASE DevicePublishes \/ SigTerm
    BY <1>1, <2>1 DEF DevicePublishes, Publish, SigTerm, memVars, workVars, brokerVars
  <2>2. CASE Deliver
    BY <1>1, <2>2 DEF Deliver, Buffer
  <2>3. CASE DeliverAckLost \/ LinkDrops \/ BrokerRestarts
    BY <2>3
       DEF DeliverAckLost, Buffer, LinkDrops, BrokerRestarts, ForgetSession,
           memVars, workVars, HealthInv, Gone, Consuming, Healthy
  <2>4. CASE Kill
    BY <1>3, <2>4 DEF Kill, Ended
  <2>5. CASE Start
    <3>1. health' = Down /\ pc' = "db_connect"
      BY <2>5 DEF Start, HealthInv, Gone
    <3> QED
      BY <3>1, DownIsHonest DEF Ended
  <2> QED
    BY <1>7, <2>1, <2>2, <2>3, <2>4, <2>5 DEF Environment
<1>8. CASE UNCHANGED vars
  BY <1>1, <1>8 DEF vars, brokerVars, memVars, workVars
<1> QED
  BY <1>5, <1>6, <1>7, <1>8 DEF Next

(* /healthz answers 200 exactly while the service is inside the client and *)
(* past the SUBACK, and both flags are down in every reconnect gap, in the *)
(* final flush and after the end (service.py: run, the inner finally;      *)
(* ops.py).                                                                *)
THEOREM HealthFollowsLoops == Spec => []HealthFollowsConnection
<1>1. Init => HealthInv
  BY DownFlags DEF Init, HealthInv, Consuming, Statement
<1>2. TypeInv /\ QueueInv /\ HealthInv /\ [Next]_vars => HealthInv'
  BY HealthStep
<1>3. TypeInv /\ HealthInv => HealthFollowsConnection
  <2>1. TypeInv /\ HealthInv /\ ~Consuming => ~Healthy
    BY DownFlags DEF TypeInv, TypeOK, PC, HealthInv, Gone, Consuming, Healthy
  <2> QED
    BY <2>1 DEF TypeInv, TypeOK, PC, HealthInv, Gone, Consuming, Healthy,
                HealthFollowsConnection
<1> QED
  BY <1>1, <1>2, <1>3, TypeInvariant, QueueInvariant, PTL DEF Spec

-------------------------------------------------------------------------------
(* The counters.                                                           *)

Served == {"ingested", "deduplicated", "dead_lettered"}

CountInv == IsFiniteSet(telemetry) /\ CountersNotAhead

(* A step leaves the served counters, or resets them, or has just stored   *)
(* the row that the one it raises is about.                                *)
CountedRow ==
  \/ \A k \in Served : counters'[k] = counters[k]
  \/ counters' = Zero
  \/ \E k \in Served :
       /\ \A j \in Served : counters'[j] = IF j = k THEN counters[j] + 1 ELSE counters[j]
       /\ \/ k = "ingested" /\ InsertNew
          \/ k = "deduplicated" /\ RecordDedupe
          \/ k = "dead_lettered" /\ InsertDeadLetter

LEMMA ProceedCounts ==
  ASSUME NEW lp, NEW q, NEW h, NEW c \in [Counter -> Nat], Proceed(lp, q, c, h)
  PROVE  \A k \in Served : counters'[k] = c[k]
<1>1. ASSUME NEW m, NEW l, NEW p, NEW ms, Handle(m, l, p, ms, c)
      PROVE  \A k \in Served : counters'[k] = c[k]
  BY <1>1 DEF Handle, Observe, Count, Served, Counter
<1> QED
  BY <1>1 DEF Proceed

LEMMA CountStep ==
  ASSUME TypeInv, [Next]_vars
  PROVE  CountedRow
<1>1. counters \in [Counter -> Nat]
  BY DEF TypeInv, TypeOK
<1>2. ASSUME UNCHANGED counters
      PROVE  CountedRow
  BY <1>2 DEF CountedRow
<1>3. ASSUME NEW lp, NEW q, NEW h, Proceed(lp, q, counters, h)
      PROVE  CountedRow
  BY <1>1, <1>3, ProceedCounts DEF CountedRow
<1>4. ASSUME NEW k \in Served, ItemDone(k)
      PROVE  \A j \in Served : counters'[j] = IF j = k THEN counters[j] + 1 ELSE counters[j]
  <2>1. k \in Counter
    BY <1>4 DEF Served, Counter
  <2>2. Count(counters, k) \in [Counter -> Nat]
    BY <1>1, <2>1, CountTyped
  <2>3. \A j \in Served : counters'[j] = Count(counters, k)[j]
    BY <1>4, <2>2, ProceedCounts DEF ItemDone
  <2> QED
    BY <1>1, <2>3 DEF Count, Served, Counter
<1>5. CASE Service
  <2>1. CASE InsertNew \/ RecordDedupe \/ InsertDeadLetter
    BY <1>4, <2>1 DEF InsertNew, RecordDedupe, InsertDeadLetter, CountedRow, Served
  <2>2. CASE Subscribe \/ StopNoticed \/ ConnectFlush
    BY <1>3, <2>2 DEF Subscribe, StopNoticed, ConnectFlush
  <2>3. CASE TakeMessage
    BY <1>1, <2>3 DEF TakeMessage, Handle, Observe, Count, CountedRow, Served, Counter
  <2>4. CASE \/ ConnectDb \/ ConnectMqtt \/ BackoffEnds \/ SubscribeOnDeadLink
             \/ Disconnected \/ UpsertDevice \/ InsertDuplicate \/ RaiseInFlush
             \/ RaiseEndsRun
    BY <1>2, <2>4
       DEF ConnectDb, ConnectMqtt, BackoffEnds, SubscribeOnDeadLink,
           Disconnected, UpsertDevice, InsertDuplicate, RaiseInFlush,
           RaiseEndsRun, Report, Reconnect, EndProcess, workVars
  <2> QED
    BY <1>5, <2>1, <2>2, <2>3, <2>4 DEF Service
<1>6. CASE Failure
  BY <1>2, <1>6
     DEF Failure, ConnectFails, SubscribeFails, WriteFails, FlushFails, Report,
         Reconnect
<1>7. CASE Start
  BY <1>7 DEF Start, CountedRow
<1>8. CASE Environment /\ ~Start
  BY <1>2, <1>8
     DEF Environment, DevicePublishes, Deliver, DeliverAckLost, Buffer,
         LinkDrops, BrokerRestarts, SigTerm, Kill, EndProcess, memVars, workVars
<1>9. CASE UNCHANGED vars
  BY <1>2, <1>9 DEF vars, memVars, workVars
<1> QED
  BY <1>5, <1>6, <1>7, <1>8, <1>9 DEF Next, Environment

(* A row more is a row counted at most once.                               *)
LEMMA TelemetryGrows ==
  ASSUME TypeInv, CountInv, [Next]_vars
  PROVE  /\ IsFiniteSet(telemetry')
         /\ Cardinality(telemetry) <= Cardinality(telemetry')
         /\ InsertNew => Cardinality(telemetry') = Cardinality(telemetry) + 1
<1>1. IsFiniteSet(telemetry) /\ Cardinality(telemetry) \in Nat
  BY FS_CardinalityType DEF CountInv
<1>2. telemetry' = telemetry \/ \E r : telemetry' = telemetry \cup {r}
  BY TableStep
     DEF Execute, upsert_device, insert_reading, record_dedupe,
         insert_dead_letter, dbVars
<1>3. ASSUME NEW r
      PROVE  /\ IsFiniteSet(telemetry \cup {r})
             /\ Cardinality(telemetry \cup {r}) =
                  IF r \in telemetry THEN Cardinality(telemetry)
                  ELSE Cardinality(telemetry) + 1
  BY <1>1, FS_AddElement
<1>4. ASSUME InsertNew
      PROVE  \E r : r \notin telemetry /\ telemetry' = telemetry \cup {r}
  BY <1>4 DEF InsertNew, insert_reading, KeyTaken
<1>5. IsFiniteSet(telemetry') /\ Cardinality(telemetry) <= Cardinality(telemetry')
  BY <1>1, <1>2, <1>3
<1>6. InsertNew => Cardinality(telemetry') = Cardinality(telemetry) + 1
  BY <1>3, <1>4
<1> QED
  BY <1>5, <1>6

LEMMA LogsGrow ==
  ASSUME TypeInv, [Next]_vars
  PROVE  /\ Len(dead_letter) <= Len(dead_letter')
         /\ Len(ingest_events) <= Len(ingest_events')
         /\ InsertDeadLetter => Len(dead_letter') = Len(dead_letter) + 1
         /\ RecordDedupe => Len(ingest_events') = Len(ingest_events) + 1
<1>1. dead_letter \in Seq(DeadLetterRow) /\ ingest_events \in Seq(EventRow)
  BY DEF TypeInv, TypeOK, StorageTypeOK
<1>2. ASSUME NEW S, NEW s \in Seq(S), NEW x
      PROVE  Len(Append(s, x)) = Len(s) + 1 /\ Len(s) \in Nat
  OBVIOUS
<1>3. \/ dead_letter' = dead_letter
      \/ \E x : dead_letter' = Append(dead_letter, x)
  BY TableStep
     DEF Execute, upsert_device, insert_reading, record_dedupe,
         insert_dead_letter, dbVars
<1>4. Len(dead_letter) <= Len(dead_letter')
  BY <1>1, <1>2, <1>3
<1>5. InsertDeadLetter => Len(dead_letter') = Len(dead_letter) + 1
  BY <1>1, <1>2 DEF InsertDeadLetter, insert_dead_letter
<1>6. RecordDedupe => Len(ingest_events') = Len(ingest_events) + 1
  BY <1>1, <1>2 DEF RecordDedupe, record_dedupe
<1> QED
  BY <1>4, <1>5, <1>6, TablesGrow

LEMMA CountersStep ==
  ASSUME TypeInv, CountInv, [Next]_vars
  PROVE  CountInv'
<1>1. /\ counters \in [Counter -> Nat]
      /\ Cardinality(telemetry) \in Nat /\ Cardinality(telemetry') \in Nat
      /\ Len(dead_letter) \in Nat /\ Len(dead_letter') \in Nat
      /\ Len(ingest_events) \in Nat /\ Len(ingest_events') \in Nat
  <2>1. TypeInv'
    BY StepTyped
  <2>2. IsFiniteSet(telemetry) /\ IsFiniteSet(telemetry')
    BY TelemetryGrows DEF CountInv
  <2>3. Cardinality(telemetry) \in Nat /\ Cardinality(telemetry') \in Nat
    BY <2>2, FS_CardinalityType
  <2> QED
    BY <2>1, <2>3 DEF TypeInv, TypeOK, StorageTypeOK
<1>2. counters["ingested"]' <= Cardinality(telemetry')
  BY <1>1, CountStep, TelemetryGrows
     DEF CountInv, CountersNotAhead, CountedRow, Served, Counter, Zero
<1>3. counters["deduplicated"]' <= Len(ingest_events')
  BY <1>1, CountStep, LogsGrow
     DEF CountInv, CountersNotAhead, CountedRow, Served, Counter, Zero
<1>4. counters["dead_lettered"]' <= Len(dead_letter')
  BY <1>1, CountStep, LogsGrow
     DEF CountInv, CountersNotAhead, CountedRow, Served, Counter, Zero
<1> QED
  BY <1>2, <1>3, <1>4, TelemetryGrows DEF CountInv, CountersNotAhead

(* The counters on /metrics never run ahead of the rows they count,        *)
(* through every retry, crash and restart (service.py: each is incremented *)
(* after its write has returned).                                          *)
THEOREM CountersFollowRows == Spec => []CountersNotAhead
<1>1. Init => CountInv
  BY FS_EmptySet
     DEF Init, StorageInit, CountInv, CountersNotAhead, Zero, Counter
<1>2. TypeInv /\ CountInv /\ [Next]_vars => CountInv'
  BY CountersStep
<1>3. CountInv => CountersNotAhead
  BY DEF CountInv
<1> QED
  BY <1>1, <1>2, <1>3, TypeInvariant, PTL DEF Spec
===============================================================================
