---------------------------- MODULE IngestionProofs ---------------------------
(***************************************************************************)
(* Theorems about the ingestion service, for every set of devices and      *)
(* messages, every wire content, and every bound on faults and starts.     *)
(*                                                                         *)
(* TypeOK is not inductive alone: that a write is typed depends on what    *)
(* the message in hand was classified as when its handling began, so       *)
(* ItemOK ties pc to the outcome of Item.  RegistryCovers needs, further,  *)
(* that the reading about to be inserted is already covered.               *)
(***************************************************************************)
EXTENDS IngestionProperties, TLAPS

USE DEF NoDevice

(* classify is total: a reading it returns is well typed, and so is the    *)
(* reason of a dead letter.                                                *)
LEMMA ClassifyTyped ==
  ASSUME NEW msg \in [topic: Topic, payload: Payload]
  PROVE  LET o == Classify(msg)
         IN  /\ o.kind \in {"reading", "dead_letter", "raised"}
             /\ o.kind = "reading" => o.reading \in Reading
             /\ o.kind = "dead_letter" => o.reason \in Reason
<1> DEFINE p == msg.payload
<1>1. p \in Payload
  OBVIOUS
<1>2. ASSUME ~ConversionRaises(p), ValidPayload(p)
      PROVE  TelemetryV1(p) \in Reading
  BY <1>1, <1>2, ContractAssumption
     DEF ConversionRaises, ValidPayload, TelemetryV1, Reading, ToUtc, Payload
<1> QED
  BY <1>2 DEF Classify, DeadLetter, ValidReading, Raised, Reason

LEMMA OutcomeTyped ==
  ASSUME NEW m \in Msg
  PROVE  /\ Outcome(m).kind \in {"reading", "dead_letter", "raised"}
         /\ Outcome(m).kind = "reading" => Outcome(m).reading \in Reading
         /\ Outcome(m).kind = "dead_letter" => DeadLetterOf(m) \in DeadLetterRow
<1>1. Wire[m] \in [topic: Topic, payload: Payload]
  BY WireAssumption
<1> QED
  BY <1>1, ClassifyTyped DEF Outcome, DeadLetterOf, DeadLetterRow

-------------------------------------------------------------------------------
(* What the statement about to run knows of the message in hand.           *)
ItemOK ==
  /\ pc \in Statement \cup {"raise"} => pending # <<>>
  /\ pc \in {"upsert_device", "insert_reading", "record_dedupe"} =>
       Outcome(Item).kind = "reading"
  /\ pc = "insert_dead_letter" => Outcome(Item).kind = "dead_letter"

(* The part of TypeOK the task's own variables make up.                    *)
MemoryTypeOK ==
  /\ pc \in PC
  /\ loop \in Loop
  /\ messages \in Seq(Msg)
  /\ pending \in Seq(Msg)
  /\ latest \in [DeviceId -> Instant \cup {Never}]
  /\ counters \in [Counter -> Nat]

LEMMA ItemTyped ==
  ASSUME pending \in Seq(Msg), pending # <<>>
  PROVE  Item \in Msg
  BY DEF Item

LEMMA CountTyped ==
  ASSUME NEW c \in [Counter -> Nat], NEW k \in Counter
  PROVE  Count(c, k) \in [Counter -> Nat]
  BY DEF Count

LEMMA HandleTyped ==
  ASSUME TypeOK, NEW lp \in Loop, NEW q \in Seq(Msg), q # <<>>,
         NEW ms \in Seq(Msg), NEW c \in [Counter -> Nat],
         NEW m \in Msg,
         m = IF lp \in {"replay", "flush"} THEN Head(q) ELSE q[Len(q)],
         Handle(m, lp, q, ms, c)
  PROVE  MemoryTypeOK' /\ ItemOK'
<1>1. /\ loop' = lp /\ pending' = q /\ messages' = ms
      /\ Item' = m
  BY DEF Handle, Item
<1>2. CASE Outcome(m).kind = "reading" /\ Observe(Outcome(m).reading, c)
           /\ pc' = "upsert_device"
  <2> DEFINE r == Outcome(m).reading
  <2>1. r \in Reading
    BY <1>2, OutcomeTyped
  <2>2. r.device_id \in DeviceId /\ r.measured_at \in Instant
    BY <2>1 DEF Reading
  <2>3. counters' \in [Counter -> Nat]
    BY <1>2, CountTyped DEF Observe, Counter
  <2>4. latest' \in [DeviceId -> Instant \cup {Never}]
    BY <1>2, <2>2 DEF Observe, TypeOK
  <2>5. Outcome(Item)' = Outcome(m)
    BY <1>1 DEF Outcome
  <2> QED
    BY <1>1, <1>2, <2>3, <2>4, <2>5
       DEF MemoryTypeOK, ItemOK, PC, Statement, Ended
<1>3. CASE Outcome(m).kind = "dead_letter" /\ counters' = c
           /\ pc' = "insert_dead_letter" /\ UNCHANGED latest
  <2>1. Outcome(Item)' = Outcome(m)
    BY <1>1 DEF Outcome
  <2> QED
    BY <1>1, <1>3, <2>1 DEF MemoryTypeOK, ItemOK, PC, Statement, Ended, TypeOK
<1>4. CASE Outcome(m).kind = "raised" /\ counters' = c /\ pc' = "raise"
           /\ UNCHANGED latest
  BY <1>1, <1>4 DEF MemoryTypeOK, ItemOK, PC, Statement, Ended, TypeOK
<1> QED
  BY <1>2, <1>3, <1>4 DEF Handle

LEMMA ProceedTyped ==
  ASSUME TypeOK, NEW lp \in Loop, NEW q \in Seq(Msg),
         NEW c \in [Counter -> Nat], NEW h \in [Flag -> BOOLEAN],
         Proceed(lp, q, c, h)
  PROVE  /\ MemoryTypeOK' /\ ItemOK'
         /\ link' \in BOOLEAN
         /\ health' \in [Flag -> BOOLEAN]
<1>0. /\ messages \in Seq(Msg) /\ link \in BOOLEAN
      /\ latest \in [DeviceId -> Instant \cup {Never}]
      /\ Down \in [Flag -> BOOLEAN]
      /\ loop \in Loop
  BY DEF TypeOK, BrokerTypeOK, Down
<1>1. CASE /\ lp = "flush" \/ (lp = "replay" /\ ~stop)
           /\ q # <<>>
           /\ Handle(Head(q), lp, q, messages, c)
           /\ health' = h
           /\ UNCHANGED link
  <2>1. Head(q) \in Msg
    BY <1>1
  <2> QED
    BY <1>0, <1>1, <2>1, HandleTyped
<1>2. CASE /\ pc' = "next_message" /\ loop' = "consume"
           /\ pending' = q /\ counters' = c /\ health' = h
           /\ UNCHANGED <<messages, latest, link>>
  BY <1>0, <1>2 DEF MemoryTypeOK, ItemOK, PC, Loop, Statement, Ended
<1>3. CASE /\ messages # <<>>
           /\ Handle(Head(messages), "drain", Append(q, Head(messages)),
                     Tail(messages), c)
           /\ health' = h
           /\ UNCHANGED link
  <2> DEFINE m == Head(messages)
             a == Append(q, m)
  <2>1. m \in Msg /\ Tail(messages) \in Seq(Msg)
    BY <1>0, <1>3
  <2>2. a \in Seq(Msg) /\ a # <<>> /\ a[Len(a)] = m
    BY <2>1
  <2>3. "drain" \in Loop /\ "drain" \notin {"replay", "flush"}
    BY DEF Loop
  <2> QED
    BY <1>0, <1>3, <2>1, <2>2, <2>3, HandleTyped
<1>4. CASE /\ Teardown
           /\ pc' = AfterLoop(q)
           /\ pending' = q /\ counters' = c
           /\ UNCHANGED <<loop, latest>>
  <2>1. pc' \in {"exited", "flush_connect"}
    BY <1>4 DEF AfterLoop
  <2>2. messages' = <<>> /\ link' = FALSE /\ health' = Down
    BY <1>4 DEF Teardown
  <2>3. MemoryTypeOK'
    BY <1>0, <1>4, <2>1, <2>2 DEF MemoryTypeOK, PC, Ended
  <2>4. ItemOK'
    BY <2>1 DEF ItemOK, Statement
  <2> QED
    BY <1>0, <2>2, <2>3, <2>4
<1>5. CASE /\ pc' = "exited"
           /\ pending' = q /\ counters' = c /\ health' = h
           /\ UNCHANGED <<loop, messages, latest, link>>
  BY <1>0, <1>5 DEF MemoryTypeOK, ItemOK, PC, Statement, Ended
<1> QED
  BY <1>1, <1>2, <1>3, <1>4, <1>5 DEF Proceed

LEMMA ReconnectTyped ==
  ASSUME TypeOK, NEW q \in Seq(Msg), Reconnect(q)
  PROVE  /\ MemoryTypeOK' /\ ItemOK'
         /\ link' \in BOOLEAN
         /\ health' \in [Flag -> BOOLEAN]
<1>1. pc' \in {"exited", "flush_connect", "backoff"}
  BY DEF Reconnect, AfterLoop
<1>2. messages' = <<>> /\ link' = FALSE /\ health' = Down
  BY DEF Reconnect, Teardown
<1>3. MemoryTypeOK'
  BY <1>1, <1>2 DEF Reconnect, TypeOK, MemoryTypeOK, PC, Ended
<1>4. ItemOK'
  BY <1>1 DEF ItemOK, Statement
<1> QED
  BY <1>2, <1>3, <1>4 DEF Down

(* The statements keep the tables typed.                                   *)
LEMMA UpsertTyped ==
  ASSUME StorageTypeOK, NEW r \in Reading, upsert_device(r)
  PROVE  StorageTypeOK'
<1>1. r.device_id \in DeviceId /\ r.measured_at \in Instant
  BY DEF Reading
<1>2. Merged(r) \in DeviceRow
  BY <1>1 DEF Merged, DeviceRow, Least, Greatest, StorageTypeOK
<1> QED
  BY <1>1, <1>2 DEF StorageTypeOK, upsert_device

LEMMA ExecuteTyped ==
  ASSUME TypeOK, ItemOK, Execute
  PROVE  StorageTypeOK'
<1>1. pc \in Statement
  BY DEF Execute, Statement
<1>2. Item \in Msg
  BY <1>1, ItemTyped DEF ItemOK, TypeOK
<1>3. CASE pc = "upsert_device" /\ upsert_device(Outcome(Item).reading)
  BY <1>2, <1>3, OutcomeTyped, UpsertTyped DEF ItemOK, TypeOK
<1>4. CASE pc = "insert_reading" /\ insert_reading(Outcome(Item).reading)
  BY <1>2, <1>4, OutcomeTyped
     DEF ItemOK, TypeOK, StorageTypeOK, insert_reading
<1>5. CASE pc = "record_dedupe" /\ record_dedupe(Outcome(Item).reading)
  <2>1. Key(Outcome(Item).reading) \in EventRow
    BY <1>2, <1>5, OutcomeTyped DEF ItemOK, Key, EventRow, Reading
  <2> QED
    BY <1>5, <2>1 DEF TypeOK, StorageTypeOK, record_dedupe
<1>6. CASE pc = "insert_dead_letter" /\ insert_dead_letter(DeadLetterOf(Item))
  BY <1>2, <1>6, OutcomeTyped
     DEF ItemOK, TypeOK, StorageTypeOK, insert_dead_letter
<1> QED
  BY <1>3, <1>4, <1>5, <1>6 DEF Execute

-------------------------------------------------------------------------------
TypeInv == TypeOK /\ ItemOK

LEMMA StorageUnchanged ==
  ASSUME StorageTypeOK, UNCHANGED dbVars
  PROVE  StorageTypeOK'
  BY DEF StorageTypeOK, dbVars

LEMMA ItemUnchanged ==
  ASSUME ItemOK, UNCHANGED <<pc, loop, pending>>
  PROVE  ItemOK'
<1>1. Outcome(Item)' = Outcome(Item)
  BY DEF Item, Outcome
<1> QED
  BY <1>1 DEF ItemOK

LEMMA FaultTyped ==
  ASSUME TypeOK, NEW k, Fault(k)
  PROVE  faults' \in 0 .. MaxFaults /\ starts' \in 1 .. MaxStarts
  BY BoundsAssumption DEF TypeOK, Fault

(* The variables a handled item leaves to its caller.                      *)
LEMMA DoneTyped ==
  ASSUME TypeInv, pc \in Statement, NEW k \in Counter, ItemDone(k),
         StorageTypeOK'
  PROVE  TypeInv'
<1>1. Tail(pending) \in Seq(Msg) /\ Count(counters, k) \in [Counter -> Nat]
  BY CountTyped DEF TypeInv, TypeOK, ItemOK
<1>2. /\ MemoryTypeOK' /\ ItemOK'
      /\ link' \in BOOLEAN
      /\ health' \in [Flag -> BOOLEAN]
  BY <1>1, ProceedTyped DEF TypeInv, TypeOK, ItemDone
<1> QED
  BY <1>2 DEF TypeInv, TypeOK, MemoryTypeOK, ItemDone, BrokerTypeOK, outerVars,
              boundVars

LEMMA EndTyped ==
  ASSUME TypeInv, NEW how \in Ended, EndProcess(how),
         faults' \in 0 .. MaxFaults, starts' \in 1 .. MaxStarts
  PROVE  TypeInv'
<1>1. StorageTypeOK'
  BY StorageUnchanged DEF TypeInv, TypeOK, EndProcess
<1>2. BrokerTypeOK'
  BY DEF TypeInv, TypeOK, BrokerTypeOK, EndProcess, Teardown, outerVars
<1>3. MemoryTypeOK'
  BY DEF TypeInv, TypeOK, EndProcess, Teardown, MemoryTypeOK, PC
<1>4. ItemOK'
  BY DEF EndProcess, ItemOK, Statement, Ended
<1>5. health' \in [Flag -> BOOLEAN]
  BY DEF EndProcess, Teardown, Down
<1> QED
  BY <1>1, <1>2, <1>3, <1>4, <1>5
     DEF TypeInv, TypeOK, MemoryTypeOK, EndProcess, outerVars

LEMMA ServiceTyped ==
  ASSUME TypeInv, Service
  PROVE  TypeInv'
<1> USE DEF TypeInv
<1>1. CASE ConnectDb
  <2>1. ItemOK'
    BY <1>1 DEF ConnectDb, ItemOK, Statement
  <2> QED
    BY <1>1, <2>1, StorageUnchanged
       DEF ConnectDb, TypeOK, BrokerTypeOK, brokerVars, workVars, boundVars, PC,
           Flag
<1>2. CASE ConnectMqtt
  <2>1. ItemOK'
    BY <1>2 DEF ConnectMqtt, ItemOK, Statement
  <2> QED
    BY <1>2, <2>1, StorageUnchanged
       DEF ConnectMqtt, TypeOK, BrokerTypeOK, workVars, outerVars, boundVars, PC
<1>3. CASE Subscribe
  <2> DEFINE h == [health EXCEPT !["broker_connected"] = TRUE]
  <2>1. h \in [Flag -> BOOLEAN] /\ "replay" \in Loop
    BY DEF TypeOK, Loop
  <2>2. Proceed("replay", pending, counters, h)
    BY <1>3 DEF Subscribe
  <2>3. /\ MemoryTypeOK' /\ ItemOK'
        /\ link' \in BOOLEAN
        /\ health' \in [Flag -> BOOLEAN]
    BY <2>1, <2>2, ProceedTyped DEF TypeOK
  <2> QED
    BY <1>3, <2>3, StorageUnchanged
       DEF Subscribe, TypeOK, BrokerTypeOK, MemoryTypeOK, outerVars, boundVars
<1>4. CASE BackoffEnds
  <2>1. pc' \in {"exited", "flush_connect", "db_connect"}
    BY <1>4 DEF BackoffEnds, AfterLoop
  <2>2. ItemOK'
    BY <2>1 DEF ItemOK, Statement
  <2> QED
    BY <1>4, <2>1, <2>2, StorageUnchanged
       DEF BackoffEnds, TypeOK, BrokerTypeOK, brokerVars, workVars, boundVars,
           PC, Ended
<1>5. CASE SubscribeOnDeadLink \/ Disconnected
  <2>1. /\ Reconnect(pending)
        /\ UNCHANGED <<dbVars, subscribed, boundVars>>
    BY <1>5 DEF SubscribeOnDeadLink, Disconnected
  <2>2. /\ MemoryTypeOK' /\ ItemOK'
        /\ link' \in BOOLEAN
        /\ health' \in [Flag -> BOOLEAN]
    BY <2>1, ReconnectTyped DEF TypeOK
  <2> QED
    BY <2>1, <2>2, StorageUnchanged
       DEF TypeOK, BrokerTypeOK, MemoryTypeOK, Reconnect, outerVars, boundVars
<1>6. CASE TakeMessage
  <2> DEFINE m == Head(messages)
             a == Append(pending, m)
  <2>1. messages # <<>> /\ Handle(m, "consume", a, Tail(messages), counters)
    BY <1>6 DEF TakeMessage
  <2>2. m \in Msg /\ Tail(messages) \in Seq(Msg)
    BY <2>1 DEF TypeOK
  <2>3. a \in Seq(Msg) /\ a # <<>> /\ a[Len(a)] = m
    <3>1. pending \in Seq(Msg)
      BY DEF TypeOK
    <3> QED
      BY <2>2, <3>1
  <2>4. "consume" \in Loop /\ "consume" \notin {"replay", "flush"}
    BY DEF Loop
  <2>5. MemoryTypeOK' /\ ItemOK'
    BY <2>1, <2>2, <2>3, <2>4, HandleTyped DEF TypeOK
  <2> QED
    BY <1>6, <2>5, StorageUnchanged
       DEF TakeMessage, TypeOK, BrokerTypeOK, MemoryTypeOK, brokerVars, boundVars
<1>7. CASE StopNoticed \/ ConnectFlush
  <2>1. PICK lp \in {"consume", "flush"} :
          Proceed(lp, pending, counters, health)
    BY <1>7 DEF StopNoticed, ConnectFlush
  <2>2. UNCHANGED <<dbVars, outerVars, subscribed, boundVars>>
    BY <1>7 DEF StopNoticed, ConnectFlush
  <2>3. /\ MemoryTypeOK' /\ ItemOK'
        /\ link' \in BOOLEAN
        /\ health' \in [Flag -> BOOLEAN]
    <3>1. lp \in Loop
      BY DEF Loop
    <3>2. /\ pending \in Seq(Msg) /\ counters \in [Counter -> Nat]
          /\ health \in [Flag -> BOOLEAN]
      BY DEF TypeOK
    <3> QED
      BY <2>1, <3>1, <3>2, ProceedTyped
  <2> QED
    BY <2>2, <2>3, StorageUnchanged
       DEF TypeOK, BrokerTypeOK, MemoryTypeOK, outerVars, boundVars
<1>8. CASE UpsertDevice
  <2>1. StorageTypeOK'
    BY <1>8, ExecuteTyped DEF UpsertDevice, Execute
  <2>2. Outcome(Item)' = Outcome(Item)
    BY <1>8 DEF UpsertDevice, workVars, Item, Outcome
  <2>3. ItemOK'
    BY <1>8, <2>2 DEF UpsertDevice, ItemOK, Statement, workVars
  <2> QED
    BY <1>8, <2>1, <2>3
       DEF UpsertDevice, TypeOK, BrokerTypeOK, brokerVars, workVars, boundVars,
           PC, Statement
<1>9. CASE InsertNew
  <2>1. StorageTypeOK' /\ pc \in Statement
    BY <1>9, ExecuteTyped DEF InsertNew, Execute, Statement
  <2> QED
    BY <1>9, <2>1, DoneTyped DEF InsertNew, Counter
<1>10. CASE InsertDuplicate
  <2>1. StorageTypeOK'
    BY <1>10, ExecuteTyped DEF InsertDuplicate, Execute
  <2>2. Outcome(Item)' = Outcome(Item)
    BY <1>10 DEF InsertDuplicate, workVars, Item, Outcome
  <2>3. ItemOK'
    BY <1>10, <2>2 DEF InsertDuplicate, ItemOK, Statement, workVars
  <2> QED
    BY <1>10, <2>1, <2>3
       DEF InsertDuplicate, TypeOK, BrokerTypeOK, brokerVars, workVars,
           boundVars, PC, Statement
<1>11. CASE RecordDedupe
  <2>1. StorageTypeOK' /\ pc \in Statement
    BY <1>11, ExecuteTyped DEF RecordDedupe, Execute, Statement
  <2> QED
    BY <1>11, <2>1, DoneTyped DEF RecordDedupe, Counter
<1>12. CASE InsertDeadLetter
  <2>1. StorageTypeOK' /\ pc \in Statement
    BY <1>12, ExecuteTyped DEF InsertDeadLetter, Execute, Statement
  <2> QED
    BY <1>12, <2>1, DoneTyped DEF InsertDeadLetter, Counter
<1>13. CASE RaiseInFlush
  <2>1. ItemOK'
    BY <1>13 DEF RaiseInFlush, Report, ItemOK, Statement
  <2> QED
    BY <1>13, <2>1, StorageUnchanged
       DEF RaiseInFlush, Report, TypeOK, BrokerTypeOK, brokerVars, boundVars,
           PC, Ended
<1>14. CASE RaiseEndsRun
  BY <1>14, EndTyped
     DEF RaiseEndsRun, Ended, TypeOK, boundVars
<1> QED
  BY <1>1, <1>2, <1>3, <1>4, <1>5, <1>6, <1>7, <1>8, <1>9, <1>10, <1>11, <1>12,
     <1>13, <1>14 DEF Service

LEMMA FailureTyped ==
  ASSUME TypeInv, Failure
  PROVE  TypeInv'
<1>1. faults' \in 0 .. MaxFaults /\ starts' \in 1 .. MaxStarts
  BY FaultTyped
     DEF TypeInv, Failure, ConnectFails, SubscribeFails, WriteFails, FlushFails
<1>2. ASSUME NEW q \in Seq(Msg), Reconnect(q), StorageTypeOK',
             subscribed' \in BOOLEAN
      PROVE  TypeInv'
  BY <1>1, <1>2, ReconnectTyped
     DEF TypeInv, TypeOK, BrokerTypeOK, MemoryTypeOK, Reconnect, outerVars
<1>3. ASSUME Execute \/ UNCHANGED dbVars
      PROVE  StorageTypeOK'
  BY <1>3, ExecuteTyped, StorageUnchanged DEF TypeInv, TypeOK
<1>4. /\ pending \in Seq(Msg) /\ pending \o messages \in Seq(Msg)
      /\ subscribed \in BOOLEAN
  BY DEF TypeInv, TypeOK, BrokerTypeOK
<1>5. CASE ConnectFails
  BY <1>2, <1>3, <1>4, <1>5 DEF ConnectFails
<1>6. CASE SubscribeFails
  BY <1>2, <1>3, <1>4, <1>6 DEF SubscribeFails
<1>7. CASE WriteFails
  BY <1>2, <1>3, <1>4, <1>7 DEF WriteFails
<1>8. CASE FlushFails
  <2>1. StorageTypeOK' /\ Report
    BY <1>3, <1>8 DEF FlushFails
  <2>2. ItemOK'
    BY <2>1 DEF Report, ItemOK, Statement
  <2> QED
    BY <1>1, <2>1, <2>2
       DEF TypeInv, TypeOK, Report, BrokerTypeOK, brokerVars, PC, Ended
<1> QED
  BY <1>5, <1>6, <1>7, <1>8 DEF Failure

LEMMA EnvironmentTyped ==
  ASSUME TypeInv, Environment
  PROVE  TypeInv'
<1> USE DEF TypeInv
<1>1. CASE DevicePublishes
  <2>1. PICK m \in Msg : Publish(m)
    BY <1>1 DEF DevicePublishes
  <2>2. BrokerTypeOK'
    BY <2>1 DEF Publish, TypeOK, BrokerTypeOK
  <2>3. ItemOK' /\ StorageTypeOK'
    BY <1>1, ItemUnchanged, StorageUnchanged
       DEF DevicePublishes, memVars, workVars, TypeOK
  <2> QED
    BY <1>1, <2>2, <2>3
       DEF DevicePublishes, TypeOK, memVars, workVars, boundVars
<1>2. CASE Deliver \/ DeliverAckLost
  <2>1. Buffer
    BY <1>2 DEF Deliver, DeliverAckLost
  <2>2. faults' \in 0 .. MaxFaults /\ starts' \in 1 .. MaxStarts
    BY <1>2, FaultTyped DEF Deliver, DeliverAckLost, boundVars, TypeOK
  <2>3. BrokerTypeOK' /\ messages' \in Seq(Msg)
    <3>1. /\ session \in Seq(Msg) /\ session # <<>> /\ messages \in Seq(Msg)
          /\ messages' = Append(messages, Head(session))
      BY <2>1 DEF Buffer, TypeOK, BrokerTypeOK
    <3>2. session' = session \/ session' = Tail(session)
      BY <1>2 DEF Deliver, DeliverAckLost
    <3>3. session' \in Seq(Msg) /\ messages' \in Seq(Msg)
      <4>1. Head(session) \in Msg /\ Tail(session) \in Seq(Msg)
        BY <3>1
      <4>2. Append(messages, Head(session)) \in Seq(Msg)
        BY <3>1, <4>1
      <4> QED
        BY <3>1, <3>2, <4>1, <4>2
    <3>4. link' \in BOOLEAN
      BY <1>2 DEF Deliver, DeliverAckLost, TypeOK, BrokerTypeOK
    <3> QED
      BY <2>1, <3>3, <3>4 DEF Buffer, TypeOK, BrokerTypeOK
  <2>4. ItemOK' /\ StorageTypeOK'
    BY <2>1, ItemUnchanged, StorageUnchanged DEF Buffer, TypeOK
  <2> QED
    BY <2>1, <2>2, <2>3, <2>4 DEF Buffer, TypeOK
<1>3. CASE LinkDrops \/ BrokerRestarts
  <2>1. BrokerTypeOK'
    <3>1. CASE LinkDrops
      BY <3>1 DEF LinkDrops, TypeOK, BrokerTypeOK
    <3>2. CASE BrokerRestarts
      <4>1. session' = <<>>
        BY <3>2 DEF BrokerRestarts, ForgetSession
      <4>2. session' \in Seq(Msg)
        BY <4>1
      <4> QED
        BY <3>2, <4>2 DEF BrokerRestarts, ForgetSession, TypeOK, BrokerTypeOK
    <3> QED
      BY <1>3, <3>1, <3>2
  <2>2. UNCHANGED <<dbVars, memVars, reported>>
    BY <1>3 DEF LinkDrops, BrokerRestarts
  <2>3. ItemOK' /\ StorageTypeOK'
    BY <2>2, ItemUnchanged, StorageUnchanged DEF memVars, workVars, TypeOK
  <2>4. faults' \in 0 .. MaxFaults /\ starts' \in 1 .. MaxStarts
    BY <1>3, FaultTyped DEF LinkDrops, BrokerRestarts
  <2> QED
    BY <2>1, <2>2, <2>3, <2>4 DEF TypeOK, memVars, workVars
<1>4. CASE SigTerm
  <2>1. ItemOK' /\ StorageTypeOK'
    BY <1>4, ItemUnchanged, StorageUnchanged DEF SigTerm, workVars, TypeOK
  <2> QED
    BY <1>4, <2>1
       DEF SigTerm, TypeOK, BrokerTypeOK, brokerVars, workVars, boundVars
<1>5. CASE Kill
  BY <1>5, EndTyped, FaultTyped DEF Kill, Ended
<1>6. CASE Start
  <2>1. ItemOK' /\ StorageTypeOK'
    BY <1>6, StorageUnchanged DEF Start, ItemOK, Statement, TypeOK
  <2>2. /\ Zero \in [Counter -> Nat]
        /\ Unseen \in [DeviceId -> Instant \cup {Never}]
    BY DEF Zero, Unseen
  <2>3. starts' \in 1 .. MaxStarts
    BY <1>6, BoundsAssumption DEF Start, TypeOK
  <2> QED
    BY <1>6, <2>1, <2>2, <2>3
       DEF Start, TypeOK, BrokerTypeOK, brokerVars, PC, Loop
<1> QED
  BY <1>1, <1>2, <1>3, <1>4, <1>5, <1>6 DEF Environment

LEMMA InitTyped == Init => TypeInv
<1> SUFFICES ASSUME Init PROVE TypeInv
  OBVIOUS
<1>0. ASSUME NEW S
      PROVE  <<>> \in Seq(S)
  OBVIOUS
<1>1. StorageTypeOK /\ BrokerTypeOK
  <2>1. StorageTypeOK
    BY <1>0 DEF Init, StorageInit, StorageTypeOK
  <2>2. BrokerTypeOK
    BY <1>0 DEF Init, BrokerInit, BrokerTypeOK
  <2> QED
    BY <2>1, <2>2
<1>2. /\ Zero \in [Counter -> Nat] /\ Down \in [Flag -> BOOLEAN]
      /\ Unseen \in [DeviceId -> Instant \cup {Never}]
  BY DEF Zero, Down, Unseen
<1>3. ItemOK
  BY DEF Init, ItemOK, Statement
<1>4. messages \in Seq(Msg) /\ pending \in Seq(Msg)
  BY <1>0 DEF Init
<1>5. faults \in 0 .. MaxFaults /\ starts \in 1 .. MaxStarts
  BY BoundsAssumption DEF Init
<1> QED
  BY <1>1, <1>2, <1>3, <1>4, <1>5 DEF Init, TypeInv, TypeOK, PC, Loop

LEMMA StepTyped ==
  ASSUME TypeInv, [Next]_vars
  PROVE  TypeInv'
<1>1. CASE UNCHANGED vars
  <2>1. ItemOK' /\ StorageTypeOK'
    BY <1>1, ItemUnchanged, StorageUnchanged
       DEF TypeInv, TypeOK, vars, memVars, workVars
  <2> QED
    BY <1>1, <2>1
       DEF TypeInv, TypeOK, BrokerTypeOK, vars, brokerVars, memVars, workVars,
           boundVars
<1> QED
  BY <1>1, ServiceTyped, FailureTyped, EnvironmentTyped DEF Next

LEMMA TypeInvariant == Spec => []TypeInv
<1>1. TypeInv /\ [Next]_vars => TypeInv'
  BY StepTyped
<1> QED
  BY InitTyped, <1>1, PTL DEF Spec

(* Every reachable state is well typed: whatever is classified, retried or *)
(* salvaged, a write is only ever given a message whose classification     *)
(* calls for it (service.py: _handle_one, run).                            *)
THEOREM TypeCorrect == Spec => []TypeOK
<1>1. TypeInv => TypeOK
  BY DEF TypeInv
<1> QED
  BY TypeInvariant, <1>1, PTL

-------------------------------------------------------------------------------
(***************************************************************************)
(* What the ingestion service guarantees of the tables, for every set of   *)
(* devices and messages and every bound on faults and starts.              *)
(*                                                                         *)
(* All of it rests on two facts about a step: it changes the tables only   *)
(* by the statement pc names, on the message in hand (TableStep), and it   *)
(* reaches insert_reading only from upsert_device of the same message      *)
(* (InsertAfterUpsert).                                                    *)
(***************************************************************************)
HIDE DEF NoDevice

LEMMA TableStep ==
  ASSUME [Next]_vars
  PROVE  \/ UNCHANGED dbVars
         \/ pc \in Statement /\ Execute /\ UNCHANGED published
<1>1. CASE UNCHANGED vars
  BY <1>1 DEF vars
<1>2. CASE Service
  BY <1>2
     DEF Service, ConnectDb, ConnectMqtt, Subscribe, BackoffEnds,
         SubscribeOnDeadLink, TakeMessage, StopNoticed, Disconnected,
         UpsertDevice, InsertNew, InsertDuplicate, RecordDedupe,
         InsertDeadLetter, ConnectFlush, RaiseInFlush, RaiseEndsRun,
         EndProcess, ItemDone, outerVars, brokerVars, Execute, Statement
<1>3. CASE Failure
  BY <1>3
     DEF Failure, ConnectFails, SubscribeFails, WriteFails, FlushFails,
         Reconnect, Report, outerVars, brokerVars, Execute, Statement
<1>4. CASE Environment
  BY <1>4
     DEF Environment, DevicePublishes, Deliver, DeliverAckLost, Buffer,
         LinkDrops, BrokerRestarts, SigTerm, Kill, EndProcess, Start
<1> QED
  BY <1>1, <1>2, <1>3, <1>4 DEF Next

LEMMA InsertAfterUpsert ==
  ASSUME [Next]_vars, pc' = "insert_reading"
  PROVE  UpsertDevice \/ UNCHANGED <<pc, loop, pending>>
<1> USE DEF Handle, Proceed, Reconnect, AfterLoop
<1>1. CASE UNCHANGED vars
  BY <1>1 DEF vars, memVars, workVars
<1>2. CASE Service
  BY <1>2
     DEF Service, ConnectDb, ConnectMqtt, Subscribe, BackoffEnds,
         SubscribeOnDeadLink, TakeMessage, StopNoticed, Disconnected,
         InsertNew, InsertDuplicate, RecordDedupe, InsertDeadLetter,
         ConnectFlush, RaiseInFlush, RaiseEndsRun, EndProcess, ItemDone, Report
<1>3. CASE Failure
  BY <1>3
     DEF Failure, ConnectFails, SubscribeFails, WriteFails, FlushFails, Report
<1>4. CASE Environment
  BY <1>4
     DEF Environment, DevicePublishes, Deliver, DeliverAckLost, Buffer,
         LinkDrops, BrokerRestarts, SigTerm, Kill, EndProcess, Start,
         memVars, workVars
<1> QED
  BY <1>1, <1>2, <1>3, <1>4 DEF Next

-------------------------------------------------------------------------------
(* The registry.                                                           *)

Covered(r) ==
  /\ r.device_id \in DOMAIN devices
  /\ devices[r.device_id].first_seen <= r.measured_at
  /\ r.measured_at <= devices[r.device_id].last_seen

(* RegistryCovers, strengthened by what upsert_device has just achieved.   *)
RegistryInv ==
  /\ RegistryCovers
  /\ pc = "insert_reading" => Covered(Outcome(Item).reading)

(* An upsert covers its own reading and uncovers none.                     *)
LEMMA UpsertCovers ==
  ASSUME StorageTypeOK, NEW r \in Reading, NEW x \in Reading,
         upsert_device(r), x = r \/ Covered(x)
  PROVE  Covered(x)'
<1>1. /\ r.device_id \in DeviceId /\ r.measured_at \in Int
      /\ x.device_id \in DeviceId /\ x.measured_at \in Int
  BY ContractAssumption DEF Reading, Instant
<1>2. \A d \in DOMAIN devices :
        devices[d].first_seen \in Int /\ devices[d].last_seen \in Int
  BY ContractAssumption DEF StorageTypeOK, DeviceRow, Instant
<1>3. /\ x.device_id \in DOMAIN devices'
      /\ devices'[x.device_id] = IF x.device_id = r.device_id THEN Merged(r)
                                 ELSE devices[x.device_id]
  BY DEF upsert_device, Covered
<1>4. CASE x.device_id = r.device_id
  BY <1>1, <1>2, <1>3, <1>4 DEF Covered, Merged, Least, Greatest
<1>5. CASE x.device_id # r.device_id
  BY <1>1, <1>2, <1>3, <1>5 DEF Covered
<1> QED
  BY <1>4, <1>5

LEMMA RegistryStep ==
  ASSUME TypeInv, RegistryInv, [Next]_vars
  PROVE  RegistryInv'
<1>1. StorageTypeOK
  BY DEF TypeInv, TypeOK
<1>2. ASSUME pc \in Statement \ {"insert_dead_letter"}
      PROVE  Item \in Msg /\ Outcome(Item).reading \in Reading
  BY <1>2, ItemTyped, OutcomeTyped DEF TypeInv, TypeOK, ItemOK, Statement
<1>3. RegistryCovers'
  <2>1. CASE UNCHANGED dbVars
    BY <2>1 DEF dbVars, RegistryInv, RegistryCovers
  <2>2. CASE pc = "upsert_device" /\ upsert_device(Outcome(Item).reading)
    <3>1. PICK r \in Reading : r = Outcome(Item).reading
      BY <1>2, <2>2 DEF Statement
    <3>2. telemetry' = telemetry
      BY <2>2 DEF upsert_device
    <3>3. ASSUME NEW x \in telemetry
          PROVE  Covered(x)'
      <4>1. x \in Reading /\ Covered(x)
        BY <1>1, <3>3 DEF StorageTypeOK, RegistryInv, RegistryCovers, Covered
      <4> QED
        BY <1>1, <2>2, <3>1, <4>1, UpsertCovers
    <3> QED
      BY <3>2, <3>3 DEF RegistryCovers, Covered
  <2>3. CASE pc = "insert_reading" /\ insert_reading(Outcome(Item).reading)
    BY <2>3 DEF insert_reading, RegistryInv, RegistryCovers, Covered
  <2>4. CASE \/ pc = "record_dedupe" /\ record_dedupe(Outcome(Item).reading)
             \/ pc = "insert_dead_letter" /\ insert_dead_letter(DeadLetterOf(Item))
    BY <2>4 DEF record_dedupe, insert_dead_letter, RegistryInv, RegistryCovers
  <2> QED
    BY <2>1, <2>2, <2>3, <2>4, TableStep DEF Execute
<1>4. ASSUME pc' = "insert_reading"
      PROVE  Covered(Outcome(Item).reading)'
  <2>1. CASE UpsertDevice
    <3>1. PICK r \in Reading : r = Outcome(Item).reading
      BY <1>2, <2>1 DEF UpsertDevice, Statement
    <3>2. Covered(r)'
      BY <1>1, <2>1, <3>1, UpsertCovers DEF UpsertDevice
    <3>3. Outcome(Item)' = Outcome(Item)
      BY <2>1 DEF UpsertDevice, workVars, Item, Outcome
    <3> QED
      BY <3>1, <3>2, <3>3 DEF Covered
  <2>2. CASE UNCHANGED <<pc, loop, pending>>
    <3> DEFINE r == Outcome(Item).reading
    <3>1. Outcome(Item)' = Outcome(Item)
      BY <2>2 DEF Item, Outcome
    <3>2. pc = "insert_reading" /\ Covered(r)
      BY <1>4, <2>2 DEF RegistryInv
    <3>3. devices' = devices
      BY <3>2, TableStep DEF Execute, insert_reading, dbVars
    <3> QED
      BY <3>1, <3>2, <3>3 DEF Covered
  <2> QED
    BY <1>4, <2>1, <2>2, InsertAfterUpsert
<1> QED
  BY <1>3, <1>4 DEF RegistryInv

(* No reading is ever stored without a registry row whose interval         *)
(* contains it, across retries, failures and restarts (service.py:         *)
(* "Registry first, so a reading never exists without its device row").    *)
THEOREM RegistryCoversReadings == Spec => []RegistryCovers
<1>1. Init => RegistryInv
  BY DEF Init, StorageInit, RegistryInv, RegistryCovers
<1>2. TypeInv /\ RegistryInv /\ [Next]_vars => RegistryInv'
  BY RegistryStep
<1>3. RegistryInv => RegistryCovers
  BY DEF RegistryInv
<1> QED
  BY <1>1, <1>2, <1>3, TypeInvariant, PTL DEF Spec

-------------------------------------------------------------------------------
(* The rows.                                                               *)

LEMMA ElementsAppend ==
  ASSUME NEW S, NEW s \in Seq(S), NEW x \in S
  PROVE  Elements(Append(s, x)) = Elements(s) \cup {x}
<1> DEFINE a == Append(s, x)
<1>1. Len(s) \in Nat /\ DOMAIN s = 1 .. Len(s) /\ DOMAIN a = 1 .. Len(s) + 1
  OBVIOUS
<1>2. \A i \in DOMAIN a : a[i] = IF i = Len(s) + 1 THEN x ELSE s[i]
  BY <1>1
<1>3. Len(s) + 1 \in DOMAIN a
  BY <1>1
<1>4. DOMAIN a = DOMAIN s \cup {Len(s) + 1}
  BY <1>1
<1> HIDE DEF a
<1>5. Elements(a) = Elements(s) \cup {x}
  BY <1>1, <1>2, <1>3, <1>4 DEF Elements
<1> QED
  BY <1>5 DEF a

(* A step only adds to the tables.                                         *)
LEMMA TablesGrow ==
  ASSUME TypeInv, [Next]_vars
  PROVE  /\ telemetry \subseteq telemetry'
         /\ Elements(dead_letter) \subseteq Elements(dead_letter')
         /\ Len(ingest_events) <= Len(ingest_events')
<1>1. /\ dead_letter \in Seq(DeadLetterRow) /\ ingest_events \in Seq(EventRow)
  BY DEF TypeInv, TypeOK, StorageTypeOK
<1>2. CASE UNCHANGED dbVars
  BY <1>1, <1>2 DEF dbVars
<1>3. CASE pc = "upsert_device" /\ upsert_device(Outcome(Item).reading)
  BY <1>1, <1>3 DEF upsert_device
<1>4. CASE pc = "insert_reading" /\ insert_reading(Outcome(Item).reading)
  BY <1>1, <1>4 DEF insert_reading
<1>5. CASE pc = "record_dedupe" /\ record_dedupe(Outcome(Item).reading)
  BY <1>1, <1>5 DEF record_dedupe
<1>6. CASE pc = "insert_dead_letter" /\ insert_dead_letter(DeadLetterOf(Item))
  <2>1. DeadLetterOf(Item) \in DeadLetterRow
    BY <1>6, ItemTyped, OutcomeTyped DEF TypeInv, TypeOK, ItemOK, Statement
  <2> QED
    BY <1>1, <1>6, <2>1, ElementsAppend DEF insert_dead_letter
<1> QED
  BY <1>2, <1>3, <1>4, <1>5, <1>6, TableStep DEF Execute

(* A step only widens the interval of a device.                            *)
LEMMA RegistryWidens ==
  ASSUME TypeInv, [Next]_vars, NEW d \in DOMAIN devices
  PROVE  /\ d \in DOMAIN devices'
         /\ devices'[d].first_seen <= devices[d].first_seen
         /\ devices'[d].last_seen >= devices[d].last_seen
<1>1. devices[d].first_seen \in Int /\ devices[d].last_seen \in Int
  BY ContractAssumption
     DEF TypeInv, TypeOK, StorageTypeOK, DeviceRow, Instant
<1>2. CASE UNCHANGED devices
  BY <1>1, <1>2
<1>3. CASE pc = "upsert_device" /\ upsert_device(Outcome(Item).reading)
  <2> DEFINE r == Outcome(Item).reading
  <2>1. r.measured_at \in Int
    BY <1>3, ItemTyped, OutcomeTyped, ContractAssumption
       DEF TypeInv, TypeOK, ItemOK, Statement, Reading, Instant
  <2>2. /\ d \in DOMAIN devices'
        /\ devices'[d] = IF d = r.device_id THEN Merged(r) ELSE devices[d]
    BY <1>3 DEF upsert_device
  <2> HIDE DEF r
  <2> QED
    BY <1>1, <2>1, <2>2 DEF Merged, Least, Greatest
<1> QED
  BY <1>2, <1>3, TableStep
     DEF Execute, dbVars, insert_reading, record_dedupe, insert_dead_letter

(* No failure, retry, redelivery or restart rewrites or deletes a stored   *)
(* reading, takes back a dead letter or an event, or narrows the interval  *)
(* of a device (db.py: DO NOTHING, LEAST and GREATEST).                    *)
THEOREM StoredForGood == Spec => NothingTakenBack
<1> DEFINE Grow == /\ telemetry \subseteq telemetry'
                   /\ Elements(dead_letter) \subseteq Elements(dead_letter')
                   /\ Len(ingest_events) <= Len(ingest_events')
                   /\ \A d \in DOMAIN devices :
                        /\ d \in DOMAIN devices'
                        /\ devices'[d].first_seen <= devices[d].first_seen
                        /\ devices'[d].last_seen >= devices[d].last_seen
<1>1. TypeInv /\ [Next]_vars => [Grow]_vars
  BY TablesGrow, RegistryWidens
<1> QED
  BY <1>1, TypeInvariant, PTL DEF Spec, NothingTakenBack

(* The idempotency key is a key of telemetry.                              *)
KeyUnique == \A r, s \in telemetry : Key(r) = Key(s) => r = s

LEMMA KeyUniqueInvariant == Spec => []KeyUnique
<1>1. Init => KeyUnique
  BY DEF Init, StorageInit, KeyUnique
<1>2. ASSUME KeyUnique, [Next]_vars
      PROVE  KeyUnique'
  <2>1. CASE UNCHANGED telemetry
    BY <1>2, <2>1 DEF KeyUnique
  <2>2. CASE insert_reading(Outcome(Item).reading)
    BY <1>2, <2>2 DEF KeyUnique, insert_reading, KeyTaken
  <2> QED
    BY <1>2, <2>1, <2>2, TableStep
       DEF Execute, dbVars, upsert_device, record_dedupe, insert_dead_letter
<1> QED
  BY <1>1, <1>2, PTL DEF Spec

(* However a device spells an instant, and whatever else differs, one      *)
(* instant of one device is one row (contract.py: UtcDatetime; db.py:      *)
(* ON CONFLICT (device_id, measured_at)).                                  *)
THEOREM InstantsAreUnique == Spec => []OneRowPerInstant
<1>1. ASSUME NEW m, NEW r, Outcome(m) = ValidReading(r)
      PROVE  r.measured_at = Wire[m].payload.local - Wire[m].payload.offset
  <2>1. Outcome(m).kind = "reading" /\ Outcome(m).reading = r
    BY <1>1 DEF ValidReading
  <2>2. Outcome(m) = ValidReading(TelemetryV1(Wire[m].payload))
    BY <2>1 DEF Outcome, Classify, DeadLetter, Raised
  <2> QED
    BY <2>1, <2>2 DEF ValidReading, TelemetryV1, ToUtc
<1>2. KeyUnique => OneRowPerInstant
  <2>1. SUFFICES ASSUME KeyUnique, NEW r \in telemetry, NEW s \in telemetry,
                        NEW m \in published, NEW n \in published,
                        Outcome(m) = ValidReading(r),
                        Outcome(n) = ValidReading(s),
                        r.device_id = s.device_id,
                        Wire[m].payload.local - Wire[m].payload.offset =
                        Wire[n].payload.local - Wire[n].payload.offset
                 PROVE  r = s
    BY DEF OneRowPerInstant
  <2>2. r.measured_at = s.measured_at
    BY <1>1, <2>1
  <2> QED
    BY <2>1, <2>2 DEF KeyUnique, Key
<1> QED
  BY <1>2, KeyUniqueInvariant, PTL

-------------------------------------------------------------------------------
(***************************************************************************)
(* The ingestion service implements EffectivelyOnce: its initial states    *)
(* map to initial states, and each of its steps to the publication, the    *)
(* storing or the rejection of one message, or to a stutter.               *)
(*                                                                         *)
(* Store and Reject need the message in hand to have been published, so    *)
(* the invariant is that the queues hold published messages only.          *)
(***************************************************************************)

OnlyPublished ==
  /\ published \subseteq Msg
  /\ session \in Seq(published)
  /\ messages \in Seq(published)
  /\ pending \in Seq(published)

(* The same of the two queues the task's own steps change.                 *)
LEMMA ProceedPublished ==
  ASSUME OnlyPublished, NEW lp, NEW c, NEW h, NEW q \in Seq(published),
         Proceed(lp, q, c, h)
  PROVE  messages' \in Seq(published) /\ pending' \in Seq(published)
<1>1. messages \in Seq(published) /\ <<>> \in Seq(published)
  BY DEF OnlyPublished
<1>2. CASE messages # <<>> /\ messages' = Tail(messages)
           /\ pending' = Append(q, Head(messages))
  BY <1>1, <1>2
<1>3. CASE messages' \in {messages, <<>>} /\ pending' = q
  BY <1>1, <1>3
<1> QED
  BY <1>2, <1>3 DEF Proceed, Handle, Teardown

LEMMA PublishedStep ==
  ASSUME TypeInv, OnlyPublished, [Next]_vars
  PROVE  OnlyPublished'
<1>1. /\ session \in Seq(published) /\ messages \in Seq(published)
      /\ pending \in Seq(published) /\ <<>> \in Seq(published)
  BY DEF OnlyPublished
<1>2. ASSUME UNCHANGED published, session' \in Seq(published),
             messages' \in Seq(published), pending' \in Seq(published)
      PROVE  OnlyPublished'
  BY <1>2 DEF OnlyPublished
<1>3. ASSUME UNCHANGED <<published, session>>, NEW lp, NEW c, NEW h,
             NEW q \in Seq(published), Proceed(lp, q, c, h)
      PROVE  OnlyPublished'
  BY <1>1, <1>2, <1>3, ProceedPublished
<1>4. ASSUME NEW q \in Seq(published), Reconnect(q)
      PROVE  OnlyPublished'
  BY <1>1, <1>2, <1>4 DEF Reconnect, Teardown, outerVars
<1>5. CASE UNCHANGED <<published, session, messages, pending>>
  BY <1>1, <1>2, <1>5
<1>6. CASE Service
  <2>1. CASE ConnectDb \/ ConnectMqtt \/ BackoffEnds \/ UpsertDevice
             \/ InsertDuplicate
    BY <1>5, <2>1
       DEF ConnectDb, ConnectMqtt, BackoffEnds, UpsertDevice, InsertDuplicate,
           brokerVars, workVars, outerVars
  <2>2. CASE Subscribe \/ StopNoticed \/ ConnectFlush
    BY <1>1, <1>3, <2>2
       DEF Subscribe, StopNoticed, ConnectFlush, outerVars
  <2>3. CASE SubscribeOnDeadLink \/ Disconnected
    BY <1>1, <1>4, <2>3 DEF SubscribeOnDeadLink, Disconnected
  <2>4. CASE TakeMessage
    <3>1. /\ messages # <<>> /\ messages' = Tail(messages)
          /\ pending' = Append(pending, Head(messages))
          /\ UNCHANGED <<published, session>>
      BY <2>4 DEF TakeMessage, Handle, brokerVars
    <3>2. messages' \in Seq(published) /\ pending' \in Seq(published)
      BY <1>1, <3>1
    <3> QED
      BY <1>1, <1>2, <3>1, <3>2
  <2>5. CASE InsertNew \/ RecordDedupe \/ InsertDeadLetter
    <3>1. PICK k \in Counter : ItemDone(k)
      BY <2>5 DEF InsertNew, RecordDedupe, InsertDeadLetter, Counter
    <3>2. pending # <<>>
      BY <2>5 DEF InsertNew, RecordDedupe, InsertDeadLetter, TypeInv, ItemOK,
                  Statement
    <3>3. Tail(pending) \in Seq(published)
      BY <1>1, <3>2
    <3> QED
      BY <1>3, <3>1, <3>3 DEF ItemDone, outerVars
  <2>6. CASE RaiseInFlush
    BY <1>1, <1>2, <2>6 DEF RaiseInFlush, Report, brokerVars
  <2>7. CASE RaiseEndsRun
    BY <1>1, <1>2, <2>7 DEF RaiseEndsRun, EndProcess, Teardown, outerVars
  <2> QED
    BY <1>6, <2>1, <2>2, <2>3, <2>4, <2>5, <2>6, <2>7 DEF Service
<1>7. CASE Failure
  <2>1. CASE FlushFails
    BY <1>1, <1>2, <2>1 DEF FlushFails, Report, brokerVars
  <2>2. CASE ConnectFails \/ SubscribeFails \/ WriteFails
    <3>1. pending \o messages \in Seq(published)
      BY <1>1
    <3> QED
      BY <1>1, <1>4, <2>2, <3>1 DEF ConnectFails, SubscribeFails, WriteFails
  <2> QED
    BY <1>7, <2>1, <2>2 DEF Failure
<1>8. CASE Environment
  <2>1. CASE DevicePublishes
    <3>1. PICK m \in Msg : Publish(m)
      BY <2>1 DEF DevicePublishes
    <3>2. /\ published' = published \cup {m}
          /\ session' = session \/ session' = Append(session, m)
          /\ UNCHANGED <<messages, pending>>
      BY <2>1, <3>1 DEF DevicePublishes, Publish, memVars, workVars
    <3>3. Seq(published) \subseteq Seq(published') /\ m \in published'
      BY <3>2
    <3>4. session' \in Seq(published')
      BY <1>1, <3>2, <3>3
    <3> QED
      BY <1>1, <3>2, <3>3, <3>4 DEF OnlyPublished
  <2>2. CASE Deliver \/ DeliverAckLost
    <3>1. /\ session # <<>>
          /\ messages' = Append(messages, Head(session))
          /\ session' = session \/ session' = Tail(session)
          /\ UNCHANGED <<published, pending>>
      BY <2>2 DEF Deliver, DeliverAckLost, Buffer
    <3>2. Head(session) \in published /\ Tail(session) \in Seq(published)
      BY <1>1, <3>1
    <3>3. messages' \in Seq(published)
      BY <1>1, <3>1, <3>2
    <3> QED
      BY <1>1, <1>2, <3>1, <3>2, <3>3
  <2>3. CASE BrokerRestarts
    BY <1>1, <1>2, <2>3
       DEF BrokerRestarts, ForgetSession, memVars, workVars
  <2>4. CASE Kill
    BY <1>1, <1>2, <2>4 DEF Kill, EndProcess, Teardown, outerVars
  <2>5. CASE LinkDrops \/ SigTerm \/ Start
    BY <1>5, <2>5
       DEF LinkDrops, SigTerm, Start, brokerVars, memVars, workVars
  <2> QED
    BY <1>8, <2>1, <2>2, <2>3, <2>4, <2>5 DEF Environment
<1>9. CASE UNCHANGED vars
  BY <1>5, <1>9 DEF vars, brokerVars, memVars, workVars
<1> QED
  BY <1>6, <1>7, <1>8, <1>9 DEF Next

LEMMA PublishedInvariant == Spec => []OnlyPublished
<1>1. Init => OnlyPublished
  <2>1. \A S : <<>> \in Seq(S)
    OBVIOUS
  <2> QED
    BY <2>1 DEF Init, BrokerInit, OnlyPublished
<1>2. TypeInv /\ OnlyPublished /\ [Next]_vars => OnlyPublished'
  BY PublishedStep
<1> QED
  BY <1>1, <1>2, TypeInvariant, PTL DEF Spec

-------------------------------------------------------------------------------
(* The abstract specification shares the contract.                         *)
LEMMA SameContract ==
  ASSUME NEW w, NEW x
  PROVE  Once!Classify(w) = Classify(w) /\ Once!Key(x) = Key(x)
  BY DEF Classify, device_id_from_topic, telemetry_topic, NoDevice,
         ConversionRaises, ToUtc, Instant, ValidPayload, SCHEMA_VERSION,
         TelemetryV1, ValidReading, DeadLetter, Raised, Key,
         Once!Classify, Once!device_id_from_topic, Once!telemetry_topic,
         Once!NoDevice, Once!ConversionRaises, Once!ToUtc, Once!Instant,
         Once!ValidPayload, Once!SCHEMA_VERSION, Once!TelemetryV1,
         Once!ValidReading, Once!DeadLetter, Once!Raised, Once!Key

LEMMA StepRefines ==
  ASSUME TypeInv, OnlyPublished, [Next]_vars
  PROVE  [Once!Next]_(Once!evars)
<1> DEFINE rej == Elements(dead_letter)
<1>1. CASE UNCHANGED dbVars
  <2>1. rej' = rej /\ telemetry' = telemetry
    BY <1>1 DEF dbVars
  <2>2. CASE UNCHANGED published
    BY <2>1, <2>2 DEF Once!evars
  <2>3. CASE \E m \in Msg : Publish(m)
    <3>1. PICK m \in Msg : Publish(m)
      BY <2>3
    <3>2. Once!Send(m)
      BY <2>1, <3>1 DEF Publish, Once!Send
    <3> QED
      BY <3>2 DEF Once!Next
  <2>4. UNCHANGED published \/ \E m \in Msg : Publish(m)
    BY DEF vars, brokerVars, Next, Service, ConnectDb, ConnectMqtt, Subscribe,
         BackoffEnds, SubscribeOnDeadLink, TakeMessage, StopNoticed,
         Disconnected, UpsertDevice, InsertNew, InsertDuplicate, RecordDedupe,
         InsertDeadLetter, ConnectFlush, RaiseInFlush, RaiseEndsRun,
         EndProcess, ItemDone, Reconnect, Report, Failure, ConnectFails,
         SubscribeFails, WriteFails, FlushFails, Environment, DevicePublishes,
         Deliver, DeliverAckLost, Buffer, LinkDrops, BrokerRestarts,
         ForgetSession, SigTerm, Kill, Start, outerVars
  <2> QED
    BY <2>2, <2>3, <2>4
<1>2. CASE pc \in Statement /\ Execute /\ UNCHANGED published
  <2>0. PICK m : m = Item
    OBVIOUS
  <2>1. m \in published /\ m \in Msg
    BY <1>2, <2>0 DEF TypeInv, ItemOK, OnlyPublished, Item
  <2>2. CASE pc = "upsert_device" /\ upsert_device(Outcome(Item).reading)
    BY <1>2, <2>2 DEF upsert_device, Once!evars
  <2>3. CASE pc = "insert_reading" /\ insert_reading(Outcome(Item).reading)
    <3>1. Outcome(m).kind = "reading"
      BY <2>0, <2>3 DEF TypeInv, ItemOK
    <3>2. CASE KeyTaken(Outcome(Item).reading)
      BY <1>2, <2>3, <3>2 DEF insert_reading, Once!evars
    <3>3. CASE ~KeyTaken(Outcome(Item).reading)
      <4>1. Once!Store(m)
        BY <1>2, <2>0, <2>1, <2>3, <3>1, <3>3, SameContract
           DEF insert_reading, KeyTaken, Outcome, Once!Store
      <4> QED
        BY <2>1, <4>1 DEF Once!Next
    <3> QED
      BY <3>2, <3>3
  <2>4. CASE pc = "record_dedupe" /\ record_dedupe(Outcome(Item).reading)
    BY <1>2, <2>4 DEF record_dedupe, Once!evars
  <2>5. CASE pc = "insert_dead_letter" /\ insert_dead_letter(DeadLetterOf(Item))
    <3>1. Outcome(m).kind = "dead_letter"
      BY <2>0, <2>5 DEF TypeInv, ItemOK
    <3>2. rej' = rej \cup {DeadLetterOf(m)}
      BY <2>0, <2>1, <2>5, <3>1, OutcomeTyped, ElementsAppend
         DEF insert_dead_letter, TypeInv, TypeOK, StorageTypeOK
    <3>3. Once!Reject(m)
      BY <1>2, <2>1, <2>5, <3>1, <3>2, SameContract
         DEF insert_dead_letter, Outcome, DeadLetterOf, Once!Reject
    <3> QED
      BY <2>1, <3>3 DEF Once!Next
  <2> QED
    BY <1>2, <2>2, <2>3, <2>4, <2>5 DEF Execute
<1> QED
  BY <1>1, <1>2, TableStep

(* Delivery is effectively once: through every loss, redelivery, retry and *)
(* restart the tables only gain published messages, each valid one as the  *)
(* single, final row of its key (docs/ingestion.md, "Delivery semantics"). *)
THEOREM DeliveryIsEffectivelyOnce == Spec => EffectivelyOnceSpec
<1>1. Init => Once!Init
  BY DEF Init, BrokerInit, StorageInit, Once!Init, Elements
<1>2. TypeInv /\ OnlyPublished /\ [Next]_vars => [Once!Next]_(Once!evars)
  BY StepRefines
<1> QED
  BY <1>1, <1>2, TypeInvariant, PublishedInvariant, PTL
     DEF Spec, EffectivelyOnceSpec, Once!Spec
===============================================================================
