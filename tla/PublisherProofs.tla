---------------------------- MODULE PublisherProofs ---------------------------
(***************************************************************************)
(* What the simulator's publisher guarantees, for any stream, any queue    *)
(* and in-flight limits, and any number of outages.                        *)
(*                                                                         *)
(* Of its queue, paho sends the oldest first and the broker acknowledges   *)
(* the oldest first: what it has sent and not seen acknowledged has        *)
(* arrived (Prefix), so what an acknowledgement removes is not lost.  A    *)
(* heartbeat that was decided while connected finds the connection lost    *)
(* only right after paho has noticed (Beats).                              *)
(***************************************************************************)
EXTENDS Deployment, TLAPS

Stream == 1 .. Emissions

Typed ==
  /\ next \in Nat \ {0} /\ next <= Emissions + 1
  /\ queue \in Seq(Stream)
  /\ sent \in Nat /\ sent <= Len(queue)
  /\ stray \in Nat

(* The emissions in flight have reached the broker.                        *)
Prefix == \A i \in 1 .. sent : queue[i] \in arrived

Accounted ==
  main # "ended" =>
    \A n \in 1 .. next - 1 : n \in arrived \cup logged \/ \E i \in 1 .. Len(queue) : queue[i] = n

Beats ==
  /\ stray <= 1
  /\ main = "connect" => stray = 0
  /\ main \in {"first_beat", "beat"} /\ link \notin {"up", "dead"} => stray = 0

IInv == Typed /\ Prefix /\ Accounted /\ Beats

-------------------------------------------------------------------------------
LEMMA TypedInit == Init => IInv
<1>1. Emissions \in Nat
  BY PublisherAssumption
<1> QED
  BY <1>1 DEF Init, PublisherInit, IInv, Typed, Prefix, Accounted, Beats, Stream

(* What appending to the queue preserves. *)
LEMMA Appended ==
  ASSUME Typed, Prefix, Emit, queue' = Append(queue, next), sent' = sent, arrived' = arrived
  PROVE  /\ queue' \in Seq(Stream) /\ sent' <= Len(queue') /\ Len(queue') = Len(queue) + 1
         /\ \A i \in 1 .. Len(queue) : queue'[i] = queue[i]
         /\ queue'[Len(queue) + 1] = next
         /\ Prefix'
<1>1. Emissions \in Nat /\ next \in Stream
  BY PublisherAssumption DEF Emit, Typed, Stream
<1>2. /\ queue' \in Seq(Stream) /\ Len(queue') = Len(queue) + 1
      /\ \A i \in 1 .. Len(queue) : queue'[i] = queue[i]
      /\ queue'[Len(queue) + 1] = next
  BY <1>1 DEF Typed
<1> QED
  BY <1>2 DEF Typed, Prefix

LEMMA StepPublish ==
  ASSUME IInv, PublishDropped \/ PublishUnsent \/ PublishAccepted
  PROVE  IInv'
<1> USE DEF IInv
<1>1. /\ next' = next + 1 /\ next <= Emissions /\ main = "publish" /\ Emissions \in Nat
      /\ UNCHANGED <<sent, arrived, link, stray>>
  BY PublisherAssumption DEF Emit, PublishDropped, PublishUnsent, PublishAccepted
<1>2. CASE PublishDropped
  <2>1. UNCHANGED queue /\ logged' = logged \cup {next} /\ main' = main
    BY <1>2 DEF PublishDropped
  <2>2. Accounted'
    BY <1>1, <2>1 DEF Accounted, Typed
  <2> QED
    BY <1>1, <2>1, <2>2 DEF Typed, Prefix, Beats
<1>3. CASE PublishUnsent \/ PublishAccepted
  <2>1. /\ Emit /\ queue' = Append(queue, next) /\ logged \subseteq logged'
        /\ main' \in {"publish", "check"}
    BY <1>1, <1>3 DEF PublishUnsent, PublishAccepted
  <2>2. /\ queue' \in Seq(Stream) /\ sent' <= Len(queue') /\ Len(queue') = Len(queue) + 1
        /\ \A i \in 1 .. Len(queue) : queue'[i] = queue[i]
        /\ queue'[Len(queue) + 1] = next
        /\ Prefix'
    BY <1>1, <2>1, Appended
  <2>3. Len(queue) \in Nat
    BY DEF Typed
  <2>4. Accounted'
    BY <1>1, <2>1, <2>2, <2>3 DEF Accounted, Typed
  <2> QED
    BY <1>1, <2>1, <2>2, <2>4 DEF Typed, Beats
<1> QED
  BY <1>2, <1>3

(* The steps of the main thread that publish nothing. *)
LEMMA StepMain ==
  ASSUME IInv, Connect \/ ConnectRefused \/ Check \/ Beat
  PROVE  IInv'
<1> USE DEF IInv
<1>1. UNCHANGED <<next, queue, sent, arrived, logged>> /\ main # "ended"
  BY DEF Connect, ConnectRefused, Check, Beat
<1>2. Prefix' /\ Accounted'
  BY <1>1 DEF Prefix, Accounted
<1>3. CASE Connect
  BY <1>1, <1>2, <1>3 DEF Connect, Typed, Beats
<1>4. CASE ConnectRefused
  BY <1>1, <1>2, <1>4 DEF ConnectRefused, Typed, Beats
<1>5. CASE Check
  BY <1>1, <1>2, <1>5 DEF Check, is_connected, Typed, Beats
<1>6. CASE Beat
  BY <1>1, <1>2, <1>6 DEF Beat, Typed, Beats
<1> QED
  BY <1>3, <1>4, <1>5, <1>6

LEMMA StepInterrupted ==
  ASSUME IInv, Interrupted
  PROVE  IInv'
<1> USE DEF IInv
<1>1. queue' = <<>> /\ sent' = 0 /\ main' = "ended" /\ UNCHANGED <<next, stray, arrived>>
  BY DEF Interrupted
<1>2. Typed'
  BY <1>1 DEF Typed
<1> QED
  BY <1>1, <1>2 DEF Prefix, Accounted, Beats

(* The steps of the connection. *)
LEMMA StepLink ==
  ASSUME IInv, Connack \/ Cut \/ Notice \/ Reconnect
  PROVE  IInv'
<1> USE DEF IInv
<1>1. UNCHANGED <<main, next, queue, arrived, logged>> /\ sent' \in {0, sent}
  BY DEF Connack, Cut, Notice, Reconnect
<1>2. Prefix' /\ Accounted'
  BY <1>1 DEF Prefix, Accounted, Typed
<1>3. CASE Connack \/ Reconnect
  BY <1>1, <1>2, <1>3 DEF Connack, Reconnect, Typed, Beats
<1>4. CASE Cut
  BY <1>1, <1>2, <1>4 DEF Cut, Typed, Beats
<1>5. CASE Notice
  BY <1>1, <1>2, <1>5 DEF Notice, Typed, Beats
<1> QED
  BY <1>3, <1>4, <1>5

LEMMA StepArrive ==
  ASSUME IInv, Arrive
  PROVE  IInv'
<1> USE DEF IInv
<1>1. /\ sent' = sent + 1 /\ sent < Len(queue) /\ arrived' = arrived \cup {queue[sent + 1]}
      /\ UNCHANGED <<main, next, queue, link, logged, stray>>
  BY DEF Arrive
<1>2. Prefix'
  BY <1>1 DEF Prefix, Typed
<1> QED
  BY <1>1, <1>2 DEF Typed, Accounted, Beats

(* What an acknowledgement removes has arrived. *)
LEMMA StepPuback ==
  ASSUME IInv, Puback
  PROVE  IInv'
<1> USE DEF IInv
<1>1. /\ sent > 0 /\ sent' = sent - 1 /\ queue' = Tail(queue)
      /\ UNCHANGED <<main, next, link, arrived, logged, stray>>
  BY DEF Puback
<1>2. /\ queue' \in Seq(Stream) /\ Len(queue) \in Nat /\ Len(queue') = Len(queue) - 1
      /\ \A i \in 1 .. Len(queue) - 1 : queue'[i] = queue[i + 1]
  BY <1>1 DEF Typed
<1>3. Typed' /\ Beats'
  BY <1>1, <1>2 DEF Typed, Beats
<1>4. Prefix'
  BY <1>1, <1>2 DEF Prefix, Typed
<1>5. queue[1] \in arrived
  BY <1>1 DEF Prefix, Typed
<1>6. Accounted'
  <2> SUFFICES ASSUME main # "ended", NEW n \in 1 .. next - 1, n \notin arrived \cup logged
               PROVE  \E i \in 1 .. Len(queue') : queue'[i] = n
    BY <1>1 DEF Accounted
  <2>1. PICK i \in 1 .. Len(queue) : queue[i] = n
    BY DEF Accounted
  <2>2. i # 1 /\ i - 1 \in 1 .. Len(queue')
    BY <1>2, <1>5, <2>1
  <2>3. queue'[i - 1] = n
    BY <1>2, <2>1, <2>2
  <2> QED
    BY <2>2, <2>3
<1> QED
  BY <1>3, <1>4, <1>6

LEMMA InvStep ==
  ASSUME IInv, [Next]_deploymentVars
  PROVE  IInv'
<1>1. CASE UNCHANGED publisherVars
  BY <1>1 DEF publisherVars, IInv, Typed, Prefix, Accounted, Beats
<1>2. CASE Simulator
  BY <1>2, StepMain, StepPublish, StepInterrupted, StepLink DEF Simulator, Main
<1>3. CASE Reconnects
  BY <1>3, StepLink, StepPuback DEF Reconnects
<1>4. CASE BrokerReceives \/ BrokerRestarts
  BY <1>4, StepArrive, StepLink DEF BrokerReceives, BrokerRestarts
<1>5. CASE MigrateContainer \/ StartServices \/ IngestionSubscribes \/ UNCHANGED deploymentVars
  BY <1>1, <1>5
  DEF MigrateContainer, StartServices, IngestionSubscribes, deploymentVars
<1> QED
  BY <1>2, <1>3, <1>4, <1>5 DEF Next

LEMMA Invariance == Spec => []IInv
<1>1. IInv /\ [Next]_deploymentVars => IInv'
  BY InvStep
<1> QED
  BY <1>1, TypedInit, PTL DEF Spec

(* publisher.py logs every emission it cannot account for: one that has    *)
(* not arrived is with paho or was reported, through any outage.           *)
THEOREM PublisherAccounts == Spec => []NothingLostUnlogged
<1>1. IInv => NothingLostUnlogged
  <2> SUFFICES ASSUME IInv, main # "ended", NEW n \in 1 .. next - 1
               PROVE  n \in arrived \cup Range(queue) \cup logged
    BY DEF NothingLostUnlogged
  <2>1. DOMAIN queue = 1 .. Len(queue)
    BY DEF IInv, Typed
  <2> QED
    BY <2>1 DEF IInv, Accounted, Range
<1> QED
  BY <1>1, Invariance, PTL

(* publisher.py's beat, decided while connected: at most one heartbeat     *)
(* falls into an outage after paho has noticed it.                         *)
THEOREM PublisherBeats == Spec => []AtMostOneStrayBeat
<1>1. IInv => AtMostOneStrayBeat
  BY DEF IInv, Beats, AtMostOneStrayBeat
<1> QED
  BY <1>1, Invariance, PTL
-------------------------------------------------------------------------------
(* Types.                                                                  *)

Schema == [objects: SUBSET (UpTo(HeadVersion) \cup Roles), version: 0 .. HeadVersion]

TypeInv == TypeOK /\ db \in Schema /\ tx \in Schema

LEMMA ChainMakes ==
  /\ HeadVersion \in Nat /\ HeadVersion >= 1 /\ Revision = 1 .. HeadVersion
  /\ \A r \in 1 .. HeadVersion : MadeBy(r) \subseteq UpTo(HeadVersion)
  /\ \A v \in 0 .. HeadVersion : UpTo(v) \subseteq UpTo(HeadVersion)
<1> DEFINE Rev == [autocommit: BOOLEAN,
                   statements: Seq([makes: STRING, needs: SUBSET STRING,
                                    guarded: BOOLEAN, empty: BOOLEAN])]
<1>1. Chain \in Seq(Rev) /\ Chain # <<>>
  BY MigrationAssumption
<1> HIDE DEF Rev
<1>2. HeadVersion \in Nat /\ HeadVersion >= 1 /\ Revision = 1 .. HeadVersion
  BY <1>1 DEF HeadVersion, Revision
<1>3. \A r \in 1 .. HeadVersion : MadeBy(r) \subseteq UpTo(HeadVersion)
  BY DEF UpTo
<1>4. \A v \in 0 .. HeadVersion : \A r \in 1 .. v : r \in 1 .. HeadVersion
  BY <1>2
<1>5. \A v \in 0 .. HeadVersion : UpTo(v) \subseteq UpTo(HeadVersion)
  BY <1>4 DEF UpTo
<1> QED
  BY <1>2, <1>3, <1>5

LEMMA TypeInit == Init => TypeInv
<1> SUFFICES ASSUME Init PROVE TypeInv
  OBVIOUS
<1>1. PublisherTypeOK
  <2>1. queue \in Seq(1 .. Emissions) /\ Len(queue) = 0
    BY DEF Init, PublisherInit
  <2> QED
    BY <2>1, PublisherAssumption DEF Init, PublisherInit, PublisherTypeOK
<1>2. PICK left \in Volumes, roles \in SUBSET Roles : db = [left EXCEPT !.objects = @ \cup roles]
  BY DEF Init, MigrationInit
<1>3. left \in [objects: SUBSET UpTo(HeadVersion), version: 0 .. HeadVersion]
  <2>1. \A v \in 0 .. HeadVersion : Left(v, UpTo(v)) \in [objects: SUBSET UpTo(HeadVersion), version: 0 .. HeadVersion]
    BY ChainMakes DEF Left
  <2>2. /\ Left(0, {}) \in [objects: SUBSET UpTo(HeadVersion), version: 0 .. HeadVersion]
        /\ Left(0, MadeBy(Baseline)) \in [objects: SUBSET UpTo(HeadVersion), version: 0 .. HeadVersion]
    BY ChainMakes DEF Left, Baseline
  <2>3. \A v \in Revision : v \in 0 .. HeadVersion
    BY ChainMakes
  <2> QED
    BY <2>1, <2>2, <2>3 DEF Volumes
<1>4. db \in Schema /\ tx = db
  BY <1>2, <1>3 DEF Init, MigrationInit, Schema
<1>5. rows \in BOOLEAN
  BY DEF Init, MigrationInit
<1>6. MigrationTypeOK
  <2>1. pc = "wait_for_db" /\ block = FALSE /\ stmt = 1
    BY DEF Init, MigrationInit
  <2>2. {db.version, tx.version} \subseteq 0 .. HeadVersion
    BY <1>4 DEF Schema
  <2>3. db.objects \cup tx.objects \subseteq UpTo(HeadVersion) \cup Roles
    BY <1>4 DEF Schema
  <2>4. block \in BOOLEAN
    BY <2>1, Zenon
  <2> QED
    BY <1>5, <2>1, <2>2, <2>3, <2>4 DEF MigrationTypeOK
<1> QED
  BY <1>1, <1>4, <1>6 DEF Init, TypeInv, TypeOK

LEMMA TypeMigrate ==
  ASSUME TypeInv, MigrationNext
  PROVE  db' \in Schema /\ tx' \in Schema /\ MigrationTypeOK'
<1>1. /\ db \in Schema /\ tx \in Schema /\ rows \in BOOLEAN /\ block \in BOOLEAN /\ stmt \in Nat \ {0}
      /\ pc \in Ended \cup {"wait_for_db", "inspect", "stamp", "upgrade"}
  BY DEF TypeInv, TypeOK, MigrationTypeOK
<1>2. Upgrading => /\ tx.version + 1 \in 1 .. HeadVersion
                   /\ MadeBy(tx.version + 1) \subseteq UpTo(HeadVersion)
  BY <1>1, ChainMakes DEF Upgrading, Schema
<1>3. /\ rows' \in BOOLEAN /\ block' \in BOOLEAN /\ stmt' \in Nat \ {0}
      /\ pc' \in Ended \cup {"wait_for_db", "inspect", "stamp", "upgrade"}
  <2> USE DEF MigrationNext, Migrate, WaitForDb, Inspect, Stamp, RunTransactional, EnterBlock,
              Execute, Bump, Finish, Interrupt, Up
  <2>1. rows' = rows /\ (block' = block \/ block' = TRUE \/ block' = FALSE)
    BY Zenon
  <2>2. rows' \in BOOLEAN /\ block' \in BOOLEAN
    BY <1>1, <2>1, Zenon
  <2>3. stmt' \in {stmt, 1, stmt + 1}
    BY Zenon
  <2>4. stmt' \in Nat \ {0}
    <3> HIDE DEF MigrationNext
    <3> QED
      BY <1>1, <2>3
  <2>5. pc' \in {pc, "wait_for_db", "inspect", "stamp", "upgrade", "done", "interrupted"}
    BY Zenon
  <2>6. pc' \in Ended \cup {"wait_for_db", "inspect", "stamp", "upgrade"}
    <3> HIDE DEF MigrationNext
    <3> QED
      BY <1>1, <2>5 DEF Ended
  <2> QED
    BY <2>2, <2>4, <2>6, Zenon
<1>4. db' \in Schema /\ tx' \in Schema
  <2>1. CASE Stamp
    BY <1>1, <2>1, ChainMakes DEF Stamp, Schema, Baseline
  <2>2. CASE RunTransactional
    BY <1>1, <1>2, <2>2 DEF RunTransactional, Schema
  <2>3. CASE Execute
    <3>1. Current.statements[stmt].makes \in UpTo(HeadVersion)
      BY <1>2, <2>3 DEF Execute, MadeBy, StatementsOf, Current
    <3>2. /\ tx' = [tx EXCEPT !.objects = @ \cup {Current.statements[stmt].makes}]
          /\ db' = [db EXCEPT !.objects = @ \cup {Current.statements[stmt].makes}]
      BY <2>3 DEF Execute
    <3> QED
      BY <1>1, <3>1, <3>2 DEF Schema
  <2>4. CASE Bump
    <3>1. tx' = [tx EXCEPT !.version = @ + 1] /\ db' = db /\ tx.version + 1 \in 0 .. HeadVersion
      BY <1>2, <2>4 DEF Bump
    <3> QED
      BY <1>1, <3>1 DEF Schema
  <2>5. CASE WaitForDb \/ Inspect \/ EnterBlock \/ Finish \/ Interrupt \/ Up
    BY <1>1, <2>5 DEF WaitForDb, Inspect, EnterBlock, Finish, Interrupt, Up
  <2> QED
    BY <2>1, <2>2, <2>3, <2>4, <2>5 DEF MigrationNext, Migrate
<1> QED
  BY <1>3, <1>4 DEF MigrationTypeOK, Schema

LEMMA ElementOf ==
  ASSUME NEW S, NEW q \in Seq(S), NEW i \in 1 .. Len(q)
  PROVE  q[i] \in S
OBVIOUS

LEMMA TypePublisher ==
  ASSUME PublisherTypeOK,
         \/ Main \/ ConnectRefused \/ Interrupted \/ Cut
         \/ Connack \/ Puback \/ Notice \/ Reconnect \/ Arrive
  PROVE  PublisherTypeOK' /\ arrived \subseteq arrived'
<1> USE DEF PublisherTypeOK
<1>1. /\ Emissions \in Nat /\ MaxCuts \in Nat /\ MaxQueued \in Nat /\ MaxInflight \in Nat
      /\ Attempts \in Nat /\ Len(queue) \in Nat
  BY PublisherAssumption
<1>2. CASE Connect \/ ConnectRefused \/ Check \/ Beat \/ Connack \/ Notice \/ Reconnect
  <2>1. CASE Connect \/ ConnectRefused \/ Check
    BY <1>1, <2>1 DEF Connect, ConnectRefused, Check
  <2>2. CASE Beat
    BY <2>2 DEF Beat
  <2>3. CASE Notice
    BY <2>3 DEF Notice
  <2>4. CASE Connack \/ Reconnect
    BY <2>4 DEF Connack, Reconnect
  <2> QED
    BY <1>2, <2>1, <2>2, <2>3, <2>4
<1>3. CASE Emit /\ ~Full /\ queue' = Append(queue, next)
           /\ (logged' = logged \cup {next} \/ UNCHANGED logged) /\ main' \in {main, "check"}
           /\ UNCHANGED <<attempt, sent, link, arrived, stray, cuts>>
  <2>1. next \in 1 .. Emissions /\ next' \in 1 .. Emissions + 1
    BY <1>1, <1>3 DEF Emit
  <2>2. queue' \in Seq(1 .. Emissions) /\ Len(queue') = Len(queue) + 1
    BY <1>3, <2>1
  <2>3. Len(queue') <= MaxQueued /\ sent' \in 0 .. Len(queue')
    BY <1>1, <1>3, <2>2 DEF Full
  <2> QED
    BY <1>3, <2>1, <2>2, <2>3
<1>4. CASE PublishDropped
  BY <1>1, <1>4 DEF PublishDropped, Emit
<1>5. CASE Interrupted
  <2>1. queue' \in Seq(1 .. Emissions) /\ Len(queue') = 0
    BY <1>5 DEF Interrupted
  <2> QED
    BY <1>1, <1>5, <2>1 DEF Interrupted
<1>6. CASE Cut
  <2>1. link' \in {"lost", "opening", "up", "dead"}
    BY <1>6 DEF Cut
  <2>2. cuts' \in 0 .. MaxCuts /\ sent' = 0
    BY <1>1, <1>6 DEF Cut
  <2> QED
    BY <1>1, <1>6, <2>1, <2>2 DEF Cut
<1>7. CASE Arrive
  <2>1. sent + 1 \in 1 .. Len(queue) /\ sent + 1 <= MaxInflight
    BY <1>1, <1>7 DEF Arrive
  <2>2. queue[sent + 1] \in 1 .. Emissions
    <3>1. queue \in Seq(1 .. Emissions) /\ sent + 1 \in 1 .. Len(queue)
      BY <2>1
    <3> QED
      BY <3>1, ElementOf
  <2> QED
    BY <1>1, <1>7, <2>1, <2>2 DEF Arrive
<1>8. CASE Puback
  <2>1. sent - 1 \in Nat /\ Len(queue) >= 1 /\ queue # <<>>
    BY <1>1, <1>8 DEF Puback
  <2>2. queue' \in Seq(1 .. Emissions) /\ Len(queue') = Len(queue) - 1
    BY <1>8, <2>1 DEF Puback
  <2> QED
    BY <1>1, <1>8, <2>1, <2>2 DEF Puback
<1> QED
  BY <1>2, <1>3, <1>4, <1>5, <1>6, <1>7, <1>8 DEF Main, PublishUnsent, PublishAccepted

(* The schema, the publisher's queue and the broker's session keep their   *)
(* types, for any chain of revisions and any limits of paho.               *)
THEOREM DeploymentTypeCorrect == Spec => []TypeOK
<1>1. TypeInv /\ [Next]_deploymentVars => TypeInv'
  <2> SUFFICES ASSUME TypeInv, [Next]_deploymentVars PROVE TypeInv'
    OBVIOUS
  <2>1. db \in Schema /\ tx \in Schema /\ MigrationTypeOK /\ PublisherTypeOK
        /\ {serving, subscribed} \subseteq BOOLEAN /\ taken \subseteq arrived
    BY DEF TypeInv, TypeOK
  <2>2. ASSUME UNCHANGED migrationVars
        PROVE  db' \in Schema /\ tx' \in Schema /\ MigrationTypeOK'
    BY <2>1, <2>2 DEF migrationVars, MigrationTypeOK
  <2>3. ASSUME UNCHANGED publisherVars
        PROVE  PublisherTypeOK' /\ arrived' = arrived
    BY <2>1, <2>3 DEF publisherVars, PublisherTypeOK
  <2>4. CASE MigrateContainer
    BY <2>1, <2>3, <2>4, TypeMigrate DEF MigrateContainer, servicesVars, TypeInv, TypeOK
  <2>5. CASE Simulator \/ Reconnects
    BY <2>1, <2>2, <2>5, TypePublisher DEF Simulator, Reconnects, servicesVars, TypeInv, TypeOK
  <2>6. CASE StartServices \/ IngestionSubscribes
    BY <2>1, <2>2, <2>3, <2>6 DEF StartServices, IngestionSubscribes, TypeInv, TypeOK
  <2>7. CASE BrokerReceives
    <3>1. arrived' = arrived \cup {queue[sent + 1]}
          /\ taken' \subseteq taken \cup {queue[sent + 1]}
          /\ UNCHANGED <<migrationVars, serving, subscribed>>
      BY <2>7 DEF BrokerReceives, Arrive
    <3> QED
      BY <2>1, <2>2, <2>7, <3>1, TypePublisher DEF BrokerReceives, TypeInv, TypeOK
  <2>8. CASE BrokerRestarts
    BY <2>1, <2>2, <2>8, TypePublisher DEF BrokerRestarts, TypeInv, TypeOK
  <2>9. CASE UNCHANGED deploymentVars
    BY <2>1, <2>2, <2>3, <2>9 DEF deploymentVars, servicesVars, TypeInv, TypeOK
  <2> QED
    BY <2>4, <2>5, <2>6, <2>7, <2>8, <2>9 DEF Next
<1>2. TypeInv => TypeOK
  BY DEF TypeInv
<1> QED
  BY <1>1, <1>2, TypeInit, PTL DEF Spec
===============================================================================
