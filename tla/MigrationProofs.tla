---------------------------- MODULE MigrationProofs ---------------------------
(***************************************************************************)
(* What migrate guarantees, for every chain of revisions that is           *)
(* rerunnable, every earlier release, and any number of kills and runs.    *)
(*                                                                         *)
(* The argument: what is committed is all of the revisions up to the       *)
(* version and at most part of the next (DbHonest); what a run sees is the *)
(* same of its own version (TxHonest); so a revision is run only where its *)
(* own objects are missing, unless it is one that may be repeated.         *)
(***************************************************************************)
EXTENDS Deployment, Revisions, TLAPS

(* What the conventions of docs/storage.md ask of a chain.                 *)
Rerunnable ==
  /\ \A r, q \in Revision : r # q => MadeBy(r) \cap MadeBy(q) = {}
  /\ \A r \in Revision : \A i \in StatementsOf(r) :
       LET s == Chain[r].statements[i]
       IN  /\ s.guarded \/ ~Chain[r].autocommit
           /\ ~s.empty
           /\ s.needs \subseteq UpTo(r - 1) \cup {Chain[r].statements[j].makes : j \in 1 .. i - 1}
           /\ ~s.guarded => /\ s.makes \notin Roles
                            /\ \A j \in 1 .. i - 1 : Chain[r].statements[j].makes # s.makes
  /\ ~Chain[Baseline].autocommit
  /\ "telemetry" \in MadeBy(Baseline) \ Roles

Partial(v) ==
  IF v < HeadVersion /\ Chain[v + 1].autocommit THEN MadeBy(v + 1) ELSE {}

Schema == [objects: SUBSET STRING, version: 0 .. HeadVersion]

Typed ==
  /\ db \in Schema /\ tx \in Schema
  /\ rows \in BOOLEAN
  /\ pc \in Ended \cup {"wait_for_db", "inspect", "stamp", "upgrade"}
  /\ block \in BOOLEAN
  /\ stmt \in Nat \ {0}

DbHonest ==
  /\ UpTo(db.version) \subseteq db.objects
  /\ IF db.version = 0
     THEN db.objects \subseteq Roles
            \/ (MadeBy(Baseline) \subseteq db.objects /\ db.objects \subseteq MadeBy(Baseline) \cup Roles)
     ELSE db.objects \subseteq UpTo(db.version) \cup Partial(db.version) \cup Roles

TxHonest ==
  /\ UpTo(tx.version) \subseteq tx.objects
  /\ tx.objects \subseteq UpTo(tx.version) \cup Partial(tx.version) \cup Roles

Stages ==
  /\ pc # "upgrade" => tx = db /\ ~block
  /\ pc = "stamp" => is_pre_alembic_m2
  /\ pc = "upgrade" => TxHonest /\ db.version <= tx.version
  /\ pc = "done" => db.version = HeadVersion
  /\ ~block => stmt = 1
  /\ block => /\ tx = db
              /\ tx.version < HeadVersion /\ Current.autocommit
              /\ stmt <= Len(Current.statements) + 1
              /\ \A j \in 1 .. stmt - 1 : Current.statements[j].makes \in tx.objects

(* Ingestion and the broker follow the schema.                             *)
Gated ==
  /\ serving \in BOOLEAN /\ subscribed \in BOOLEAN
  /\ subscribed => serving
  /\ serving => db.version = HeadVersion

IInv == Typed /\ DbHonest /\ Stages /\ Gated

-------------------------------------------------------------------------------
LEMMA ChainFacts ==
  /\ HeadVersion \in Nat /\ HeadVersion >= 1
  /\ Revision = 1 .. HeadVersion
  /\ \A r \in Revision :
       /\ Chain[r].autocommit \in BOOLEAN
       /\ Len(Chain[r].statements) \in Nat
       /\ StatementsOf(r) = 1 .. Len(Chain[r].statements)
       /\ \A i \in StatementsOf(r) :
            /\ Chain[r].statements[i].makes \in STRING
            /\ Chain[r].statements[i].guarded \in BOOLEAN
            /\ Chain[r].statements[i].empty \in BOOLEAN
            /\ Chain[r].statements[i].needs \in SUBSET STRING
<1> DEFINE Text == [makes: STRING, needs: SUBSET STRING, guarded: BOOLEAN, empty: BOOLEAN]
           Rev  == [autocommit: BOOLEAN, statements: Seq(Text)]
<1>1. Chain \in Seq(Rev) /\ Chain # <<>>
  BY MigrationAssumption
<1> HIDE DEF Rev
<1>2. HeadVersion \in Nat /\ HeadVersion >= 1 /\ Revision = 1 .. HeadVersion
  BY <1>1 DEF HeadVersion, Revision
<1>3. ASSUME NEW r \in Revision PROVE Chain[r] \in Rev
  BY <1>1, <1>2 DEF HeadVersion
<1>4. ASSUME NEW r \in Revision
      PROVE  /\ Chain[r].autocommit \in BOOLEAN
             /\ Chain[r].statements \in Seq(Text)
  BY <1>3 DEF Rev
<1> HIDE DEF Text
<1>5. ASSUME NEW r \in Revision
      PROVE  /\ Len(Chain[r].statements) \in Nat
             /\ StatementsOf(r) = 1 .. Len(Chain[r].statements)
             /\ \A i \in StatementsOf(r) : Chain[r].statements[i] \in Text
  BY <1>4 DEF StatementsOf
<1>6. ASSUME NEW s \in Text
      PROVE  /\ s.makes \in STRING /\ s.guarded \in BOOLEAN
             /\ s.empty \in BOOLEAN /\ s.needs \in SUBSET STRING
  BY DEF Text
<1> QED
  BY <1>2, <1>4, <1>5, <1>6

LEMMA MadeByStrings == \A r \in Revision : MadeBy(r) \in SUBSET STRING
BY ChainFacts DEF MadeBy

(* UpTo, one revision at a time. *)
LEMMA UpToFacts ==
  /\ UpTo(0) = {}
  /\ UpTo(1) = MadeBy(1)
  /\ \A v \in Nat : UpTo(v + 1) = UpTo(v) \cup MadeBy(v + 1)
<1>1. UpTo(0) = {}
  BY DEF UpTo
<1>2. UpTo(1) = MadeBy(1)
  BY DEF UpTo
<1>3. ASSUME NEW v \in Nat PROVE UpTo(v + 1) = UpTo(v) \cup MadeBy(v + 1)
  <2>1. 1 .. v + 1 = (1 .. v) \cup {v + 1}
    OBVIOUS
  <2> QED
    BY <2>1 DEF UpTo
<1> QED
  BY <1>1, <1>2, <1>3

LEMMA UpToStrings == \A v \in 0 .. HeadVersion : UpTo(v) \in SUBSET STRING
BY MadeByStrings, ChainFacts DEF UpTo

(* Of a later revision nothing has been made before. *)
LEMMA NotMadeBefore ==
  ASSUME Rerunnable, NEW v \in 0 .. HeadVersion, NEW r \in Revision, r > v
  PROVE  UpTo(v) \cap MadeBy(r) = {}
<1>1. \A q \in 1 .. v : MadeBy(q) \cap MadeBy(r) = {}
  BY ChainFacts DEF Rerunnable
<1> QED
  BY <1>1 DEF UpTo

-------------------------------------------------------------------------------
(* The chain of this repository is rerunnable.                             *)

LEMMA TheChain ==
  ASSUME Chain = Versions
  PROVE  /\ HeadVersion = 10 /\ Revision = 1 .. 10
         /\ Chain[1] = m2_baseline /\ Chain[2] = devices /\ Chain[3] = hypertable
         /\ Chain[4] = continuous_aggregates /\ Chain[5] = columnstore
         /\ Chain[6] = ingest_events /\ Chain[7] = grafana_reader /\ Chain[8] = forecasts
         /\ Chain[9] = alert_events /\ Chain[10] = forecasts_latest_fix
BY DEF Versions, HeadVersion, Revision

LEMMA TheStatements ==
  ASSUME Chain = Versions
  PROVE  /\ MadeBy(1) = {"telemetry", "dead_letter"}
         /\ MadeBy(2) = {"devices"}
         /\ MadeBy(3) = {"hypertable"}
         /\ MadeBy(4) = {"telemetry_hourly", "telemetry_daily", "hourly_policy", "daily_policy"}
         /\ MadeBy(5) = {"columnstore", "columnstore_policy"}
         /\ MadeBy(6) = {"ingest_events", "ingest_events_occurred_at_idx"}
         /\ MadeBy(7) = {"grafana_reader", "reader_grants"}
         /\ MadeBy(8) = {"forecasts", "forecasts_latest", "forecasts_grant"}
         /\ MadeBy(9) = {"alert_events", "alert_events_state_idx", "alerts_grant"}
         /\ MadeBy(10) = {"forecasts_latest_fix"}
<1> USE TheChain DEF MadeBy, StatementsOf, Transactional, Autocommit, Create, Ensure
<1>1. MadeBy(1) = {"telemetry", "dead_letter"}
  BY DEF m2_baseline
<1>2. MadeBy(2) = {"devices"}
  BY DEF devices
<1>3. MadeBy(3) = {"hypertable"}
  BY DEF hypertable
<1>4. MadeBy(4) = {"telemetry_hourly", "telemetry_daily", "hourly_policy", "daily_policy"}
  BY DEF continuous_aggregates
<1>5. MadeBy(5) = {"columnstore", "columnstore_policy"}
  BY DEF columnstore
<1>6. MadeBy(6) = {"ingest_events", "ingest_events_occurred_at_idx"}
  BY DEF ingest_events
<1>7. MadeBy(7) = {"grafana_reader", "reader_grants"}
  BY DEF grafana_reader
<1>8. MadeBy(8) = {"forecasts", "forecasts_latest", "forecasts_grant"}
  BY DEF forecasts
<1>9. MadeBy(9) = {"alert_events", "alert_events_state_idx", "alerts_grant"}
  BY DEF alert_events
<1>10. MadeBy(10) = {"forecasts_latest_fix"}
  BY DEF forecasts_latest_fix
<1> QED
  BY <1>1, <1>2, <1>3, <1>4, <1>5, <1>6, <1>7, <1>8, <1>9, <1>10

(* What the theorems below assume of a chain is true of migrations/versions. *)
THEOREM VersionsRerunnable ==
  ASSUME Chain = Versions, Roles = {"grafana_reader"}
  PROVE  Rerunnable
<1> DEFINE owner(x) ==
      CASE x \in {"telemetry", "dead_letter"} -> 1
        [] x = "devices" -> 2
        [] x = "hypertable" -> 3
        [] x \in {"telemetry_hourly", "telemetry_daily", "hourly_policy", "daily_policy"} -> 4
        [] x \in {"columnstore", "columnstore_policy"} -> 5
        [] x \in {"ingest_events", "ingest_events_occurred_at_idx"} -> 6
        [] x \in {"grafana_reader", "reader_grants"} -> 7
        [] x \in {"forecasts", "forecasts_latest", "forecasts_grant"} -> 8
        [] x \in {"alert_events", "alert_events_state_idx", "alerts_grant"} -> 9
        [] OTHER -> 10
      s(r, i) == Chain[r].statements[i]
      Fine(r, i) ==
        /\ s(r, i).guarded \/ ~Chain[r].autocommit
        /\ ~s(r, i).empty
        /\ s(r, i).needs \subseteq UpTo(r - 1) \cup {s(r, j).makes : j \in 1 .. i - 1}
        /\ ~s(r, i).guarded => /\ s(r, i).makes \notin Roles
                               /\ \A j \in 1 .. i - 1 : s(r, j).makes # s(r, i).makes
<1>1. \A r \in Revision : \A x \in MadeBy(r) : owner(x) = r
  BY TheChain, TheStatements
<1>2. \A r, q \in Revision : r # q => MadeBy(r) \cap MadeBy(q) = {}
  BY <1>1
<1> HIDE DEF owner
<1>3. /\ "telemetry" \in UpTo(2) /\ "hypertable" \in UpTo(3) /\ "hypertable" \in UpTo(4)
      /\ "grafana_reader" \in UpTo(7) /\ "grafana_reader" \in UpTo(8)
      /\ {"forecasts_latest", "devices", "grafana_reader"} \subseteq UpTo(9)
  BY TheChain, TheStatements DEF UpTo
<1>4. \A r \in Revision : \A i \in StatementsOf(r) : Fine(r, i)
  <2> USE TheChain, <1>3 DEF StatementsOf, Transactional, Autocommit, Create, Ensure
  <2>1. \A i \in StatementsOf(1) : Fine(1, i)
    BY DEF m2_baseline
  <2>2. \A i \in StatementsOf(2) : Fine(2, i)
    BY DEF devices
  <2>3. \A i \in StatementsOf(3) : Fine(3, i)
    BY DEF hypertable
  <2>4. \A i \in StatementsOf(4) : Fine(4, i)
    BY DEF continuous_aggregates
  <2>5. \A i \in StatementsOf(5) : Fine(5, i)
    BY DEF columnstore
  <2>6. \A i \in StatementsOf(6) : Fine(6, i)
    BY DEF ingest_events
  <2>7. \A i \in StatementsOf(7) : Fine(7, i)
    BY DEF grafana_reader
  <2>8. \A i \in StatementsOf(8) : Fine(8, i)
    BY DEF forecasts
  <2>9. \A i \in StatementsOf(9) : Fine(9, i)
    BY DEF alert_events
  <2>10. \A i \in StatementsOf(10) : Fine(10, i)
    BY DEF forecasts_latest_fix
  <2> HIDE DEF Fine
  <2> QED
    BY <2>1, <2>2, <2>3, <2>4, <2>5, <2>6, <2>7, <2>8, <2>9, <2>10
<1>5. ~Chain[Baseline].autocommit /\ "telemetry" \in MadeBy(Baseline) \ Roles
  BY TheChain, TheStatements DEF Baseline, m2_baseline, Transactional
<1> QED
  BY <1>2, <1>4, <1>5 DEF Rerunnable

-------------------------------------------------------------------------------
(* A revision that can run has not run: none of its statements is refused. *)
LEMMA NoRefusal ==
  ASSUME Rerunnable, IInv
  PROVE  ~Refusal
<1> SUFFICES ASSUME Refusal PROVE FALSE
  OBVIOUS
<1> DEFINE r == tx.version + 1
           s(i) == Chain[r].statements[i]
<1>1. /\ tx.version \in 0 .. HeadVersion /\ tx.version < HeadVersion
      /\ r \in Revision /\ r > tx.version /\ r - 1 = tx.version
      /\ Current = Chain[r]
  BY ChainFacts DEF IInv, Typed, Schema, Refusal, Upgrading, Current
<1>2. TxHonest /\ UpTo(tx.version) \cap MadeBy(r) = {}
  BY <1>1, NotMadeBefore DEF IInv, Stages, Refusal, Upgrading
<1>3. ASSUME NEW i \in StatementsOf(r)
      PROVE  /\ s(i).makes \in MadeBy(r)
             /\ s(i).guarded \/ ~Chain[r].autocommit
             /\ ~s(i).empty
             /\ s(i).needs \subseteq UpTo(tx.version) \cup {s(j).makes : j \in 1 .. i - 1}
             /\ ~s(i).guarded => /\ s(i).makes \notin Roles
                                 /\ \A j \in 1 .. i - 1 : s(j).makes # s(i).makes
  <2>1. s(i).makes \in MadeBy(r)
    BY DEF MadeBy
  <2> QED
    BY <1>1, <2>1 DEF Rerunnable
<1>4. CASE Current.autocommit
  <2>1. block /\ stmt \in StatementsOf(r) /\ Refused(s(stmt), tx.objects)
    BY <1>1, <1>4 DEF Refusal, StatementsOf
  <2>2. s(stmt).needs \subseteq tx.objects
    BY <1>1, <1>2, <1>3, <2>1 DEF TxHonest, IInv, Stages
  <2> QED
    BY <1>1, <1>3, <1>4, <2>1, <2>2 DEF Refused
<1>5. CASE ~Current.autocommit
  <2>1. PICK i \in StatementsOf(r) : Refused(s(i), Before(i))
    BY <1>1, <1>5 DEF Refusal, StatementsOf
  <2>2. s(i).needs \subseteq Before(i)
    BY <1>1, <1>2, <1>3 DEF TxHonest, Before
  <2>3. tx.objects \subseteq UpTo(tx.version) \cup Roles
    BY <1>1, <1>2, <1>5 DEF TxHonest, Partial
  <2>4. ~s(i).guarded => s(i).makes \notin Before(i)
    BY <1>1, <1>2, <1>3, <2>3 DEF Before
  <2> QED
    BY <1>3, <2>1, <2>2, <2>4 DEF Refused
<1> QED
  BY <1>4, <1>5

LEMMA InvInit ==
  ASSUME Rerunnable, Init
  PROVE  IInv
<1>1. PICK left \in Volumes, roles \in SUBSET Roles :
         db = [left EXCEPT !.objects = @ \cup roles]
  BY DEF Init, MigrationInit
<1>2. roles \in SUBSET STRING
  BY MigrationAssumption
<1>3. /\ rows \in BOOLEAN /\ tx = db /\ pc = "wait_for_db" /\ block = FALSE /\ stmt = 1
      /\ serving = FALSE /\ subscribed = FALSE
  BY DEF Init, MigrationInit
<1>4. ASSUME NEW v \in 0 .. HeadVersion, NEW o \in SUBSET STRING, left = Left(v, o)
      PROVE  db \in Schema /\ db.version = v /\ db.objects = o \cup roles
  <2>1. db = [version |-> v, objects |-> o \cup roles]
    BY <1>1, <1>4 DEF Left
  <2> QED
    BY <1>2, <2>1 DEF Schema
<1>5. db \in Schema /\ DbHonest
  <2>1. CASE left = Left(0, {})
    <3>1. db \in Schema /\ db.version = 0 /\ db.objects = {} \cup roles
      <4>1. 0 \in 0 .. HeadVersion /\ {} \in SUBSET STRING
        BY ChainFacts
      <4> QED
        BY <1>4, <2>1, <4>1
    <3> QED
      BY <1>1, <3>1, UpToFacts DEF DbHonest
  <2>2. CASE left = Left(0, MadeBy(Baseline))
    <3>1. db \in Schema /\ db.version = 0 /\ db.objects = MadeBy(Baseline) \cup roles
      BY <1>4, <2>2, MadeByStrings, ChainFacts DEF Baseline
    <3> QED
      BY <1>1, <3>1, UpToFacts DEF DbHonest
  <2>3. CASE \E v \in Revision : left = Left(v, UpTo(v))
    <3>1. PICK v \in Revision : left = Left(v, UpTo(v))
      BY <2>3
    <3>2. v \in 0 .. HeadVersion /\ v # 0
      BY ChainFacts
    <3>3. db \in Schema /\ db.version = v /\ db.objects = UpTo(v) \cup roles
      BY <1>4, <3>1, <3>2, UpToStrings
    <3> QED
      BY <1>1, <3>2, <3>3 DEF DbHonest
  <2> QED
    BY <2>1, <2>2, <2>3 DEF Volumes
<1>6. Typed
  <2>1. block \in BOOLEAN /\ tx \in Schema
    BY <1>3, <1>5
  <2>2. stmt \in Nat \ {0}
    BY <1>3
  <2>3. pc \in Ended \cup {"wait_for_db", "inspect", "stamp", "upgrade"}
    BY <1>3
  <2> QED
    BY <1>3, <1>5, <2>1, <2>2, <2>3, Zenon DEF Typed
<1>7. Stages
  BY <1>3 DEF Stages
<1>8. Gated
  BY <1>3 DEF Gated
<1> QED
  BY <1>5, <1>6, <1>7, <1>8 DEF IInv

-------------------------------------------------------------------------------
(* What a step leaves alone, and what a run that is not upgrading sees.    *)
LEMMA InvUnchanged ==
  ASSUME IInv, UNCHANGED <<migrationVars, serving, subscribed>>
  PROVE  IInv'
BY DEF migrationVars, IInv, Typed, DbHonest, TxHonest, Stages, Gated, is_pre_alembic_m2,
       Current

(* A database with a version, or one without any table, may be upgraded.   *)
LEMMA ReadyToUpgrade ==
  ASSUME Rerunnable, Typed, DbHonest, ~is_pre_alembic_m2, tx = db
  PROVE  TxHonest
<1>1. CASE db.version = 0
  <2>1. db.objects \subseteq Roles
    BY <1>1 DEF DbHonest, Rerunnable, is_pre_alembic_m2
  <2> QED
    BY <1>1, <2>1, UpToFacts DEF TxHonest
<1>2. CASE db.version # 0
  BY <1>2 DEF DbHonest, TxHonest
<1> QED
  BY <1>1, <1>2

(* What a run has made is what it may commit.                              *)
LEMMA ReadyToCommit ==
  ASSUME Rerunnable, Typed, TxHonest, db' = tx,
         tx.version # 0 \/ (tx.version < HeadVersion /\ Current.autocommit)
  PROVE  DbHonest'
<1>1. tx.version # 0
  BY DEF Rerunnable, Baseline, Current
<1> QED
  BY <1>1 DEF TxHonest, DbHonest

-------------------------------------------------------------------------------
(* One lemma per step of migrate.                                          *)

LEMMA StepWaitForDb ==
  ASSUME IInv, WaitForDb, UNCHANGED <<serving, subscribed>> PROVE IInv'
BY DEF WaitForDb, IInv, Typed, DbHonest, Stages, Gated, Schema

LEMMA StepInspect ==
  ASSUME Rerunnable, IInv, Inspect, UNCHANGED <<serving, subscribed>> PROVE IInv'
<1> USE DEF IInv
<1>1. tx = db /\ ~block /\ stmt = 1
  BY DEF Inspect, Stages
<1>2. UNCHANGED <<db, tx, rows, block, stmt, serving, subscribed>>
      /\ pc' = IF is_pre_alembic_m2 THEN "stamp" ELSE "upgrade"
  BY DEF Inspect
<1>3. Typed' /\ DbHonest' /\ Gated'
  BY <1>2 DEF Typed, DbHonest, Gated
<1>4. ~is_pre_alembic_m2 => TxHonest'
  <2> SUFFICES ASSUME ~is_pre_alembic_m2 PROVE TxHonest'
    OBVIOUS
  <2>1. TxHonest
    BY <1>1, ReadyToUpgrade
  <2> QED
    BY <1>2, <2>1 DEF TxHonest
<1>5. Stages'
  BY <1>1, <1>2, <1>4 DEF Stages, is_pre_alembic_m2, Typed, Schema
<1> QED
  BY <1>3, <1>5

LEMMA StepStamp ==
  ASSUME Rerunnable, IInv, Stamp, UNCHANGED <<serving, subscribed>> PROVE IInv'
<1> USE DEF IInv
<1>1. /\ db.version = 0 /\ "telemetry" \in db.objects /\ db \in Schema
      /\ ~block /\ stmt = 1
  BY DEF Stamp, Stages, is_pre_alembic_m2, Typed
<1>2. /\ db'.version = Baseline /\ db'.objects = db.objects /\ db' \in Schema
      /\ tx' = db' /\ pc' = "upgrade"
      /\ UNCHANGED <<rows, block, stmt, serving, subscribed>>
  BY <1>1, ChainFacts DEF Stamp, Schema, Baseline
<1>3. /\ MadeBy(Baseline) \subseteq db.objects
      /\ db.objects \subseteq MadeBy(Baseline) \cup Roles
  BY <1>1 DEF DbHonest, Rerunnable
<1>4. Typed'
  BY <1>2 DEF Typed
<1>5. DbHonest' /\ TxHonest'
  BY <1>2, <1>3, UpToFacts DEF DbHonest, TxHonest, Baseline
<1>6. Stages'
  BY <1>1, <1>2, <1>5 DEF Stages, Schema, Baseline
<1>7. Gated'
  BY <1>1, <1>2, ChainFacts DEF Gated
<1> QED
  BY <1>4, <1>5, <1>6, <1>7

LEMMA StepRunTransactional ==
  ASSUME Rerunnable, IInv, RunTransactional, UNCHANGED <<serving, subscribed>>
  PROVE  IInv'
<1> USE DEF IInv
<1> DEFINE r == tx.version + 1
<1>1. /\ r \in Revision /\ r - 1 \in Nat /\ tx.version = r - 1 /\ r \in 0 .. HeadVersion
      /\ ~Chain[r].autocommit /\ pc = "upgrade" /\ TxHonest /\ db.version <= tx.version
      /\ tx.objects \in SUBSET STRING
  BY ChainFacts DEF RunTransactional, Upgrading, Current, Typed, Schema, Stages
<1>2. /\ tx'.version = r /\ tx'.objects = tx.objects \cup MadeBy(r)
      /\ UNCHANGED <<db, rows, pc, block, stmt, serving, subscribed>>
  BY DEF RunTransactional
<1>3. tx' \in Schema
  <2>1. tx' = [objects |-> tx.objects \cup MadeBy(r), version |-> r]
    BY DEF RunTransactional
  <2> QED
    BY <1>1, <2>1, MadeByStrings DEF Schema
<1>4. TxHonest'
  <2>1. UpTo(r) = UpTo(tx.version) \cup MadeBy(r)
    BY <1>1, UpToFacts
  <2>2. tx.objects \subseteq UpTo(tx.version) \cup Roles
    BY <1>1 DEF TxHonest, Partial
  <2> QED
    BY <1>1, <1>2, <2>1, <2>2 DEF TxHonest
<1>5. ~block
  BY <1>1 DEF Stages, Current
<1>6. Typed' /\ DbHonest' /\ Gated'
  BY <1>2, <1>3 DEF Typed, DbHonest, Gated
<1>7. Stages'
  BY <1>1, <1>2, <1>4, <1>5 DEF Stages, Typed, Schema
<1> QED
  BY <1>6, <1>7

LEMMA StepEnterBlock ==
  ASSUME Rerunnable, IInv, EnterBlock, UNCHANGED <<serving, subscribed>> PROVE IInv'
<1> USE DEF IInv
<1>1. /\ pc = "upgrade" /\ tx.version < HeadVersion /\ Current.autocommit
      /\ TxHonest /\ db.version <= tx.version /\ stmt = 1
      /\ tx \in Schema /\ db \in Schema
  BY DEF EnterBlock, Upgrading, Stages, Typed
<1>2. /\ db' = tx /\ tx' = tx /\ block' = TRUE
      /\ UNCHANGED <<rows, pc, stmt, serving, subscribed>>
  BY DEF EnterBlock
<1>3. DbHonest'
  BY <1>1, <1>2, ReadyToCommit
<1>4. TxHonest'
  BY <1>1, <1>2 DEF TxHonest
<1>5. db.version # HeadVersion
  BY <1>1, ChainFacts DEF Schema
<1>6. Typed'
  BY <1>1, <1>2 DEF Typed
<1>7. Gated'
  BY <1>2, <1>5 DEF Gated
<1>8. Stages'
  <2>1. Current' = Current /\ Len(Current.statements) \in Nat
    BY <1>1, <1>2, ChainFacts DEF Current, Schema
  <2> QED
    BY <1>1, <1>2, <1>4, <2>1 DEF Stages, Schema
<1> QED
  BY <1>3, <1>6, <1>7, <1>8

LEMMA StepExecute ==
  ASSUME Rerunnable, IInv, Execute, UNCHANGED <<serving, subscribed>> PROVE IInv'
<1> USE DEF IInv
<1> DEFINE r == tx.version + 1
           object == Current.statements[stmt].makes
<1>1. /\ pc = "upgrade" /\ block /\ tx = db /\ tx.version < HeadVersion /\ Current.autocommit
      /\ stmt \in StatementsOf(r) /\ stmt \in Nat \ {0} /\ TxHonest
      /\ tx \in Schema /\ r \in Revision /\ Current = Chain[r]
      /\ \A j \in 1 .. stmt - 1 : Current.statements[j].makes \in tx.objects
  BY ChainFacts
  DEF Execute, Upgrading, Stages, Typed, Schema, Current, StatementsOf
<1>2. object \in MadeBy(r) /\ object \in STRING
  BY <1>1, ChainFacts DEF MadeBy
<1>3. /\ tx' = [objects |-> tx.objects \cup {object}, version |-> tx.version]
      /\ db' = tx' /\ stmt' = stmt + 1
      /\ UNCHANGED <<rows, pc, block, serving, subscribed>>
  BY <1>1 DEF Execute, Schema
<1>4. tx'.version = tx.version /\ tx'.objects = tx.objects \cup {object} /\ tx' \in Schema
  BY <1>1, <1>2, <1>3 DEF Schema
<1>5. Partial(tx.version) = MadeBy(r)
  BY <1>1 DEF Partial, Current
<1>6. TxHonest'
  BY <1>1, <1>2, <1>4, <1>5 DEF TxHonest
<1>7. tx.version # 0
  BY <1>1 DEF Rerunnable, Baseline
<1>8. DbHonest'
  BY <1>3, <1>4, <1>6, <1>7 DEF TxHonest, DbHonest
<1>9. Typed'
  BY <1>1, <1>3, <1>4 DEF Typed
<1>10. Gated'
  BY <1>1, <1>3, <1>4 DEF Gated
<1>11. Stages'
  <2>1. Current' = Current
    BY <1>4 DEF Current
  <2>2. stmt' <= Len(Current.statements) + 1 /\ stmt' \in Nat
    BY <1>1, <1>3, ChainFacts DEF StatementsOf
  <2>3. \A j \in 1 .. stmt' - 1 : Current.statements[j].makes \in tx'.objects
    BY <1>1, <1>3, <1>4
  <2> QED
    BY <1>1, <1>3, <1>4, <1>6, <2>1, <2>2, <2>3 DEF Stages, Schema
<1> QED
  BY <1>8, <1>9, <1>10, <1>11

LEMMA StepBump ==
  ASSUME Rerunnable, IInv, Bump, UNCHANGED <<serving, subscribed>> PROVE IInv'
<1> USE DEF IInv
<1> DEFINE r == tx.version + 1
<1>1. /\ pc = "upgrade" /\ block /\ tx = db /\ tx.version < HeadVersion /\ Current.autocommit
      /\ stmt = Len(Current.statements) + 1 /\ TxHonest
      /\ tx \in Schema /\ r \in Revision /\ Current = Chain[r]
      /\ \A j \in 1 .. stmt - 1 : Current.statements[j].makes \in tx.objects
  BY ChainFacts DEF Bump, Upgrading, Stages, Typed, Schema, Current
<1>2. /\ tx' = [objects |-> tx.objects, version |-> r]
      /\ stmt' = 1 /\ block' = FALSE
      /\ UNCHANGED <<db, rows, pc, serving, subscribed>>
  BY <1>1 DEF Bump, Schema
<1>3. tx'.version = r /\ tx'.objects = tx.objects /\ tx' \in Schema
  BY <1>1, <1>2, ChainFacts DEF Schema
<1>4. MadeBy(r) \subseteq tx.objects
  <2>1. StatementsOf(r) = 1 .. stmt - 1
    BY <1>1, ChainFacts
  <2> QED
    BY <1>1, <2>1 DEF MadeBy
<1>5. TxHonest'
  <2>1. UpTo(r) = UpTo(tx.version) \cup MadeBy(r)
    BY <1>1, UpToFacts DEF Schema
  <2>2. tx.objects \subseteq UpTo(r) \cup Roles
    BY <1>1, <2>1 DEF TxHonest, Partial
  <2> QED
    BY <1>1, <1>3, <1>4, <2>1, <2>2 DEF TxHonest
<1>6. Typed'
  <2>1. block' \in BOOLEAN
    BY <1>2
  <2>2. stmt' \in Nat \ {0}
    BY <1>2
  <2>3. /\ db' \in Schema /\ rows' \in BOOLEAN
        /\ pc' \in Ended \cup {"wait_for_db", "inspect", "stamp", "upgrade"}
    BY <1>2 DEF Typed
  <2> QED
    BY <1>3, <2>1, <2>2, <2>3, Zenon DEF Typed
<1>7. DbHonest' /\ Gated'
  BY <1>2 DEF DbHonest, Gated
<1>8. Stages'
  BY <1>1, <1>2, <1>3, <1>5 DEF Stages, Schema
<1> QED
  BY <1>6, <1>7, <1>8

LEMMA StepFinish ==
  ASSUME Rerunnable, IInv, Finish, UNCHANGED <<serving, subscribed>> PROVE IInv'
<1> USE DEF IInv
<1>1. /\ pc = "upgrade" /\ tx.version = HeadVersion /\ TxHonest /\ tx \in Schema /\ db \in Schema
  BY DEF Finish, Stages, Typed
<1>2. /\ db' = tx /\ tx' = tx /\ pc' = "done"
      /\ UNCHANGED <<rows, block, stmt, serving, subscribed>>
  BY DEF Finish
<1>3. ~block /\ stmt = 1
  BY <1>1, ChainFacts DEF Stages
<1>4. DbHonest'
  BY <1>1, <1>2, ChainFacts, ReadyToCommit
<1>5. Typed' /\ Gated'
  BY <1>1, <1>2 DEF Typed, Gated, Ended
<1>6. Stages'
  BY <1>1, <1>2, <1>3 DEF Stages
<1> QED
  BY <1>4, <1>5, <1>6

LEMMA StepInterrupt ==
  ASSUME IInv, Interrupt, UNCHANGED <<serving, subscribed>> PROVE IInv'
<1> USE DEF IInv
<1>1. /\ tx' = db /\ pc' = "interrupted" /\ block' = FALSE /\ stmt' = 1
      /\ UNCHANGED <<db, rows, serving, subscribed>>
  BY DEF Interrupt
<1>2. Typed'
  <2>1. block' \in BOOLEAN
    BY <1>1
  <2>2. stmt' \in Nat \ {0} /\ tx' \in Schema
    BY <1>1 DEF Typed
  <2>3. pc' \in Ended \cup {"wait_for_db", "inspect", "stamp", "upgrade"}
    BY <1>1 DEF Ended
  <2>4. db' \in Schema /\ rows' \in BOOLEAN
    BY <1>1 DEF Typed
  <2> QED
    BY <2>1, <2>2, <2>3, <2>4, Zenon DEF Typed
<1>3. DbHonest' /\ Gated'
  BY <1>1 DEF DbHonest, Gated
<1>4. Stages'
  BY <1>1 DEF Stages
<1> QED
  BY <1>2, <1>3, <1>4

LEMMA StepUp ==
  ASSUME IInv, Up, UNCHANGED <<serving, subscribed>> PROVE IInv'
BY DEF Up, Ended, IInv, Typed, DbHonest, Stages, Gated

LEMMA StepMigrate ==
  ASSUME Rerunnable, IInv, MigrateContainer
  PROVE  IInv'
<1>1. MigrationNext /\ UNCHANGED <<serving, subscribed>>
  BY DEF MigrateContainer, servicesVars
<1> QED
  BY <1>1, StepWaitForDb, StepInspect, StepStamp, StepRunTransactional, StepEnterBlock,
     StepExecute, StepBump, StepFinish, StepInterrupt, StepUp
  DEF MigrationNext, Migrate

-------------------------------------------------------------------------------
LEMMA InvStep ==
  ASSUME Rerunnable, IInv, [Next]_deploymentVars
  PROVE  IInv'
<1>1. CASE MigrateContainer
  BY <1>1, StepMigrate
<1>2. CASE Simulator \/ Reconnects \/ BrokerReceives \/ UNCHANGED deploymentVars
  <2>1. UNCHANGED <<migrationVars, serving, subscribed>>
    BY <1>2 DEF Simulator, Reconnects, BrokerReceives, deploymentVars, servicesVars
  <2> QED
    BY <2>1, InvUnchanged
<1>3. CASE StartServices
  <2>1. UNCHANGED <<migrationVars, subscribed>> /\ serving' = TRUE /\ pc = "done"
    BY <1>3 DEF StartServices
  <2> QED
    BY <2>1 DEF migrationVars, IInv, Typed, DbHonest, TxHonest, Stages, Gated,
       is_pre_alembic_m2, Current
<1>4. CASE IngestionSubscribes
  <2>1. UNCHANGED <<migrationVars, serving>> /\ subscribed' = TRUE /\ serving
    BY <1>4 DEF IngestionSubscribes
  <2> QED
    BY <2>1 DEF migrationVars, IInv, Typed, DbHonest, TxHonest, Stages, Gated,
       is_pre_alembic_m2, Current
<1>5. CASE BrokerRestarts
  <2>1. UNCHANGED <<migrationVars, serving>> /\ subscribed' = FALSE
    BY <1>5 DEF BrokerRestarts
  <2> QED
    BY <2>1 DEF migrationVars, IInv, Typed, DbHonest, TxHonest, Stages, Gated,
       is_pre_alembic_m2, Current
<1> QED
  BY <1>1, <1>2, <1>3, <1>4, <1>5 DEF Next

LEMMA Invariance ==
  ASSUME Rerunnable
  PROVE  Spec => []IInv
<1>1. Init => IInv
  BY InvInit
<1>2. IInv /\ [Next]_deploymentVars => IInv'
  BY InvStep
<1> QED
  BY <1>1, <1>2, PTL DEF Spec

(* docs/storage.md, "Non-transactional revisions are re-runnable": no run   *)
(* of migrate.py on what any release or any killed run left is refused a   *)
(* statement.                                                              *)
THEOREM MigrationNeverRefused ==
  ASSUME Rerunnable
  PROVE  Spec => []NeverRefused
<1>1. IInv => NeverRefused
  BY NoRefusal DEF NeverRefused
<1> QED
  BY <1>1, Invariance, PTL

(* Wherever a kill leaves the database, alembic_version claims what is     *)
(* there, and the stamp of migrate.py is true.                             *)
THEOREM MigrationHonest ==
  ASSUME Rerunnable
  PROVE  Spec => []VersionHonest
<1>1. IInv => VersionHonest
  <2> SUFFICES ASSUME IInv PROVE VersionHonest
    OBVIOUS
  <2>1. CASE db.version = 0
    BY <2>1, UpToFacts, ChainFacts DEF IInv, DbHonest, VersionHonest, Baseline
  <2>2. CASE db.version # 0
    BY <2>2 DEF IInv, DbHonest, VersionHonest, Partial
  <2> QED
    BY <2>1, <2>2
<1> QED
  BY <1>1, Invariance, PTL

(* docker-compose.yml: ingestion, gated on the success of migrate, never   *)
(* meets a schema that is not at head, nor does the broker hold messages   *)
(* for one that would.                                                     *)
THEOREM IngestionAfterSchema ==
  ASSUME Rerunnable
  PROVE  Spec => []IngestionNeverRacesSchema
<1>1. IInv => IngestionNeverRacesSchema
  BY DEF IInv, Gated, DbHonest, IngestionNeverRacesSchema
<1> QED
  BY <1>1, Invariance, PTL
===============================================================================
