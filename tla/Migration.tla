------------------------------- MODULE Migration ------------------------------
(***************************************************************************)
(* The one-shot migrate container (migrate.py, migrations/env.py): wait    *)
(* for the database, stamp one that predates Alembic, then run the         *)
(* revisions it lacks, whatever release left the database, and again on    *)
(* every "up" after a failure or a kill.                                   *)
(*                                                                         *)
(* Alembic (external) runs all revisions in one transaction.  A revision's *)
(* autocommit block first commits what came before it, then each of its    *)
(* statements alone; the version row is bumped after the block, in a new   *)
(* transaction.  db is what is committed, tx what the run itself sees.     *)
(***************************************************************************)
EXTENDS Integers, Sequences

CONSTANTS
  Chain,          \* the revisions in order; see Revisions
  Roles           \* what belongs to the cluster and outlives a database

Revision    == DOMAIN Chain
HeadVersion == Len(Chain)
Baseline    == 1                   \* BASELINE_REVISION; 0: no version table

StatementsOf(r) == DOMAIN Chain[r].statements
MadeBy(r) == {Chain[r].statements[i].makes : i \in StatementsOf(r)}
UpTo(v)   == UNION {MadeBy(r) : r \in 1 .. v}

ASSUME MigrationAssumption ==
  /\ Chain \in Seq([autocommit: BOOLEAN,
                    statements: Seq([makes: STRING, needs: SUBSET STRING,
                                     guarded: BOOLEAN, empty: BOOLEAN])])
  /\ Chain # <<>>
  /\ Roles \subseteq STRING

VARIABLES
  db,          \* committed: the schema's objects and alembic_version
  tx,          \* the same as the run's own connection sees it
  rows,        \* whether telemetry holds rows; migrate deletes none
  pc,          \* where the run is, or how it ended
  block,       \* whether an autocommit block is open
  stmt         \* the next statement of that block

migrationVars == <<db, tx, rows, pc, block, stmt>>

Ended == {"done", "interrupted"}

MigrationTypeOK ==
  /\ {db.version, tx.version} \subseteq 0 .. HeadVersion
  /\ db.objects \cup tx.objects \subseteq UpTo(HeadVersion) \cup Roles
  /\ rows \in BOOLEAN
  /\ pc \in Ended \cup {"wait_for_db", "inspect", "stamp", "upgrade"}
  /\ block \in BOOLEAN
  /\ stmt \in Nat \ {0}

(* What an earlier release, or none, left in the volume: the M2 init       *)
(* script's tables are those of the baseline, without a version.           *)
Left(version, objects) == [version |-> version, objects |-> objects]
Volumes ==
  {Left(0, {}), Left(0, MadeBy(Baseline))} \cup {Left(v, UpTo(v)) : v \in Revision}

MigrationInit ==
  /\ \E left \in Volumes, roles \in SUBSET Roles :
       db = [left EXCEPT !.objects = @ \cup roles]
  /\ rows = ("telemetry" \in db.objects)   \* empty tables only refuse less
  /\ tx = db
  /\ pc = "wait_for_db"
  /\ block = FALSE
  /\ stmt = 1

-------------------------------------------------------------------------------
(* upgrade() up to the first revision.                                     *)

WaitForDb ==
  /\ pc = "wait_for_db"
  /\ pc' = "inspect"
  /\ UNCHANGED <<db, tx, rows, block, stmt>>

is_pre_alembic_m2 == "telemetry" \in db.objects /\ db.version = 0

Inspect ==
  /\ pc = "inspect"
  /\ pc' = IF is_pre_alembic_m2 THEN "stamp" ELSE "upgrade"
  /\ UNCHANGED <<db, tx, rows, block, stmt>>

Stamp ==
  /\ pc = "stamp"
  /\ db' = [db EXCEPT !.version = Baseline]
  /\ tx' = db'
  /\ pc' = "upgrade"
  /\ UNCHANGED <<rows, block, stmt>>

-------------------------------------------------------------------------------
(* command.upgrade(config, "head").                                        *)

Current == Chain[tx.version + 1]

Upgrading == pc = "upgrade" /\ tx.version < HeadVersion

(* Mutant: the version is committed before the statements of the block.    *)
BugVersionFirst ==
  /\ Upgrading /\ Current.autocommit /\ ~block
  /\ db' = [tx EXCEPT !.version = @ + 1]
  /\ block' = TRUE
  /\ UNCHANGED <<tx, rows, pc, stmt>>

EnterBlock ==
  /\ Upgrading /\ Current.autocommit /\ ~block
  /\ db' = tx
  /\ block' = TRUE
  /\ UNCHANGED <<tx, rows, pc, stmt>>

(* PostgreSQL refuses to create what exists, unless guarded, to refer to   *)
(* what does not, or to convert a table with rows unless told to move them. *)
Refused(s, present) ==
  \/ s.makes \in present /\ ~s.guarded
  \/ ~(s.needs \subseteq present)
  \/ s.empty /\ rows

(* What is there for statement i of the revision being run.                *)
Before(i) == tx.objects \cup {Current.statements[j].makes : j \in 1 .. i - 1}

(* All of a transactional revision, and the version: no one sees part of   *)
(* it, and nothing of it outlives the transaction.                         *)
RunTransactional ==
  /\ Upgrading /\ ~Current.autocommit
  /\ \A i \in DOMAIN Current.statements : ~Refused(Current.statements[i], Before(i))
  /\ tx' = [objects |-> tx.objects \cup MadeBy(tx.version + 1), version |-> tx.version + 1]
  /\ UNCHANGED <<db, rows, pc, block, stmt>>

(* A statement of an autocommit block commits by itself.                   *)
Execute ==
  /\ Upgrading /\ block
  /\ stmt \in DOMAIN Current.statements
  /\ ~Refused(Current.statements[stmt], tx.objects)
  /\ tx' = [tx EXCEPT !.objects = @ \cup {Current.statements[stmt].makes}]
  /\ db' = [db EXCEPT !.objects = @ \cup {Current.statements[stmt].makes}]
  /\ stmt' = stmt + 1
  /\ UNCHANGED <<rows, pc, block>>

(* The block is left, and the version is bumped in a new transaction.      *)
Bump ==
  /\ Upgrading /\ block
  /\ stmt = Len(Current.statements) + 1
  /\ tx' = [tx EXCEPT !.version = @ + 1]
  /\ stmt' = 1
  /\ block' = FALSE
  /\ UNCHANGED <<db, rows, pc>>

Finish ==
  /\ pc = "upgrade" /\ tx.version = HeadVersion
  /\ db' = tx
  /\ pc' = "done"
  /\ UNCHANGED <<tx, rows, block, stmt>>

(* A statement of the revision at hand would be refused, and raise.        *)
Refusal ==
  /\ Upgrading
  /\ IF Current.autocommit
     THEN block /\ stmt \in DOMAIN Current.statements /\ Refused(Current.statements[stmt], tx.objects)
     ELSE \E i \in DOMAIN Current.statements : Refused(Current.statements[i], Before(i))

(* The run ends early and its open transaction is rolled back: a kill, the *)
(* database gone (wait_for_db gives up, a statement fails), a refusal.     *)
Interrupt ==
  /\ pc \notin Ended
  /\ pc' = "interrupted"
  /\ tx' = db
  /\ block' = FALSE
  /\ stmt' = 1
  /\ UNCHANGED <<db, rows>>

(* "docker compose up" runs the container again.                           *)
Up ==
  /\ pc \in Ended
  /\ pc' = "wait_for_db"
  /\ UNCHANGED <<db, tx, rows, block, stmt>>

Migrate ==
  \/ WaitForDb \/ Inspect \/ Stamp \/ RunTransactional
  \/ EnterBlock \/ Execute \/ Bump \/ Finish

MigrationNext == Migrate \/ Interrupt \/ Up
===============================================================================
