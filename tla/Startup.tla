------------------------------- MODULE Startup --------------------------------
(***************************************************************************)
(* How a backend container takes possession of a database: wait for it,    *)
(* look whether it is this project's, migrate it, look again, serve.       *)
(* Containers of several releases start, die and restart beside each       *)
(* other, and somebody else may use or edit the database in between.       *)
(*                                                                         *)
(* Of a table there is its shape, which an inspection compares (columns    *)
(* with their types, indexes, unique and foreign keys), and its rules,     *)
(* which it does not (CHECK constraints and server defaults): each is the  *)
(* number of the last revision that changed it.  A revision is its place   *)
(* in the lineage, 0 where there is none.                                  *)
(***************************************************************************)
EXTENDS Integers, Sequences, FiniteSets, FiniteSetsExt

CONSTANTS
    Containers,
    HeadOf,      \* container |-> the head revision of its image
    Edits,       \* what somebody else may do: [table, part, to]; to is 0 (dropped) or a
                 \*   mark on the part, "shape" or "rules"
    MaxEdits     \* BOUND

ASSUME StartupAssumption ==
    /\ \A c \in Containers : HeadOf[c] \in 1..11
    /\ MaxEdits \in Nat

VARIABLES
    present,     \* the target database exists
    revision,    \* the row of alembic_version; 0 before the first migration
    schema,      \* the tables that are there, each with its [shape, rules]
    container,   \* per container: [at, seen], seen is the revision its migration began from
    edits,       \* history: the edits made since a container last passed its last check
    touched      \* history: the tables that were ever edited by hand

startupVars == <<present, revision, schema, container, edits, touched>>

-----------------------------------------------------------------------------
(* The lineage: per revision the tables whose shape or whose rules it       *)
(* creates or changes.                                                      *)

CoreTables ==
    {"fund_contract", "exposure_family", "ingestion_run", "fund_share", "fund_report",
     "fund_exposure_family"}
ReportTables ==
    {"report_asset_allocation", "report_country_allocation", "report_industry_allocation",
     "report_security_holding"}
HoldingTables == {"report_fund_holding", "report_derived_metrics"}
RelationAndMarketTables == {"fund_relation", "daily_fund_nav", "daily_exchange_price"}
ProvenanceTables == {"source_artifact", "data_quality_issue"}
AllocationTables ==
    {"report_asset_allocation", "report_country_allocation", "report_industry_allocation"}
LimitTables == {"daily_purchase_limit"}
FeeTables == {"daily_fund_fee"}
PositionTables == {"portfolio_position", "portfolio_cash_flow"}
RateTables == {"daily_exchange_rate"}
RegionTables == {"fund_contract"}
OperationTables == {"data_operation"}
ExecutionTables == {"portfolio_recurring_execution", "data_operation"}
OrderTables == {"portfolio_recurring_order", "portfolio_position", "data_operation"}
UnitsTables == {"portfolio_position"}
LookbackTables == {"data_operation"}

ShapeAndRules(tables) == [shape |-> tables, rules |-> tables]
ShapeOnly(tables) == [shape |-> tables, rules |-> {}]
RulesOnly(tables) == [shape |-> {}, rules |-> tables]

Lineage ==
    <<ShapeAndRules(CoreTables \cup ReportTables \cup HoldingTables
                        \cup RelationAndMarketTables \cup ProvenanceTables),
      ShapeOnly(AllocationTables), ShapeAndRules(LimitTables),
      ShapeAndRules(FeeTables \cup PositionTables), ShapeAndRules(RateTables),
      ShapeOnly(RegionTables), ShapeAndRules(OperationTables), ShapeAndRules(ExecutionTables),
      ShapeAndRules(OrderTables), ShapeAndRules(UnitsTables), RulesOnly(LookbackTables)>>

\* The tables of a revision, as a release whose head it is declares them too.
TablesAt(r) == UNION {Lineage[i].shape : i \in 1..r}
SchemaAt ==
    [r \in 0..Len(Lineage) |->
        [t \in TablesAt(r) |-> [shape |-> Max({i \in 1..r : t \in Lineage[i].shape}),
                                rules |-> Max({i \in 1..r : t \in Lineage[i].rules})]]]

\* A migration creates what it is the first to touch; that may not be there before.
CreatedBetween(from, to) == TablesAt(to) \ TablesAt(from)

-----------------------------------------------------------------------------
(* inspect_database.                                                        *)

Fingerprints == {"fund_contract", "fund_share", "ingestion_run", "source_artifact"}

Unmanaged(tables, head) == tables \ TablesAt(head)

\* compare_metadata; of CHECK constraints and server defaults it says nothing.
HasShapeOf(head) ==
    /\ DOMAIN schema = TablesAt(head)
    /\ \A t \in TablesAt(head) : schema[t].shape = SchemaAt[head][t].shape

DatabaseState(head) ==
    LET tables == DOMAIN schema
        managed == /\ revision \in 1..head
                   /\ Unmanaged(tables, head) = {}
                   /\ Fingerprints \subseteq tables
                   /\ revision = head => HasShapeOf(head)
    IN IF tables = {} /\ revision = 0 THEN "EMPTY" ELSE IF managed THEN "MANAGED" ELSE "CONFLICT"

\* database_readiness, of a container that serves.
Ready(c) == revision = HeadOf[c] /\ "fund_contract" \in DOMAIN schema

-----------------------------------------------------------------------------

StartupInit ==
    /\ present = FALSE /\ revision = 0 /\ schema = [t \in {} |-> 0]
    /\ container = [c \in Containers |-> [at |-> "down", seen |-> 0]]
    /\ edits = [c \in Containers |-> 0] /\ touched = {}

Move(c, place) == container' = [container EXCEPT ![c].at = place]

\* provision_database, authorized: of two that find no database one creates it and the
\* other is told it is there.
Provision ==
    /\ ~ present /\ present' = TRUE
    /\ UNCHANGED <<revision, schema, container, edits, touched>>

\* wait_for_db; without a database the container exits and is started again.
WaitForDb(c) ==
    /\ container[c].at = "down" /\ present
    /\ Move(c, "waited")
    /\ UNCHANGED <<present, revision, schema, edits, touched>>

\* database_preflight; "&&" ends the start where it answers with an error.
Preflight(c) ==
    /\ container[c].at = "waited"
    /\ Move(c, IF DatabaseState(HeadOf[c]) = "CONFLICT" THEN "down" ELSE "inspected")
    /\ UNCHANGED <<present, revision, schema, edits, touched>>

\* alembic upgrade head reads the revision and migrates in one transaction.
BeginMigration(c) ==
    /\ container[c].at = "inspected"
    /\ container' = [container EXCEPT ![c] =
          IF revision \in 0..HeadOf[c] THEN [at |-> "migrating", seen |-> revision]
          ELSE [at |-> "down", seen |-> 0]]
    /\ UNCHANGED <<present, revision, schema, edits, touched>>

\* The transaction can only be committed if no other migration was, if what it creates
\* is not there, and if what it changes is.
MigrationFits(c) ==
    LET from == container[c].seen
    IN /\ revision = from
       /\ CreatedBetween(from, HeadOf[c]) \cap DOMAIN schema = {}
       /\ \A i \in (from + 1)..HeadOf[c] :
             Lineage[i].shape \cup Lineage[i].rules
                 \subseteq CreatedBetween(from, HeadOf[c]) \cup DOMAIN schema

\* What the revisions between make of a table; what somebody changed stays otherwise.
Renewed(now, was, will) == IF now = was THEN will ELSE now
Migrated(t, from, to) ==
    [shape |-> Renewed(schema[t].shape, SchemaAt[from][t].shape, SchemaAt[to][t].shape),
     rules |-> Renewed(schema[t].rules, SchemaAt[from][t].rules, SchemaAt[to][t].rules)]

CommitMigration(c) ==
    /\ container[c].at = "migrating" /\ MigrationFits(c)
    /\ LET from == container[c].seen
           created == CreatedBetween(from, HeadOf[c])
       IN schema' = [t \in DOMAIN schema \cup created |->
                        IF t \in created THEN SchemaAt[HeadOf[c]][t]
                        ELSE IF t \in TablesAt(from) THEN Migrated(t, from, HeadOf[c])
                        ELSE schema[t]]
    /\ revision' = HeadOf[c]
    /\ Move(c, "migrated")
    /\ UNCHANGED <<present, edits, touched>>

\* It does not fit, or fails: rolled back, and the start ends.
MigrationFails(c) ==
    /\ container[c].at = "migrating" /\ Move(c, "down")
    /\ UNCHANGED <<present, revision, schema, edits, touched>>

\* Faulty variant: the start does not look again.
MayServe_AtOnce(c) == TRUE

MayServe(c) == DatabaseState(HeadOf[c]) = "MANAGED" /\ revision = HeadOf[c]

\* database_preflight --require-head, and the server starts.
RequireHead(c) ==
    /\ container[c].at = "migrated"
    /\ Move(c, IF MayServe(c) THEN "serving" ELSE "down")
    /\ edits' = [edits EXCEPT ![c] = 0]
    /\ UNCHANGED <<present, revision, schema, touched>>

Die(c) ==
    /\ container[c].at # "down" /\ Move(c, "down")
    /\ UNCHANGED <<present, revision, schema, edits, touched>>

\* Another application, or somebody by hand.
EditSchema(edit) ==
    /\ present /\ \A c \in Containers : edits[c] < MaxEdits
    /\ edit.to = 0 \/ edit.part = "rules" => edit.table \in DOMAIN schema
    /\ schema' = IF edit.to = 0 THEN [t \in DOMAIN schema \ {edit.table} |-> schema[t]]
                 ELSE [t \in DOMAIN schema \cup {edit.table} |->
                          IF t # edit.table THEN schema[t]
                          ELSE IF t \in DOMAIN schema
                               THEN [schema[t] EXCEPT ![edit.part] = edit.to]
                          ELSE [shape |-> edit.to, rules |-> edit.to]]
    /\ edits' = [c \in Containers |-> edits[c] + 1]
    /\ touched' = touched \cup {edit.table}
    /\ UNCHANGED <<present, revision, container>>

StartupNext ==
    \/ Provision
    \/ \E c \in Containers :
          \/ WaitForDb(c) \/ Preflight(c) \/ BeginMigration(c) \/ CommitMigration(c)
          \/ MigrationFails(c) \/ RequireHead(c) \/ Die(c)
    \/ \E edit \in Edits : EditSchema(edit)

StartupSpec == StartupInit /\ [][StartupNext]_startupVars

-----------------------------------------------------------------------------

\* Whatever raced with its start, a container that serves and answers that it is
\* ready does so on the tables of its own release, each of the release's shape, unless
\* somebody edited them after it began to serve.  Rules nobody compares: a table has
\* those of the release too if it was never edited by hand, however migrations of
\* several releases raced, died and were rolled back.  And while no revision is set,
\* no table of a migration is there.
ServesItsOwnSchema ==
    /\ \A c \in Containers :
          (container[c].at = "serving" /\ Ready(c) /\ edits[c] = 0) =>
              /\ HasShapeOf(HeadOf[c])
              /\ \A t \in TablesAt(HeadOf[c]) \ touched : schema[t] = SchemaAt[HeadOf[c]][t]
    /\ revision = 0 => DOMAIN schema \subseteq touched
=============================================================================
