# QDII Observatory: specifications

TLA+ models of QDII Observatory (`src/`), the configurations with which TLC checks
them on small instances, and theorems about them checked by TLAPS. Definitions are
translated from the code; `PROJECT.json` names, for every definition that stands for
code, the file and lines it stands for.

Contents: [system](#1-the-system), [modules](#2-modules), [runs](#3-runs-and-bounds),
[fairness](#4-fairness), [proofs](#5-proofs), [findings](#6-findings),
[left out](#7-what-is-not-modelled), [plan](#8-plan).

To repeat the checks in this directory:

    tlc -workers 2 -config OperationQueue_safety.cfg MCOperationQueue.tla
    tlapm OperationQueueProofs.tla
    tlapm StoredDataProofs.tla

## 1. The system

A backend (FastAPI, PostgreSQL), a worker process and a web frontend that keep NAVs,
exchange prices, purchase limits, fees and quarterly reports of a user's QDII funds,
together with the user's positions and recurring investment plans. Compose runs one
backend, one worker and one database; an operator runs `qdii` commands in the backend
container beside them.

| Component (code under `backend/app/`) | State | Operations | Talks to |
| --- | --- | --- | --- |
| Operation queue and worker: `operation_queue.py`, `operation_worker.py`, `api.py` 640-676 and 930-1100 | `data_operation`: status, `active_slot` (UNIQUE), stage, counts, times | enqueue, answer with a finished operation, archive, recover, claim, run a stage, complete, fail | handlers and worker meet in the table only; stages call the pipelines |
| Recurring orders: `portfolio_recurring.py` | `portfolio_recurring_order`, `portfolio_recurring_execution` | create the day's orders, settle, say whether work is due | run by the daily stage; read by the enqueue handler; reset by the import |
| Portfolio import: `portfolio_import.py`, `portfolio.py`, `api.py` 1209-1315 | `portfolio_position`, cash flows | preview, commit, restore the selection when a commit fails | imports funds, NAVs and positions in several commits |
| Ingestion runs: `ingestion/runs.py` | `ingestion_run`, `data_quality_issue` | start, record an issue, resolve, finish | used by every pipeline |
| NAV and prices: `ingestion/nav_pipeline.py` | `daily_fund_nav`, `daily_exchange_price` | upsert a window per share | its NAVs anchor positions and settle orders |
| Reports: `ingestion/report_pipeline.py` | `fund_report` and its allocation and holding rows | sync, parse | rows feed the look-through |
| Look-through: `ingestion/lookthrough.py`, `coverage.py` | derived exposure rows | calculate for a period, classify | run at the end of every parse |
| Active universe: `ingestion/catalog_pipeline.py`, `ingestion/fund_grouping.py` | `fund_contract`, `fund_share_class`, `is_user_selected` | import per code, group shares under a contract, archive | every operation names funds by representative code |
| Limits: `ingestion/limit_pipeline.py`, `providers/limits.py`, `api.py` 2190-2315 | `daily_purchase_limit` | parse notices and pages, replace a snapshot, audit, list | a stage; the audit raises quality issues |
| Fees and rates: `ingestion/fee_pipeline.py`, `fx_pipeline.py` | snapshots, `daily_exchange_rate` | sync | stages and command line; rates feed the valuation |
| Archive and HTTP: `ingestion/archive.py`, `http.py` | files named after their hash, `source_artifact` | ask with retries, write, rename, add a row | under every pipeline |
| Start-up: `database_provision.py`, `database_preflight.py`, `docker/backend.Dockerfile` | the schema and its revision | provision, classify, migrate | before backend and worker |
| Read side: valuation in `api.py`, `period_returns.py`, `active_tech_dashboard.py`, `q2_analysis/`, frontend | none of its own | value, compare, predict, present | everything above |

What is hard here is not computed in one place. It lies between transactions:

- *The slot.* Whatever a user triggers becomes a row, one row at a time may be queued or
  running, and only the worker may move it. Two requests race for the slot, an archive
  request reads it without a lock, the worker may die on any line, and an operation
  of the day may answer a new request only if nothing it would do is due.
- *Long sessions.* Sessions are `autoflush=False, expire_on_commit=False`
  (`database.py:40`): a query does not see what the session has pending, and an object
  keeps the values it was loaded with over a commit. PostgreSQL's READ COMMITTED shows
  each statement what others have committed by then. What one loaded may be out of date
  when it commits.
- *Commits per item.* A pipeline commits every share or fund on its own, so that one
  failure does not lose the others; runs, issues, rows and statuses must agree at every
  commit, since the process may die there.
- *Rows that are not there yet.* A NAV is published days late, a price provider has no series, a
  rate is of last week. What is shown must be right about the rows there are and silent about
  the others, and must not change for a past day because of a later one.
- *Command-line processes.* `qdii sync-daily`, `sync-reports` and `parse-reports`
  (`cli.py` 360-450) run the same pipelines without taking the slot, as
  `docs/daily-operations.md` tells the operator to.

What makes each component correct, in a line each: the queue has one active operation,
which ends once, honestly, and never runs a stage twice; an order settles once, at the NAV
of its own date, from the plan it was made of; issues that are open are failures that
persist; a report called parsed has the rows of the document it names; look-through
weights are neither lost nor made up; an import leaves all of a file or none of it
selected; a synced window of NAVs has no hole and its premiums are of its own NAVs; a cap that is
shown is one that a source states of that share, and no issue means that the snapshot is
whole; a row in the archive's table names a file that is whole; a container serves the schema of its
own release only; a sum over positions is of all of them; returns side by side are of the same
days; a verdict on a day uses nothing that came after it.
`PROJECT.json` "hazards" lists, line by line, where these may break.

## 2. Modules

One action is one database transaction, or the part of one that ends at a call of a
provider, a lock or a statement another process can overtake. A handler that has
answered, or a process that has ended, forgets its local data. Operators whose name
has an underscore (`Recover_Requeues`) are variants with a plausible mistake; nothing
uses them, and each is there to show that a property notices the mistake.

**OperationQueue** models the rows of `data_operation`, the API handlers (`pc[c]`, with their
request in `req[c]`) and the worker (`wpc`, `wop`, `windex`, `wresults`: the local
variables of `execute_operation`). `SubmitOperation, ReadInputs, CheckPending,
ReuseCompleted / NothingToReuse, InsertOperation / InsertRefused, ExplainConflict` are the
statements of `_enqueue_data_operation` and `enqueue_operation` in their order;
`CheckArchive, CommitArchive` those of `archive_fund`; `Recover, Claim, BeginStage,
RunStage, RecordStage, StageRaises, FailOperation, CompleteOperation` are the worker's.
`Crash` may follow any step of the worker; `Restart` is Compose's `restart:
unless-stopped`. Of what a stage does the queue's module keeps one thing, the
recurring work that is due (`due`), since an answer with a finished operation depends
on it. `begun`, `dueSince` and `outcomes` are history.

**SerialOperations** is what the queue promises: jobs accepted one at a time, each
advancing in recorded stages and ending once, `failed` unless all its stages are
complete. No slot, no worker, no crash. `OperationQueue` implements it under `Phase`,
`Outcome`, `Needed` (`PromiseKept`), with fairness as well (`PromiseKeptFairly`).

**RecurringOrders** has one daily stage of the worker (`LoadPlans, CreateOrders, LoadOrders,
SettleOrders`, or `StageAborted`) and one import of a position (`LoadPosition,
WritePosition`, or `ImportRefused`). Each pair splits a transaction into what it loads and
what it commits. Deletions are by primary key of what was loaded; an UPDATE of a row
that is gone raises (`StaleDataError`), which is why `SettleOrders` demands that its
orders still exist; and an execution that a settled order refers to cannot be
deleted without it (`settlement_state_complete`), which is the guard of `WritePosition`.
Orders and executions share their key, position and date. `StoreNav` is whoever
stores or revises a NAV. `PlansPending` is `recurring_plans_pending`, by which the queue's
`CheckPending` decides; `DueKeys` is what a stage would really do. `wdue` is history: what of it was due
when the stage loaded its plans and no import has rewritten since, which `DueIsDone` holds against what the
stage has done when it commits, three transactions later.

**IngestionRuns** is the loop NAV, price and fee pipelines share. `Fetch` loads what the
transaction of a share reads; `Store` or `Report` commits it. `pipeline` picks one of the two
disciplines: fees commit their run at once and roll back a share that failed, NAVs and
prices do neither, so for them a row refused by a unique constraint ends the run
(`StoreRefused`). Two processes may run at a time; `Die` leaves the run 'running'.

**ReportPipeline** follows a report per fund: what the provider has `published`, the version
the disclosure fields are of (`disclosed`), the archived `document`, and the version its
`rows` and each `lookthrough` come from. A process has a program counter, the fund whose
`turn` it is and the column values its session `loaded`: a commit writes a column only
if the session set it to something else than it had loaded (`Column`). A failed
parse rolls back and thereby expires the session, so later funds are loaded anew (the
labels `reopen`, `reparse`). The worker runs syncs and parses one at a time; `Commands` are
processes of `qdii sync-reports`.

**Lookthrough** is `weighted_lookthrough` as a recursive function over paths, next to a
definition without recursion: sums over the ways through the graph of products of weights. `Visits` has an
entry for every path, which is the code's recursion with its path set as the argument. The state is the graph `_build_nodes` reads; TLC visits every small graph.
Percentages are integers in units that keep every product exact, where the code has
decimals rounded when stored.

**FundUniverse** keeps `fund_contract` (representative code, grouping key, the two flags) and the owner
of every share code. A transaction works on a `Store`, the tables as a value. `Upserted` is
`import_universe`, shared by the catalog import (`Upsert`, one row) and the universe files, whose rows get
their contracts by `Assignments`; `Absorb` is `merge_contract_group`, for one group of contracts (`Merge`) or for
all groups that `Reconcile` finds.
`MatchCode` is what the transaction of a code loads, `CommitCode` what it commits or `CommitFails` its
rollback; `Preview, ReadStates`, the imports of the codes to add, `SelectPositions` and
`WritePositions` or `Restore` are `_commit_portfolio_workbook`. `Archive, ImportFile, Reconcile,
AddDependency` are the other writers. Names are abstracted to the key they give, and
`share_priority` to a rank of the code. `alone` (nobody else has written since the request
began), `merged`, `was` and `raced` are history.

**NavHistory** is `sync_nav` of one share, by a daily sync or a backfill: `StartDaily` fixes the window that ends
today and `StartBackfill` any window (`qdii backfill-nav`, and the NAVs a portfolio file lacks), `FetchPage` takes one
page of a source that may `PublishNav` between two pages, `StoreNavs` commits the rows and, of a daily sync,
`StorePrices` the prices. A return is abstracted to the NAV it is relative to, so the chain of calculated returns
is visible. The stored window is that of one moment of the source, or an issue says otherwise
(`SyncedWindowIsWhole`), and a return relative to the row before it stays so whatever window is written next
(`ReturnsStayCurrent`), but for the first row after a backfill.

**PurchaseLimits** takes a notice and a distributor's page as records of what the regular
expressions look for. `NoticeRecords` with `TableLimits` is `parse_direct_limit_notice`: per line of business
(`Businesses`) its `BusinessRecords`, of all channels (`AllChannels`) or of the manager's own and the others'
(`DirectAmount`, `OthersAmount`). `InForce` is the choice of notices, `NextInOrder` whose turn it is, `PageRecords` the distributor's page; `DirectFund`, `DistributionShare`, `AuditShare` are the commits of a
run of all shares or of some funds' (`StartLimits`, the code's `fund_codes`), which may cross `Midnight` or die
(`LimitSyncDies`). `AuditDay` is the newest day of the run's shares, `NewestDay` that of all, by which the coverage page
counts, and `OwnDay` that of one, by which the list of funds shows. `ShownLimits` and `ListedLimit` are what the API answers, which the
properties compare with the texts.

**RawArchive** has an answer that is asked for with retries, a temporary file, a rename and a
row, by processes that may die between any two.

**Startup** has the lineage of migrations (`Lineage`), the classes of `database_preflight.py` as `DatabaseState`, and
containers of several releases that `Provision`, `Preflight`, migrate and `RequireHead`, while somebody edits the
schema. All the revisions a container applies are of one transaction (`migrations/env.py:46`). A table has a `shape`
(columns, indexes, unique and foreign keys), which Alembic's `compare_metadata` compares, and `rules` (CHECK constraints
and server defaults), which it does not: migration 0011 changes nothing but a CHECK, so that the inspection
cannot tell a database of revision 10 from one of 11 except by its revision.

**PortfolioValuation** is `GET /portfolio` as operators: `Valuation` of a position, `CurrencySummary`,
`ConvertedSummary`, over NAVs, orders and rates that come in any order. Money is in parts of a cent, so
that rounding is the code's. **PeriodReturns** is the table of the dashboard: one end day for
all funds, a baseline per period. **HoldingsReview** is `q2_analysis`: which funds are in scope,
which days align, the prediction from reported holdings, its interval from residuals before
the day, the verdict, and the prediction for the portfolio. Prices are logarithms there, which turns
returns into differences and keeps everything integer. All three read the rows in one step:
a request is one transaction, and nothing is written.

**SqlNull** has what a comparison, a sum and a maximum make of a missing value.

The `MC...` modules give requests, files and symmetry sets to TLC. Components that share no row
in an instance are explored by one run, each alone: `MCStoredData` (four that write),
`MCSyncs` (three that sync a part of what is stored) and `MCReadSide` (four that compute) have a variable `part`, chosen in the initial state, and all but that
part stands still. The run's states are the sum of the parts' states, and its properties hold of
each part as they would in a run of its own.

The theorems are in modules that end in `Proofs`, one per component but for two:
`StoredDataProofs` holds those of what is fetched and stored (NavHistory, PurchaseLimits, RawArchive,
Startup) and `ReadSideProofs` those of what the read side computes (PeriodReturns, HoldingsReview,
PortfolioValuation). `LookthroughProofs` extends the latter for its lemmas about sums.

## 3. Runs and bounds

| Run | Bounds | Question |
| --- | --- | --- |
| `OperationQueue_safety` | 2 clients, 1 fund, 2 operations, 2 crashes; a one-stage and a three-stage kind | Is there one active operation, none orphaned, no stage run twice, every outcome honest and final, the promise kept? |
| `OperationQueue_reuse` | 1 client, 2 funds, a plan for one, 2 operations, 2 days; all daily requests that differ in codes, window, force | Does an answer with a finished operation hide due work? |
| `OperationQueue_liveness` | 1 client, 2 operations, 1 crash | Does every accepted operation end and every request get its answer? |
| `IngestionRuns_processes` | 2 processes, 2 shares, 3 runs, 2 deaths, both disciplines | Do issues, statuses and rows agree, and do runs end? |
| `ReportPipeline_safety` | 2 funds, 2 versions of each document, the worker | Does "parsed" mean parsed from the document named; is every failure recorded; are look-throughs of one generation? |
| `ReportPipeline_disclosure`, `ReportPipeline_overlap` | 1 fund, 2 versions | findings |
| `FundUniverse_imports` | 3 share classes of one fund, 1 catalog and 1 portfolio import at a time, 2 universe files, 3 contracts | Do imports in any order, merges and files end in one contract per fund under its preferred share; is a failed portfolio import undone? |
| `FundUniverse_restore` | same, another share to import | finding |
| `StoredData`, orders | 1 position, 2 weekdays, 2 NAV values per day, files that state a plan, change it and pause it | Are settlements backed and final, is the reuse check complete, and what holds when import and stage do not overlap? |
| ..., limits | 1 fund with a share in CNY and one in USD, 5 fund pages, 3 distributor pages, 2 days | Is every cap shown one that a text states of that share; do days and channels stay apart? |
| ..., archive | 2 processes, 2 contents, 3 attempts | Does a row name a whole file whoever dies when? |
| ..., startup | 3 containers of 2 releases, the real lineage, 1 edit of a shape or a rule by hand | Does a container serve only the schema of its release, as far as it can know? |
| `Syncs`, reports | 1 fund, 2 versions, the worker and one `qdii sync-reports` | What still holds beside the command line? |
| ..., navs | 3 days, 2 records per day, 1 of them revised later, pages of 1 row or of all, daily syncs of today or of all days, 2 backfill windows, one of them amid other rows | Is a window that was synced without an issue whole, do its premiums and the returns follow the NAVs? |
| ..., limits | 2 funds of a share each, a notice or none, a distributor's cap, 2 days; syncs of one fund or of both, failures and deaths anywhere | Does silence of the audit mean that the share is listed and covered? |
| `ReadSide`, look-through | every graph of 3 reports, weights in halves, up to 150 %, depth 2 | Is the recursion the sum over ways; is weight lost, invented, or a cut-off called resolved? |
| ..., valuation | 2 positions, in CNY with a plan and in USD, 3 days, 2 NAV values, 2 days of rates | Is the daily profit the change of a day; do sums hide a row? |
| ..., returns | 2 funds, 3 shares, 3 days in 3 months and 2 quarters, 2 records per day | Are the returns side by side of the same days and from before the period? |
| ..., review | 2 funds, 3 shares, 1 security, 6 days with a weekend, levels, NAVs and rates late or never | Does a past verdict stand, and is what is left out said to be? |

Why these bounds are enough for the questions asked. A conflict over the slot needs two
requests and a third that meets what they left, so two operations and two clients; a
worker that dies twice can die in recovery. Reuse needs a finished operation, a day that
changes and a plan that comes due, and two funds so that sets of codes differ. An order
can be caught by an import between any two of the stage's three transactions; two
days give it an older order to meet, two values a revision. Two shares and
two processes suffice for a failure next to a success and for one row inserted twice; a
third run starts from what two earlier ones left, dead or not. Reports need two
versions for anything to be out of date, and two funds for look-throughs
that could disagree. Three share classes, each able to be
a contract of its own, are enough for a merge of two and a third that comes before, between or
after them; a portfolio file of two codes can fail at the second; the files bring the contracts that
imports alone do not make: two of one fund, and one under another name. Pages shift
under a reader as soon as one row is published between two pages, one revision makes a stored record differ
from its source, and three days give a
window with a day before it, one inside and one after it. Two shares of one fund are what a notice can
confuse, two funds what a sync of some funds leaves behind; two days are what midnight separates. Two processes suffice for a file that both
write, and three containers for two of one release that race and one of another that comes
between. Two positions, of which one lacks what the other has, are enough for a sum
to hide something; three days are a baseline, the newest day and one between. Three reports hold every kind of graph the code tells apart: a
chain, a diamond, a self-loop, a cycle of two and of three, a dead end, and a chain
as long as the depth.

The constants `MaxOps, MaxCrashes, MaxDay, MaxRuns, MaxContracts, MaxEdits, MaxRevisions, Versions` bound counters the code does
not bound; each occurs in the guard of the action that counts. Where a run switches
deadlock checking off, the model may really stop: all runs may have been used up
(`IngestionRuns`), or every row may have come (`ReadSide`). Symmetry
is used in safety runs only, over interchangeable clients, funds, reports and NAV values.

## 4. Fairness

Fairness is assumed of what runs by itself: the handlers of requests already received
(an ASGI server finishes what it began), the worker's loop and its restart by Compose
(`compose.yaml`, `restart: unless-stopped`), and pipelines that have started. That a
stage ends rests on the HTTP client's bounded attempts (`ingestion/http.py` 63-114). Users,
crashes, days, publications and imports are not fair: they may happen or not. In
particular `AcceptedFinishes` does not assume that crashes stop except by the
bound on them, and `RunsFinish` has to except runs whose process died.

## 5. Proofs

Every theorem is about the specification TLC runs, for all values of the constants that satisfy the named
assumptions of the module. The assumptions say what the code or its tables guarantee: numbers are
numbers, a code names one share, a calendar is ordered, a file is as `load_universe` leaves it.

| Module | Theorem | Says |
| --- | --- | --- |
| `OperationQueueProofs` | `TypeCorrect` | the worker's stage index never passes the last stage |
| | `OneActiveOperation` | at most one row is active, exactly that row has the slot |
| | `NoOrphans` | a running row is the live worker's, or recovery has yet to run |
| | `AtMostOnce` | no stage of an operation runs twice, across crashes and restarts |
| | `HonestOutcome`, `FinishedForGood` | a final status is backed by the stages' results, and is never written again |
| | `NothingDueIsHidden` | an answer with a finished operation hides no work that was due all along |
| | `Refinement` | `Spec => Promise!Spec` |
| `IngestionRunsProofs` | `FinishedRunsAreHonest` | a run's status is what happened to its shares |
| | `IssuesTellTheTruth` | while no runs overlap, an issue is open exactly if the last commit recorded a failure |
| `ReportPipelineProofs` | `SideBySide`, `ReadyIsFresh` | look-throughs are of one calculation, and when all is ready of the rows there are |
| | `RowsKept` | rows are replaced by newer ones or kept |
| | `BackedWhenAlone` | with no command beside the worker, "parsed" means parsed from the document named, and each failure has its issue |
| `RecurringOrdersProofs` | `SettlementSound` | a settled order has its execution, at a NAV of its date |
| | `NothingIsMissed` | `recurring_plans_pending` says yes whenever a stage would do something |
| | `OrdersStandStill`, `StageDoesWhatWasDue` | an order settles once; a stage that commits has done what was due when it began, whatever came between |
| `FundUniverseProofs` | `UniverseIsTyped` | one contract per representative, shares of contracts that exist |
| | `ImportsUnify` | an import that runs alone leaves one contract of the fund, selected |
| | `ImportsAreAllOrNothing` | a portfolio import selects all of its file or puts the flags back |
| | `RepresentativesArePreferred` | a fund's representative is its preferred share |
| `StoredDataProofs` | `WholeWindowsStored`, `PremiumsFollowNavs` | a sync without a failure has no hole, and premiums are of their day's NAV |
| | `ReturnsFollowTheRows` | a return that follows the row before it stays so but for the first row after a window |
| | `StatedCapsOnly`, `SilenceIsCoverage` | caps are stated; a share without an issue is listed whole until its next sync, and covered when its sync ends |
| | `WholeArchive` | a row names a whole file |
| | `OwnSchemaServed` | a container serves tables of the shape of its release, with its rules where nobody edited by hand |
| `ReadSideProofs` | `ReturnsMayBeCompared` | returns side by side are of the same days and of one kind of NAV |
| | `NoHindsight` | prediction and interval of a day are those computed from the rows of no later day, of all that is stored by now |
| | `DailyProfitIsExplained` | the daily profit is the change of the profit, up to the fee and the roundings |
| | `NothingIsHidden` | a sum over currencies is of every position, and so are daily sums and returns |
| | `NothingIsLeftOut` | a portfolio's prediction is of all that is held, within the predictions; a fund's row is of days all its shares have |
| `LookthroughProofs` | `FlagsAreHonestAlways` | a report is flagged exactly if a way leads back to itself, and one called resolved has no dead end |
| | `ExposureIsExactAlways` | exposure is the sum over ways of products of weights; unresolved weight, coverage and exposure account for the whole |

Each follows from an inductive invariant, checked by TLC on the component's run before the proof, and
one lemma per action. What is listed is seldom inductive; what had to be added says why it holds:

- *Queue*, `IInv`. `RowsInOrder`: ids have no gaps, so the row an INSERT adds is the newest. `FreshRows`: a
  row not yet worked on has no stage begun or recorded, which `AtMostOnce` needs at the claim.
  `WorkerAgrees`: the worker's local variables agree with the row it executes. The refinement maps a
  step of the worker or an INSERT to the step of the same name and everything else to a stutter.
  `DueIsRemembered`, beside it: what a request remembers as due is due still, and once it looks for a
  finished operation none of its own funds is among it.
- *Runs*, `RunsInv`. `RunsInOrder`: a run under way belongs to one process and is not finished, and
  has committed exactly the shares that are not left, as failed those the process remembers, so that the end of the
  loop means all. `AloneIsHonest`: without overlap one process at most is at work, what it has loaded of
  its share's issues is what is open, and that is at most one. The model bounds issue ids; `IssuesAreCounted`, no issue without a commit that failed, shows
  that the bound is never met.
- *Reports*, `AloneInv`. `SessionIsCurrent`: what the session has loaded of a report it has still to look at is what is
  stored, and the document it parses is the one the report names. That is what a second process breaks, hence the hypothesis
  `Alone == Commands = {}`; the run `ReportPipeline_overlap` is its counterexample. `SideBySide`, `ReadyIsFresh`
  and `RowsKept` need nothing beyond the types and hold beside any number of commands.
- *Orders*, `OrdersInv`. `NavsAreSeen`: a NAV that is stored stays stored, and is one its date has had.
  `RowsAreReal`: what has a plan has a snapshot. `OrdersAreReal`: an order has a plan, and what a stage is about
  to create is not there. `AloneIsSound`: without overlap, stage or import is idle, and what the
  import has loaded to delete is everything its position has, which an overlap spoils. For `StageDoesWhatWasDue`, `DueIsAhead`:
  what was due is, at each label of the stage, still on its list or already stored, and one whose date has a NAV is on
  the list it settles from, since a NAV that is stored stays stored; an import takes away its own position's only.
- *Universe*, `UniverseInv`. `IsStore`: the tables as above, and no contract without a share. `Informed` says what
  a request knows while it is `alone`: `Matched`, its matches are still all the contracts of the catalog's
  name and what it read of the one to keep is true; `Found`, a code that neither failed nor is to do has a
  share; `Undoable`, the flags noted are those of the contracts that had the shares, and outside the
  file's funds still true. `FirstNames`, a contract is named by its first share, is carried along beside it for
  `RepresentativesArePreferred`. That theorem has a hypothesis, `FilesNameTheFirst`: universe files name
  every fund after its first share in `share_priority`. `load_universe` does not ask for it, and a file
  that does otherwise makes such a contract; the sample file (`examples/universe.sample.csv`) complies.
- *NAVs*, `NavInv`. `PagesReachBack`: a day is fetched as soon as the pages read reach past the days that are
  newer, and there can only be more of those while the source publishes: this is why a page that shifts under
  the reader repeats rows and loses none. `WindowsAreWhole` and `RowsAreThoseFetched` carry it to the rows. `StoredRow` says what a
window does to each day: a row inside is relative to the row before it in the window or the newest stored before the window,
and a row outside changes neither itself nor, unless it is the first after it, the row before it.
- *Limits*, `LimitInv`. `AuditedIsWhole`: what the audit has passed without an issue is whole on the share's own newest day, and stays so
  until its next sync, since syncs of other funds write no row of it. `SyncedIsFresh`: a share that did not fail has a row
  as new as any outside the sync, nobody else having written, so that the newest day of the sync's shares, which the
  audit asks for, is the newest of all, by which coverage counts.
  Lemmas on `NoticeRecords` and `PageRecords` show for each way of reading a text that what
  is taken out was stated.
- *Archive and start-up.* `ArchiveIsWhole` with the types: a process past its answer has a content, and
  files only become whole. `StartupInv`: revisions grow, so that nothing migrates below a container that
  serves, and a table nobody edited is as the revision released it (`AsReleased`), which a migration carries from its first to
  its last revision (`MigrationReleases`). The lineage is the
  repository's, eleven revisions; containers, releases and edits are arbitrary.
- *Returns.* No invariant beyond the types: the lemmas are about the choice of a share, the days that
  all funds have, and baselines.
- *Review*, `ReviewTypes`. The argument is one relation, `Agree`: two requests agree up to a day on the rows
  they read. What a day is shown with (`Selected`, `Return`, `Aligned`, `Parts`, `Point`, `HalfWidth`) is shown lemma
  by lemma to be the same for requests that agree up to it, and `FirstRequestAgrees` that the first
  request to show a day agrees with every later one. The first is not always that of the next weekday: a
  fund may have a NAV of a weekend (30 June, 31 December), which Monday's request does not
  show and Tuesday's does, hence `FirstShown`.
- *Valuation*, `ValuationInv`. `OrdersFollowTheSnapshot`: orders are executed after the snapshot's day;
  `AnchorsStay`: the NAV of that day stays stored. With them the estimate is the snapshot plus a change, and two
  estimates differ by a day's change. `MoneyIsClose` bounds each rounding by half a cent; five are made, and
  two more where a plan's amount is not in whole cents. The sums over orders, positions and currencies are handled by
  lemmas on `SumFunction` (`SumOut`, `SumSplit`, `SumOfParts`, `SumClose`): that the library's fold has a
  value is proved for every finite set, by taking a least set for which it has none.
- *Review, the portfolio*, `ReviewInv`. `ClosesArePublished`, beside the types: what is stored of a series has been
  published, so levels are numbers where they are read. The rest is about one request: a mean of numbers
  is between its extremes (`MeanIsBetween`), and since units, NAVs and rates are positive, a
  part of the positions that weighs as much as all is all (`WholeSum`). That every position is worth
  something is `AmountsAssumption`, which lists the CHECK constraints of `models.py` it comes from. Without it the
  code would call a prediction complete that leaves out a position worth nothing.
- *Look-through.* The graph is arbitrary at every step, so there is no invariant but the types; what is proved is that
  the recursion computes the sum over ways, for every graph. tlapm does not know that a recursive
  function has its equation: `VisitsExist` builds one by induction on the steps left, `VisitIs` is the
  equation. `Multiple` and `IsWhole` say that what a visit returns is in whole parts of its level, so that no
  division loses anything. Induction over paths, from the longest down (`PathInduction`),
  then gives `WaysAddUp`: whatever adds to each visit what its holdings were found to have is the sum over
  the ways of what each adds (`AddsUp`). It is used for exposure and for unresolved weight. Where no report states more than 100 %, `NothingIsCapped`
  shows that the caps of the code cut nothing, `NothingInvented` that exposure is
  within coverage, and equal to it where all reports state 100 %.

Only model-checked, and why: liveness (`AcceptedFinishes`, `RequestsAnswered`, `RunsFinish`) and the fair refinement
(`PromiseKeptFairly`), since ENABLED and eventualities are out of the prover's reach. Every invariant and action property of the passing runs has a
theorem. The properties of the runs that are findings have none, since they do not hold.

## 6. Findings

Each is a run that expects a violation; the trace is the one TLC prints.

- `FundUniverse_restore`: a fund that a universe file brought in under its author's name for
  manager or fund is archived; adding one of its other share codes from the catalog finds no contract of
  the catalog's name, makes a new one and is refused because the share has an owner. The user guide
  promises that the record is restored. The representative code, or a portfolio import, does restore it.
- `ReportPipeline_disclosure`: no second process is needed. A corrected report is discovered, its download
  fails, and the new publication time is committed to a report whose archived document, and after
  the next parse whose rows, are the old ones.
- `ReportPipeline_overlap`: `qdii sync-reports` archives a new document while the worker parses the old one;
  the report ends `parsed`, named after a document nobody parsed, and stays so. `ParsedIsCurrent` holds for
  the worker alone (`ReportPipeline_safety`).

Races that the checked properties leave out by name, each found by TLC when its condition is
removed. `SettlementIsSound` (the variable `overlapped`): an import of positions deletes the executions it
loaded; one that the daily stage commits between that load and the import's commit stays under the
newer snapshot, and the valuation counts it twice. `IssuesAreHonest` (`overlapped`): the worker and the
command line both look for an open issue, find none and insert. `RepresentativeIsPreferred`: the
representative code read with the match is given away by a merge before the commit, which then
makes a contract named by a share of another. `ImportIsAllOrNothing` (`alone`, `merged`): the compensation of a failed
portfolio import also undoes an archive that came in between; and when its import had merged two
contracts, one of them selected, it writes back the flags of the one that remained, so that a
fund the user had is archived, without any other writer.

`docs/data-model.md:11` says that the catalog import never merges share classes by name;
`import_public_funds` does (`matching_public_contracts`), as `docs/user-guide.md:30` tells the user. The
model follows the code.

Worth knowing, and not called an error:

- Queue: recovery leaves `current_stage` of an interrupted row as it was; an operation can be enqueued
  between the two statements of an archive; a representative code that an import changed is skipped
  by a queued operation without a word; `recurring_plans_pending` says yes for good when a position is
  deactivated with a priced pending order, so that reuse stops; a `Retry-After` of any length is slept.
- NAVs: a row refused by a unique constraint ends a whole run. A backfill in the middle leaves the first row after its
  window with the return it had over the row that was before it, and the premiums of revised NAVs as they were until a daily
  sync of their days. A premium is computed from
  the NAV stored at the time; the model has one provider, where the code's lookup by day does not
  filter by provider.
- Limits: where the newest rows of a share hold one for all distributors without a cap and one of a
  single distributor with a cap, the list shows the first and the known cap is not seen. The coverage page counts on the
  newest day of any share: after a sync of one fund on a later day all other shares count as not covered until
  theirs, without an issue. A sync that dies after it stored a part under a new day leaves that day's snapshot partial,
  and no issue until the next sync audits it.
- Start-up: a CHECK constraint or a server default edited by hand is not seen by the inspection, and the container
  serves it; the theorem says so by leaving those tables (`touched`) out of its second part.
- Archive and start-up: the directory is not synced to disk after the rename, so "died" means the
  process and not the machine; Compose makes the worker wait for the backend when it starts the stack,
  and not when the host restarts its containers.
- Read side: the newest exchange rate is used whatever its age; before the first NAV of a
  month or quarter the end day is its own baseline and the return is 0 and READY; the consistency
  page takes today from the container's clock where other endpoints take Asia/Shanghai; the price
  cache is written as two files, and a torn pair is refused until it is refreshed.

## 7. What is not modelled

By component:

- *Web frontend*: presents what the API answers and keeps no state that outlives a page.
- *Provider adapters* and *report parser*: decoding of third-party pages and PDF tables, that is
  data without control. Their answers are chosen from small sets, except for limits, whose notices
  are interpreted in the code's order.
- *API*: fund list, detail, comparison and coverage select and format rows. Valuation, returns,
  limits and everything that writes are modelled.
- *Holdings consistency*: overlaps between funds, weighted allocations, the security table and
  the price cache. The statistics are on logarithms and in whole units, the correlation and the
  residual statistics as sums of squares. `PortfolioComplete` compares exactly, the code up to 1e-8 (`portfolio_review.py:1044`)
  for its floats. The `ValueError`s of `predictor.py` (161-165, 209-210, 225-226), raised on reports whose weights do not
  add up, are left out; nothing is shown then.
- *Fees*: tables of the page; the loop with rollback is in `IngestionRuns`. *Rates*: the XML.
- *HTTP*: times. Attempts and refusals are in `RawArchive`; spacing and back-off are not.
- *Command line*: `doctor`, `backup`, `restore` are shells around `pg_dump` and files.
- *Data operations*: the counts of `preparation_status`.

Within the modules: one worker (Compose starts one; nothing locks a second out); one fund share per
position; two parses at a time (only the worker's is modelled beside a command-line sync);
database deadlocks between an import and a stage, which abort one of them like any
exception; the 30 newest operations the reuse scan is limited to; merges between the statements of
another session's commit (a share inserted into a contract between its merge and its deletion goes
with it), the reports that a merge moves; the report period, computed when an operation is enqueued;
decimals' rounding outside `PortfolioValuation`; a write that falls between two queries of one
read request. Calls of providers return an answer or fail.

## 8. Plan

The modules planned are written and the safety properties of those that write are proved. What would add
most now is composition: the queue with `FundUniverse`, for an import that changes a representative code
under a queued operation, and with `RecurringOrders`, replacing `due` by the orders themselves, of
which `NothingIsMissed` is the half that the queue takes for granted.
