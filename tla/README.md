# StanStock in TLA+

Models, model checks and proofs about StanStock, a local-first Django
application for stock research: daily jobs that acquire evidence from
providers and issue immutable research from it, a web interface over the
result, and manually kept portfolios with a contribution planner. Paths below
are relative to `src/src/stanstock/` unless they start with `src/docs/`.

What is interesting here is seldom one function. It is that several processes
(the launchd scheduler, commands typed by an operator, web requests) share one
database and one directory of files, at READ COMMITTED isolation; that each
may die between any two commits and be started again; and that evidence, once
written, must never be contradicted.

## 1. The system

### Components that are modelled

| Component | State | Operations | What makes it hard | What makes it correct |
|---|---|---|---|---|
| Target jobs, `core/jobs.py`, `core/models.py` | `JobRun` rows of one (job, region, date); an advisory lock, or thread lock and `flock` | `execute_target_job`: lock, reservation callback, skip, begin, task, finish | owners die and leave running rows; results are written by primary key alone; attempt numbers are small integers | one worker; one success; finished rows frozen; everybody gets an answer |
| Provider credits, `data/live_us.py`, `data/sec_ingestion.py`, `data/sec_jobs.py` | `ProviderRecord.metadata`: day, credits used, next slot | pre-flight, charge, wait for the slot, record success | several jobs share a row; some writes of it are not locked; midnight | limit, exact count and pace |
| Daily gate, `data/jobs.py`, `data/management/commands/daily.py`, `core/management/commands/scheduled_refresh.py`, `core/refresh_verification.py` | gates frozen in attempt details; reservation rows; the committed analysis; the scheduler's row with its revision and required stages | propose, reserve, adopt, run, recover, the parent's stages, verify, replay | the SEC switch may change between attempts; a reservation outlives its owner; an operator runs the same command, late or at another revision | one gate per target, one analysis, a parent that stands on timely evidence of its own revision, no target blocked for ever |
| Daily research issuance, `data/research_product_jobs.py` and what it calls | intake, closed batch, membership snapshot, analysis, market rows, frequencies, and two job ledgers | acquire, select, re-select, close, materialise, analyse, project, register, recover | every commit is a place to stop; other commands publish prices meanwhile; switches and the deadline change | evidence written once and in order; no credit spent again; a success stands on all of it |
| Market rows, `data/market_state.py` | `LatestMarketData` per listing | one compare-and-update under two row locks | several publishers with observations of different times | never goes back |
| Asset store, `data/assets.py`, `core/integrity.py`, and the writers of evidence | files, and `DataAsset` rows that name them | write a file, register its row, clean up after a roll-back, verify all rows | file and row are not one transaction; a clean-up asks the database and removes later; others find the same file | a committed row's file exists with its checksum |
| Backup and restore, `core/backups.py`, `core/management/commands/` | a bundle of dump and files | dump, copy, verify, replace the database, replace the files | two copies at two times beside running jobs; a restore that dies half way | a bundle holds the file of every row it has; a restore that ended put all of it back |
| SEC ingestion, `data/sec_ingestion.py`, `data/sec_fundamentals.py` | payload assets, observation events, fact revisions, verifications | retrieve, normalise, correct, replay after a stop, read as of a decision | a value restated and restated back; rows older than the events; interrupted runs | a reader sees what was observed by the decision, and sees it again later |
| Outcome evaluation, `research/outcomes.py` | one outcome per prediction | resolve, record, resolve again | prices restated after issue, during the wait and after evaluation | a terminal outcome is final and replays |
| Scheduled research parent, `core/research_product_refresh.py`, `core/refresh_verification.py` | the parent of a target session and the results of its three children | begin, run or recover each child, verify all of them, replay | a child fixes its time before its turn; the evaluate command and the next target's refresh write the same outcomes | a child that succeeded still verifies when its parent is repeated |
| Portfolio attestation, `portfolio/refresh_validation.py` | snapshot rows and the child's result | load, value, count, attest | cash, holdings and prices are read apart, while the owner edits | an attested snapshot is one state of the portfolio at one price |
| Shadow study, `research/shadow_jobs.py`, `research/shadow_study.py` | activation, captures, assessments, successful jobs | activate, capture, scan and assess, read as of an instant | attempts that die leave durable assets; later evidence disagrees | what was said of an instant stays said |
| Paper trading, `simulation/paper_v2.py`, `simulation/paper_jobs.py` | declaration, activation, entry execution, captures, job rows | declare, activate, recover, capture, read | a deadline; several callers; assets newer than the cutoff; a durable commit without a success | one capture per session, from what was known, bound to the row that made it, provable on every read |
| Manual portfolios, `portfolio/service.py`, `portfolio/planner.py`, `web/views.py` | cash, holdings, deposits, executions and purchases, baselines, snapshots | change or delete a holding, deposit, snapshot, show a plan, confirm a plan, show the profit | prices and analyses move between preview and confirmation; snapshots are shared by content; pages read query by query | profit is market movement only; the ledger explains cash and shares; executed as shown |

### How they interact

- `scheduled_refresh` runs as a target job, reserves the gate of the daily job
  (another target job) and calls it with the reservation's id. The daily job
  and the scheduler meet in `JobRun` rows, which are read under the daily
  target's lock (`reserve`) or without it (`propose`).
- The daily research job is a target job that runs a second one, its intake
  child. It spends Twelve Data credits through the shared budget, writes asset
  files and rows, and ends by projecting the issued cohort's prices into the
  market rows. My List corrections write price histories and market rows
  beside it without its lock.
- Portfolio valuations read the market rows. The planner locks those of the
  listings held or bought, so that `update_latest_market_data` waits for it;
  pages and snapshot jobs take no locks.
- The paper capture is called by `scheduled_refresh` twice, before the parent's
  lock (recovery) and after its market stage, and by the `paper_portfolio`
  command. It takes the session's job lock and, inside it, the owner's lock;
  activation and declaration take the owner's lock alone.
- The scheduled research refresh is a parent job of a target session. It runs
  the daily research job, an evaluation and the portfolio snapshots as children
  with locks of their own, and verifies all their rows at its end and whenever
  its success is read. The `evaluate` command writes outcomes beside it.
- Paper captures, outcome evaluation and the shadow study read the price assets
  that the refreshes write, and each other's rows: the study reads outcomes.
  Backups read everything beside all of them, without a lock.

### Components that are not modelled yet, or not at all

| Component | State and operations | Hard part | Correct when | Why not here |
|---|---|---|---|---|
| My List and catalogues, `data/live_us.py`, `data/etfs.py`, `portfolio/watchlist.py` | listings, references, price assets | get-or-create without a lock | one listing per symbol | files and rows are in `EvidenceFiles`, corrections in `ResearchDaily`; symbol resolution is not modelled |
| Momentum computation, scored research, forecasts, backtest engine | pure functions over recorded evidence | boundary cases | selection and accounting rules hold | planned (9), as operators; the statistics (fits, calibrations, bootstraps) are numeric and outside what a finite instance tells |
| Foreign exchange and other data jobs | pure as-of selection | boundary cases | the newest rate known by the decision | planned (9) |
| Historical studies | offline files | none: one process | | out of scope |
| Providers, `data/providers/` | none | failures | | they answer or fail, nondeterministically, where a module calls one |
| Web rendering, forms, middleware, launchd files, settings | sessions, host files | | | input and output only |

`PROJECT.json` lists every component with its sources and the hazards of the
code at their lines, those no property covers yet included.

## 2. Modules

`TargetOutcome` (abstract) and **`TargetJob`**, with its proofs in
`JobProofs`. `rows` are the `JobRun` rows of one target in attempt order,
`lock` the target lock, `pc` and `cur` each process's place in
`execute_target_job` and its attempt. One action per step between two commits
or lock operations: `Request` and `Acquire`; `NoReservation`,
`AdoptReservation`, `Reserve` and `LeaveBefore` are what a `before_attempt`
callback may do; `Skip` and `Begin` are the two branches of the first
transaction; `Finish`, `Fail` and `AttemptOverflow` the ways out; `Crash` may
come at any step. A result is written by primary key without a look at the
row, exactly as in the code, so that only the lock protects it.
`TargetOutcome` is the promise: one worker at a time, and no work after a
success. The refinement maps "some row is a success" to `done` and the process
inside the task to `worker`.

**`ProviderCredits`.** One provider row (`row`), a clock of ticks in days of
`DayLength`, and jobs that check the limit (`Preflight`), read the clock
(`Sample`), charge under the row lock (`Consume`, `StopExhausted`), wait for
their slot (`Send`) and record a success: for Twelve Data in two steps without
a lock (`RecordRead`, `RecordWrite`), for SEC under one (`RecordLocked`).
`spent` and `floor` are histories. Its names carry `Credit` where `TargetJob` has
the same (`CreditInit`, `CreditSpec`, `CreditTypeOK`), because `JobProofs` is about
both modules.

**`DailyGate`.** Three target jobs of one target composed: the daily job, SEC
and the scheduler's parent. The ledgers appear through what the code reads of
them (`frozen`, `reservations`, `success`, `secDone`, `children`, `parent`);
TargetJob has the ledger itself. The lock of the daily target is kept, because
the point is what happens inside and outside it. `output` is the committed
analysis with what verification later asks of it: its gate, its revision and
whether it was on time. `Recover` and `Commit` are the two ways `run_us_daily`
may go, and `Finish` is a step of its own, so that a run may die between. The
verification of the parent is `Verified`, a conjunction of named parts; `record`
is what a successful parent says of itself (its revision, whether it began before
the next open, and whether it needed the SEC stage), and `Replays` the check of
that when it is read again. `head` is the checked-out revision, `late` the open of
the next session, `moved` a market row that another job replaced. SEC succeeds
only while its provider row is enabled (`SecMayRun`), which may change after the
gate was frozen. Simplified: the evaluation and portfolio children are one stage,
`ScheduledResearch` has them; here `children` tells whether they have succeeded and
whether the evaluation still verifies, which a later writer of its outcomes takes
away for good (`Overtake`). Acquisition commits or fails. The reviewed configuration
files that a verification loads are taken to stay as they are.

`IssuanceEvidence` (abstract) and **`ResearchDaily`.** A call that holds the
date's lock is `cur`, at `pc`; `intake`, `batch`, `snap`, `output` and
`issued` are the committed evidence, `vintage`, `conflict` and `market` the
prices. Every commit is an action of its own, and `Abort` may end a call
before any of them. `Correct` (My List), `Backfill`, `Declare`, `ChangeSaved`
and `SwitchProduct` come from outside the lock. Recovery is not an action that
"resumes": a later call goes through the same look-ups as the code and finds
what is there. `IssuanceEvidence` is the promise: captured, closed, admitted,
issued, each once, each from the one before.

**`PortfolioLedger`.** `ledger` holds deposits, baselines and executions in
the order they were written: the code compares their timestamps, the model
their positions. `txn` is the transaction that holds the portfolio's row. A
confirmation is three steps (`BeginConfirm`, `Replan`, `Execute`), a manual
change two (`ChangeHolding` values at its own time, `CommitHolding` makes it
visible), because market rows can move between them; a deposit is one, since it
locks the rows it values. `reader` is a request: its queries are separate steps.
`gain` is a history: what price changes of held shares have added since the
active boundary, without looking at any ledger. The property compares the
code's arithmetic with it.

**`EvidenceFiles`.** `files` and `rows` are the data directory and the committed
`DataAsset` rows; each writer makes one attempt of one of ten kinds, which
differ as the code's writers do: the order of file and row, one transaction or
several, what a failure knows it may remove (a portfolio proof looks for its file
before it inserts its row, the others when they write it), and under which lock. `Look`
and `Replace` are the two halves of `write_bytes`; `Insert` waits for an open
transaction on the same unique path; `RollBack` asks who claims a file and
`Unlink` removes it later; `CleanProof` is the clean-up of the portfolio
attestation under `LOCK TABLE`. `Dump`, `List`, `Copy`, `FinishBackup` are the
backup beside them, `BeginRestore` to `TearRestore` the restore with everything
stopped, as `src/docs/operations.md` asks. `Damage` is the disk. Bytes are
abstract; the `late` history marks the one claim that `_cleanup_attempt_file`
does not promise to protect.

**`SecFacts`**, instantiated by `MCSecFacts`. One company. `observed` holds what
was retrieved at each instant, `facts` the revisions of every accession's fact
with their bound availability, `verification` the recorded check, `run` the
run under way, which may stop after each of its commits. `Recovered`,
`Proven`, `Shown`, `Admitted` and `Read` are the selection functions of the code;
`ProvenNext` is `_resolve_one`, and `Proven` a recursive function over the revisions.
`Legacy` are the databases from before observation events existed, which the
code has to read and to upgrade: the value of each retrieval and the retrievals
that facts were made of. `normalised` is the history of the lists and payloads that
facts were made of together; `Made(t)` says that facts were made of the payload of
`t`. Simplified: an accession has one raw
observation per payload, so that the reconciliation of ambiguous ones is left
out; the history files of submissions are part of the list of filings; the
configuration is fixed; industry classification is left out; one run of a
company at a time.

**`PriceVintages`, `PaperCapture`, `OutcomeRecord`, `ShadowStudy`**, composed by
**`ForwardRecord`.** `PriceVintages` is what the records have in common: sessions
with a clock, the retrievals of one listing's history (`fetched`), which of
them have committed (`stored`), and the forecast. `retrieved_at` precedes the
commit, so the two are separate steps.

- `PaperCapture`: `calls` is each caller's place in the refresh or the command,
  `jobs` the attempt rows of each session. `TakeCutoff`, `Publish` and `Finish`
  are the three steps between which prices arrive, the deadline passes and
  processes die. `Readable` is `read_state`: it proves the whole record from the
  assets it names. One held listing stands for the buys and SPY, which are
  marked alike; money arithmetic is left out, prices are compared.
- `OutcomeRecord`: `Resolve` is the resolution of one scenario forecast over one
  horizon, `Evaluate` the job, which fixed its time before it got its turn;
  `outcome` also remembers what it could not see. The benchmark is read in the
  same way and left out, as are legacy baselines and the timestamps of rows
  that stay unresolved.
- `ShadowStudy`: `shots` and `assessments` are the durable assets, `successes` the
  job rows that witness them, `work` each worker's job. An assessment is two steps
  under the case's lock, because the code reads twice while prices commit:
  `OpenCase` proves the case's records, takes the native outcome and derives it
  again from the history of its time; `Assess` reads the newest history and
  registers. `Torn` is an assessment with a late commit between the two. `Report` is
  `read_shadow_study` as of a clock. Left out: closing the study, failed-job
  counts, population and membership, arm scores, `verify_scan`, preparation
  failures other than a missing activation, and scans of no case. The state of
  a case is the set of what is visible of it, not the last of that.
- In all of them a wait for a lock is part of the step that gets it: a waiter
  has done nothing yet. `listing.is_active` and authorisation do not change.
- `scope` makes each behaviour follow the paper record or the study. They share
  only the market, so the product of the two shows nothing more.

**`ScheduledResearch`** extends `OutcomeRecord`. Each target session has a
refresh at `pc`; sessions overlap when a refresh outlives the next close. `Begin`
is the parent's attempt with its market child, `BeginEvaluation` to
`FinishEvaluation` the evaluation child, `Load` to `FinishPortfolio` the
portfolio child, `FailChild`, `Die` and `Verify` the ways a parent goes on.
`evaluated`, `portfolios` and `succeeded` are the successes on record; `mine` is
what an evaluation fixed and chose, `seen` what a portfolio child has read.
`BeginCommand` is the `evaluate` command; `Edit`, `Archive` and `Project` are
the owner and other publishers of prices. `Verified` is what the code's
verification accepts, derived again from the rows of the moment; `overtaken`
is a history. `beside` makes a behaviour follow the market and its predicted
listing, or the owner and a portfolio: the two meet only in the parents.
Simplified: one prediction, one portfolio with one holding; acquisition by the
market child is `ResearchDaily`, here it succeeds on time or not; the
frequency stage and the asset manifest are left out; the parent of the older profile is
in `DailyGate`.

## 3. Runs

| Run | Instance | States | What it asks and shows |
|---|---|---|---|
| `TargetJob` | 3 processes, 4 attempts | 11 thousand | the worker's attempt is the only running one; success closes the ledger; finished rows are frozen; it implements `TargetOutcome`; every waiting caller returns |
| `ProviderCredits` | 2 jobs, limit 2, gap 2, two days of 3 ticks | 20 thousand | limit, count and pace, under the two `Quiet...` conditions below |
| `ProviderCreditsLost` | the same, `QuietRecording = FALSE` | stops | **violation** of `CountExact`, see Findings |
| `DailyGate` | the scheduler, one operator, any number of deaths, one upgrade | 78 thousand | one gate and one analysis, respected reservations, a success that stands on timely evidence of its own revision and replays but for four named reasons; the market run, if a gate with long forecasts finds SEC available, and then the refresh succeed in the end |
| `ResearchDaily` | a scheduled issuance of the second product or a manual one of the first (no batch, no deadline, own frequency report); core symbol, saved symbol, benchmark; 2 vintages; 1 correction; any number of aborts | 230 thousand | the evidence chain, recovery without requests, market rows, and that committed and admitted work is finished |
| `PortfolioLedger` | SPY and one stock, 3 ledger rows, 1 price update or new analysis, 1 recorded snapshot, 1 reader | 2.6 million | reported profit is market movement, on the ledger and on a page; cash and shares follow from the ledger; a plan is executed as shown |
| `PortfolioPageTorn` | the same, `QuietPages = FALSE` | stops | **violation** of `PageShowsMarketMove`, see Findings |
| `EvidenceFiles` | two writers of any two of ten kinds, one backup, restores, one damage | 1.4 million | a row keeps its file through roll-backs, clean-ups and deaths; failures leave no orphans; a bundle is complete; a restore that ended has restored |
| `EvidenceStudyRace` | two registrations of one study | stops | **violation** of `RowsBacked`, see Findings |
| `SecFacts` | 2 accessions, 2 values, 5 instants, 5 older databases | 172 thousand | readers see what was observed; once facts were made of the newest payload they see it; past decisions do not change |
| `ForwardRecord` | 3 sessions, 3 retrievals of 3 histories, 2 callers or workers, 2 attempts per session, 4 successful study jobs | 1.6 million | paper record and study stay provable, but for torn assessments; outcomes replay; what is committed or reported stands |
| `ScheduledResearch` | two targets with overlapping refreshes and the evaluate command; 2 retrievals of 2 histories, 3 evaluations; or 1 edit and 1 projection beside a portfolio | 2.4 million | a child that succeeded keeps verifying; an attested snapshot is one state |

Every property of a passing run has a faulty variant of a mapped definition (an
operator whose comment says "Faulty variant") that stands for a plausible bug
and violates it: `PROJECT.json`, "mutants".

### Bounds, and why they are enough

- *TargetJob.* Three processes give an owner, its successor and a bystander:
  enough for a superseded worker to meet two others. Four attempts allow a
  dead one, a reservation, a success and a skip, and overflow is reached.
  The proofs need no bound.
- *ProviderCredits.* Limit 2 with two jobs has both at the limit at once; two
  days have a turn of the day; a third job could only repeat the contention.
- *DailyGate.* Two reservation identities are enough for any number of
  processes (`DailyGateProofs`). Deaths are not bounded, the
  states they lead to are finitely many. One upgrade makes the revisions of the
  scheduler, of the analysis and of the record differ; an operator's revision
  may also be unknown (`research/config.py:1134`). One session opens: the target
  is only refreshed until the next one is over. The parent's own lock needs no second scheduler process: TargetJob shows
  that it keeps them apart.
- *ResearchDaily.* Two symbols make admission a choice, one in the core (the
  witness) and one saved; two vintages tell old from new. Two concurrent
  issuances were too many states; calls run one at a time under the date's
  lock, and what one does to another goes through prices and market rows,
  which `Correct` changes at every point in its stead.
- *PortfolioLedger.* Three rows allow a deposit, a manual change and an
  execution in every order: the shortest ledgers in which a boundary, tracked
  deposits and purchases since it all differ. Whole shares and small prices
  (cash 3, deposits of 4, closes 2 and 3) make one SPY share affordable after a
  deposit or from old cash; a portfolio that starts without cash is among what
  the proofs cover, and in `PortfolioPageTorn`. Starting cash without a deposit
  is that of a portfolio from before deposits were recorded
  (`portfolio/migrations/0004_contribution_planner.py`).
- *EvidenceFiles.* A race over a file needs two writers, of every pair of kinds;
  a third could only repeat what one of them does. Three files are the longest
  attempt. Every attempt is made once; a retry is the second writer.
- *SecFacts.* Two values and five instants allow A, B, A with a stop in between
  and a read after it; one accession is older than the program, one is filed
  meanwhile, first without and then with acceptance data. Reconciliation after
  three days and retry after one fall inside the five instants, and the retry
  window is the shorter one, as in `config/fundamentals/us-sec-fundamentals-v1.yml:5`
  (30 and 7 days): a retrieval then repeats after an interrupted one. Readings at
  an instant after the last stand for all later ones. `SecFactsProofs` needs none of
  these bounds to be small.
- *ForwardRecord.* Three sessions: the forecast's, the entry's and one more. The
  histories are one as first told, one with a close corrected, and one on
  another basis with a session missing; three retrievals tell a source, a mark
  and a restatement apart. Reached: accepted and then challenged assessments,
  torn ones, quarantine, late captures, concurrent scans, captures of two sessions, and a
  second attempt after a death. Accepted corporate events, and acceptance after
  a quarantine, would need more retrievals and are not reached. Capture jobs
  of the study run for session 0, scans for dates 1 and 2.

- *ScheduledResearch.* Two targets and a command are the three writers of an
  outcome that exist; with a horizon of one session the forecast matures at
  the first target, so that both evaluate it. Three evaluation times give each
  writer one, or one of them a second after a failure or death. The command
  names the last session's date. One edit
  between two reads is enough to tear a snapshot; archiving is unbounded.

The runs of these four check safety alone and state no fairness: their code
promises no progress that depends on interleaving. Deadlock is not checked for
`EvidenceFiles`, `ForwardRecord` and `ScheduledResearch`, whose bounds make
them stop.

Four constants narrow a run and are named for it. `QuietRecording`: nobody
charges a credit between the two halves of an unlocked success record.
`QuietMidnight`: midnight does not fall between a job's clock reading and its
row lock. `QuietPages`: no deposit or manual change commits while a page is
read. `QuietStudies`: two registrations of one study do not overlap. All but
`QuietMidnight` are the findings, each with a run that shows what is violated
without it: the code does not ensure them. `QuietMidnight` has no such run: with it
FALSE in `ProviderCredits.cfg` TLC finds `CountExact` violated, because the count
then belongs to a day that is over; but no document says which day it should be,
so it is a hazard without a property and not a finding.

### Fairness

- `TargetJob`: weak fairness of a process inside the lock, strong fairness of
  `Acquire` (PostgreSQL queues lock waiters; a blocked `flock` is woken). No
  fairness of requests, and crashes are unconstrained. Under it every caller
  returns, an answer or a death included.
- `DailyGate`: somebody starts the target's refresh again while it has not
  succeeded (`WF` of the scheduler's steps, which contain its start), a waiter
  gets the lock, and a stage that is tried for ever does not fail for ever
  (`SF` of `Propose`, `PassSec`, `Run`, `Finish`, `CompleteChildren`). The last
  two are assumptions about operation and providers; the code contributes that
  no row, reservation or lock of a dead process stands in the way. Deaths end
  some time (`<>[][~Crash]_vars`). `MarketEventuallySucceeds` allows for the next
  open, after which nothing on time can be committed, and assumes that in the end
  SEC is available to a gate frozen with long forecasts (`SecAvailable`): with the
  switch off and no SEC success the scheduler's market run does wait, and fairness of
  `PassSec` does not help, as it is not enabled. `RefreshEventuallySucceeds`
  says which market runs a refresh can stand on (`Ready`).
- `ResearchDaily`: whoever asked asks again (`SF` of `Start`), a call goes on
  (`WF` of its steps), and calls are not aborted for ever
  (`<>[][~Abort]_vars`). A call that is *refused* may be refused for ever, so
  `AdmittedEventuallyIssued` has to say when: a scheduled issuance whose
  session has opened.

## 4. Proofs

A module `XProofs` holds the theorems about module `X` and nothing that a run
uses; `JobProofs` holds those about `TargetJob` and `ProviderCredits`, what every
job runs on. Each proves an inductive invariant (`IInv`; three more for
`ProviderCredits`), one lemma per action, and takes the theorems from it.
Constants have only the assumptions their modules name; that a constant is
finite is assumed where the code enumerates it (operators, stocks).

| Module | Theorem | States |
|---|---|---|
| `JobProofs`, `TargetJob` | `Invariance` | `Spec => []IInv` |
| | `TypeCorrect` | `Spec => []TypeOK` |
| | `WorkerIsAuthoritative` | `Spec => []LiveAttemptAuthoritative` |
| | `FinishedStaysFinished` | `Spec => FinishedAttemptsFrozen` |
| | `SuccessClosesLedger` | `Spec => AfterSuccessOnlySkips` |
| | `Refinement` | `Spec => ImplementsTargetOutcome` |
| `JobProofs`, `ProviderCredits` | `CreditTypeCorrect` | `CreditSpec => []CreditTypeOK` |
| | `PaceKept` | `CreditSpec => SlotsSpaced`, under `QuietRecording` |
| | `LimitKept` | `CreditSpec => []DailyLimitKept`, under both `Quiet...` |
| | `CountKept` | `CreditSpec => []CountExact`, under both `Quiet...` |
| `SecFactsProofs` | `Invariance` | `Spec => []IInv` |
| | `ReadsObserved` | `Spec => []ReadsAreObserved` |
| | `NewestRead` | `Spec => []NewestIsRead` |
| | `PastStands` | `Spec => PastReadsStand` |
| `DailyGateProofs` | `Invariance` | `Spec => []IInv` |
| | `TypeCorrect` | `Spec => []TypeOK` |
| | `GateDecidedOnce` | `Spec => []OneGatePerTarget` |
| | `SuccessBacked` | `Spec => []ParentSuccessBacked` |
| | `ReservationKept` | `Spec => ReservationRespected` |
| `ResearchDailyProofs` | `Invariance` | `Spec => []IInv` |
| | `TypeCorrect` | `Spec => []TypeOK` |
| | `NoCreditForRecovery` | `Spec => []RequestsOnlyWhileOpen` |
| | `SuccessStands` | `Spec => []SuccessComplete` |
| | `MarketForward` | `Spec => MarketNeverRegresses` |
| | `Refinement` | `Spec => ImplementsEvidence` |
| `EvidenceFilesProofs` | `Invariance` | `Spec => []IInv`, this and the others under `QuietStudies` |
| | `RowsStayBacked` | `Spec => []RowsBacked` |
| | `FailureLeavesNothing` | `Spec => []NoOrphanLeft` |
| | `BundleHolds` | `Spec => []BundleComplete` |
| | `RestoreReturnsAll` | `Spec => []RestoreComplete` |
| `PortfolioLedgerProofs` | `Invariance` | `Spec => []IInv` |
| | `TypeCorrect` | `Spec => []TypeOK` |
| | `LedgerAlwaysReconciles` | `Spec => []LedgerReconciles` |
| | `ProfitIsTheMarkets` | `Spec => []ProfitIsMarketMove` |
| | `ExecutedOnlyAsShown` | `Spec => ExecutedAsShown` |
| | `PagesShowTheMarkets` | `Spec => []PageShowsMarketMove`, under `QuietPages` |
| `ForwardRecordProofs` | `Invariance` | `Spec => []IInv` |
| | `RecordReadable` | `Spec => []RecordStaysReadable` |
| | `OutcomeStays` | `Spec => []OutcomeReplays` |
| | `Standing` | `Spec => CommittedStands` |
| `ScheduledResearchProofs` | `Invariance` | `Spec => []IInv` |
| | `ChildrenVerify` | `Spec => []ChildrenStayVerifiable` |
| | `SnapshotsWhole` | `Spec => []AttestedIsWhole` |

A hypothesis `Quiet...` is a condition of the theorem and not an assumption of
a module: what does not need it is proved without it. Where `QuietRecording`,
`QuietPages` or `QuietStudies` is missing a run shows the violation (Findings);
`QuietMidnight` has none (section 3). The theorems say what the code promises and
under what.

### The arguments

**`JobProofs`, target jobs**, for every set of processes and every attempt limit.
`LiveAttemptAuthoritative` says that a process in the task works on the only
running row, without a success anywhere. It is not inductive: a process about
to begin must already hold the lock, hold only a row that runs, and find
nothing running after a success. `IInv` adds exactly these: `LockHeld`,
`AttemptHeld` and `ClosedAfterSuccess`. `AppendedLedger`, `SupersededLedger`
and `UpdatedLedger` say once what the three ways of writing rows do to
"running" and "succeeded". In the refinement `Begin` maps to `Start`, `Finish`
with a success to `Succeed`, every other exit to `GiveUp`, the rest stutters.

**`JobProofs`, credits**, for any number of jobs, any limit, pace and length of
day. The pace holds because the row's next slot is the last one charged
(`NextIsFloor`), and that because a job between the two halves of its success
record writes back what the row still holds (`WritesBackCurrent`): this is where
`QuietRecording` is used, and what the finding breaks. The limit needs in
addition that a charge falls on the day of the clock (`CountsToday`, from
`QuietMidnight`) and that no later day has been charged (`FutureUnspent`).

**`DailyGateProofs`**, for any operators, deaths and restarts. `OneGatePerTarget`
follows once it is known who may speak for the target: the processes inside the
job are the holder of its lock (`LockHeld`), all reservations and the one
analysis carry the frozen gate (`OneReservation`, `OneAnalysis`).
`ParentStands` separates what a successful refresh has verified and nobody can
undo (the analysis under its name, the SEC stage it needed, that both children had
succeeded) from what keeps it from replaying, the four exceptions of
`ParentSuccessBacked` (`Excepted`): the grade it was recorded with, and what others
can still take away.
`IdsHeld` says who holds a reservation identity, which shows that two
identities are enough whatever the number of processes.

**`ResearchDailyProofs`**, for any issuances, symbols, vintages and publications
by others. `Chain` is the order of the evidence: each piece names the one
before and agrees with it. `CallChain` ties the place of a call to what its
issuance has, `Selection` and `Projection` what it has chosen to what it was
asked and to the market rows it still has to visit. A call may stop anywhere and
another begin; that recovery requests nothing again is `CallChain` at `fetch`.
The refinement maps each commit to one step of `IssuanceEvidence`.

**`EvidenceFilesProofs`**, for any writers, each with an attempt of any of the
ten kinds, with damage, backups and restores beside them. A row is backed at
its commit because the attempt's files are still the ones it put there
(`InPlace`), and stays backed because what a clean-up is about to remove has no
row (`Cleanup`). Two attempts meet at one path in only two cases, the
attestation proof and the study (`RowsKnown`, `OneStudy`). `BackupHolds` follows
each row of a dump through listing and copying; `RestoreHolds` each file of a
bundle back.

**`PortfolioLedgerProofs`**, for any stocks, keys, readers, rows and market
updates. `Explained` is the heart: from the boundary, deposits and purchases
lead to the cash and shares there are, and what they leave unexplained of the
value is `gain`, the market's move. Each writer changes a sum over ledger rows,
a sum over listings, or both, and `gain` by as much. The rest says why a writer
may rely on what it read earlier: an open change knows the market's move of its
new holdings and a confirmed purchase stands on what its form showed (`TxnOK`,
under the row lock); before the first deposit cash only falls, so a
snapshot with the cash of now has no purchase after it (`BeforeDeposits`); what
a page has read is explained like the present as long as its cash is the same
(`PagesOK`), which is why only purchases are harmless to a page.
The model's sums are folds over finite sets. A first part proves what a sum
needs (it does not depend on the order of the fold; one more element adds its
value; equal summands, equal sums), by induction on the size of the set. The
induction is `WFMin` on the set of counterexamples, stated with sets and
functions, because an induction theorem with an operator parameter cannot be
instantiated here.

**`ForwardRecordProofs`**, for any calendar, any histories the provider may
tell, any callers, workers, attempts and retrievals. The argument has two halves.
`Grows` says what the market does to what is recorded: time goes on, retrievals
and commits are added, none is changed. Whatever names its own retrievals is
proved again by the same ones (`ProvableGrown`, `ResolveGrown`,
`AssessmentGrown`), so each part of `IInv` survives every step of the market by
one lemma (`PaperGrown`, `OutcomeGrown`, `StudyGrown`). The other half is the
writers. A paper mark is published by a caller that is alone, for a session
that is still unmarked and later than all marked ones (`Proving`), so no earlier
proof sees it; its row is written once, and after it no attempt of its session
begins (`AttemptsStand`). An outcome was read from what had committed of the
retrievals of its time (`Read`), and reading up to the date it found finds that
date again (`ResolveAgain`; `NthIsThere` and `NthAgain` say that the n-th
session is there and is the n-th of the sessions up to it). An accepted
assessment is the only one of its case and its two sources give back the native
row and the return (`FirstAccepted`), unless it is torn: what an open case has read
stays what the market told then (`CasesOK`, `SourceRead`), and when the newest history
is not of the outcome's time, or is the same one, the proof picks the sources that the
assessment had. What a success names is durable before it
(`Durable`), and a success is of now: so no later success, recovered asset or
challenge can enter an answer about an instant that has passed
(`WitnessesStand`, `ShotStateStands`, `ReportStands`).

**`ScheduledResearchProofs`**, for any calendar, any histories, and any number of
evaluations, edits and projections. That a child verifies is not inductive: it
reads the rows of the moment. `IInv` says instead what a finished evaluation
stands on (`Judged`): the outcome is what resolving the history it had read
gives, and it had read all retrievals of its time but the `missed` ones
(`Read`). As the market only adds (`Grows`), the same histories resolve to the
same row (`ToldGrown`); when nothing missed has been committed, a verification
reads exactly them (`ReadAgain`). Between the choice and its write nobody else
has written, or the target is `overtaken` (`Undisturbed`): that makes the
choice of `Select`, taken without a lock, the one a verification derives from
times alone. Times are numbered as they are fixed (`Numbered`), so that an
outcome of an earlier evaluation is told from one's own. For snapshots, `Attest`
compares all under the locks, and what the book was it stays among the states it
has had (`Held`): no later edit or projection can take that away.

**`SecFactsProofs`**, for any accessions, values and older histories, any
reconciliation and retry intervals and any number of retrievals. None of the three
properties is inductive, because the reader does not see payloads but rows. `IInv`
ties the two together in both directions. Every row was made of a payload and a
list that facts were made of, or stood in an older database (`FactsOK`: `AppendedRow`,
`LegacyRow`); and every payload with an event that facts were made of has a row that
says the same and is shown from that payload on, and behind which only rows of later
payloads stand (`CoveredOK`: `Covers`). `RunOK` says what a run in its middle stands on:
the longest list, and the newest payload, which matters because a replay
(`Recovered`) is made long after its retrieval. `CurrentOK` is the hardest part: making
facts of the newest payload once more adds nothing (`Repeats`), or the only row is an
original of a payload whose predecessor was left without facts (`Overlooked`), where
one more row would say the same.

A reader admits a row when it is proven by then. What `resolve_availability` finds
is a recursive function over the revisions; `Least` gives it by way of a least
counterexample (`ProvenIs`), and `ProvenLocal` says that it depends only on the rows up to
the one asked for and on which of them are shown. From these: a row made by the
program is proven by its own instant, an older one as long as its asset proves it
(`RowTimes`, `RowKinds`). `NewestIsRead` follows from the covering row of the newest
payload being the last (`NewestShown`, `LastIsRead`). `ReadsAreObserved` follows since the
row shown has a source, and each payload between that and the reader has a
covering row that would be shown instead (`SourceOfRead`, `CoverIsBefore`). For
`PastReadsStand` only `Normalise` can add a row; if everything known by then had
been made facts of, the row it adds is either of a later instant and not shown
(`UnseenRow`), or the run repeats what is there (`SettledRepeats`).

### Only model-checked

Liveness (`EveryCallReturns` and the eventualities of `DailyGate` and
`ResearchDaily`) is outside the prover's reach. Every other property of a passing
run is also a theorem. No module uses a recursive operator.
Every `IInv` was first checked as an invariant of its module's run.

## 5. Findings

- `ProviderCreditsLost` (`data/live_us.py:1766`). The Twelve Data success
  record reads the provider row's metadata, changes three fields and saves the
  whole dictionary without a lock, the count and the next slot included: a
  credit charged in between is forgotten. The SEC counterpart locks the row.
- `PortfolioPageTorn` (`web/views.py:3174`). A page values the holdings, then
  reads baselines and quantities in later queries. A manual change committed
  in between is reported as profit or loss, until the page is loaded again.
- `EvidenceStudyRace` (`research/product_study_evidence.py:294`). The path of a
  study names the logical report, its bytes also hold the time of the attempt,
  and no lock is taken. Two registrations that overlap both find no file; the
  second replaces the first one's, whose row may commit: the row then names
  bytes that are no longer there, or, when the loser's clean-up runs before
  that commit, no file at all. `data/assets.py:28` says that "the file it points
  at must never silently change underneath it".

Seen while modelling, and not stated as properties:
a successful parent of the older profile that needed no SEC stage stops replaying
once an operator runs the SEC job of its target (`core/refresh_verification.py:211`;
its comment at 176 says so), and so does one of whose prices a market row is
replaced; nor does one that was started after the next open, which skips a market
run of before and is recorded as RESEARCH (`core/refresh_verification.py:252`), or
one whose evaluation is overtaken (below). `ParentSuccessBacked` excepts exactly these
four. A gate frozen with long forecasts outlives the SEC switch: once SEC is disabled
before its first success, the scheduler fails at its SEC stage in every attempt
(`data/sec_ingestion.py:281`) and does not reach the market stage of that target until
SEC is enabled again or an operator has run the daily command. An analysis that an
operator committed at an unknown revision, an upgrade between the commit and the
parent's next attempt, or an analysis that asked for long forecasts and was
committed before any SEC success, keep the parent from succeeding: the last until
the SEC job is run by hand (`core/management/commands/scheduled_refresh.py:116`).
The code fails closed on each; `Ready` excepts them.
`src/docs/operations.md:641` says of `success` that "Complete, independently
verifiable output exists". A success after the next open never replays, and a
recorded success of the research parent can stop verifying: the `evaluate` command, or the child of the next target, writes
an unresolved outcome again, and the replay of the earlier child then finds a row
that is not its own (`core/refresh_verification.py:1278`). The code fails closed
on it, in `portfolio/watchlist.py:510` among others. `ChildrenStayVerifiable`
excepts exactly this, by `overtaken`. A registration of a study
that is killed after its file leaves one that every retry refuses
(`AssetConflictError`) until it is removed by hand, although
`src/docs/operations.md` lets a retry of the same run reuse the original. A
retrieval that is stamped before an evaluation and commits after it makes the
recorded outcome fail its own replay; `OutcomeReplays` excepts exactly this, by
`outcome.missed`. The shadow study reads prices twice for an assessment, as of the
outcome (`research/shadow_jobs.py:1112`) and then the newest (`research/shadow_jobs.py:1126`).
When a retrieval of the outcome's time commits in between, the accepted assessment
names both histories, and its proof derives the outcome from the second one
(`research/shadow_jobs.py:835`): if the two disagree, every later job on the case
and every report from then on fails. `RecordStaysReadable` excepts exactly this, by
`Torn`. SEC jobs of different targets hold different locks and may
overlap in one company (`data/sec_ingestion.py:3140`); `SecFacts` has one run at
a time. A SEC run may succeed with nothing to do although no facts were made of the
newest payload. It takes a payload P that was verified while an accession of the list
was missing from it; a retry that retrieves Q and makes facts of it, but stops before
its verification is recorded; and one more retry that retrieves P again and stops
before it makes facts. Once the retry interval is over, the recorded
verification of P, which is found by the bytes of the asset and the list of filings, counts as one
of the newest payload (`data/sec_ingestion.py:615`). The run then ends at once, and
readers keep seeing what Q says until the next reconciliation. Therefore
`NewestIsRead` speaks of payloads that facts were made of and not of runs that
succeeded; the model reaches this state only when the retry interval is shorter
than that of reconciliation, as it is in the configuration.

## 6. Plan

In this order; the first eight are done, what they leave out is named in 2.

1. `TargetJob`, its contract and its proofs: every other job stands on it.
2. `ProviderCredits`; `DailyGate`, which composes target jobs.
3. `ResearchDaily` against `IssuanceEvidence`.
4. `PortfolioLedger`.
5. `EvidenceFiles`: can a committed row lose its file?
6. `SecFacts`: what was known when, after corrections and interruptions.
7. `ForwardRecord` over its four parts: do records made in advance stay
   provable while prices are restated?
8. `ScheduledResearch`: does a child that succeeded still verify after what
   other jobs have written since? Left of it: closing the study, which needs
   terminal captures of every session; the frequency stage.
9. Pure rules as operators against reference definitions over bounded inputs:
   price eligibility and pairing, ranking and its ties, ledger accounting of
   the backtest engine.

Every safety property a run checks is proved; of the proofs, liveness is left, which
is outside the prover's reach. What would be modelled next is 9 and what section 2
names as left out.

## 7. Running it

    tlc -workers 2 -config TargetJob.cfg TargetJob.tla
    tlc -workers 2 -config ResearchDaily.cfg ResearchDaily.tla
    tlapm JobProofs.tla
    tlapm ForwardRecordProofs.tla

A configuration belongs to the module `PROJECT.json` names for it.
Every `...Proofs` module is checked in the same way; `PortfolioLedgerProofs`,
`SecFactsProofs`, `ForwardRecordProofs` and `ScheduledResearchProofs`, the largest, take a few minutes. `PortfolioLedger.cfg` takes about two minutes,
`ResearchDaily.cfg` two and a half, `ForwardRecord.cfg` two,
`ScheduledResearch.cfg` one and a half, the others about one or less.
