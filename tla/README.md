# ARF-OS in TLA+

ARF-OS is a pnpm monorepo in TypeScript that turns trading research into an
evidence-backed pipeline: strategy versions move through a lifecycle, backtest
reports are ingested and re-computed, a committee decides, and approved versions
run forward on paper. This directory models the parts of it that act
concurrently and the calculations they rest on, checks them with TLC on small
instances, and proves most of the safety properties with TLAPS for instances of
any size.

Contents: [parts of the system](#1-the-system) ·
[modules](#2-the-modules) · [runs](#3-what-tlc-checks) ·
[proofs](#4-what-is-proved) ·
[disagreements](#5-where-the-code-and-its-documents-disagree) ·
[not modelled](#6-what-is-not-modelled) · [plan](#7-plan)

Source paths below are relative to the repository root.

## 1. The system

**Processes.** A Fastify API (`apps/api`) serves the Next.js front end, the Clerk
and TradingView webhooks and server-sent events. Three worker processes
(`apps/worker-backtest`, `worker-analytics`, `worker-forward`) and
`worker-research` consume BullMQ queues. Every worker process also runs one
outbox relay loop and one reclaim timer.

**Shared state.** One PostgreSQL database, used at its default isolation level
READ COMMITTED (no code sets another), Redis for BullMQ, and an
S3-compatible object store addressed by presigned URLs. Almost everything that
can go wrong goes wrong between two queries of two transactions, so in the models
*each query is a step*, and what a transaction writes becomes visible in the
step in which it commits.

**Interactions.** A handler that changes state writes rows and an
`outbox_events` row in one transaction. A relay claims the row, turns it into a
BullMQ job with an id derived from the row's, and marks it. A worker executes the
job, commits its rows with the next event, and so on. No job enters a queue in
any other way. The relay keeps no order among jobs; each process runs one
worker of concurrency 1 per queue.

| component | state | operations | hard because | correct when |
|---|---|---|---|---|
| outbox and relay | `outbox_events`, a relay's batch, BullMQ jobs | claim, publish, markPublished, markFailed, reclaim | crashes between any two round trips, several relays, bounded job history | no event is lost; work is repeated only where the queue has forgotten it; every row settles |
| workflow | `strategy_versions.workflow_state`, `audit_events`, `idempotency_records` | `transition` and its evidence reads | check-then-act across queries, retries | a version only moves along the policy; a key applies once; approval has a verification |
| committee decisions and idempotency shell | `committee_decisions`, `idempotency_records` | POST decision: check, act, record | two layers share one table; lost answers | decision, transition and record come together or not at all |
| forward test | `forward_deployments`, `signal_events`, `paper_orders`/`paper_fills`, curves | webhook, pause/resume/complete, signal job | duplicate alerts, pauses in between, redelivered jobs, two workers | one order per signal; entries and exits alternate; curves cover the fills |
| evidence chain | objects, `artefacts`, `report_uploads`, `backtest_runs`, trades, curves, metrics, parity | upload, parse, normalise, reconstruct, calculate, compare; local run | delete-and-insert handlers, lost jobs, second uploads | evidence converges to one result computed from the present rows; events follow rows |
| read model refresh | `strategy_read_models` | rebuild one row | a refresh computed from older rows | the list shows the version that moved last |
| SSE hub and tickets | cursor, subscribers, tickets | poll, catch up, claim, reconnect | ids are published out of order; catch-up races fan-out; polls overlap | a stream has each event at most once, in order, and only its reader's; what a broken connection carried is seen |
| algo library | releases, visibility, statistics | create, publish, supersede, compute evidence, make visible, retire, deliver | check-then-act | one current release; answered numbers stand; what is published has evidence |
| strategy registry, campaigns | versions and lineage | create, branch, save documents, page | act and record are two transactions; cursors | retries are answered alike; pages neither repeat nor skip |
| research tasks, practice arena, agent runtime | tasks, practice runs | create, execute, retry a structured agent, review | redelivery while RUNNING | a task ends |
| provisioning and auth | users, organisations, memberships | Clerk webhooks, roles | concurrent deliveries, errors inside a transaction | an organisation has an ADMIN |
| upload reaping, datasets, market data | objects without artefacts, datasets, health snapshots | list and delete, ingest, sweep | an object is recorded between list and delete | no recorded dataset is deleted |
| metrics, local runner, parsers, paper fills | none (pure) | evaluation, simulation, pairing, curves, verdict, parsing | boundaries | no look-ahead; what one calculation writes the next reads back |
| queries and reports | none of their own | evidence, validation, portfolio and drift reports | caps, missing rows | they agree with the ledger |
| web, schema, infrastructure | none of their own | pages, forms | – | – |

`PROJECT.json` lists each of these with its sources and status, and lists the
hazards of the code line by line with the properties aimed at them.

## 2. The modules

| module | models | role |
|---|---|---|
| `OutboxDelivery` | the promise to a producer | abstract specification |
| `OutboxRelay` | `packages/event-bus` and BullMQ as its options set it up | implements `OutboxDelivery` |
| `WorkflowPolicy` | `packages/workflow/src/policy.ts`, `evaluate-transition.ts` | pure functions |
| `Workflow` | `packages/workflow` service and repository, `apps/api` decisions route | extends `WorkflowPolicy` |
| `PaperLedger` | what a paper book promises | abstract specification |
| `ForwardPaper` | `apps/api` forward services, `apps/worker-forward` | implements `PaperLedger` (one worker) |
| `IngestionChain` | `apps/api` upload services, `apps/worker-backtest`, `apps/worker-analytics` | |
| `EventFeed` | what an event stream promises its reader | abstract specification |
| `SseFeed` | tickets, stream route and hub of `apps/api`, `LiveRunUpdates` of `apps/web` | implements `EventFeed` |
| `AlgoLibrary` | `apps/api/src/services/algo-library` | |
| `StrategyRegistry` | `apps/api` campaigns, strategies, versions and lists; the idempotency functions; the read model refresh | |
| `ResearchTasks` | research tasks, practice arena, `apps/worker-research`, `packages/agent-runtime` | |
| `Provisioning` | Clerk's webhook, sessions and roles | |
| `Housekeeping` | upload reaping, dataset ingestion, the health sweep, completed uploads | |
| `Values` | – | helpers: undefined values, sorting |
| `PineExpression` | parser and evaluator of `packages/backtest-sdk` | pure functions |
| `LocalRunner` | compiler and simulation of `packages/backtest-sdk` | extends `PineExpression` |
| `LedgerMetrics` | `packages/metrics` | pure functions |
| `ReportParsing` | `packages/pine`: TradingView reports, OHLCV files | pure functions |
| `PaperFills` | quantities, slippage and curves of `apps/worker-forward` | extends `LedgerMetrics` |
| `ResearchReports` | evidence, validation, portfolio, drift and dashboard services | extends `LedgerMetrics` |
| `Calculations` | | composes the six above over a growing window of bars |
| `*_proofs` | | proofs (section 4) |
| `MC*` | | instances for TLC; `MCServices` puts `ResearchTasks`, `Provisioning` and `Housekeeping` side by side |

Definitions keep the names of the functions they translate; the map in
`PROJECT.json` gives each one's lines. Definitions with a suffix such as
`claimPending_X`, marked *Mutant*, are deliberate mistakes that are in no
specification; they exist to show that a property would notice them.

### OutboxRelay

`status` and `created` are columns of `outbox_events`. Age is kept by `horizon`,
which is `now() - 300 s` as the reclaim query computes it; a row commits with a
`created_at` above it, so rows need not become visible in the order of their
times. `claimPending` is one action because its `UPDATE … FOR UPDATE SKIP LOCKED` is
one statement: a batch of the oldest pending rows becomes `PUBLISHING`. Then
each `Publish`, `PublishThrows`, `markFailed` and the final `markPublished` is a
round trip of its own, and `LoseIteration` stands for a death of the process as
well as for an exception the loop's `catch` swallows. `reclaimStale` looks at
the age of the *row*, as the code does. The rows are published in any order,
although the code's loop has one: the order is invisible to the properties.

Of BullMQ the model has what the publisher's options rely on: an `add` with a known
job id is ignored; attempts are bounded; a job whose worker died is taken back,
up to the default of one stall; finished jobs are eventually evicted. An attempt that
fails is made again until the attempts are used up. `handled`
counts completed executions up to 2, enough to tell "again".

### Workflow and WorkflowPolicy

The rule table and the sequence of checks are translated in full. A call is
a program of queries named by `pc`: the route's idempotency check, the
service's lookup of the key, the version, the two evidence queries (after which
the verdict is computed), the repository's second look at the key, the
writes, and the route's own record. The writes of `applyTransition` are one step
because they commit together, with the decision row of a decision. The
conditional `UPDATE … WHERE workflow_state = from` is evaluated in that step, and, as
in the code, its row count is not looked at. A record keeps the fingerprint of the
layer that wrote it: the two layers hash different objects, so their
fingerprints never agree. `Crash` ends a call whose answer is lost; another member
of `Calls` with the same key and input is its retry. Nothing in the repository
sets a verification to `PASSED` and nothing takes one back, hence `VerificationPasses`
is an action of the environment; parity reports are inserted and deleted by
`worker-analytics`, hence `ParityComputed` goes both ways. In production code
only the decisions service calls `transition`; the other calls model the
service's interface, which its tests use.

### ForwardPaper and PaperLedger

One deployment. A webhook delivery reads the deployment, looks for the alert's
row and inserts; deliveries with one alert are TradingView's retries. An operator's
command reads and then updates by id. The worker reads the signal, the state,
the position, the next sequence number and, for an exit, the fills it computes
curves from, deletes the old curves and commits. Prices, quantities and fees do not
influence any guard and are left out. `curve` is the set of curves whose
rows are in the table, each identified with the set of fills it was computed from.

Locks of BullMQ are modelled: `Stall` takes the job of a living worker, which goes on
and may even commit; `Die` leaves it active until `Recover`. The relay is the single
action `Enqueue`, which delivers in any order, as `OutboxRelay` shows that
the relay does; that it delivers at all is `EveryRowSettles` there, and the
property here starts at the queue.

### IngestionChain

One backtest run, of TradingView reports or of the local runner (`definition`),
in `deployed` processes. Tables hold one element per transaction that inserted:
who inserted it and what it was computed from. A handler's reads are steps,
its `DELETE` notes the visible rows in `old`, and the commit replaces them: that
is READ COMMITTED, and two overlapping handlers both leave their rows. An event
and the job it becomes are one entry of the bag `waiting` (that the relay turns the
one into the other is `OutboxRelay`'s subject); `Drop` is the row that was marked
FAILED. `lost` collects jobs given up. Files are split into ledgers (List of Trades)
and summaries (Performance Summary) since the chain branches on the kind; of
their content only "malformed or not" and equality matter.

### SseFeed and EventFeed

A row has an id in the order of its creation, and `WriteRow` and `PublishRow` may
happen in any order of ids. Every `await` is a step: a page mints a ticket and
connects; the route reads the ticket and marks it in two statements, reads
what was published since the client's last id, and subscribes in a later step; a poll of
the hub reads a batch above `globalCursor` and fans it out later, while
another poll may have been started (`Slots`). A stream keeps, as the
subscriber does, the last id it was sent and drops what is not above it.
`dropConnection` is a broken connection, after which the page asks for a new
ticket with the last id it saw. `start` is a restart of the API: the cursor is
taken from the highest id of *any* row. `EventFeed` knows none of
this: events become visible, a stream has an audience, and what is
written to it is visible, meant for it, and in order of ids.

### AlgoLibrary

One catalogued algo. A call is a program of statements as in `Workflow`. The
number of the next release is read before the transaction; the transaction's `UPDATE` of the
current release takes a snapshot of the matching rows, waits for the
transaction that holds one of them, and re-checks them, which is what
READ COMMITTED does; a UNIQUE index refuses a number that is taken. Evidence is
computed from a ledger read earlier and upserted by version, scope and
source. A number of closed trades stands for a ledger. A deployment's fills are only added to (`addTrade`);
a run's trades are deleted and replaced whenever a report of one of its verifications is normalised, by as many or fewer (`replaceLedger`).

### StrategyRegistry

POST commands are `checkIdempotency`, the act and `recordIdempotency`: three
transactions, with a lost request between any two. Versions count
how often the workflow moved them, since which move was legal is `Workflow`'s
matter. A refresh job reads the latest version of the strategy and, in a second
transaction, deletes and inserts the read model's row. It has the publisher's three attempts and BullMQ's one stall, after
which a worker that has lost its lock goes on (`stray`) or has died; a job without an attempt left is given up, as is an event
that the relay could not publish, and `abandoned` says of which strategies. A list is paged by a
cursor over (`created_at`, id). The clock is finer than a millisecond (`PerMilli`); the column rounds to
milliseconds, and so the `Date` of a cursor, which cuts, loses nothing.

### ResearchTasks, Provisioning, Housekeeping

`ResearchTasks`: an execution reads the row, marks it RUNNING, asks the provider
at most twice, stores the answer or the issues; a stalled job is given to another worker while the
first goes on (`owns` says who still holds the lock). A review reads the old score and
writes the new one with its audit row.
`Provisioning`: deliveries are transactions of reads and inserts; an insert waits
for another open transaction with that key, and fails when the key has been
committed, which aborts the transaction even where the code catches the error and goes on.
`Housekeeping`: the reaper's listing and its query of recorded keys are two concurrent
reads, followed by deletes one by one; the ingestion puts an object and then commits its rows; a
sweep writes one snapshot per active deployment.
The three share no state; `MCServices` checks them in one run, a behaviour being one of the service
that its first state names.

### Calculations and the modules it extends

A state is a window of bars, what the simulation of each accepted definition returns on it, and the
runs that are stored of them. One action appends a bar and computes all of it again; everything
else is a function of the state. `PineExpression` parses a sequence of tokens
and evaluates the tree to a series, one value per bar. `LocalRunner` accepts or refuses a
definition and simulates it bar by bar. `LedgerMetrics` has every exported
function of `packages/metrics`; money is an integer and a ratio a pair of
integers, compared by cross-multiplication. `ReportParsing` reads rows of
cells: delimiter, quoting, decimal and group separators, columns, the two
rows of a trade, warnings. `PaperFills` sends the trades of the
simulation as alerts through the paper engine. `ResearchReports` reads all
of it back as the runs of strategy versions. That these agree is one statement
about ten calculations, `LedgerAgrees`.


## 3. What TLC checks

Deadlock is checked in `AlgoLibrary_publish`, whose calls never end in a dead end. The
other runs check it off because those systems may legitimately
stop: requests are answered once, rows and jobs are used up, the window of bars is full, and
producers, operators and researchers need not act.

| run | instance | states | shows |
|---|---|---|---|
| `OutboxRelay_keeps` | 2 relays, 2 rows (one unrouted), batch 2, 2 attempts, 1 stall, 1 fault | 405 k | type; `NoLostEvent`, `FreshRowHeldOnce`, `RerunOnlyAfterEviction`, `SettledForGood`; refinement `KeepsPromise`; `EveryRowSettles`, `EveryJobFinishes` |
| `Workflow_race` | 3 calls, 2 of them decisions, 2 keys, 5 requests | 6.5 M (symmetry) | type; `OneTransitionPerKey`, `ApprovalHasVerification`, `DecisionHasTransition`, `CommitsAreWhole`, `MovesFollowPolicy` |
| `ForwardPaper_single` | 1 worker, 3 deliveries, 2 alerts, 2 commands, 1 fault | 2.4 M (symmetry) | type; `BookAlternates`, `RejectedHasNoFill`; refinement `KeepsLedger` |
| `ForwardPaper_pair` | 2 workers, 2 deliveries, 1 fault | 250 k | `OneOrderPerSignal`, `ProcessedHasFill`, `QueuedSignalSettles` |
| `IngestionChain_evidence` | 1 process, 2 ledgers, well-formed and malformed content, 1 fault | 40 k | type; `EvidenceConverges`, `LedgerIsCompared` |
| `IngestionChain_pair` | 2 processes, a ledger and a summary, every definition, 1 fault | 1.1 M (symmetry) | `EvidenceHasSources`, `AnalysedRunSucceeds` |
| `SseFeed_stream` | 3 rows, one of another organisation, 2 tickets, 1 page, 2 polls in flight, batch 2, 1 fault | 215 k | refinement `KeepsFeed`; `AboveCursorIsSent`, `WrittenIsSeen` |
| `AlgoLibrary_publish` | 2 calls, 2 versions, a run of one and a deployment of the other, ledgers of no trade or one | 5.2 M | `OneCurrentRelease`, `AnsweredNumberStands`, `PublishedHasEvidence` |
| `StrategyRegistry_list` | 2 requests, 1 key, 3 commands, 2 strategies, 3 versions, 1 worker, 3 attempts, 1 stall, pages of 1 | 3.6 M (symmetry) | `AnswersNameOneEntity`, `ListedIsLatestMoved`, `PagesAreExact` |
| `Services` | a task, a practice run and 2 workers; 2 deliveries of 4 events; an upload, 2 datasets, 2 ingestions | 467 k | `ItemSettles`, `OrganisationHasAdmin`, `RecordedDatasetIsKept` |
| `Calculations` | every window of up to 5 bars of 4 shapes, 5 definitions, 2 locales | 1365 | `NoLookahead`, `LedgerAgrees` |

One more run, `Workflow_answer`, expects a violation and is described in section 5.

**Properties worth a word.** `FreshRowHeldOnce` is what remains of exclusive claims:
it needs the age condition of the reclaim. `RerunOnlyAfterEviction` needs the
deterministic job id. `OneTransitionPerKey` rests on a primary key that is violated only
when two calls pass two lookups each. `ApprovalHasVerification` survives the stale reading
of the evidence because verifications are never taken back; its sibling about
parity does not survive (section 5). `CommitsAreWhole` follows the calls that are overtaken: of two that pass every look-up
of a key, one fails at its commit, answers an error and must leave neither decision nor audit row, while the other's stand. `BookAlternates` holds for one worker because the
queue serialises the transactions; with two workers it does not (section 5).
`OneOrderPerSignal` holds for any number of workers because of
`paper_orders.signal_event_id`'s UNIQUE constraint. `EvidenceConverges` says that with
one process every table ends as one result computed from the present table before it,
in whatever order the jobs of two ledgers and their retries were executed; it holds
since each handler reads the whole table and announces its own replacement.
`AnalysedRunSucceeds` is about the two queries in which a run's metrics and its status are written: a process that
dies between them leaves a job that writes the status later, unless the job is given up.
`SettledForGood` distinguishes two things: a settled row stays settled, and one that no relay holds is not touched again; while
a relay holds it from before a reclaim, PUBLISHED may still become FAILED.

`KeepsFeed` holds although overlapping polls set the hub's cursor back, because each subscriber
keeps a cursor of its own. `AboveCursorIsSent` is what remains of "every event
is sent": an event above both cursors is reached, however many rows of others
fill a batch before it. `WrittenIsSeen` follows an event over a broken connection, a new ticket and
the catch-up of the next one. `OneCurrentRelease` holds although the number and
the current release are read before they are used, because of a UNIQUE index;
`PublishedHasEvidence` holds of *some* release since neither releases nor evidence are deleted.
`ListedIsLatestMoved` says that the list, when no refresh is left, shows each strategy as its transitions left it, whichever of them
overtook its refreshes; a strategy of which a refresh was given up waits for its next transition and is excused (section 5).
`AnswersNameOneEntity` holds although the effect may happen twice: the second
`recordIdempotency` fails on the key. `OrganisationHasAdmin` holds although errors are caught inside transactions: the delivery that inserts an
organisation makes its user an ADMIN in the same transaction, and one with a failed statement commits nothing.
`RecordedDatasetIsKept` holds because an ingestion's object is younger than the grace period until its rows commit.

`NoLookahead` compares the simulations of two windows, one a bar longer: the
trades closed in the shorter one are the same in both. `LedgerAgrees` is the
conjunction of `ReportReadsBack` (the report in each locale, its rows in any order, parses to the simulated trades),
`SummaryHasParity` (the summary of the same run passes the comparison, that of a run with another trade does not; a deviation is
judged PASS, WARN or FAIL by the last unit on either side of each tolerance, and a figure that the report lacks decides nothing),
`ForwardMakesLedger` (the same signals as alerts make the same trades in the paper book),
`FiguresAddUp` (curve, drawdown, metrics and robustness agree with each other, section 4; with `IsLedger` of each ledger), `BarsReadBack`,
`ValidationAgrees`, `PortfolioAgrees`, `ForwardMatchesBaseline` (the drift report of a forward test that repeats its
baseline shows a change of 0 in each figure; only the profit factor of a baseline that lost every trade is 0 / 0, section 5) and `CountsAgree`.

**Bounds.** Two actors and two objects are the smallest instance of every race listed
in the hazards; a third call or delivery lets one overtake the other two, and
a third delivery gives entry, exit and re-entry. One fault is enough for one crash, one lost lock or
one failed attempt between any two steps. `MaxAttempts` is 2 or the code's 3, so an attempt is made again, and
jobs that exhaust their attempts, and jobs that do not, both occur.
`MaxTime` 2 lets a row be fresh, stale, and older than another one.
`MaxFaults`, `MaxTime`, `EventTypes`, `Inputs`, `Attachments`, `Repeats` and `Mixed`
exist only as bounds; their declarations say so. `Mixed` is FALSE in all runs: the completion
route does not check a run's runner type, so a report can be attached to a
local run, but the two chains then mix their ledgers and the instance grows
tenfold. `Symmetry` is used only in runs without liveness properties. In `Workflow_race` it
permutes the keys, and the decisions among themselves; in `StrategyRegistry_list`, the requests.

In `SseFeed_stream` three rows with a batch of two cut a poll short, one of them belongs to another organisation, and
two tickets are a connection and a reconnection; `Slots` 2 is one poll overtaken by another.
`Copies` 1 gives each ticket's URL one request, since a second one only
matters to `TicketClaimedOnce`. In `AlgoLibrary_publish` a ledger has no trade or one, which lets one that is replaced lose what it had, and
both versions can be released, superseded and given evidence while the other call runs. In
`StrategyRegistry_list` the clock has two readings of one millisecond, so that strategies tie
in the cursor; a page of one strategy has its edge between any two. Its behaviours (`SideSpec`) are of two kinds, one with documents and a
client that lists and one with refreshes: a page is selected from strategies, versions and documents, which no refresh
writes, and a refresh reads no document, so neither property can tell the two interleaved from the two apart. In `Services` the Clerk events have an
organisation with two members, a slug that two organisations want, and a user of two
organisations. Five bars leave room for warm-up, a signal, an entry on the
next bar, an exit and a re-entry; the four shapes go up, down, both ways, and open
with a gap. The definitions cover operators, offsets, six of the functions, three ways of sizing, two kinds of stop, and two definitions that fail.
A report of at most four rows (`MaxShuffled`) is read in every order, a longer one in two. `MaxEvidenceRows`, 5000 in
the code, is 100 and above every ledger of the run.

**Fairness.** Weak fairness of relay iterations, of the reclaim timer and of time: the loops run until
shutdown, and `setInterval` fires. Of each worker's steps: BullMQ workers poll
forever and handlers have no unbounded waits. Of `Recover`: BullMQ's stalled check is periodic. Of the hub's polls, of
the statements of a stream request and of a mounted page's steps: the hub's timer fires, queries are answered, and
`EventSource` and the page's effect go on by themselves. Of `Execute` of each research worker, with one job at a time. Never of a
producer, an operator, an upload, a failure, a reconnection's cause or an eviction. Faults are finite by their
bound; with as many faults as a signal's job has stalls plus one the job fails
for good and its signal stays `PENDING` for ever, as nothing retries it:
`QueuedSignalSettles` is therefore stated for at most one death (`MaxFaults` = 1).
`ListedIsLatestMoved` and `EvidenceConverges` are checked with the one worker process that is deployed.

## 4. What is proved

The theorems hold for all values of the constants that satisfy the named assumptions;
these are type facts (`UnroutedAssumption`, `NoEventAssumption`, `BoundsAssumption`,
`DecisionsAssumption`, `InputsAssumption`, `EventTypesAssumption`, `NothingAssumption`,
`RunAssumption`, `WorkersAssumption`, `NoJobAssumption`, `ContentsAssumption`, `LibraryAssumption`, `RegistryAssumption`, `EventsAssumption`, `KeysAssumption`,
`BatchAssumption`, `UndefinedAssumption`), and TLC evaluates them in every run that uses the module.

**`OutboxRelay_proofs`** – any number of relays and rows, any batch size, time and
number of faults. `TypeCorrect`; `PublishedWasDelivered` (`NoLostEvent`);
`FreshRowsAreExclusive`; `RerunNeedsEviction`; `SettledRowsStaySettled` (`SettledForGood`: a row is only written by a relay
that holds it, and only PENDING rows and those in PUBLISHING are claimed or reclaimed);
`Refinement` (`Spec => Promise!Spec`). The inductive invariant `IInv` adds to
these what makes them inductive: rows a relay holds as done were delivered, or
have no queue; rows in hand are not yet settled unless they are stale; a job that
was never evicted has been handled at most once, and not at all unless it completed.
The refinement then has one step per action: a claim, a tick or a job step
stutters, `Publish` delivers, `markPublished` acknowledges the delivered rows, `markFailed` gives up.
It uses the invariant where a mapped step needs a fact about the past, for instance that
everything in `done` was delivered.

**`ForwardPaper_proofs`** – any number of deliveries, alerts, commands and workers.
`TypeCorrect`; `SignalsAreOrderedOnce`; `ProcessedSignalsAreFilled`; `PendingSignalsAreCarried`: a signal that is
`PENDING` has a job to come, or one that used up its attempts or stalls. `IInv` adds to these that an alert's
row and job exist only once its delivery is done (`RowComesFirst`), a worker has the row whose job it took (`WorkHasSignal`), an active job
has an attempt left (`AttemptLeft`), and what a worker is about to insert belongs to the signal it read
(`OutcomeIsOwn`). Of the code only the UNIQUE constraint at the commit keeps a second order out; nothing the
worker has read of the book is used, which is why the theorems hold for any number of workers.

Three more hold under the hypothesis `OneWorker`, which is stated in
the theorems and is what the deployment's single `worker-forward` with concurrency 1 provides.
`BookIsInOrder` (`BookAlternates`); `RejectedSignalsAreNotFilled`;
`LedgerRefinement` (`Spec => Ledger!Spec`). `BookAlternates` alone is not inductive: that the next fill fits
depends on what the worker read several queries earlier. `LInv` therefore says that the book's
sequence numbers are exactly 1 to its size, that there are as many entries as exits or one more
according to the parity of the size (`BookInOrder`), that the position, sequence number and curves read
so far are still those of the book (`DecisionStands`, `CurvesStand`), and that the signal being handled is
still pending (`WorksOnPending`). Each of the last three can fail with two workers, and section 5 shows what
follows from that. In the refinement a delivery's insert maps to `Record`, a commit to `Enter`, `Exit` or `Refuse`, and every other step stutters.

**`IngestionChain_proofs`** – any number of processes, files, contents, attempts and faults, repeated
and overlapping executions included. `ChainTypeCorrect`; `ChainHasSources` (`EvidenceHasSources`); `ChainMarksAnalysedRuns`
(`AnalysedRunSucceeds`); `ChainConverges` (`EvidenceConverges`). A table that has rows keeps some for ever, because every
handler inserts what it deletes before it commits; an event is emitted by
the transaction that fills the table its handler will read. The invariant `IInv` says so for the events
waiting (`Sourced`), for the job an executor has taken (`JobOK`), for what it has read (`ExecutorOK`) and for the
rows it has computed (`MadeOK`). Convergence needs the types (`TInv`) and, while one process is deployed and no
execution is given up, `CInv`. A queue then has one executor, so what a transaction replaces is all its table holds
(`OldOK`); an execution that has lost its lock is followed by another waiting job of its queue (`HeldOK`); and each link of the
chain whose table does not match the tables before it has a waiting job, or an execution at work
on what those tables hold now (`CurveComes`, `MetricsCome`, `VerdictComes`). When nothing waits and nothing
works, every link therefore matches.
`ChainDoesNotDuplicate` needs of this only `OldOK`, and so holds of lost jobs too: what a step does to a table of the chain is
either nothing or `replaced` (`Replacing`), and with one process that leaves one row. `FilesAreAsRecorded` has an invariant of its own
(`FInv`): what a completion has fetched or recorded is what the store holds, a job to parse a file comes after its registration, and an execution has read
the recorded bytes.

**`AlgoLibrary_proofs`** – any number of calls, versions, runs and deployments. `LibraryTypeCorrect`;
`LibraryHasOneCurrentRelease`; `LibraryAnswersStand`; `LibraryPublishesEvidence`. The key is `Numbered`: the
release numbers are 1 to the highest, each taken once. A call that is about to insert number
`highest + 1` started its update after the release `highest` had committed, so it has seen the
current release and holds its row; a call with a smaller number is refused by the
index. `CallOK` says this of each call, `SnapshotsOK` that evidence
belongs to a released version and its own ledger, `PublishedOK` that a published algo has some.
`LibraryEvidenceIsEarned`: no snapshot of a deployment counts more trades than its ledger has, whatever refreshes overlap while that grows;
of a run, whose ledger may be replaced, section 5 refutes it.

**`StrategyRegistry_proofs`** – any number of requests, keys, commands, pages and lost requests. `RegistryAnswersOnce`
(`AnswersNameOneEntity`): an answer's entity is that of its key's record (`AnswersAreRecorded`), and a
record is written once, since no body is taken for a missing one. `RequestsAreSound` keeps keys and bodies those that clients send.
`RegistryPagesAreExact` (`PagesAreExact`), for pages of any size while strategies are created and come to match a filter or not between them:
`ListIsSound` says that a strategy which has matched since the listing began has been returned or comes after the cursor. A page is
a prefix of the remaining rows, so what it leaves out comes after its last row; that there is a first row to begin
with is the well-foundedness of the naturals.
`RegistryListsLatestMoved` (`ListedIsLatestMoved`) has the hypothesis `OneWorker`, the one `worker-analytics` that is deployed:
a strategy whose read model does not show the version that moved last has a job waiting, or the worker is about to write a row
read since, or a refresh of it was given up and none has begun since (`StaleIsWaiting`).

**`SseFeed_proofs`** – any number of rows, tickets, pages, polls in flight, reconnections and restarts, any batch
size. `FeedTypeCorrect`; `FeedRefinement` (`Spec => KeepsFeed`). `SInv` says that a poll's batch
is published (`PollsAreSound`); that what was sent to a stream is in order and not above its cursor, that an open stream is of
its ticket's organisation, and that its catch-up rows are published, match it and are above its cursor (`StreamSound`); that no request was
made with the ticket of a page that is about to connect (`PageSound`), and that two pages have two tickets (`TicketsAreOwn`). `PublishRow` maps to
`Publish`; minting and connecting choose a reader for streams that were sent nothing, which is `Open`; `subscribe` and the fan-out of
`finishPoll` map to `Write`; and every other step, the
restart and the broken connection included, stutters. What a
batch is rests on facts about finite sets of numbers: that one has a greatest element,
and that a smallest-first prefix of it exists and is in order, both by counting elements.

**`Services_proofs`** – any number of deliveries and events: `ProvisioningGivesAnAdmin`, `ProvisioningKeepsReferences`; any number of
objects, ingestions and bars: `DatasetsCanBeRead`; any number of items, workers and reviewers:
`ResearchOutcomesAreStored`, `ResearchTrailIsClosed`, `ResearchTerminalStays`, `ResearchAuditTellsPrior`.
`ProvisionInv` says that the rows a delivery builds on are
its own or committed, that a key is held by one open transaction, that members are of committed organisations, and that
each of those has an ADMIN, which the delivery inserted with it. `HousekeepingInv` says that
the object of a recorded dataset is in the store and that of one about to be recorded is fresh and its own
(`DatasetsAreKept`), and that what the reaper is about to delete is old and no dataset (`ReaperSparesDatasets`).
`ResearchInv` says that a task is held by one worker with its lock (`LocksAreHeldOnce`), that a job comes after its row, and what each
execution knows of the row; from it, a job is acknowledged only for an item whose outcome is stored, and state, output and diagnostics
agree (`OutcomesAreStored`, which holds with lost locks and crashes). `ResearchTrailIsClosed` holds of any reviews, overlapping or not: the score
of a practice run, and each score an audit event names as replaced, is none or was recorded by an audit event of that run. The other two
carry as hypothesis the interleaving that section 5 gives for their failure, and nothing about locks, crashes or the number of workers and
reviewers: what is executed in turn is still open (`ExecutedIsOpen`), so `TerminalStays` holds; in turn, the score that
was read is still there (`PriorIsCurrent`), so `AuditTellsPrior` holds.

Of `Workflow`, in the same module, for any number of calls, keys and any `Inputs`:
`WorkflowTypeCorrect`; `KeysApplyOnce`; `ApprovalsAreVerified`; `DecisionsHaveTransitions`;
`CommitsStandWhole`; `PolicyIsFollowed`. `WorkflowInv` relates the audit rows with the
records: each audit row's key carries its own caller's workflow fingerprint (so two audits with
one key are one), each record has an audit row, a call in `recheck` or `apply` was
cleared by the policy *on what it had read* (`ClearedByPolicy`), and a
verification once seen is still there (`SeenIsPassed`). A version
moves only when its state still is the one that was read, so the clearance is about the actual move.

**`LedgerMetrics_proofs`** – every ledger that satisfies `IsLedger`: a finite sequence of trades in any order, each LONG or
SHORT, the decided ones with a whole result and an exit time. TLC checks `IsLedger` of every ledger of the `Calculations` run (`OneLedger`).
`LedgerFiguresAddUp` is `FiguresAddUp`, the part of `LedgerAgrees` that section 3 describes, for every ledger and every capital: equity curve,
months, directions and removal curve add up to the net profit, a losing streak is no longer than there are losing trades, and a
drawdown is at most the gross loss and at least what the ledger lost in all. `DrawdownIsDeepestFall` says that the reported drawdown is that of some two points of
the curve and exceeded by no other two; `CurveIsChronological` that the curve's points are in the order of time although the
ledger's trades are not.
Sums are recursive, so this is induction over data after all, stated in two forms that need no operator as a parameter: the set of the subsets for which a fact holds,
and a smallest subset for which it does not. The order that `reconstructEquityCurve` sorts
by is the bijection that counts, for each closed trade, how many come before it. A sum is the same along that
bijection, and adds up over a partition; months, directions, and gains and losses are partitions.

The proofs are laid out with one step per action and the lemmas on `evaluateTransition` and on sets apart.
Every safety property of the passing runs is a theorem except `NoLookahead` and `LedgerAgrees`. The first is about
recursive evaluation of expressions and bars, and `PineExpression` and `LocalRunner` declare RECURSIVE operators, which the prover cannot reason
about. Of `LedgerAgrees`, `FiguresAddUp` is proved; its other parts compare parsers, simulation and reports, which recurse likewise or
are written with `SelectSeq` and `SortSeq`. These stay with TLC, as does all liveness under fairness, which needs ENABLED; of
`QueuedSignalSettles` the safety half, `PendingSignalsAreCarried`, is proved.

**Under which condition a broken claim holds.** Ten theorems are the counterparts of formulas that section 5 refutes. Their hypotheses name
the interleaving, the number of processes or the kind of step that the counterexample needs, and some behaviours satisfy each of them.

| theorem | hypothesis | then |
|---|---|---|
| `OnePositionIsOpen`, `VerdictsStand` | `OneWorker` | `DepthAtMostOne`; `ProcessedStays`, and a rejection stays as well |
| `AlertsInTurnAreRecordedOnce` | `AlertsInTurn`: no two deliveries of an alert are between lookup and insert | `OneRowPerAlert`, and an alert has one order at most in any number of workers |
| `CommandsInTurnFollowLifecycle` | `CommandsInTurn`: no two commands are between check and update | `PauseNeedsActive`, and COMPLETED is final |
| `ChainDoesNotDuplicate` | one process is deployed | `VerdictIsNotDuplicated`, and the same of curves and metrics, jobs given up included |
| `FilesAreAsRecorded` | `BytesStand`: no step replaces the bytes under a key | `ParsedIsRecorded` and `CorrectionIsRecorded` |
| `LibraryEvidenceGrowsInTurn` | `RefreshesInTurn`: no two refreshes of a deployment's evidence are between read and write | `EvidenceMovesForward` |
| `FeedTicketsInTurn` | `ClaimsInTurn`: no two requests with a ticket are between SELECT and UPDATE | `TicketClaimedOnce`, whatever expires, breaks or restarts |
| `ResearchTerminalStays` | `ExecutionsInTurn`: no two executions of an item are between read and store | `TerminalStays`, however many locks are lost and jobs delivered again |
| `ResearchAuditTellsPrior` | `ReviewsInTurn`: no two reviews of a practice run are between read and write | `AuditTellsPrior`, whatever the reviews of other runs do |

`OneWorker` and the
single process of the chain limit the number of processes, as the deployment does; the other hypotheses are state or action formulas that the
behaviour itself satisfies or not.

## 5. Where the code and its documents disagree

Found while modelling. The run `Workflow_answer` finds `CommittedIsAnswered` violated: the
decision route inserts the key that the workflow has inserted already, and throws after the decision has
committed, where `docs/api-examples.md:281-282` promises the original response to a replay.

The modules state further formulas of this kind in their last sections, with the words of the
source they come from. TLC refutes each when its name replaces the properties of the configuration
in the first column, with the changes named there. The table at the end of section 4 says under which condition some of them hold, and which theorem proves it.

| configuration | formula | the code | the text |
|---|---|---|---|
| `OutboxRelay_keeps`, `Spec` | `OneHolder` | reclaims by `created_at`, so a backlogged row just claimed is reclaimed at once and claimed twice | `schema/system.ts:5-8` PUBLISHING prevents that; `drizzle-outbox-store.integration.test.ts:141` |
| `OutboxRelay_keeps`, `Spec`, nothing unrouted | `RepublishCollapses` | finished jobs are evicted, and a republished row then runs again | `drizzle-outbox-store.ts:80-82` "BullMQ collapses the duplicate" |
| `Workflow_answer` | `NoApprovalOnFailedParity` | reads evidence before the transaction, without a lock | `policy.ts:15-18` no approval when "parity is FAIL" |
| `Workflow_answer`, `RaceInputs` | `EveryAuditIsAMove` | the row count of the conditional update is not looked at, so an audit row is written although nothing moved | `services/campaigns.ts:176-179`, `docs/adr/0003-workflow-engine.md:70` |
| `Workflow_answer` | `OneDecisionPerKey` | after `alreadyApplied` a second decision row is inserted | `services/decisions.ts:47-51` |
| `Workflow_answer`, `RaceInputs` | `ReusedKeyIsRejected` | the second lookup ignores the fingerprint | `schema/system.ts:52` |
| `Workflow_answer` | `RetryIsReplayed` | the stored fingerprint is the workflow's, so an identical retry is a conflict | `docs/api-examples.md:281-282` |
| `Workflow_answer`, `RaceInputs` | `AdminIsNotRefused` | `evaluateTransition` knows no bypass | `docs/adr/0003-workflow-engine.md:72` "`ADMIN` bypasses role checks by design" |
| `ForwardPaper_single` | `OneRowPerAlert` | looks up, then inserts; no UNIQUE constraint | `schema/forward.ts:54-56` "never creates a second row" |
| `ForwardPaper_single` | `FillOnlyWhileActive` | reads the state without a row lock | `worker-forward/src/handlers.ts:233-235` "no partial-state window" |
| `ForwardPaper_single` | `PauseNeedsActive` | a command updates by id only, so it may overwrite `COMPLETED` | `services/forward-deployments.ts:230-231` |
| `ForwardPaper_pair`, `Spec`, 3 deliveries | `DepthAtMostOne` | position and insert are separate queries in two processes | `worker-forward/src/handlers.ts:50` "Depth ≤ 1 by construction" |
| `ForwardPaper_pair`, `Spec` | `ProcessedStays` | `reject` updates by id only | `worker-forward/src/handlers.ts:237-239` |
| `IngestionChain_evidence`, `Spec`, `Repeats` | `ParsedIsRecorded` | fetches the object again when parsing; a key's object can be put again | `worker-backtest/src/handlers.ts:51-53` "exact bytes that were durably stored" |
| `IngestionChain_evidence`, `Spec`, `Repeats` | `CorrectionIsRecorded` | the key, UNIQUE among artefacts, is the same for a corrected file | `worker-analytics/src/handlers.ts:314-317` |
| `IngestionChain_pair` | `VerdictIsNotDuplicated` | two overlapping executions both insert | `docs/database.md:75-78` |
| `IngestionChain_evidence`, `MaxAttempts` 1, definition `"sound"` | `RunEnds` | RUNNING is set before a fetch that may throw at every attempt | `worker-backtest/src/handlers.ts:330-333` |
| `SseFeed_stream`, `Spec`, `Copies` 1 and 2 | `TicketClaimedOnce` | the ticket is selected, then marked by id only (`sse-tickets.ts:53-59`) | `docs/adr/0007-server-sent-events.md:64` "single-use" |
| `SseFeed_stream` | `MatchedIsSent` | an event that is published after one with a larger id, or between the catch-up read and the subscription, is below the cursor (`sse-hub.ts:147-190`) | `sse-hub.ts:166-168` "Closes the gap" |
| `AlgoLibrary_publish` | `CurrentHasEvidence` | the check reads, a release may follow before the update (`publishing.ts:501`) | – |
| `AlgoLibrary_publish`, `MaxTrades` 2 | `EvidenceMovesForward` | a refresh that read a deployment's ledger earlier writes later (`publishing.ts:454`) | – |
| `AlgoLibrary_publish` | `EvidenceIsInLedger` | a run's trades are replaced by those of another report, which may be fewer (`worker-backtest/src/handlers.ts:199-204`), and no snapshot is computed again | `publishing.ts:372-374` "a library number cannot be better than the trades that produced it" |
| `StrategyRegistry_list` | `NoRefreshIsMissed` | a refresh has three attempts (`bullmq-publisher.ts:79`); when they are used up nothing repeats it until the strategy's next transition | `worker-analytics/src/handlers.ts:396-397` "either way the row converges on the same true current state" |
| `StrategyRegistry_list` | `ListedIsLatest` | a child's creation emits no event, so the read model keeps its parent | – |
| `StrategyRegistry_list` | `OneEffectPerKey` | the effect commits before the key is recorded (`lib/idempotency.ts:17`) | – |
| `StrategyRegistry_list`, `MaxVersions` 4 | `NumbersDiffer` | a child's number is its parent's plus one, and siblings share it (`strategy-registry.ts:111`) | – |
| `Services` | `TerminalStays` | an execution that read the row earlier marks it RUNNING again (`worker-research/src/handlers.ts:54`) | – |
| `Services`, 2 reviewers and scores | `AuditTellsPrior` | the prior score is read outside the transaction | – |
| `Services` | `RecordedUploadIsKept` | a report completed after the reaper's reads loses its object (`upload-reaping.ts:64`) | – |
| `Services` | `OneVersionPerCoverage` | two ingestions look the coverage up before either inserts | – |
| `Calculations` | `StopKnownAtOpen` | the multiple of an ATR stop is of the range of the entry bar, which only its close determines (`simulate.ts:139`) | `docs/adr/0005-local-pine-runner.md:120-122` takes the range "at the entry bar", and its 117-118 calls lookahead "a hard error" |
| `Calculations` | `CompiledRunsSucceed` | the compiler does not look at the names in stops and targets, and the simulation throws | `simulate.ts:41` "compile() should have rejected this" |
| `Calculations` | `DriftIsNumber` | a baseline that lost every trade has the profit factor 0, by which the drift is divided: NaN or -Infinity (`robustness.ts:108-111`) | `robustness.ts:95` declares a number or null |
| `Calculations`, `MaxEvidenceRows` 1 | `LedgerAgrees` | the drift report compares a baseline of the first rows (`backtest-evidence.ts:107`) with all fills | – |

A dash means that no text promises it; the formula says what a reader may have expected and does not get.

Seen while translating, and not stated as formulas:

- a length argument that varies from bar to bar is taken from the first number of the whole series, which may
  lie ahead (`expression/evaluate.ts:211-215`); `NoLookahead` holds for the constant parameters of the instance;
- a Profit cell that cannot be parsed silently leaves `netPnl` undefined, where `tradingview/csv.ts:76-82` wants
  callers to warn; letters in a number are dropped, and `1,5` reads as 15 in a comma-separated file; an empty "Trade #"
  reads as trade 0; of two exit rows the last counts;
- with two ENTRY fills in a row the pairing drops the first (`fill-pairing.ts:41`);
- the health sweep's script takes the present time for its tick (`sweep-health-snapshots.ts:18-20`), so a run after a partial
  failure is a new sweep and skips nothing of what `forward-deployments.ts:326-330` means it to skip.

## 6. What is not modelled

Left out: the web pages and forms other than `LiveRunUpdates`, which call the API and keep no state;
the database schema as such, migrations, seed and infrastructure; the operations page; the verification of tokens and
webhook signatures, which is a library's; HTTP retries towards the exchange and its formats; the
lexer of expressions and the local runner's `cancel()`, which nothing calls; the creation of deployments,
verifications and runs, which is the initial state of their modules; a strategy's detail page, lineage and
diffs of definitions; benchmark tasks.

Abstracted: amounts are integers and ratios pairs of integers instead of decimals and floating point, so rounding
is visible only where the code rounds; a signal's tokens are a set, in which a dotted word is one token; the order of
rows in reports that have none of their own; the caller's organisation, except in `SseFeed` and `Provisioning`. One API
process has one hub; two have two that share nothing but tables.
`PROJECT.json` gives the reason with each component.

## 7. Plan

Done, in the order of importance: the relay and its promise, the workflow and the policy,
the forward test and its ledger, the evidence chain, the event feed, the library, the registry
and the read model, research tasks, provisioning and housekeeping, the calculations; the refinements and the safety
properties of all of them as theorems, and of the calculations the ledger's figures.

What remains:

1. `ForwardPaper`'s pairing of fills into trades for books of any length, with the lemmas of `LedgerMetrics_proofs`.
2. `NoLookahead` for every expression, with the evaluator rewritten as a recursive function.
3. `EvidenceConverges` as an abstract specification that the chain refines with one process.
4. The remaining POST routes' acts under `StrategyRegistry`'s shell, and the creation of deployments and runs.
