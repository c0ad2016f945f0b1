# OptAIC: TLA+ models of the core

OptAIC is a quant research platform: a FastAPI service over one SQL database
(PostgreSQL, or SQLite when one user runs it locally), a worker that empties an
outbox table, an orchestrator that executes data pipelines, and a supervisor that
installs and runs the processes. These modules model the parts in which several
actors work on the same state, check them with TLC and prove their safety with TLAPS.

    tlc -workers 2 -config Outbox_postgres.cfg MCOutbox      # a run, see "Runs"
    tlapm OutboxProofs.tla                                   # a module of proofs

Contents: [inventory](#inventory) - [plan](#plan) - [models](#models) -
[runs](#runs) - [proofs](#proofs) - [findings](#findings) - [limits](#limits).

Paths are relative to `src/`. `PROJECT.json` maps every definition to its source
lines, lists the runs, the hazards with the properties that cover them, and for
every property a plausible bug of the code (an operator marked `Bug:` in the
modules) that TLC finds with it.

## Inventory

### How the parts interact

    browser / SDK / agent
          | requests                        realtime server (Centrifugo)
          v                                        ^
    routers -> services -> one session,            | POST per channel
               GovernanceService   \               |
               PipelineRunService   > one commit   |
               tx_activity         /    |          |
          |                             v          |
          |  submit/get_status    SQL database -> outbox worker
          v  cancel                (rows, outbox)   audit, notifications
    orchestrator (in-process, one per request; or Prefect)

* A request handler has a database session of its own; it reads, awaits and writes,
  and, as a rule, everything is committed once, at the end (`apps/api/deps.py`). No handler of
  the API selects FOR UPDATE, and the isolation is READ COMMITTED: what a handler has
  read may be stale when it writes. Every model below is split at those awaits.
* A change and the *activity* that tells of it are written in one transaction
  together with an *outbox* row (`libs/core/activity`); the worker delivers it.
* The run service calls the orchestrator, whose state is not in the database: the
  two are reconciled by polling.
* `get_orchestrator` makes a new in-process orchestrator for every request (`apps/api/deps.py:280-288`), with an empty table
  of runs: a later request learns nothing of a run that an earlier one submitted, although it goes on executing. Prefect's server would be
  shared and outlive the API; `deps.py:283` names it as the alternative, and nothing selects it yet.

### Components

What each part keeps, what is hard about it, and the module that models it. `PROJECT.json` lists
the sources of each and says what is left out.

| component | state | what is hard | what makes it correct | module |
|---|---|---|---|---|
| **Outbox worker** `apps/worker` | `outbox.published_at`, audit, notifications; a batch per worker; what the realtime server was sent | several workers; a batch is one transaction but a POST cannot be undone; crash; lost answers; SQLite has no row locks | audited once, published exactly when all was done, repeated only for failures, delivered in the end | `Outbox`, `ActivityDelivery` |
| **Watchers, notifications** `outbox.py:108-400` | subscriptions, owners, roles, preferences | read statement by statement at delivery while requests change them | who had a lasting reason is told, nobody else | `Watchers` |
| **Sessions, activity log** `libs/db`, `libs/core/activity`, `apps/api/deps.py` | a session, its transaction and savepoint | savepoints, resets, flushes, two dialects, a failure anywhere | rows, activity and outbox row together | `Sessions` |
| **Endpoints** routers and services | own rows | which of their writes end in which transaction | all or nothing | `DomainHandlers`, `AccountHandlers`, `ResourceHandlers`, `Handlers` |
| **Guardrails** `optaic/guardrails` | contract bundles, reports | reports written before a reset | as above | `ResourceHandlers` (the gate) |
| **Permission engine** `libs/core/rbac_casbin` | bindings, the tree with `inherit_break` | a chain read row by row while the tree moves; cycles; casbin's depth limit | granted exactly by a binding on a path | `Permissions` |
| **Resource tree** routers `resources`, `rbac`, `promotions` | `resources.parent_id`, status, bindings | decisions on a tree another handler changes; pages | a tree stays a tree; a listing misses nothing | `ResourceTree` |
| **Governance: transfers** `libs/core/governance.py:565-1083` | requests, owner, role bindings | two parties answer at once; an offer outlives a gift | owner and owner role agree; one pending offer; a decision stays | `Resources`, `Transfers` |
| **Governance: promotions** | requests, votes, place and status | two interfaces over the same tables; overlapping votes; repeated executions | status is what the votes say; carried out once | `Promotions` |
| **Governance: copy, branch, merge** | rows, folders of files, lineage edges | folders shared by copies, copied before the rows | a branch has files of its own until it is merged | `Branches` |
| **Merge requests, refs, versions** | refs, versions, requests, approvals | heads read before the session is reset | a ref only moves forward; merged once; an open request has its branches | `MergeRequests` |
| **Definition upload** `definition_upload_service`, `extension_loader`, `plugin_loader` | folders, rows, a factory of classes per process | folder, factory and row written one after the other; restarts | no name stands for code nobody vouched for | `Definitions` |
| **Local orchestrator** `libs/orchestration/local.py` | a state per run in memory, a thread pool | cancellations between two steps of the coroutine; shared threads; restart | nodes in order; a verdict is earned and final; every run ends | `LocalOrchestrator`, `Orchestrator` |
| **Prefect adapter** `prefect_adapter.py` | flow runs on a server, deployments | the id is known when the flow is over; a crash leaves RUNNING | completed is earned | `PrefectAdapter` |
| **Pipeline run service** | `pipeline_runs`, freshness, dataset status | overlapping polls; a cancellation during a poll; commits that come late or never; an orchestrator that knows only its own request's run | rows tell what the orchestrator said; what is recorded was done by a run; completions trigger | `PipelineRuns` |
| **Lineage, execution order** `lineage.py`, `dag.py` | `dataset_lineage` | read with several queries while edges change; depth limit | order respects the edges; a graph is whole | `Lineage` |
| **Agent runner** `apps/agent` | a cursor per agent | activities become visible out of the order of their dates; breaks between answer and cursor | nothing skipped, answers bounded | `Agents` |
| **Supervisor, self-upgrade** `optaic/runtime` | lock, pid, status, `installed.json`, processes | kills, signals, exits and failed writes between spawning a service and tracking it; a hand-over between processes | one server at a time; nothing left running but what was just being spawned | `Supervisor` |
| **Engine migrations** `engine_migrations.py`, `preflight.py` | engines' databases, backups, recorded versions | stops between backup, upgrade and record | no data lost, nothing taken for done before it is | `Preflight` |
| **Start-up, bootstrap** `startup.py`, `bootstrap.py`, seeds | schema, system tenant, definitions, plugins | several processes on one database | all of the system or none | `Bootstrap` |
| **Data access, expressions, artifacts, CLI, SDKs, web UI, freshness calendars** | files, frames | numerical code, glue, clients, I/O | - | - |

## Plan

The order was by how much a mistake costs and how hard a test for it is. All of it is modelled but the
last line.

| modules | question | state |
|---|---|---|
| `Outbox`, `ActivityDelivery` | does every change reach everybody, once? | checked, proved |
| `LocalOrchestrator`, `Orchestrator` | does a run execute its graph, and what may its callers rely on? | checked, proved |
| `PipelineRuns` on `Orchestrator` | do the rows and the freshness follow the runs? | checked, proved |
| `Resources`, `Transfers`, `Promotions`, `Governance` | who owns what, and was it approved? | checked, proved |
| `Permissions`, `ResourceTree` | may they, and does the tree stay one? | checked, proved |
| `MergeRequests`, `Branches`, `Contributions` | what does a merge lose? | checked, proved |
| `Definitions` | whose code runs? | checked, proved |
| `Sessions`, `...Handlers`, `Handlers` | is what was answered stored, and told of? | checked, proved |
| `Watchers` | who is told? | checked, proved |
| `Supervisor`, `Preflight`, `Bootstrap` | what do kills and failed steps leave? | checked, proved |
| `Lineage`, `PrefectAdapter`, `Agents` | what may the background work rely on? | checked, proved |
| freshness calendars, point in time | pure operators against reference definitions | open |

Every safety invariant and every safety property that a run checks is a theorem as well. Worth proving next: that
the endpoints obey the static rules of the request theorems (`OneCommit`, `ToldWithRows`), today TLC's part; the type invariants
of `Lineage`, `Definitions` and `Watchers`, which their proofs hold as parts of larger ones; `CompletionsTrigger`
for several upstreams once the code reassigns the JSON column (see Findings).

## Models

### Outbox (implements ActivityDelivery)

One element of `Row` is one activity with its outbox row.

| model | code |
|---|---|
| `Enqueue`, `EndProducer` | `record_activity_with_outbox` in the caller's transaction, which commits or aborts |
| `FetchBatch`, `FetchNothing`, `Wake` | the query of `process_outbox_batch`, `worker_loop`'s two-second sleep |
| `SkipUnhandled`, `InsertAudit`, `PublishOk`, `MarkPublished` | one row: no handler for the topic; `handle_activity` flushes notification and audit and posts to each channel; `published_at` |
| `Commit` | the end of `session.begin()`: marks, audits and notifications become durable together |
| `PublishFail` | a failed POST, which may have arrived; the last attempt re-raises |
| `RejectMalformed`, `WriteTimeout`, `Crash` | `ValueError`; SQLite's busy timeout; the worker process dies |

What a worker has written and not committed (`marked`, `inserted`) is apart from what
the database holds (`published`, `audits`, `notified`); `sent` is never undone. PostgreSQL
(`Sqlite = FALSE`) hides the rows of open batches (`SKIP LOCKED`); SQLite admits one
writer. `stamp` is `created_at`. Left out: who is told, the content of events.

`ActivityDelivery` knows activities and no workers: an accepted activity is told to its
channels, then settled - audited, target notified - in one step with others, and never
told again. `ImplementsDelivery` maps "settled" to published, "accepted" to committed.

### LocalOrchestrator (implements Orchestrator)

The event loop makes everything between two awaits one step. `_execute_run` awaits in one
place, `asyncio.gather`, so it is two actions: `Begin` (from its start to the first gather)
and `Resume` (from a gather to the next, or to its return). Threads of the shared pool
are `StartNode` and `FinishNode`; `Cancel`, `Submit` and the process's `Restart` come in
between. The module is one orchestrator: as the API is wired it executes the run of one request, for a caller
that keeps its orchestrator all the runs it submits and those that their completions trigger. `GraphOf` is any graph; the cyclic ones fail as graphlib's `CycleError` does.

`Orchestrator` is what `adapter.py`'s callers can see: a status and whether a cancellation
was accepted. It is as weak as the code makes it: after an accepted cancellation a run may
read "running" or "failed", but never "completed".

### PipelineRuns (on Orchestrator)

`db` holds committed columns by key (a run's status, a dataset's freshness, last pipeline
status, whether a data date is known), `tx[p]` what client `p`'s session has written;
written keys are locked until the end, as row locks do. `Backend == INSTANCE
Orchestrator`: the service is checked against every backend that obeys the contract, hence
by the refinement theorem against the in-process one.

| model | code |
|---|---|
| `Submit` | `submit_run`: readiness of all upstreams or `force`, row, `mark_run_start`, orchestrator |
| `PollLoad`, `PollAsk`, `PollOther`, `PollFailed`, `PollCompleted` | `poll_and_sync`, split at `await get_status`; `_on_run_failed`; `_on_run_completed` |
| `TriggerNext`, `TriggerRefused`, `Propagate` | the observer's ready downstreams are submitted one by one, an exception is swallowed; `propagate_staleness` |
| `CancelAsk`, `CancelWrite` | `cancel_run`, split at the orchestrator's answer |
| `Answer` | what `get_status` tells this request; "unknown" from an orchestrator that was made for it |
| `Commit` | the caller's commit, or the router's end of the session without one |
| `RequestDies`, `Restart` | the request or the process ends; with it the transactions and what in-process orchestrators knew |

`setting` never changes and is chosen in the initial state, so that every run and every theorem covers all four:

| `shared` | `commits` | who that is |
|---|---|---|
| no | no | the code as it is wired: `deps.py:280-288`, and `routers/runs.py:95, 153, 252`, which never commit |
| yes | no | the same routers with one orchestrator for all requests, as Prefect is |
| no | yes | a router that commits, with an orchestrator for each request |
| yes | yes | a router that commits, with a shared orchestrator: what the service takes for granted (its docstring shows `PrefectOrchestrator()`), though the repository has no such caller yet |

What holds in all four is little and is stated as such. A run without a row is the rule through the routers, so there is no property
"every run is recorded"; `MarksHaveRuns` is the other direction: what the database holds was done by a run that an orchestrator was
given, and with an orchestrator for each request nothing is ever recorded as ended. `OutcomeIsKept` says that what a request is *told* gets into
the row; that a completion is recorded follows only where the orchestrator is shared and the caller commits.

`ReportsDates = FALSE` is today's code: no orchestrator reports `end_data_date`, so no
upstream is ever READY (`freshness.py:222`) and only forced submissions pass;
the run `orchestration` sets it to TRUE to check what the readiness rule protects once
one does. `recent` (pairs of a dataset and an upstream that completed after it was refreshed) and `handled`
are history variables.

### Governance (Resources, Transfers, Promotions)

`Resources` holds the columns both kinds of request change and a job per handler: what a
handler has read. A request is two actions (`ReadFor...`, then its writes and commit),
because every handler awaits in between without a lock; a vote is three, because its
upsert locks the vote's row before the votes are counted. An attribute that is assigned the value
that was read is not written, as SQLAlchemy does it (`Assign`): with stale reads that
decides who ends up as owner.

`setting` never changes. It chooses in the initial state how many handlers work,
whether the tables have the model's unique constraint (`transfer.py:83`) or come from
the migrations, which lack it, and how many requests are made. One run thus checks one
handler with both kinds of requests, and two handlers with either. A property that
holds only when requests are handled one at a time says so by `Serial =>`; the others
hold in all settings.

### Permissions, ResourceTree

`Permissions` is the engine as operators over the tree: `Chain` is its walk up (it ends at a break or the
root, and does not end on a cycle), `Linked` casbin's depth limit, `Authorized` the answer. `ResourceTree` has one
pair of actions per request, `ReadFor...` and the write, because every handler authorizes, calls `reset_session` and
writes in a new transaction without looking again. `DecisionsFollowPaths` compares the engine with a definition by
paths: a binding counts if a path of parents without a break, short enough, leads to its scope. A promotion loads its subtree
level by level (`LoadSubtree`); `Subtree` is the least set that holds a resource and is closed under children. Resources are
numbered in the order of the listings, whose pages `ListChildren` fetches; `listing.shown` is the sequence of these pages. The
tree that a behaviour begins with is one of `Beginnings`, of the resources `Planted`, all of them below the root (`BeginningAssumption`).

### MergeRequests and Branches (Contributions)

`MergeRequests` has the refs and versions of one resource, `Branches` resources branched and
merged as a whole; `Contributions` lets handlers work on one or the other. A version is its parents; contents
are left out, because both sides of a merge are dumped with their defaults and the merge takes one of them
(`registry.py:114`). A folder of files is a number; `CopyFiles` is apart from `Branch` because the files are copied
before the rows are written. `Lineage(i, ...)` is the breadth-first walk of `get_resource_lineage`, a recursive function
of the number of visits; what is more than `MaxDepth` edges away is not visited.

### Definitions

A package is a set of paths and what its manifest says; a class is a type and a name. `Unpacked(d)` is what is
on the disk after extraction, `Evaluated` the rows that carry a verdict. An upload is checked,
extracted, tested, stored and registered in the factory of its process; `Deploy` and the rerun of tests are split where the tests
run or the loader imports; `Restart` loads what is active, in any order, and the first class of a name stays.
`vouched` is history: tested, spared the tests, or deployed by somebody.

### Sessions and the handlers

A *script* is the sequence of session operations on one path through a handler: `Look` (reads and
checks, any of which may raise), `Row`, `Flush`, `Sql`, `Commit`, `reset_session`, `Enter` and `Leave` (the block of `tx_activity`),
`Do` (another service); `HandlerAssumption` says that handlers are made of these. `**` concatenates sets of scripts, so that a handler that calls three services is written as one line
and stands for all its paths. `Sessions` executes a script (`RequestSpec`): the session's transaction, what is pending, what was sent, the savepoint,
and a `Raise` before any operation. On Postgres the release of a savepoint commits nothing; on SQLite the driver begins its
transaction with the first change of a row, so that the savepoint may be the transaction.
`DomainHandlers`, `AccountHandlers` and `ResourceHandlers` hold the endpoints by the names of the code's functions, with the services'
operators above them; `Handlers` lists them all (`Endpoints`) and states the properties. The operators at the end of `Sessions` read
a script without executing it: which rows it writes and keeps (`Writes`, `KeptRows`: what no later reset discards), after which of its
operations something may have committed (`MayCommit`), and whether that happens between two given rows (`Together`). From
them come the rules that a path has to follow, `CommitsOnce` and `TellsOfAll`, which the properties state of every path
before it is executed, and what execution must then yield. Some paths are
refused before a row is written (a dataset's creation always is); they are modelled as what they do.

### Watchers

One activity, from the request that records it to its delivery; between the worker's statements
(`_resource_chain` row by row, `_subscription_watchers`, `_resource_owner`, `_resource_delegators`, `_channel_members`,
the preference of each) requests move, subscribe, grant, give and mute. `publish_channels` pushes to one channel after the other; a push that fails
leaves some of them told and starts the delivery again. `Discard` drops the actor, and the target, who has a notification already.
`standing` is who had a reason and the wish all the while, `had` who ever had; `Routes` are the ways up from the place. Whether the tree
changed in any delivery stays known (`changed.tree`), since who was told wrongly stays told. It details what `Outbox` takes as `ChannelsOf`.

### Supervisor, Preflight, Bootstrap

`Supervisor` follows `run_supervisor` step by step (`pc` is the line a server is at) with the files servers share (lock, pid,
status, `installed.json`, engine versions on disk), the processes it started and those that really run (`alive`),
and the self-upgrade: a process that waits for the lock, replaces the package, frees the lock and spawns a server. `Kill`, `Exit`,
`_signal_handler` and an operator's `pip` come at any time. The shutdown runs twice, in the handler and in the finally clause.
Spawning a service and tracking it are two steps (`Popen`, `Track`): `_track_process` writes Prefect's pid file before `stop_all` can find
the process, Centrifugo is tracked when it answers, the API when `start_api` has returned and it is appended. A signal or a failed write in between leaves that service
to itself; `server.lost` remembers which (history). `BreaksOff` is the write of `services_state.json` at the end of `stop_all`
that raises: the rest of this shutdown, which would end the API and Centrifugo and remove the pid, is not reached. `server.whole` tells whether any shutdown got through. A download
that breaks off leaves an empty directory (`bin` without `binaries`), which the clean-up counts as a version.
Left out: a signal during a shutdown, which begins it once more; that a wait loop's `except Exception` may swallow an error of the handler's shutdown;
the moment between taking the lock and the assignment of its handle; the worker and the agent, which are started and stopped as the API is.
`Preflight` (`PreflightSpec`) migrates each engine's database in steps and may `Crash` between any two; `Bootstrap` starts several APIs on one
database, each hook an action, the system and its definitions one transaction (`Created`, `Commit`).

### Lineage, PrefectAdapter, Agents

`Lineage` has one reader, which makes one query at a time, while edges come and go: the traversals, the resolver's order
(a second query for all the edges, then batch by batch), `build_graph`'s depth-first crawl with its frames and its depth limit, the graph's order.
`stood` are the edges that were there all the while, `ever` those that ever were; what is upstream along a set of edges is the least
closed set (`Origins`).
`PrefectAdapter` runs the flow inside `submit_run`, as the code does; stages, the mapping of states, cancellation,
deployments and their local replacement.
`Agents` is the process: `run_once`, per agent `_fetch_activities`, `_handle_activity`, the cursor. Messages are numbered by their
dates and become visible when their request commits (`CommitMessage`); `late` are the agents that were past a
message's date by then. A batch is the set of messages that `_fetch_activities` found, worked through by date. `full_stop` is a crash, `respond_returns` an answer that arrived or not.

## Runs

Every distinct state of each instance is explored; there is no state constraint.

| run | instance | shows | states |
|---|---|---|---|
| `outbox_postgres` | 2 workers, 3 rows (one without a handler), 2 channels, batch of 2, 2 attempts, 2 faults | `RepeatsAreFaults`, `EventuallyPublished`, `ImplementsDelivery` | 262 544 |
| `outbox_sqlite` | 1 worker, 3 rows (one malformed), 2 faults | `ImplementsDelivery` without row locks | 8 619 |
| `local_orchestrator` | a join at two depths, two independent nodes, a cycle; 2 threads; 1 restart | `DependencyOrder`, `CompletedMeansAllOk`, `NoBatchAfterCancel`, `ImplementsContract`, `EventuallyVerdict` | 35 476 |
| `pipeline_runs` | 2 clients, a dataset and its auto-triggered downstream, 1 fault; the four settings | `RowTellsOutcome`, `MarksHaveRuns`, `CompletionsTrigger` | 474 119 |
| `orchestration` | one of: 1 client on raw -> clean -> report with 1 fault, in the four settings; a reader of any acyclic lineage of 4 datasets, 1 edit, depth limit 2; a graph that joins and a cycle on Prefect, 1 crash; 2 agents, 3 messages, batches of 2, 1 stop | `HandledInOrder`, `OutcomeIsKept`, `LineageIsSound`, `SubmittedIsEarned`, `HandledInTurn`, `EveryMessageIsTried` | 433 245 |
| `governance` | 2 principals, a resource and room for a copy, 2 transfers or 1 of each | `OwnerIsBound`, `TransfersAgree`, `PromotionsAgree`, `ApprovedIsBacked` | 1 105 555 |
| `tree` | the root, 2 projects, room for 2 rows; 2 principals, 2 roles; 2 changes | `DecisionsFollowPaths`, `TreeKept`, `ListingComplete` | 16 011 |
| `merges` | 1 or 2 handlers; main and a branch, 4 versions, 1 request; or 4 resources with 3 folders | `MergedOnce`, `OpenRequestHasRefs`, `BranchesAreFaithful`, `HeadDescends` | 708 551 |
| `definitions` | 4 packages of which two claim one class, 2 processes, 2 clients or 1, restarts, both databases | `DefinitionsAreSound`, `ListingIsComplete` | 116 239 |
| `handlers` | every endpoint on every path, both databases; or one activity with 3 places, 1 principal and a change after each statement | `AllOrNothing`, `RowsHaveActivity`, `ToldRightly` | 950 013 |
| `handlers_acknowledged` | the creation of an experiment | violates `AcknowledgedIsStored` | - |
| `installation` | one of: 2 servers and an upgrade, 2 releases, 1 kill; 2 preflights over 2 versions; 2 APIs with 2 definitions | `OneAtATime`, `NothingLeftBehind`, `RecordedIsOnDisk`, `SystemIsWhole`, `HandsOver`, `MigrationsAreSafe` | 1 057 830 |

Some runs hold several instances: a variable `part` or `setting`, chosen in the initial state, says which one a
behaviour is of, so that they do not multiply. A property that conjoins others (`LineageIsSound`, `TransfersAgree`, ...) is what
its parts say together; each part has its own definition and comment. The modules' type invariants are not
among the runs' properties: six are theorems.

**Bounds.** `MaxFaults`, `MaxRestarts`, `MaxSubmits`, `MaxTriggers`, `MaxExecutions`, `MaxChanges`, `MaxBindings`,
`MaxRequests`, `MaxArtifacts`, `MaxEdits`, `MaxCrashes`, `MaxMessages`, `MaxStops`, `MaxKills`, `MaxFollowed` and the
numbers in `Settings` bound what would count up for ever; each is a guard of the action
it bounds. Two workers, clients or handlers are enough for every race below: each is
between two. Two faults let a retry fail after a crash. Two executions let a second
one happen. A depth limit of 2 in four datasets lets a long path hide a short
one; three messages in batches of two need a second batch; `MaxHierarchy = 2` in a tree five deep lets casbin's limit
deny. Principals are interchangeable in `governance` and `tree`,
hence `SYMMETRY`, in runs with no liveness property.

**Deadlock.** Requests, orchestrators and services really may stop: when everything has ended and the bounds are
used up nothing is left to do, hence `CHECK_DEADLOCK FALSE`. The
outbox never stops on PostgreSQL (a worker fetches nothing, sleeps and wakes) and
is checked for deadlock; on SQLite with a malformed row a worker stops in the model when
`MaxFaults` is used up, in the code it fails again every two seconds.

**Fairness.**

* Outbox: weak fairness of each worker's own steps (`WorkerStep`): `worker_loop` is `while
  True` around a `try`, in a process the supervisor restarts. Faults, producers and timeouts
  are not fair; `EventuallyPublished` relies on failures coming to an end (`MaxFaults`).
* LocalOrchestrator: weak fairness of `Begin` and `Resume` (asyncio serves every ready
  coroutine) and of `FinishNode` (a pipeline terminates: an assumption on user code).
  Strong fairness of `StartNode`: the pool's queue is first-in first-out, so a node whose
  turn comes again and again, whenever a thread is idle, is taken.
* PipelineRuns: weak fairness of serving a request that has begun and of the backend;
  strong fairness of polling a run, since a poll is possible again and again
  (every client that shows a run polls it; `GET /runs/pipelines/{id}`). Nothing is assumed of submissions,
  cancellations or commits of the caller: whether it commits is the `setting`.
* Supervisor: weak fairness of the main thread of each server (`Main`, or `Raise` when a step
  fails): a process that is not killed goes on. Nothing is assumed of services, signals or the upgrade. `HandsOver` needs no more.
* Agents: weak fairness of `AgentStep`: `agent_loop` sleeps between two cycles and never ends.
  It is asked for in the part of the agents only. Nothing is assumed of people or of commits.

## Proofs

50 theorems, for any numbers of rows, workers, channels, graphs, datasets, clients, principals, resources, servers,
agents, packages, handlers and bounds. They assume only the named `ASSUME`s of the modules, which TLC evaluates on each
instance, and where a theorem has a hypothesis of its own its statement shows it. Every safety
property that a run checks is one of them. TLC checked each strengthening before it was proved.

The prover has no induction over data, but sets do: every set of naturals has a least member
(`Least`, from the library's well-foundedness of `<`), a least counterexample has a predecessor,
and the models define what is reached as the least closed set. So a bound on a cardinality (`RecordedStaysOnDisk`, `PagesMissNothing`),
walks given by recursive functions (`DecisionsAreJustified`, `BranchesStayFaithful`) and acyclicity (`TheTreeStaysWhole`,
`CompletedIsEarned`) could be proved as well.

**OutboxProofs.** `Typing`, `ToldTheorem` and `CompleteTheorem` hold on either database,
the others where rows are locked (`~Sqlite`). Strengthening:
`TxInv` (a batch is committed rows; an open worker has inserted the audit rows of exactly
what it has marked; a publishing one of one row more), `HeardInv` (what is marked has been heard
on all its channels), `LockInv` (batches are disjoint and unpublished), `OnceInv` (one audit row
exactly when published), `AddressInv` (only the row's own channels), and for repetitions `RepeatInv` (a row was
sent no more often than there were faults, or once more while its transaction is open or
committed). Without `LockInv` two workers could commit the same row: that is the
SQLite counterexample. `RefinementTheorem` maps `Commit` to settling the batch,
`PublishOk` and an arrived `PublishFail` to telling, `EndProducer` to accepting, the rest to stutters.

**BackgroundProofs.** *LocalOrchestrator*: `IInv`, a conjunction per run, relates the coroutine to the
status (scheduled: queued or cancelled; gathering: running or cancelled, on an acyclic
graph, nothing dropped) and to the nodes (started nodes have succeeded upstreams).
`Typing` includes that the pool never runs more nodes than it has threads, by
cardinality lemmas. `OrderTheorem`, `CompletedTheorem`, `NoBatchTheorem`, `FinalTheorem`;
`RefinementTheorem` uses the invariant to show that `Proceed` on an accepted cancellation cannot complete.
*PrefectAdapter*: `CompletedIsEarned` from `PrefectInv` - the graph of a submitted run is the one asked for and was sorted
first, a touched stage has succeeded upstreams - and the fact that a sorted graph has a next stage while one is left (`SomethingIsNext`), so
the flow cannot end early. *Agents*: `AgentsTakeTurns`; a batch is what is visible behind the cursor without a gap (`BatchInv`), and
the answers to a message are counted against the cycles that broke off before the cursor moved (`AnswersInv`).

**PipelineRunsProofs.** `Tells(s, r)`: a status `s` of run `r`, wherever it is held, is
true - "completed" only if the orchestrator completed and no cancellation was accepted.
`IInv` says that of the backend, the committed rows, the open transactions and what a
poll has been answered; it is what makes a late answer harmless, and `OutcomeTheorem` follows.
`MarksTheorem` has no hypothesis about the caller, the orchestrator or faults; its invariant says of the database and of every open
transaction, laid over it, what the property says of the database (`Sound`), and of each request that the run it works on is known, and that it is told an end only by a shared
orchestrator (`WorkSound`). `TriggerTheorem` assumes `OneUpstream`, an auto-triggered
dataset has no second upstream: the property is false of one whose upstreams complete in separate sessions (see Findings). Its
invariant follows a completion from the poll that writes it to the commit that makes it visible together with the run of
the dataset behind. `InOrderTheorem` assumes `Serial`, one client, and holds for every lineage, cyclic ones included: what
the client's transaction has written agrees with what it is about to do (`WorkOK`), a completion is
counted once (`CountOK`), and `propagate_staleness` reaches everything below a dataset before it commits.

**GovernanceProofs.** With any number of handlers: `OwnerTheorem` (strengthening: a
handler that saw no owner binding knows the owner) and `ApprovedTheorem` (strengthening `Backed`: an
approved request has a *backer*, whose vote is "approve" and who is not in the middle of
withdrawing it with a stale status; whoever counts a reject does not write "approved"). One at a time: `TransfersInv`
(what the busy handler has read is current, one pending request, one owner) and
`PromotionsInv` (status and votes agree, and the counters with the status).

`TransfersTheorem` and `PromotionsTheorem` state the conjunctions that the run checks.

**ContributionsProofs.** One handler at a time (`SerialInv`: what the busy handler has read is still so): `RequestsMergeOnce`,
`OpenRequestsKeepRefs` and the action property `RefsDescend`. In every order of steps: `BranchesStayFaithful`. Its first half needs `BranchInv`: rows with
a common origin share a folder only if one was merged all the way into the other, the folder of a branch to be is nobody else's, and a branch was taken from
one resource and not in a circle. Its second half is about the walk: the queue is ordered by depth, what is visited is within reach, what is
as near as the head of the queue is visited or queued, and every edge queues one entry at most, so that the walk ends within
as many visits as there are edges and one more.

**ReachabilityProofs.** `TheTreeStaysWhole`, for handlers one at a time and without the move of `resources.py` (which does not look for
cycles, see Findings): whatever is closed under children and holds the root is everything (`TreeInv`), and what a
promotion has loaded is the subtree still (`Loaded`). `ListingsAreComplete`: what was shown lies up to the cursor, and what stayed and lies there was shown
(`PageInv`). `DecisionsAreJustified`: a walk that ends is the path of parents up to where it stops, so the engine allows what a
binding on such a path grants, and nothing else. `AnswersAreSound`, for the readers of the lineage: breadth first, everything upstream of what was
visited is visited or queued (`WalkInv`); depth first, the stack is a path from the root and each edge into what was visited
is recorded or pending (`StackInv`, `CrawlInv`); and a batch of an order needs only earlier batches.

**ServicesProofs.** *Definitions*: `StoredCodeIsSound` (a request works on what is unpacked or stored already, what it lets through is
vouched for before a row says so, across restarts) and `PagesMissNothing`. *Watchers*: `WatchersAreTold`; whose reason stands is found already or
lies on the way that is still to go (`StandInv`), whoever is found had a reason while the tree stays (`FoundHad`), since the
way up is then a route without circles. *Handlers*: `RequestsStoreAllOrNothing` and `RowsComeWithActivity` hold for any handlers that obey a static rule, `OneCommit` and
`ToldWithRows`: nothing on a path may commit between two rows that belong together, nor between a row and the reset that discards it. The properties state
these rules of every path they execute, so the run `handlers` shows that all endpoints obey them (but those named in
`Staged` and `Apart`), and the theorems that this suffices, wherever a handler raises and the process stops. The invariant: what the session holds was
written since the last reset; of rows that belong together all written so far or none is held, and all or none is stored (`PartInv`); and
whether a block is a savepoint is what the script says (`BlockInv`).

**InstallationProofs.** *Supervisor*: the lock names whoever is working on a start or serving, has tracked services that run (unless it ended
abruptly), or replaces the package (`LockInv`); a service that runs is tracked, is about to be (`Coming`), or is the one whose start broke off, and
after a shutdown that got through no tracked one runs (`Accounted`, `ServiceInv`; `NoPrefect` is what `stop_all` alone achieves); a version about to be recorded is
on the disk whole, or the clean-up has left enough newer directories (`DiskInv`, from `Covers`). *Preflight*: one at a time, what is to be replaced has been copied, what is to
be recorded is what the database has (`PreflightInv`). *Bootstrap*: whoever is to commit has made every part or has found them
committed (`BootInv`).

Six type invariants and further properties (`AuditedOnce`, `PublishedIsComplete`, `OnlyCommittedIsTold`,
`SilentOncePublished`, `VerdictIsFinal`, `DecidedStays`, ...) are proved and not listed in a run of their own: on the
instances they follow from the refinement or the conjunction the run does check.

Only model-checked: the liveness properties (`EventuallyPublished`, `EventuallyVerdict`,
`OutcomeIsKept`, `HandsOver`, `EveryMessageIsTried`), since the prover has no fairness, and that the endpoints obey the rules
above: their scripts are large constants, which TLC evaluates and the prover would have to unfold. `AcknowledgedIsStored` is false of
the code.

## Findings

One is a run that TLC ends with a counterexample and an entry with quotations in `PROJECT.json`:
`handlers_acknowledged`. `create_experiment` answers "created" and nobody commits: `tx_activity` has released
a savepoint of a transaction that `get_actor`'s queries began (`experiment_service.py:132`). On PostgreSQL the rows are
gone; on SQLite, where the driver begins nothing for a read, they stay. Three more endpoints and the router of
pipeline runs do the same.

The others were seen with the same models - by a constant, an initial state or a property
changed for the purpose - or follow from what a definition had to say to be true to the code. They are
here so that nobody takes a modelled defect for a modelling error.

*Delivery.*
* SQLite: two workers fetch the same row and audit it twice (`outbox.py:448`); the test replaces the second worker by `return 0`.
* When the tree changes on the worker's way up, whoever subscribes to a place that was left behind is told without having had
  a reason, and stays told when the delivery is tried again; with two moves of the resource an ancestor's watcher may be missed. On SQLite the worker's
  transaction holds the write lock, so nothing changes meanwhile.
* A cycle in the tree (below) keeps the worker in `_resource_chain` for ever.

*Runs of pipelines.*
* `cancel_run` answers True before the coroutine's first step; the coroutine writes "running", sees the flag
  and returns: "running" for ever (`local.py:182`). A failing node overwrites "cancelled" (`local.py:215`): the contract allows it.
* Two overlapping polls both process a completion (`pipeline_run_service.py:284`); a poll overwrites a
  cancellation committed since it loaded the row (`:298`); `propagate_staleness` skips a dataset whose
  own completion is not committed (`lineage.py:328`). Hence the single client in the part of `HandledInOrder`.
* A dataset with two upstreams is not triggered when they complete in separate sessions: the JSON column is changed in
  place (`lineage.py:657`).
* A failure is never recorded: the activity's actor is None, which its type refuses (`pipeline_run_service.py:643`).
* The router's submission is not committed: the orchestrator executes a run the database does not know (`routers/runs.py:95`; so
  with polls, `:153`, and cancellations, `:252`).
* Each request has an in-process orchestrator of its own (`deps.py:288`): a poll overwrites the status of a committed run by "unknown", a cancellation is
  refused, and no run is ever recorded as ended. Only an orchestrator outside the process (Prefect) does better.
* `build_graph` sets every `code_ref` to None, so Prefect skips all tasks; a Prefect run's id is known when its flow is over; a crash
  leaves it RUNNING; the local fallback of a deployment runs an empty graph and reports "completed".

*Lineage.* `get_lineage_graph` ignores `max_depth`; "in dependency order" is breadth first; an edge added between the
resolver's queries is reported as a cycle; the depth limit may drop an edge between two datasets it keeps. `create_lineage_and_subscriptions`
subscribes a dataset where the foreign key asks for a principal, so it could not be stored with upstreams.

*Ownership and merges.*
* With two handlers `SoleOwner`, `OnePending` (without the unique constraint), `DecidedStays`,
  `StatusTellsVotes` and `ExecutedOnce` fail: replace `Serial` by TRUE.
* Even with one handler, a request merged through the governance API can be voted on and executed once more
  through the router, and an offer accepted after its resource was given away takes it from the new owner.
* Moving a resource does not look for cycles (`resources.py:307`); with two handlers neither does the promotions' check suffice.
* `merge_content` takes the source's content as a whole (`registry.py:114`).

*Definitions and guardrails.* Two plugins with one class name replace each other. A refused package's activity is rolled back with
the request. The report of a passing check is rolled back by `reset_session` although the engine persists it on purpose (`optaic/guardrails/runtime/engine.py`); the gate
of a creation asks for the bundle of a resource that does not exist yet, and never refuses; two active bundles
make it raise.

*Agents.* Two agents in one channel answer each other for ever; a new agent works through the whole history; what is
dated before and committed after the cursor moved is never read; a failed answer is not tried again; a crash
between answer and cursor answers twice; an exception outside `_handle_activity` skips the other agents of the cycle.

*Installation.*
* A second server that fails to start still runs `_shutdown`: it removes the running server's `server.pid` and overwrites
  `services_state.json`. SIGKILL leaves every service.
* A service is spawned before it is tracked. A signal in between leaves it running: the API between `start_api` and the append
  (`supervisor.py:340-341`), Prefect until its pid file is written - which may fail by itself - and the append that follows
  (`service_manager.py:274-281`, `463-478`), Centrifugo until it answers.
* An error of `stop_all`'s last write (`service_manager.py:460`) skips the rest of the shutdown. The finally clause's shutdown makes good for a handler's;
  when it is the one that fails, the API and Centrifugo run on and `server.pid` stays.
* An upgrade that fails its key check, or starts with `restart=false`, leaves the status "running", and all later ones are refused.
  `self_upgrade` writes "done" after the new server has begun to write; clean-up after a downgrade deletes the installed version.
* A migration command that is not found counts as a success; a package rolled back after `db upgrade` and before the
  record is "same_version" on a newer database; migrations are done in `engines/prefect/home`, the
  supervisor runs Prefect in `data_dir/prefect`. No command calls the preflight.
* The API's own `_run_alembic_upgrade` always fails (`asyncio.run` in a running loop) and falls back to tables
  without a revision, on which `optaic server`'s migration fails. Two processes that seed at once duplicate definitions;
  `init-demo` retries a locked database with a new tenant and leaves half of the first.
* `SERVICES_LIFECYCLE.md` says that others go on when a service crashes; the poll loop shuts them down.

## Limits

* Liveness under fairness and `ENABLED` are out of the prover's reach and stay with TLC. So is induction in its
  general form: the library's rules take an operator as a parameter. What is reached is therefore a least closed set
  in the models and not a recursion, and the proofs argue with least members of sets.
* The database is READ COMMITTED with row locks as used; a writer that waits for a lock is one that is not
  enabled. Serialization failures and connection errors are `RequestDies`, `Abort`, `Crash` or a failing operation.
* Time is order: expiry, timeouts and sleeps may happen at any moment. Dates do not grow old within a
  behaviour of `PipelineRuns`.
* The handlers' modules say in which transaction an endpoint writes which kinds of rows, not the rows' values. Checks that only
  refuse a request are the path "refused".
* `PromoteResource` and direct gifts are guarded by the same bounds as requests; RBAC
  templates and the viewer role of a previous owner are left out.
* Instances are small. What TLC finds on them says nothing of more handlers than the run has; only the proofs do.

**Not modelled**: data access, stores and expressions (functions over data frames, tested with data; no state is shared);
freshness calendars and composite freshness (called by no service; the verdict READY is in `PipelineRuns`); artifacts
(file copies and dynamic imports); the command line beyond `server`, `upgrade` and `init-demo`, client
libraries and the web interface (they keep no state of the system); cryptography and tokens' contents; the schema and
its migrations, whose constraints appear where a model needs them.
