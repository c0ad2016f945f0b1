---------------------------- MODULE PipelineRuns ----------------------------
(***************************************************************************)
(* The pipeline run service (apps/api/services/pipeline_run_service.py)    *)
(* with the lineage resolver, the lineage observer and the status store it *)
(* calls (libs/orchestration), on top of an orchestrator of which it knows *)
(* only the contract, Orchestrator.  get_orchestrator makes an             *)
(* orchestrator for each request, and the router of the service closes its *)
(* session without a commit: setting says whether a behaviour is of these, *)
(* or of requests that share an orchestrator, or of a caller that commits. *)
(*                                                                         *)
(* Each client issues one request at a time: submit a run of a dataset,    *)
(* poll a run, cancel a run.  A request works in a database transaction of *)
(* its own and awaits between its steps, so requests interleave.  What a   *)
(* transaction writes is in tx until the caller commits; a row written by  *)
(* an open transaction is locked against other writers.                    *)
(***************************************************************************)
EXTENDS Naturals, FiniteSets, Sequences

CONSTANTS
    Dataset,        \* DatasetInstance resources
    Upstream,       \* dataset_lineage: the direct upstreams of each dataset
    AutoTrigger,    \* the datasets with auto_trigger set
    MaxSubmits,     \* bound: how many runs clients submit
    MaxTriggers,    \* bound: how many runs completions trigger
    Client,         \* concurrent callers of the service
    ReportsDates,   \* whether get_status reports end_data_date in its metrics
    MaxFaults,      \* bound: how many requests or processes die
    NoDataset

UserRun == 1..MaxSubmits
AutoRun == (MaxSubmits + 1)..(MaxSubmits + MaxTriggers)
Run == UserRun \cup AutoRun

ASSUME LineageAssumption ==
    /\ Upstream \in [Dataset -> SUBSET Dataset]
    /\ AutoTrigger \subseteq Dataset
    /\ NoDataset \notin Dataset

ASSUME DatesAssumption == ReportsDates \in BOOLEAN

ASSUME BoundsAssumption ==
    MaxSubmits \in Nat /\ MaxTriggers \in Nat /\ MaxFaults \in Nat

VARIABLES
    status, accepted, begun,  \* the orchestrator, see Orchestrator
    runOf,      \* the dataset a run identifier was created for
    db,         \* committed values, by key
    tx,         \* what the open transaction of each client has written
    pc, job,    \* where each client's request stands, and what it works on
    faults,
    recent,     \* history: <<d, u>> if dataset u has completed since d last did, or d has and is u
    handled,    \* history: how often the completion of a run was committed
    setting     \* whether requests share an orchestrator, and whether their caller commits

orchestrator == <<status, accepted, begun>>
service == <<status, accepted, begun, runOf, db, tx, pc, job, faults, recent, handled>>
vars == <<service, setting>>

Backend == INSTANCE Orchestrator

(* PipelineRun.status, DatasetInstance.freshness_status and the columns    *)
(* last_pipeline_status and last_data_date of DatasetStatus.               *)
RowKey(r) == <<"row", r>>
FreshKey(d) == <<"fresh", d>>
LastKey(d) == <<"last", d>>
DatedKey(d) == <<"dated", d>>
Key == ({"row"} \X Run) \cup ({"fresh", "last", "dated"} \X Dataset)

Terminal == {"completed", "failed", "cancelled"}

-----------------------------------------------------------------------------
(* Lineage.                                                                *)

Downstream(d) == {x \in Dataset : d \in Upstream[x]}

(* What the breadth-first searches return: the smallest set that contains  *)
(* S and is closed under next.                                             *)
Reachable(S, next) ==
    {x \in Dataset : \A C \in SUBSET Dataset :
        S \subseteq C /\ (\A y \in C : next[y] \subseteq C) => x \in C}

AllUpstream(d) == Reachable(Upstream[d], Upstream)
AllDownstream(d) == Reachable(Downstream(d), [x \in Dataset |-> Downstream(x)])
DirectDownstream(d) == Downstream(d)               (* Bug: not transitive *)
Invalidated(d) == AllDownstream(d)

-----------------------------------------------------------------------------
(* Sessions.                                                               *)

Overlay(w, base) == [k \in Key |-> IF k \in DOMAIN w THEN w[k] ELSE base[k]]
Sees(p, k) == IF k \in DOMAIN tx[p] THEN tx[p][k] ELSE db[k]
NoWrites == [k \in {} |-> ""]

CanWrite(p, keys) == \A q \in Client \ {p} : DOMAIN tx[q] \cap keys = {}

(* The session of p writes the values w, waiting for locks if need be.  A  *)
(* handler reads a value when it may write it: the model leaves out a      *)
(* value that changes while its reader waits for the lock.                 *)
Write(p, w) ==
    /\ CanWrite(p, DOMAIN w)
    /\ tx' = [tx EXCEPT ![p] = [k \in DOMAIN @ \cup DOMAIN w |->
                                  IF k \in DOMAIN w THEN w[k] ELSE @[k]]]

NoJob == [run |-> 0, seen |-> "none", trigger |-> {}]
Goto(p, place) == pc' = [pc EXCEPT ![p] = place]
End(p) == Goto(p, "idle") /\ job' = [job EXCEPT ![p] = NoJob]

-----------------------------------------------------------------------------
Init ==
    /\ Backend!Init
    /\ runOf = [r \in Run |-> NoDataset]
    /\ db = [k \in Key |-> CASE k[1] = "row" -> "none"
                             [] k[1] = "fresh" -> "unknown"
                             [] k[1] = "last" -> "none"
                             [] k[1] = "dated" -> "no"]
    /\ tx = [p \in Client |-> NoWrites]
    /\ pc = [p \in Client |-> "idle"]
    /\ job = [p \in Client |-> NoJob]
    /\ faults = 0
    /\ recent = {}
    /\ handled = [r \in Run |-> 0]
    /\ setting \in [shared : BOOLEAN, commits : BOOLEAN]

(* calculate_staleness is READY: no error and a known data date.  Dates do *)
(* not grow old within a behaviour.                                        *)
IsReady(u) == db[LastKey(u)] \notin {"none", "error"} /\ db[DatedKey(u)] = "yes"
AllReady(d) == \A u \in AllUpstream(d) : IsReady(u)

Unused(S) == {r \in S : runOf[r] = NoDataset}
IsNext(r, S) == r \in Unused(S) /\ \A q \in Unused(S) : r <= q

(* submit_run up to the caller's commit: the row of the run, mark_run_start *)
(* and the orchestrator's own record, which no rollback undoes.            *)
CreateRun(p, r, d, s) ==
    /\ runOf' = [runOf EXCEPT ![r] = d]
    /\ Write(p, [k \in {RowKey(r), LastKey(d)} |-> IF k = RowKey(r) THEN s ELSE "running"])

Submit(p, d, force) ==
    /\ pc[p] = "idle"
    /\ AllReady(d) \/ force
    /\ \E r \in UserRun :
          IsNext(r, UserRun) /\ CreateRun(p, r, d, "running") /\ Backend!Submit(r)
    /\ Goto(p, "commit")
    /\ UNCHANGED <<db, job, faults, recent, handled>>

(* poll_and_sync loads the row and skips a run in a terminal status.       *)
SkipTerminal(s) == s \in Terminal
SkipStarted(s) == s # "queued"          (* Bug: only queued runs are asked for *)
Skips(s) == SkipTerminal(s)

HasBackendRun(r) == status[r] # "unknown" \/ r \in begun

(* What get_status tells a request.  A request never asks for a run it has *)
(* submitted itself, and an orchestrator of its own knows no other: the    *)
(* run goes on in the orchestrator of the request that submitted it.       *)
Answer(r) == IF setting.shared THEN status[r] ELSE "unknown"

PollLoad(p, r) ==
    /\ pc[p] = "idle"
    /\ db[RowKey(r)] # "none"
    /\ ~Skips(db[RowKey(r)])
    /\ HasBackendRun(r)
    /\ job' = [job EXCEPT ![p] = [NoJob EXCEPT !.run = r, !.seen = db[RowKey(r)]]]
    /\ Goto(p, "loaded")
    /\ UNCHANGED <<orchestrator, runOf, db, tx, faults, recent, handled>>

(* get_status is asked; an unchanged answer ends the poll.                 *)
PollAsk(p) ==
    /\ pc[p] = "loaded"
    /\ LET r == job[p].run
       IN  IF Answer(r) = job[p].seen
           THEN End(p)
           ELSE Goto(p, "answered") /\ job' = [job EXCEPT ![p].seen = Answer(r)]
    /\ UNCHANGED <<orchestrator, runOf, db, tx, faults, recent, handled>>

PollOther(p) ==
    /\ pc[p] = "answered"
    /\ job[p].seen \notin {"completed", "failed"}
    /\ Write(p, [k \in {RowKey(job[p].run)} |-> job[p].seen])
    /\ Goto(p, "commit")
    /\ UNCHANGED <<orchestrator, runOf, db, job, faults, recent, handled>>

(* _on_run_failed builds an activity envelope without an actor, which the  *)
(* envelope's validation refuses: the request fails after its writes, and  *)
(* they are rolled back.                                                   *)
PollFailed(p) ==
    /\ pc[p] = "answered"
    /\ job[p].seen = "failed"
    /\ End(p)
    /\ UNCHANGED <<orchestrator, runOf, db, tx, faults, recent, handled>>

(* update_upstream_status changes the stored dictionary in place and       *)
(* assigns it to its own column, which the session does not recognise as a *)
(* change: the stored values stay as create_dataset initialised them, and  *)
(* only the caller's copy tells who is ready.                              *)
StoredUpstreamStatus(x) == [u \in Upstream[x] |-> "unknown"]
ReadyAfter(d) ==
    {x \in Downstream(d) :
        LET now == [StoredUpstreamStatus(x) EXCEPT ![d] = "ready"]
        IN  \A u \in Upstream[x] : now[u] = "ready"}

Triggers(d) == ReadyAfter(d) \cap AutoTrigger
TriggersNone(d) == {}                       (* Bug: ready datasets forgotten *)
ToTrigger(d) == Triggers(d)

PollCompleted(p) ==
    LET r == job[p].run
        d == runOf[r]
    IN  /\ pc[p] = "answered"
        /\ job[p].seen = "completed"
        /\ Cardinality(ToTrigger(d)) <= Cardinality(Unused(AutoRun))
        /\ Write(p, [k \in {RowKey(r), FreshKey(d), LastKey(d), DatedKey(d)} |->
                       CASE k = RowKey(r) -> "completed"
                         [] k = FreshKey(d) -> "fresh"
                         [] k = LastKey(d) -> "success"
                         [] k = DatedKey(d) -> IF ReportsDates THEN "yes" ELSE "no"])
        /\ job' = [job EXCEPT ![p].trigger = ToTrigger(d)]
        /\ Goto(p, "trigger")
        /\ UNCHANGED <<orchestrator, runOf, db, faults, recent, handled>>

Trigger(p, x, r, s) ==
    /\ pc[p] = "trigger"
    /\ IsNext(r, AutoRun)
    /\ CreateRun(p, r, x, s)
    /\ job' = [job EXCEPT ![p].trigger = @ \ {x}]
    /\ UNCHANGED <<db, pc, recent, handled>>

TriggerNext(p) ==
    /\ \E x \in job[p].trigger, r \in AutoRun :
          Trigger(p, x, r, "running") /\ Backend!Submit(r)
    /\ UNCHANGED faults

(* The orchestrator refuses: the exception is swallowed and the row stays  *)
(* in the transaction as it was before the submission.                     *)
BeforeItAnswers == "running"            (* Bug: running before it was accepted *)
BeforeSubmission == "queued"

TriggerRefused(p) ==
    /\ faults < MaxFaults
    /\ \E x \in job[p].trigger, r \in AutoRun : Trigger(p, x, r, BeforeSubmission)
    /\ faults' = faults + 1
    /\ UNCHANGED orchestrator

(* propagate_staleness writes only the datasets it does not see as stale.  *)
Propagate(p) ==
    LET d == runOf[job[p].run]
    IN  /\ pc[p] = "trigger"
        /\ job[p].trigger = {}
        /\ Write(p, [k \in {FreshKey(x) : x \in {y \in Invalidated(d) : Sees(p, FreshKey(y)) # "stale"}}
                        |-> "stale"])
        /\ Goto(p, "commit")
        /\ UNCHANGED <<orchestrator, runOf, db, job, faults, recent, handled>>

(* cancel_run asks the orchestrator and writes only if it agrees; the      *)
(* status store records the cancellation by mark_run_error.                *)
MarkError == "error"
CancelMark == MarkError

Agrees(r) == Answer(r) \in {"queued", "running"}
AgreesOrNot(r) == HasBackendRun(r)              (* Bug: the answer is ignored *)
CancelSucceeds(r) == Agrees(r)

CancelAsk(p, r) ==
    /\ pc[p] = "idle"
    /\ db[RowKey(r)] # "none"
    /\ CancelSucceeds(r)
    /\ IF Agrees(r) THEN Backend!Cancel(r) ELSE UNCHANGED orchestrator
    /\ job' = [job EXCEPT ![p] = [NoJob EXCEPT !.run = r]]
    /\ Goto(p, "cancelling")
    /\ UNCHANGED <<runOf, db, tx, faults, recent, handled>>

CancelWrite(p) ==
    LET r == job[p].run
    IN  /\ pc[p] = "cancelling"
        /\ Write(p, [k \in {RowKey(r), LastKey(runOf[r])} |->
                       IF k = RowKey(r) THEN "cancelled" ELSE CancelMark])
        /\ Goto(p, "commit")
        /\ UNCHANGED <<orchestrator, runOf, db, job, faults, recent, handled>>

(* The caller commits the session or, as the router does, just closes it.  *)
Committed(w) == IF setting.commits THEN w ELSE NoWrites
CompletedIn(w) == {r \in Run : RowKey(r) \in DOMAIN w /\ w[RowKey(r)] = "completed"}

Commit(p) ==
    LET w == Committed(tx[p])
        done == {runOf[r] : r \in CompletedIn(w)}
    IN  /\ pc[p] = "commit"
        /\ db' = Overlay(w, db)
        /\ tx' = [tx EXCEPT ![p] = NoWrites]
        /\ \/ done = {} /\ recent' = recent
           \/ \E d \in done :
                recent' = {x \in recent : x[1] # d} \cup (Dataset \X {d})
        /\ handled' = [r \in Run |-> handled[r] + (IF r \in CompletedIn(w) THEN 1 ELSE 0)]
        /\ End(p)
        /\ UNCHANGED <<orchestrator, runOf, faults>>

(* A request dies, or the process of the API with its orchestrators.       *)
RequestDies(p) ==
    /\ pc[p] # "idle"
    /\ faults < MaxFaults
    /\ faults' = faults + 1
    /\ tx' = [tx EXCEPT ![p] = NoWrites]
    /\ End(p)
    /\ UNCHANGED <<orchestrator, runOf, db, recent, handled>>

Restart ==
    /\ faults < MaxFaults
    /\ faults' = faults + 1
    /\ Backend!Lose
    /\ tx' = [p \in Client |-> NoWrites]
    /\ pc' = [p \in Client |-> "idle"]
    /\ job' = [p \in Client |-> NoJob]
    /\ UNCHANGED <<runOf, db, recent, handled>>

BackendStep ==
    /\ \E r \in Run : Backend!Begin(r) \/ Backend!Succeed(r) \/ Backend!Fail(r)
    /\ UNCHANGED <<runOf, db, tx, pc, job, faults, recent, handled>>

Serve(p) ==
    \/ PollAsk(p) \/ PollOther(p) \/ PollFailed(p) \/ PollCompleted(p)
    \/ TriggerNext(p) \/ Propagate(p) \/ CancelWrite(p) \/ Commit(p)

Next ==
    /\ \/ \E p \in Client :
             \/ \E d \in Dataset, force \in BOOLEAN : Submit(p, d, force)
             \/ \E r \in Run : PollLoad(p, r) \/ CancelAsk(p, r)
             \/ Serve(p) \/ TriggerRefused(p) \/ RequestDies(p)
       \/ BackendStep
       \/ Restart
    /\ UNCHANGED setting

Spec == Init /\ [][Next]_vars

(* Every run is polled again and again, requests are served to their end,  *)
(* and the orchestrator executes what it was given.                        *)
Fairness ==
    /\ \A p \in Client : WF_service(Serve(p))
    /\ \A r \in Run : SF_service(\E p \in Client : PollLoad(p, r))
    /\ WF_service(BackendStep)

FairSpec == Spec /\ Fairness

-----------------------------------------------------------------------------
RowStatus == {"none", "unknown", "queued", "running"} \cup Terminal

ValuesOf(k) ==
    CASE k[1] = "row" -> RowStatus
      [] k[1] = "fresh" -> {"unknown", "fresh", "stale"}
      [] k[1] = "last" -> {"none", "running", "success", "error"}
      [] k[1] = "dated" -> {"no", "yes"}

ServiceTyped ==
    /\ Backend!TypeOK
    /\ runOf \in [Run -> Dataset \cup {NoDataset}]
    /\ DOMAIN db = Key /\ \A k \in Key : db[k] \in ValuesOf(k)
    /\ DOMAIN tx = Client
    /\ \A p \in Client : DOMAIN tx[p] \subseteq Key /\ \A k \in DOMAIN tx[p] : tx[p][k] \in ValuesOf(k)
    /\ pc \in [Client -> {"idle", "loaded", "answered", "trigger", "cancelling", "commit"}]
    /\ job \in [Client -> [run : Run \cup {0}, seen : RowStatus, trigger : SUBSET Dataset]]
    /\ faults \in 0..MaxFaults

TypeOK == ServiceTyped /\ setting \in [shared : BOOLEAN, commits : BOOLEAN]

(* A row says "completed" or "cancelled" only if the orchestrator said so: *)
(* no run is recorded as completed whose cancellation was accepted, and    *)
(* none as cancelled that the orchestrator had refused to cancel.          *)
RowTellsOutcome ==
    \A r \in Run :
        /\ db[RowKey(r)] = "completed" =>
              ~accepted[r] /\ status[r] \in {"completed", "unknown"}
        /\ db[RowKey(r)] = "cancelled" => accepted[r]

(* What is committed was done by a run: a row past "queued" is of a run    *)
(* that an orchestrator was given, a dataset marked as running has a run   *)
(* that is not recorded as completed, one marked as successful a run whose *)
(* completion was handled, one marked with an error a run whose            *)
(* cancellation was accepted; and only where requests share an             *)
(* orchestrator is a run recorded as ended at all.                         *)
MarkedBy(mark, r) ==
    \/ mark = "running" /\ db[RowKey(r)] \notin {"none", "completed"}
    \/ mark = "success" /\ handled[r] > 0
    \/ mark = "error" /\ accepted[r]

MarksHaveRuns ==
    /\ \A r \in Run :
          /\ db[RowKey(r)] \notin {"none", "queued"} => HasBackendRun(r)
          /\ db[RowKey(r)] \in Terminal => setting.shared
    /\ \A d \in Dataset : db[LastKey(d)] # "none" =>
          \E r \in Run : runOf[r] = d /\ MarkedBy(db[LastKey(d)], r)

(* Once every upstream of an auto-triggered dataset has a completed run,   *)
(* a run of the dataset exists.                                            *)
CompletionsTrigger ==
    \A x \in AutoTrigger :
        /\ Upstream[x] # {}
        /\ \A u \in Upstream[x] :
              \E r \in Run : runOf[r] = u /\ db[RowKey(r)] = "completed"
        => \E r \in Run : runOf[r] = x

(* A dataset is fresh only if none of its upstreams, direct or not, has    *)
(* completed since its own last completion.                                *)
FreshIsLatest ==
    \A d \in Dataset : db[FreshKey(d)] = "fresh" =>
        <<d, d>> \in recent /\ \A u \in AllUpstream(d) : <<d, u>> \notin recent

(* The completion of a run is processed once: its dataset is refreshed,    *)
(* and its downstreams are triggered and invalidated, once.                *)
HandledOnce == \A r \in Run : handled[r] <= 1

(* A run recorded in a terminal status keeps it.                           *)
TerminalStays ==
    [][\A r \in Run : db[RowKey(r)] \in Terminal => db'[RowKey(r)] = db[RowKey(r)]]_vars

(* What a request is told of a run gets into its row, sooner or later:     *)
(* that it has completed, or that nobody knows of it.  Of a failure nothing *)
(* is kept.                                                                *)
AnswersAreRecorded ==
    \A r \in Run : (db[RowKey(r)] # "none" /\ HasBackendRun(r)) ~>
        db[RowKey(r)] \in Terminal \/ Answer(r) \in {db[RowKey(r)], "failed"}

(* One client at a time handles each completion once, in the order in      *)
(* which runs complete, though its requests die before they commit.        *)
HandledInOrder == FreshIsLatest /\ HandledOnce

(* It records what it is told, and what ended stays as it was recorded.    *)
OutcomeIsKept == AnswersAreRecorded /\ TerminalStays
=============================================================================
