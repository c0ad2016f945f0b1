------------------------- MODULE PipelineRunsProofs -------------------------
(***************************************************************************)
(* For every lineage, every number of clients, runs and faults, whatever   *)
(* orchestrator a request has and whether or not its caller commits: the   *)
(* variables keep their types, a row of a run never tells an outcome that  *)
(* the orchestrator did not report, and what is recorded was done by a run *)
(* that an orchestrator was given.  What has a single upstream is          *)
(* triggered by its completion; and if there is one client, each           *)
(* completion is handled once and nothing is recorded as fresh whose       *)
(* upstreams have completed since.                                         *)
(*                                                                         *)
(* RowTellsOutcome is not inductive: a status travels from get_status      *)
(* through the request (job) and the open transaction (tx) to the row.     *)
(* The invariant says of each of the three places what the property says   *)
(* of the row, and adds that a completed run has begun, which is why the   *)
(* orchestrator can neither restart nor cancel it.  Likewise a completion  *)
(* waits in a transaction: TriggerInv says what it has triggered or still  *)
(* has to, MarksInv what its rows and marks are worth, and SerialInv what  *)
(* it refreshes and, before the commit, has made stale.                    *)
(***************************************************************************)
EXTENDS PipelineRuns, TLAPS

(* Status s may be reported of run r.                                      *)
Tells(s, r) ==
    /\ s = "completed" => ~accepted[r] /\ r \in begun /\ status[r] \in {"completed", "unknown"}
    /\ s = "cancelled" => accepted[r]

BackendOK == Backend!TypeOK /\ \A r \in Run : Tells(status[r], r)

RowsOK ==
    \A r \in Run :
        /\ db[RowKey(r)] # "none" => runOf[r] \in Dataset
        /\ Tells(db[RowKey(r)], r)

TxOK(p) ==
    \A r \in Run : RowKey(r) \in DOMAIN tx[p] =>
        /\ runOf[r] \in Dataset
        /\ tx[p][RowKey(r)] # "none"
        /\ Tells(tx[p][RowKey(r)], r)

Working == {"loaded", "answered", "trigger", "cancelling"}

JobOK(p) ==
    /\ pc[p] \in Working => job[p].run \in Run /\ runOf[job[p].run] \in Dataset
    /\ pc[p] = "answered" => job[p].seen # "none" /\ Tells(job[p].seen, job[p].run)
    /\ pc[p] = "cancelling" => accepted[job[p].run]

IInv == ServiceTyped /\ BackendOK /\ RowsOK /\ \A p \in Client : TxOK(p) /\ JobOK(p)

-----------------------------------------------------------------------------
(* Keys name the columns of different rows, and each has its own values.   *)

LEMMA KeyFacts ==
    /\ \A r \in Run : RowKey(r) \in Key /\ ValuesOf(RowKey(r)) = RowStatus
    /\ \A d \in Dataset :
          /\ FreshKey(d) \in Key /\ ValuesOf(FreshKey(d)) = {"unknown", "fresh", "stale"}
          /\ LastKey(d) \in Key /\ ValuesOf(LastKey(d)) = {"none", "running", "success", "error"}
          /\ DatedKey(d) \in Key /\ ValuesOf(DatedKey(d)) = {"no", "yes"}
    /\ \A r, q : RowKey(r) = RowKey(q) <=> r = q
    /\ \A r, d : RowKey(r) \notin {FreshKey(d), LastKey(d), DatedKey(d)}
    /\ \A d, e : /\ FreshKey(d) \notin {LastKey(e), DatedKey(e)}
                 /\ LastKey(d) # DatedKey(e)
<1>1. \A r \in Run : RowKey(r) \in Key /\ ValuesOf(RowKey(r)) = RowStatus
  BY DEF RowKey, Key, ValuesOf
<1>2. \A d \in Dataset :
          /\ FreshKey(d) \in Key /\ ValuesOf(FreshKey(d)) = {"unknown", "fresh", "stale"}
          /\ LastKey(d) \in Key /\ ValuesOf(LastKey(d)) = {"none", "running", "success", "error"}
          /\ DatedKey(d) \in Key /\ ValuesOf(DatedKey(d)) = {"no", "yes"}
  BY DEF FreshKey, LastKey, DatedKey, Key, ValuesOf
<1>3. /\ \A r, q : RowKey(r) = RowKey(q) <=> r = q
      /\ \A r, d : RowKey(r) \notin {FreshKey(d), LastKey(d), DatedKey(d)}
      /\ \A d, e : /\ FreshKey(d) \notin {LastKey(e), DatedKey(e)}
                   /\ LastKey(d) # DatedKey(e)
  BY DEF RowKey, FreshKey, LastKey, DatedKey
<1> QED  BY <1>1, <1>2, <1>3

(* Whatever the orchestrator does, it keeps its contract, and an outcome   *)
(* that may be told of a run can be told ever after.                       *)
LEMMA BackendKeeps ==
    ASSUME BackendOK, [Backend!Next]_orchestrator
    PROVE  BackendOK' /\ \A s : \A r \in Run : Tells(s, r) => Tells(s, r)'
<1> USE DEF BackendOK, Tells, orchestrator, Backend!TypeOK, Backend!Terminal
<1>1. CASE UNCHANGED orchestrator
  BY <1>1
<1>2. ASSUME NEW r \in Run, Backend!Submit(r)
      PROVE  BackendOK' /\ \A s : \A q \in Run : Tells(s, q) => Tells(s, q)'
  BY <1>2 DEF Backend!Submit
<1>3. ASSUME NEW r \in Run, Backend!Begin(r)
      PROVE  BackendOK' /\ \A s : \A q \in Run : Tells(s, q) => Tells(s, q)'
  BY <1>3 DEF Backend!Begin
<1>4. ASSUME NEW r \in Run, Backend!Succeed(r)
      PROVE  BackendOK' /\ \A s : \A q \in Run : Tells(s, q) => Tells(s, q)'
  BY <1>4 DEF Backend!Succeed
<1>5. ASSUME NEW r \in Run, Backend!Fail(r)
      PROVE  BackendOK' /\ \A s : \A q \in Run : Tells(s, q) => Tells(s, q)'
  BY <1>5 DEF Backend!Fail
<1>6. ASSUME NEW r \in Run, Backend!Cancel(r)
      PROVE  BackendOK' /\ \A s : \A q \in Run : Tells(s, q) => Tells(s, q)'
  BY <1>6 DEF Backend!Cancel
<1>7. CASE Backend!Lose
  BY <1>7 DEF Backend!Lose
<1> QED  BY <1>1, <1>2, <1>3, <1>4, <1>5, <1>6, <1>7 DEF Backend!Next

(* A transaction that writes legal values stays legal.                     *)
TxTyped ==
    /\ DOMAIN tx = Client
    /\ \A p \in Client : DOMAIN tx[p] \subseteq Key /\ \A k \in DOMAIN tx[p] : tx[p][k] \in ValuesOf(k)

LEMMA WriteFacts ==
    ASSUME TxTyped, NEW p \in Client, NEW w, Write(p, w),
           DOMAIN w \subseteq Key, \A k \in DOMAIN w : w[k] \in ValuesOf(k)
    PROVE  /\ TxTyped'
           /\ \A q \in Client \ {p} : tx'[q] = tx[q]
           /\ DOMAIN tx'[p] = DOMAIN tx[p] \cup DOMAIN w
           /\ \A k \in DOMAIN tx'[p] :
                 tx'[p][k] = IF k \in DOMAIN w THEN w[k] ELSE tx[p][k]
<1>1. tx' = [tx EXCEPT ![p] = [k \in DOMAIN tx[p] \cup DOMAIN w |->
                                  IF k \in DOMAIN w THEN w[k] ELSE tx[p][k]]]
  BY DEF Write
<1>2. DOMAIN tx' = Client /\ \A q \in Client \ {p} : tx'[q] = tx[q]
  BY <1>1 DEF TxTyped
<1>3. tx'[p] = [k \in DOMAIN tx[p] \cup DOMAIN w |-> IF k \in DOMAIN w THEN w[k] ELSE tx[p][k]]
  BY <1>1 DEF TxTyped
<1>4. \A q \in Client : DOMAIN tx'[q] \subseteq Key /\ \A k \in DOMAIN tx'[q] : tx'[q][k] \in ValuesOf(k)
  BY <1>2, <1>3 DEF TxTyped
<1> QED  BY <1>2, <1>3, <1>4 DEF TxTyped

RunsStay == \A r \in Run : runOf[r] \in Dataset => runOf'[r] \in Dataset

(* What a step leaves alone stays correct.                                 *)
LEMMA Frame ==
    ASSUME IInv, [Backend!Next]_orchestrator, RunsStay
    PROVE  /\ BackendOK'
           /\ UNCHANGED db => RowsOK'
           /\ \A q \in Client : tx'[q] = tx[q] => TxOK(q)'
           /\ \A q \in Client : pc'[q] = pc[q] /\ job'[q] = job[q] => JobOK(q)'
           /\ \A q \in Client : pc'[q] \notin Working => JobOK(q)'
           /\ \A q \in Client : tx'[q] = NoWrites => TxOK(q)'
<1>1. BackendOK' /\ \A s : \A r \in Run : Tells(s, r) => Tells(s, r)'
  BY BackendKeeps DEF IInv
<1>2. \A r \in Run : accepted[r] => accepted'[r]
  BY <1>1 DEF Tells
<1>3. UNCHANGED db => RowsOK'
  BY <1>1 DEF IInv, RowsOK, RunsStay, RowKey
<1>4. ASSUME NEW q \in Client, tx'[q] = tx[q]  PROVE TxOK(q)'
  BY <1>1, <1>4 DEF IInv, TxOK, RunsStay, RowKey
<1>5. ASSUME NEW q \in Client, pc'[q] = pc[q], job'[q] = job[q]  PROVE JobOK(q)'
  BY <1>1, <1>2, <1>5 DEF IInv, JobOK, RunsStay, Working
<1>6. ASSUME NEW q \in Client, pc'[q] \notin Working  PROVE JobOK(q)'
  BY <1>6 DEF JobOK, Working
<1>7. ASSUME NEW q \in Client, tx'[q] = NoWrites  PROVE TxOK(q)'
  BY <1>7 DEF TxOK, NoWrites
<1> QED  BY <1>1, <1>3, <1>4, <1>5, <1>6, <1>7

(* A transaction may write a row with what may be told of its run.         *)
LEMMA WriteKeeps ==
    ASSUME IInv, [Backend!Next]_orchestrator, RunsStay,
           NEW p \in Client, NEW w, Write(p, w),
           DOMAIN w \subseteq Key, \A k \in DOMAIN w : w[k] \in ValuesOf(k),
           \A r \in Run : RowKey(r) \in DOMAIN w =>
               runOf'[r] \in Dataset /\ w[RowKey(r)] # "none" /\ Tells(w[RowKey(r)], r)'
    PROVE  TxTyped' /\ \A q \in Client : TxOK(q)'
<1>1. TxTyped
  BY DEF IInv, ServiceTyped, TxTyped
<1>2. /\ TxTyped'
      /\ \A q \in Client \ {p} : tx'[q] = tx[q]
      /\ DOMAIN tx'[p] = DOMAIN tx[p] \cup DOMAIN w
      /\ \A k \in DOMAIN tx'[p] :
            tx'[p][k] = IF k \in DOMAIN w THEN w[k] ELSE tx[p][k]
  BY <1>1, WriteFacts
<1>3. \A s : \A r \in Run : Tells(s, r) => Tells(s, r)'
  BY BackendKeeps DEF IInv
<1>4. ASSUME NEW r \in Run, RowKey(r) \in DOMAIN tx'[p]
      PROVE  /\ runOf'[r] \in Dataset
             /\ \E v : v = tx'[p][RowKey(r)] /\ v # "none" /\ Tells(v, r)'
  <2>1. CASE RowKey(r) \in DOMAIN w
    BY <1>2, <1>4, <2>1
  <2>2. CASE RowKey(r) \notin DOMAIN w
    <3>1. RowKey(r) \in DOMAIN tx[p] /\ tx'[p][RowKey(r)] = tx[p][RowKey(r)]
      BY <1>2, <1>4, <2>2
    <3>2. PICK v : v = tx[p][RowKey(r)]
      OBVIOUS
    <3>3. runOf[r] \in Dataset /\ v # "none" /\ Tells(v, r)
      BY <3>1, <3>2 DEF IInv, TxOK
    <3> QED  BY <1>3, <3>1, <3>2, <3>3 DEF RunsStay
  <2> QED  BY <2>1, <2>2
<1>5. TxOK(p)'
  BY <1>4 DEF TxOK, RowKey, Tells
<1>6. \A q \in Client \ {p} : TxOK(q)'
  BY <1>2, Frame
<1> QED  BY <1>2, <1>5, <1>6

LEMMA CreateKeeps ==
    ASSUME IInv, [Backend!Next]_orchestrator,
           NEW p \in Client, NEW r \in Run, NEW d \in Dataset, NEW s \in {"queued", "running"},
           runOf[r] = NoDataset, CreateRun(p, r, d, s)
    PROVE  /\ RunsStay
           /\ runOf' \in [Run -> Dataset \cup {NoDataset}]
           /\ TxTyped'
           /\ \A q \in Client : TxOK(q)'
<1>1. runOf' = [runOf EXCEPT ![r] = d] /\ runOf \in [Run -> Dataset \cup {NoDataset}]
  BY DEF CreateRun, IInv, ServiceTyped
<1>2. RunsStay /\ runOf' \in [Run -> Dataset \cup {NoDataset}] /\ runOf'[r] = d
  BY <1>1 DEF RunsStay
<1>3. PICK w : w = [k \in {RowKey(r), LastKey(d)} |-> IF k = RowKey(r) THEN s ELSE "running"]
  OBVIOUS
<1>4. Write(p, w)
  BY <1>3 DEF CreateRun
<1>5. DOMAIN w = {RowKey(r), LastKey(d)} /\ w[RowKey(r)] = s /\ w[LastKey(d)] = "running"
  BY <1>3, KeyFacts
<1>6. DOMAIN w \subseteq Key /\ \A k \in DOMAIN w : w[k] \in ValuesOf(k)
  BY <1>5, KeyFacts DEF RowStatus
<1>7. ASSUME NEW q \in Run, RowKey(q) \in DOMAIN w
      PROVE  runOf'[q] \in Dataset /\ w[RowKey(q)] # "none" /\ Tells(w[RowKey(q)], q)'
  <2>1. q = r
    BY <1>5, <1>7, KeyFacts
  <2> QED  BY <1>2, <1>5, <2>1 DEF Tells
<1> QED  BY <1>2, <1>4, <1>6, <1>7, WriteKeeps

(* The steps that no client takes.                                         *)
LEMMA BackendStepKeeps == IInv /\ BackendStep => IInv'
<1> SUFFICES ASSUME IInv, BackendStep  PROVE IInv'
  OBVIOUS
<1>1. [Backend!Next]_orchestrator
  BY DEF BackendStep, Backend!Next
<1>2. RunsStay /\ UNCHANGED <<runOf, db, tx, pc, job, faults>>
  BY DEF BackendStep, RunsStay
<1>3. BackendOK' /\ RowsOK' /\ \A q \in Client : TxOK(q)' /\ JobOK(q)'
  BY <1>1, <1>2, Frame
<1>4. ServiceTyped'
  BY <1>2, <1>3 DEF IInv, ServiceTyped, BackendOK
<1> QED  BY <1>3, <1>4 DEF IInv

LEMMA RestartKeeps == IInv /\ Restart => IInv'
<1> SUFFICES ASSUME IInv, Restart  PROVE IInv'
  OBVIOUS
<1>1. [Backend!Next]_orchestrator
  BY DEF Restart, Backend!Next
<1>2. RunsStay /\ UNCHANGED <<runOf, db>>
  BY DEF Restart, RunsStay
<1>3. \A q \in Client : pc'[q] \notin Working /\ tx'[q] = NoWrites
  BY DEF Restart, Working
<1>4. BackendOK' /\ RowsOK' /\ \A q \in Client : TxOK(q)' /\ JobOK(q)'
  BY <1>1, <1>2, <1>3, Frame
<1>5. ServiceTyped'
  <2>1. faults' \in 0..MaxFaults
    BY BoundsAssumption DEF Restart, IInv, ServiceTyped
  <2>2. pc' \in [Client -> {"idle", "loaded", "answered", "trigger", "cancelling", "commit"}]
    BY DEF Restart
  <2>3. job' \in [Client -> [run : Run \cup {0}, seen : RowStatus, trigger : SUBSET Dataset]]
    BY DEF Restart, NoJob, RowStatus
  <2>4. DOMAIN tx' = Client /\ \A q \in Client : DOMAIN tx'[q] = {}
    BY DEF Restart, NoWrites
  <2> QED  BY <1>2, <1>4, <2>1, <2>2, <2>3, <2>4 DEF IInv, ServiceTyped, BackendOK
<1> QED  BY <1>4, <1>5 DEF IInv

-----------------------------------------------------------------------------
(* The steps of a client p, which goes to place c with job j.              *)

Places == {"idle", "loaded", "answered", "trigger", "cancelling", "commit"}
Jobs == [run : Run \cup {0}, seen : RowStatus, trigger : SUBSET Dataset]

LEMMA MoveKeeps ==
    ASSUME IInv, [Backend!Next]_orchestrator, RunsStay,
           runOf' \in [Run -> Dataset \cup {NoDataset}],
           TxTyped', \A q \in Client : TxOK(q)',
           UNCHANGED db, faults' \in 0..MaxFaults,
           NEW p \in Client, NEW c \in Places, NEW j \in Jobs,
           pc' = [pc EXCEPT ![p] = c], job' = [job EXCEPT ![p] = j],
           JobOK(p)'
    PROVE  IInv'
<1>1. BackendOK' /\ RowsOK'
  BY Frame
<1>2. pc \in [Client -> Places] /\ job \in [Client -> Jobs]
  BY DEF IInv, ServiceTyped, Places, Jobs
<1>3. \A q \in Client \ {p} : pc'[q] = pc[q] /\ job'[q] = job[q]
  BY <1>2
<1>4. \A q \in Client : JobOK(q)'
  BY <1>3, Frame
<1>5. pc' \in [Client -> Places] /\ job' \in [Client -> Jobs]
  BY <1>2
<1>6. ServiceTyped'
  BY <1>1, <1>5 DEF IInv, ServiceTyped, BackendOK, TxTyped, Places, Jobs
<1> QED  BY <1>1, <1>4, <1>6 DEF IInv

(* A move of p that touches nothing but its place and its job.             *)
LEMMA QuietMoveKeeps ==
    ASSUME IInv, NEW p \in Client, NEW c \in Places, NEW j \in Jobs,
           pc' = [pc EXCEPT ![p] = c], job' = [job EXCEPT ![p] = j],
           UNCHANGED <<orchestrator, runOf, db, tx, faults>>,
           JobOK(p)'
    PROVE  IInv'
<1>1. [Backend!Next]_orchestrator /\ RunsStay
  BY DEF RunsStay
<1>2. TxTyped' /\ runOf' \in [Run -> Dataset \cup {NoDataset}] /\ faults' \in 0..MaxFaults
  BY DEF IInv, ServiceTyped, TxTyped
<1>3. \A q \in Client : TxOK(q)'
  BY <1>1, Frame
<1> QED  BY <1>1, <1>2, <1>3, MoveKeeps

LEMMA NoJobTyped == NoJob \in Jobs /\ "idle" \in Places
BY DEF NoJob, Jobs, Places, RowStatus

LEMMA SubmitKeeps ==
    ASSUME IInv, NEW p \in Client, NEW d \in Dataset, NEW force \in BOOLEAN, Submit(p, d, force)
    PROVE  IInv'
<1>1. PICK r \in UserRun : IsNext(r, UserRun) /\ CreateRun(p, r, d, "running") /\ Backend!Submit(r)
  BY DEF Submit
<1>2. r \in Run /\ runOf[r] = NoDataset
  BY <1>1 DEF IsNext, Unused, Run
<1>3. [Backend!Next]_orchestrator
  BY <1>1, <1>2 DEF Backend!Next
<1>4. RunsStay /\ runOf' \in [Run -> Dataset \cup {NoDataset}] /\ TxTyped' /\ \A q \in Client : TxOK(q)'
  BY <1>1, <1>2, <1>3, CreateKeeps
<1>5. UNCHANGED <<db, faults>> /\ faults \in 0..MaxFaults
  BY DEF Submit, IInv, ServiceTyped
<1>6. PICK j \in Jobs : j = job[p]
  BY DEF IInv, ServiceTyped, Jobs
<1>7. pc' = [pc EXCEPT ![p] = "commit"] /\ job' = [job EXCEPT ![p] = j] /\ pc'[p] = "commit"
  BY <1>6 DEF Submit, Goto, IInv, ServiceTyped
<1>8. JobOK(p)'
  BY <1>7 DEF JobOK, Working
<1> QED  BY <1>3, <1>4, <1>5, <1>7, <1>8, MoveKeeps DEF Places

LEMMA PollLoadKeeps ==
    ASSUME IInv, NEW p \in Client, NEW r \in Run, PollLoad(p, r)
    PROVE  IInv'
<1>1. PICK j : j = [NoJob EXCEPT !.run = r, !.seen = db[RowKey(r)]]
  OBVIOUS
<1>2. db[RowKey(r)] \in RowStatus /\ db[RowKey(r)] # "none" /\ runOf[r] \in Dataset
  BY KeyFacts DEF PollLoad, IInv, ServiceTyped, RowsOK
<1>3. j \in Jobs /\ j.run = r
  BY <1>1, <1>2 DEF NoJob, Jobs
<1>4. pc' = [pc EXCEPT ![p] = "loaded"] /\ job' = [job EXCEPT ![p] = j]
  BY <1>1 DEF PollLoad, Goto
<1>5. UNCHANGED <<orchestrator, runOf, db, tx, faults>>
  BY DEF PollLoad, orchestrator
<1>6. pc'[p] = "loaded" /\ job'[p] = j
  BY <1>4 DEF IInv, ServiceTyped
<1>7. JobOK(p)'
  BY <1>2, <1>3, <1>5, <1>6 DEF JobOK
<1> QED  BY <1>3, <1>4, <1>5, <1>7, QuietMoveKeeps DEF Places

LEMMA PollAskKeeps ==
    ASSUME IInv, NEW p \in Client, PollAsk(p)
    PROVE  IInv'
<1>1. PICK r : r = job[p].run
  OBVIOUS
<1>2. r \in Run /\ runOf[r] \in Dataset /\ job[p] \in Jobs
  BY <1>1 DEF PollAsk, IInv, JobOK, Working, ServiceTyped, Jobs
<1>3. PICK s : s = Answer(r)
  OBVIOUS
<1>4. s \in RowStatus \ {"none"} /\ Tells(s, r)
  <2>1. status[r] \in RowStatus \ {"none"} /\ Tells(status[r], r)
    BY <1>2 DEF IInv, BackendOK, Backend!TypeOK, RowStatus, Backend!Terminal, Terminal
  <2>2. s = status[r] \/ s = "unknown"
    BY <1>3 DEF Answer
  <2> QED  BY <2>1, <2>2 DEF RowStatus, Tells
<1>5. UNCHANGED <<orchestrator, runOf, db, tx, faults>>
  BY DEF PollAsk, orchestrator
<1>6. CASE s = job[p].seen
  <2>1. pc' = [pc EXCEPT ![p] = "idle"] /\ job' = [job EXCEPT ![p] = NoJob]
    BY <1>1, <1>3, <1>6 DEF PollAsk, End, Goto
  <2>2. JobOK(p)'
    BY <2>1 DEF JobOK, Working, IInv, ServiceTyped
  <2> QED  BY <1>5, <2>1, <2>2, NoJobTyped, QuietMoveKeeps
<1>7. CASE s # job[p].seen
  <2>1. PICK j : j = [job[p] EXCEPT !.seen = s]
    OBVIOUS
  <2>2. j \in Jobs /\ j.run = r /\ j.seen = s
    BY <1>1, <1>2, <1>4, <2>1 DEF Jobs
  <2>3. pc' = [pc EXCEPT ![p] = "answered"] /\ job' = [job EXCEPT ![p] = j]
    BY <1>1, <1>3, <1>7, <2>1 DEF PollAsk, Goto
  <2>4. pc'[p] = "answered" /\ job'[p] = j
    BY <2>3 DEF IInv, ServiceTyped
  <2>5. JobOK(p)'
    BY <1>2, <1>4, <1>5, <2>2, <2>4 DEF JobOK, Tells, orchestrator
  <2> QED  BY <1>5, <2>2, <2>3, <2>5, QuietMoveKeeps DEF Places
<1> QED  BY <1>6, <1>7

LEMMA PollFailedKeeps ==
    ASSUME IInv, NEW p \in Client, PollFailed(p)
    PROVE  IInv'
<1>1. pc' = [pc EXCEPT ![p] = "idle"] /\ job' = [job EXCEPT ![p] = NoJob]
  BY DEF PollFailed, End, Goto
<1>2. JobOK(p)'
  BY <1>1 DEF JobOK, Working, IInv, ServiceTyped
<1>3. UNCHANGED <<orchestrator, runOf, db, tx, faults>>
  BY DEF PollFailed, orchestrator
<1> QED  BY <1>1, <1>2, <1>3, NoJobTyped, QuietMoveKeeps

(* A move of p that only writes in its transaction.                        *)
LEMMA WritingMoveKeeps ==
    ASSUME IInv, NEW p \in Client, NEW c \in Places, NEW j \in Jobs, NEW w,
           pc' = [pc EXCEPT ![p] = c], job' = [job EXCEPT ![p] = j],
           UNCHANGED <<orchestrator, runOf, db, faults>>,
           Write(p, w), DOMAIN w \subseteq Key, \A k \in DOMAIN w : w[k] \in ValuesOf(k),
           \A r \in Run : RowKey(r) \in DOMAIN w =>
               runOf[r] \in Dataset /\ w[RowKey(r)] # "none" /\ Tells(w[RowKey(r)], r),
           JobOK(p)'
    PROVE  IInv'
<1>1. [Backend!Next]_orchestrator /\ RunsStay
  BY DEF RunsStay
<1>2. runOf' \in [Run -> Dataset \cup {NoDataset}] /\ faults' \in 0..MaxFaults
  BY DEF IInv, ServiceTyped
<1>3. \A s : \A r \in Run : Tells(s, r) => Tells(s, r)'
  BY <1>1, BackendKeeps DEF IInv
<1>4. ASSUME NEW r \in Run, RowKey(r) \in DOMAIN w
      PROVE  runOf'[r] \in Dataset /\ w[RowKey(r)] # "none" /\ Tells(w[RowKey(r)], r)'
  BY <1>3, <1>4
<1>5. TxTyped' /\ \A q \in Client : TxOK(q)'
  BY <1>1, <1>4, WriteKeeps
<1> QED  BY <1>1, <1>2, <1>5, MoveKeeps

LEMMA PollOtherKeeps ==
    ASSUME IInv, NEW p \in Client, PollOther(p)
    PROVE  IInv'
<1>1. PICK j \in Jobs : j = job[p]
  BY DEF IInv, ServiceTyped, Jobs
<1>2. /\ j.run \in Run /\ runOf[j.run] \in Dataset
      /\ j.seen \in RowStatus \ {"none"} /\ Tells(j.seen, j.run)
  BY <1>1 DEF PollOther, IInv, JobOK, Working, Jobs
<1>3. PICK w : w = [k \in {RowKey(j.run)} |-> j.seen]
  OBVIOUS
<1>4. Write(p, w)
  BY <1>1, <1>3 DEF PollOther
<1>5. DOMAIN w = {RowKey(j.run)} /\ w[RowKey(j.run)] = j.seen
  BY <1>3
<1>6. DOMAIN w \subseteq Key /\ \A k \in DOMAIN w : w[k] \in ValuesOf(k)
  BY <1>2, <1>5, KeyFacts
<1>7. ASSUME NEW r \in Run, RowKey(r) \in DOMAIN w
      PROVE  runOf[r] \in Dataset /\ w[RowKey(r)] # "none" /\ Tells(w[RowKey(r)], r)
  <2>1. r = j.run
    BY <1>5, <1>7, KeyFacts
  <2> QED  BY <1>2, <1>5, <2>1
<1>8. pc' = [pc EXCEPT ![p] = "commit"] /\ job' = [job EXCEPT ![p] = j] /\ pc'[p] = "commit"
  BY <1>1 DEF PollOther, Goto, IInv, ServiceTyped
<1>9. JobOK(p)'
  BY <1>8 DEF JobOK, Working
<1>10. UNCHANGED <<orchestrator, runOf, db, faults>>
  BY DEF PollOther
<1> QED  BY <1>4, <1>6, <1>7, <1>8, <1>9, <1>10, WritingMoveKeeps DEF Places

LEMMA PollCompletedKeeps ==
    ASSUME IInv, NEW p \in Client, PollCompleted(p)
    PROVE  IInv'
<1>1. PICK r, d : r = job[p].run /\ d = runOf[r]
  OBVIOUS
<1>2. /\ r \in Run /\ d \in Dataset /\ Tells("completed", r)
      /\ job[p] \in Jobs
  BY <1>1 DEF PollCompleted, IInv, JobOK, Working, ServiceTyped, Jobs
<1>3. PICK w : w = [k \in {RowKey(r), FreshKey(d), LastKey(d), DatedKey(d)} |->
                       CASE k = RowKey(r) -> "completed"
                         [] k = FreshKey(d) -> "fresh"
                         [] k = LastKey(d) -> "success"
                         [] k = DatedKey(d) -> IF ReportsDates THEN "yes" ELSE "no"]
  OBVIOUS
<1>4. Write(p, w)
  BY <1>1, <1>3 DEF PollCompleted
<1>5. /\ DOMAIN w = {RowKey(r), FreshKey(d), LastKey(d), DatedKey(d)}
      /\ w[RowKey(r)] = "completed" /\ w[FreshKey(d)] = "fresh" /\ w[LastKey(d)] = "success"
      /\ w[DatedKey(d)] \in {"no", "yes"}
  <2>1. DOMAIN w = {RowKey(r), FreshKey(d), LastKey(d), DatedKey(d)}
    BY <1>3
  <2>2. w[RowKey(r)] = "completed"
    BY <1>3, KeyFacts
  <2>3. w[FreshKey(d)] = "fresh"
    BY <1>3, KeyFacts
  <2>4. w[LastKey(d)] = "success"
    BY <1>3, KeyFacts
  <2>5. w[DatedKey(d)] \in {"no", "yes"}
    BY <1>3, KeyFacts
  <2> QED  BY <2>1, <2>2, <2>3, <2>4, <2>5
<1>6. DOMAIN w \subseteq Key /\ \A k \in DOMAIN w : w[k] \in ValuesOf(k)
  BY <1>2, <1>5, KeyFacts DEF RowStatus, Terminal
<1>7. ASSUME NEW q \in Run, RowKey(q) \in DOMAIN w
      PROVE  runOf[q] \in Dataset /\ w[RowKey(q)] # "none" /\ Tells(w[RowKey(q)], q)
  <2>1. q = r
    BY <1>5, <1>7, KeyFacts
  <2> QED  BY <1>1, <1>2, <1>5, <2>1
<1>8. ToTrigger(d) \subseteq Dataset
  BY DEF ToTrigger, Triggers, ReadyAfter, Downstream
<1>9. PICK j : j = [job[p] EXCEPT !.trigger = ToTrigger(d)]
  OBVIOUS
<1>10. j \in Jobs /\ j.run = r
  BY <1>1, <1>2, <1>8, <1>9 DEF Jobs
<1>11. pc' = [pc EXCEPT ![p] = "trigger"] /\ job' = [job EXCEPT ![p] = j]
  BY <1>1, <1>9 DEF PollCompleted, Goto
<1>12. UNCHANGED <<orchestrator, runOf, db, faults>>
  BY DEF PollCompleted
<1>13. pc'[p] = "trigger" /\ job'[p] = j
  BY <1>11 DEF IInv, ServiceTyped
<1>14. JobOK(p)'
  BY <1>1, <1>2, <1>10, <1>12, <1>13 DEF JobOK
<1> QED  BY <1>4, <1>6, <1>7, <1>10, <1>11, <1>12, <1>14, WritingMoveKeeps DEF Places

LEMMA PropagateKeeps ==
    ASSUME IInv, NEW p \in Client, Propagate(p)
    PROVE  IInv'
<1>1. PICK j \in Jobs : j = job[p]
  BY DEF IInv, ServiceTyped, Jobs
<1>2. PICK S : S = {y \in Invalidated(runOf[j.run]) : Sees(p, FreshKey(y)) # "stale"}
  OBVIOUS
<1>3. S \subseteq Dataset
  BY <1>2 DEF Invalidated, AllDownstream, Reachable
<1>4. PICK w : w = [k \in {FreshKey(x) : x \in S} |-> "stale"]
  OBVIOUS
<1>5. Write(p, w)
  BY <1>1, <1>2, <1>4 DEF Propagate
<1>6. DOMAIN w \subseteq Key /\ \A k \in DOMAIN w : w[k] \in ValuesOf(k)
  BY <1>3, <1>4, KeyFacts
<1>7. \A r \in Run : RowKey(r) \notin DOMAIN w
  BY <1>4, KeyFacts
<1>8. pc' = [pc EXCEPT ![p] = "commit"] /\ job' = [job EXCEPT ![p] = j] /\ pc'[p] = "commit"
  BY <1>1 DEF Propagate, Goto, IInv, ServiceTyped
<1>9. JobOK(p)'
  BY <1>8 DEF JobOK, Working
<1>10. UNCHANGED <<orchestrator, runOf, db, faults>>
  BY DEF Propagate
<1> QED  BY <1>5, <1>6, <1>7, <1>8, <1>9, <1>10, WritingMoveKeeps DEF Places

LEMMA TriggerKeeps ==
    ASSUME IInv, [Backend!Next]_orchestrator, faults' \in 0..MaxFaults,
           NEW p \in Client, NEW x \in job[p].trigger, NEW r \in AutoRun,
           NEW s \in {"queued", "running"}, Trigger(p, x, r, s)
    PROVE  IInv'
<1>1. job[p] \in Jobs /\ x \in Dataset
  BY DEF IInv, ServiceTyped, Jobs
<1>2. r \in Run /\ runOf[r] = NoDataset /\ CreateRun(p, r, x, s)
  BY DEF Trigger, IsNext, Unused, Run
<1>3. RunsStay /\ runOf' \in [Run -> Dataset \cup {NoDataset}] /\ TxTyped' /\ \A q \in Client : TxOK(q)'
  BY <1>1, <1>2, CreateKeeps
<1>4. PICK j : j = [job[p] EXCEPT !.trigger = @ \ {x}]
  OBVIOUS
<1>5. j \in Jobs /\ j.run = job[p].run
  BY <1>1, <1>4 DEF Jobs
<1>6. job' = [job EXCEPT ![p] = j] /\ pc' = pc /\ pc[p] = "trigger" /\ UNCHANGED db
  BY <1>4 DEF Trigger
<1>7. pc' = [pc EXCEPT ![p] = "trigger"] /\ pc'[p] = "trigger" /\ job'[p] = j
  BY <1>6 DEF IInv, ServiceTyped
<1>8. j.run \in Run /\ runOf'[j.run] \in Dataset
  BY <1>3, <1>5, <1>6 DEF IInv, JobOK, Working, RunsStay
<1>9. JobOK(p)'
  BY <1>7, <1>8 DEF JobOK
<1> QED  BY <1>3, <1>5, <1>6, <1>7, <1>9, MoveKeeps DEF Places

LEMMA TriggerNextKeeps ==
    ASSUME IInv, NEW p \in Client, TriggerNext(p)
    PROVE  IInv'
<1>1. PICK x \in job[p].trigger, r \in AutoRun : Trigger(p, x, r, "running") /\ Backend!Submit(r)
  BY DEF TriggerNext
<1>2. [Backend!Next]_orchestrator /\ faults' \in 0..MaxFaults
  BY <1>1 DEF Backend!Next, Run, TriggerNext, IInv, ServiceTyped
<1> QED  BY <1>1, <1>2, TriggerKeeps

LEMMA TriggerRefusedKeeps ==
    ASSUME IInv, NEW p \in Client, TriggerRefused(p)
    PROVE  IInv'
<1>1. PICK x \in job[p].trigger, r \in AutoRun : Trigger(p, x, r, "queued")
  BY DEF TriggerRefused, BeforeSubmission
<1>2. [Backend!Next]_orchestrator /\ faults' \in 0..MaxFaults
  BY BoundsAssumption DEF TriggerRefused, IInv, ServiceTyped
<1> QED  BY <1>1, <1>2, TriggerKeeps

LEMMA CancelAskKeeps ==
    ASSUME IInv, NEW p \in Client, NEW r \in Run, CancelAsk(p, r)
    PROVE  IInv'
<1>1. Backend!Cancel(r)
  BY DEF CancelAsk, CancelSucceeds
<1>2. [Backend!Next]_orchestrator /\ accepted'[r]
  BY <1>1 DEF Backend!Next, Backend!Cancel, IInv, ServiceTyped, Backend!TypeOK
<1>3. RunsStay /\ UNCHANGED <<runOf, db, tx, faults>>
  BY DEF CancelAsk, RunsStay
<1>4. /\ TxTyped' /\ runOf' \in [Run -> Dataset \cup {NoDataset}] /\ faults' \in 0..MaxFaults
      /\ \A q \in Client : TxOK(q)'
  BY <1>2, <1>3, Frame DEF IInv, ServiceTyped, TxTyped
<1>5. PICK j : j = [NoJob EXCEPT !.run = r]
  OBVIOUS
<1>6. j \in Jobs /\ j.run = r
  BY <1>5 DEF NoJob, Jobs, RowStatus
<1>7. pc' = [pc EXCEPT ![p] = "cancelling"] /\ job' = [job EXCEPT ![p] = j]
  BY <1>5 DEF CancelAsk, Goto
<1>8. pc'[p] = "cancelling" /\ job'[p] = j
  BY <1>7 DEF IInv, ServiceTyped
<1>9. runOf'[r] \in Dataset
  BY <1>3 DEF CancelAsk, IInv, RowsOK
<1>10. JobOK(p)'
  BY <1>2, <1>6, <1>8, <1>9 DEF JobOK
<1> QED  BY <1>2, <1>3, <1>4, <1>6, <1>7, <1>10, MoveKeeps DEF Places

LEMMA CancelWriteKeeps ==
    ASSUME IInv, NEW p \in Client, CancelWrite(p)
    PROVE  IInv'
<1>1. PICK j \in Jobs : j = job[p]
  BY DEF IInv, ServiceTyped, Jobs
<1>2. PICK r, d : r = j.run /\ d = runOf[r]
  OBVIOUS
<1>3. r \in Run /\ d \in Dataset /\ accepted[r]
  BY <1>1, <1>2 DEF CancelWrite, IInv, JobOK, Working
<1>4. PICK w : w = [k \in {RowKey(r), LastKey(d)} |-> IF k = RowKey(r) THEN "cancelled" ELSE CancelMark]
  OBVIOUS
<1>5. Write(p, w)
  BY <1>1, <1>2, <1>4 DEF CancelWrite
<1>6. DOMAIN w = {RowKey(r), LastKey(d)} /\ w[RowKey(r)] = "cancelled" /\ w[LastKey(d)] = "error"
  BY <1>4, KeyFacts DEF CancelMark, MarkError
<1>7. DOMAIN w \subseteq Key /\ \A k \in DOMAIN w : w[k] \in ValuesOf(k)
  BY <1>3, <1>6, KeyFacts DEF RowStatus, Terminal
<1>8. ASSUME NEW q \in Run, RowKey(q) \in DOMAIN w
      PROVE  runOf[q] \in Dataset /\ w[RowKey(q)] # "none" /\ Tells(w[RowKey(q)], q)
  <2>1. q = r
    BY <1>6, <1>8, KeyFacts
  <2> QED  BY <1>2, <1>3, <1>6, <2>1 DEF Tells
<1>9. pc' = [pc EXCEPT ![p] = "commit"] /\ job' = [job EXCEPT ![p] = j] /\ pc'[p] = "commit"
  BY <1>1 DEF CancelWrite, Goto, IInv, ServiceTyped
<1>10. JobOK(p)'
  BY <1>9 DEF JobOK, Working
<1>11. UNCHANGED <<orchestrator, runOf, db, faults>>
  BY DEF CancelWrite
<1> QED  BY <1>5, <1>7, <1>8, <1>9, <1>10, <1>11, WritingMoveKeeps DEF Places

LEMMA CommitKeeps ==
    ASSUME IInv, NEW p \in Client, Commit(p)
    PROVE  IInv'
<1>1. PICK w : w = Committed(tx[p])
  OBVIOUS
<1>2. DOMAIN w \subseteq Key /\ \A k \in DOMAIN w : w[k] \in ValuesOf(k)
  BY <1>1 DEF Committed, NoWrites, IInv, ServiceTyped
<1>3. ASSUME NEW r \in Run, RowKey(r) \in DOMAIN w
      PROVE  runOf[r] \in Dataset /\ Tells(w[RowKey(r)], r)
  BY <1>1, <1>3 DEF Committed, NoWrites, IInv, TxOK
<1>4. db' = [k \in Key |-> IF k \in DOMAIN w THEN w[k] ELSE db[k]]
  BY <1>1 DEF Commit, Overlay
<1>5. /\ UNCHANGED <<orchestrator, runOf, faults>>
      /\ tx' = [tx EXCEPT ![p] = NoWrites]
      /\ pc' = [pc EXCEPT ![p] = "idle"] /\ job' = [job EXCEPT ![p] = NoJob]
  BY DEF Commit, End, Goto
<1>6. [Backend!Next]_orchestrator /\ RunsStay
  BY <1>5 DEF RunsStay
<1>7. BackendOK' /\ \A q \in Client : TxOK(q)' /\ JobOK(q)'
  <2>1. \A q \in Client \ {p} : tx'[q] = tx[q] /\ pc'[q] = pc[q] /\ job'[q] = job[q]
    BY <1>5 DEF IInv, ServiceTyped
  <2>2. tx'[p] = NoWrites /\ pc'[p] \notin Working
    BY <1>5 DEF IInv, ServiceTyped, Working
  <2> QED  BY <1>6, <2>1, <2>2, Frame
<1>8. RowsOK'
  <2>1. \A r \in Run : runOf'[r] = runOf[r] /\ \A s : Tells(s, r) => Tells(s, r)'
    BY <1>5 DEF Tells, orchestrator
  <2>2. ASSUME NEW r \in Run
        PROVE  \E v : v = db'[RowKey(r)] /\ (v # "none" => runOf[r] \in Dataset) /\ Tells(v, r)
    <3>1. CASE RowKey(r) \in DOMAIN w
      BY <1>3, <1>4, <3>1, KeyFacts
    <3>2. CASE RowKey(r) \notin DOMAIN w
      BY <1>4, <3>2, KeyFacts DEF IInv, RowsOK
    <3> QED  BY <3>1, <3>2
  <2> QED  BY <1>5, <2>2 DEF RowsOK, Tells, RowKey, orchestrator
<1>9. ServiceTyped'
  <2>1. DOMAIN db' = Key /\ \A k \in Key : db'[k] \in ValuesOf(k)
    BY <1>2, <1>4 DEF IInv, ServiceTyped
  <2>2. pc' \in [Client -> Places] /\ job' \in [Client -> Jobs]
    BY <1>5, NoJobTyped DEF IInv, ServiceTyped, Places, Jobs
  <2>3. DOMAIN tx' = Client
    BY <1>5 DEF IInv, ServiceTyped
  <2>4. \A q \in Client : DOMAIN tx'[q] \subseteq Key /\ \A k \in DOMAIN tx'[q] : tx'[q][k] \in ValuesOf(k)
    BY <1>5 DEF IInv, ServiceTyped, NoWrites
  <2> QED  BY <1>5, <1>7, <2>1, <2>2, <2>3, <2>4 DEF IInv, ServiceTyped, BackendOK, Places, Jobs
<1> QED  BY <1>7, <1>8, <1>9 DEF IInv

LEMMA RequestDiesKeeps ==
    ASSUME IInv, NEW p \in Client, RequestDies(p)
    PROVE  IInv'
<1>1. /\ UNCHANGED <<orchestrator, runOf, db>>
      /\ tx' = [tx EXCEPT ![p] = NoWrites] /\ tx'[p] = NoWrites
      /\ pc' = [pc EXCEPT ![p] = "idle"] /\ pc'[p] = "idle"
      /\ job' = [job EXCEPT ![p] = NoJob]
  BY DEF RequestDies, End, Goto, orchestrator, IInv, ServiceTyped
<1>2. [Backend!Next]_orchestrator /\ RunsStay
  BY <1>1 DEF RunsStay
<1>3. \A q \in Client \ {p} : tx'[q] = tx[q]
  BY <1>1
<1>4. \A q \in Client : TxOK(q)'
  BY <1>1, <1>2, <1>3, Frame
<1>5. faults' \in 0..MaxFaults /\ runOf' \in [Run -> Dataset \cup {NoDataset}]
  BY <1>1, BoundsAssumption DEF RequestDies, IInv, ServiceTyped
<1>6. TxTyped'
  BY <1>1, <1>3 DEF IInv, ServiceTyped, TxTyped, NoWrites
<1>7. JobOK(p)'
  BY <1>1 DEF JobOK, Working
<1> QED  BY <1>1, <1>2, <1>4, <1>5, <1>6, <1>7, NoJobTyped, MoveKeeps

-----------------------------------------------------------------------------
LEMMA Initially == Init => IInv
<1> SUFFICES ASSUME Init  PROVE IInv
  OBVIOUS
<1>1. BackendOK
  BY DEF Init, Backend!Init, BackendOK, Backend!TypeOK, Tells, Backend!Terminal
<1>2. /\ DOMAIN db = Key
      /\ \A r \in Run : db[RowKey(r)] = "none"
      /\ \A d \in Dataset : db[FreshKey(d)] = "unknown" /\ db[LastKey(d)] = "none" /\ db[DatedKey(d)] = "no"
  BY KeyFacts DEF Init, RowKey, FreshKey, LastKey, DatedKey
<1>3. \A k \in Key : \/ \E r \in Run : k = RowKey(r)
                     \/ \E d \in Dataset : k \in {FreshKey(d), LastKey(d), DatedKey(d)}
  BY DEF Key, RowKey, FreshKey, LastKey, DatedKey
<1>4. \A k \in Key : db[k] \in ValuesOf(k)
  BY <1>2, <1>3, KeyFacts DEF RowStatus
<1>5. RowsOK
  BY <1>2 DEF RowsOK, Tells
<1>6. \A p \in Client : tx[p] = NoWrites /\ pc[p] = "idle"
  BY DEF Init
<1>7. \A p \in Client : TxOK(p) /\ JobOK(p)
  BY <1>6 DEF TxOK, JobOK, NoWrites, Working
<1>8. ServiceTyped
  <2>1. job \in [Client -> Jobs] /\ pc \in [Client -> Places]
    BY NoJobTyped DEF Init
  <2>2. DOMAIN tx = Client /\ \A p \in Client : DOMAIN tx[p] = {}
    BY DEF Init, NoWrites
  <2>3. runOf \in [Run -> Dataset \cup {NoDataset}] /\ faults \in 0..MaxFaults
    BY BoundsAssumption DEF Init
  <2> QED  BY <1>1, <1>2, <1>4, <2>1, <2>2, <2>3 DEF ServiceTyped, BackendOK, Jobs, Places
<1> QED  BY <1>1, <1>5, <1>7, <1>8 DEF IInv

LEMMA StepKeeps == IInv /\ [Next]_vars => IInv'
<1> SUFFICES ASSUME IInv, [Next]_vars  PROVE IInv'
  OBVIOUS
<1>1. CASE UNCHANGED vars
  <2>1. [Backend!Next]_orchestrator /\ RunsStay /\ UNCHANGED <<runOf, db, tx, pc, job, faults>>
    BY <1>1 DEF vars, service, orchestrator, RunsStay
  <2>2. BackendOK' /\ RowsOK' /\ \A p \in Client : TxOK(p)' /\ JobOK(p)'
    BY <2>1, Frame
  <2>3. ServiceTyped'
    BY <2>1, <2>2 DEF IInv, ServiceTyped, BackendOK
  <2> QED  BY <2>2, <2>3 DEF IInv
<1>2. CASE BackendStep
  BY <1>2, BackendStepKeeps
<1>3. CASE Restart
  BY <1>3, RestartKeeps
<1>4. ASSUME NEW p \in Client, NEW d \in Dataset, NEW force \in BOOLEAN, Submit(p, d, force)
      PROVE  IInv'
  BY <1>4, SubmitKeeps
<1>5. ASSUME NEW p \in Client, NEW r \in Run, PollLoad(p, r) \/ CancelAsk(p, r)
      PROVE  IInv'
  BY <1>5, PollLoadKeeps, CancelAskKeeps
<1>6. ASSUME NEW p \in Client, Serve(p)
      PROVE  IInv'
  BY <1>6, PollAskKeeps, PollOtherKeeps, PollFailedKeeps, PollCompletedKeeps, TriggerNextKeeps,
     PropagateKeeps, CancelWriteKeeps, CommitKeeps DEF Serve
<1>7. ASSUME NEW p \in Client, TriggerRefused(p) \/ RequestDies(p)
      PROVE  IInv'
  BY <1>7, TriggerRefusedKeeps, RequestDiesKeeps
<1> QED  BY <1>1, <1>2, <1>3, <1>4, <1>5, <1>6, <1>7 DEF Next

(* The variables keep their types: among others the stores only ever hold  *)
(* the statuses their readers know.                                        *)
THEOREM Typing == Spec => []TypeOK
<1> DEFINE SettingOK == setting \in [shared : BOOLEAN, commits : BOOLEAN]
<1>1. Init => SettingOK
  BY DEF Init
<1>2. SettingOK /\ [Next]_vars => SettingOK'
  BY DEF Next, vars
<1>3. IInv /\ SettingOK => TypeOK
  BY DEF IInv, TypeOK
<1> HIDE DEF SettingOK
<1> QED  BY <1>1, <1>2, <1>3, Initially, StepKeeps, PTL DEF Spec

(* Whatever requests interleave, die or are answered late, a run recorded  *)
(* as completed was completed and its cancellation was not accepted, and a *)
(* run recorded as cancelled was cancelled by the orchestrator.            *)
THEOREM OutcomeTheorem == Spec => []RowTellsOutcome
<1>1. IInv => RowTellsOutcome
  BY DEF IInv, RowsOK, Tells, RowTellsOutcome
<1> QED  BY <1>1, Initially, StepKeeps, PTL DEF Spec

-----------------------------------------------------------------------------
(* What a completion sets off.  A request that has written a completed row *)
(* holds back its commit until it has created the runs to trigger, or      *)
(* still has them to create.                                               *)
HasRun(x) == \E q \in Run : runOf[q] = x
Completes(p, r) == RowKey(r) \in DOMAIN tx[p] /\ tx[p][RowKey(r)] = "completed"

TriggerOK(p) ==
    \A r \in Run : Completes(p, r) =>
        /\ pc[p] \in {"trigger", "commit"}
        /\ \A x \in ToTrigger(runOf[r]) : HasRun(x) \/ (pc[p] = "trigger" /\ x \in job[p].trigger)
TriggeredOK ==
    \A r \in Run : db[RowKey(r)] = "completed" => \A x \in ToTrigger(runOf[r]) : HasRun(x)

TriggerInv == TriggeredOK /\ \A p \in Client : TriggerOK(p)

(* A run that is of a dataset stays a run of that dataset.                 *)
RunsKept == \A r \in Run : runOf[r] \in Dataset => runOf'[r] = runOf[r]

LEMMA TriggersAreDatasets ==
    ASSUME NEW d
    PROVE  ToTrigger(d) \subseteq Dataset
BY DEF ToTrigger, Triggers, ReadyAfter, Downstream

LEMMA CreatedIsKept ==
    ASSUME IInv, NEW p \in Client, NEW r \in Run, NEW d \in Dataset, NEW s,
           runOf[r] = NoDataset, CreateRun(p, r, d, s)
    PROVE  RunsKept /\ runOf'[r] = d
<1>1. runOf' = [runOf EXCEPT ![r] = d] /\ runOf \in [Run -> Dataset \cup {NoDataset}]
  BY DEF CreateRun, IInv, ServiceTyped
<1>2. NoDataset \notin Dataset
  BY LineageAssumption
<1> QED  BY <1>1, <1>2 DEF RunsKept

LEMMA TriggerFrame ==
    ASSUME IInv, TriggerInv, RunsKept
    PROVE  /\ \A x \in Dataset : HasRun(x) => HasRun(x)'
           /\ UNCHANGED db => TriggeredOK'
           /\ \A q \in Client : tx'[q] = tx[q] /\ pc'[q] = pc[q] /\ job'[q] = job[q] => TriggerOK(q)'
           /\ \A q \in Client : (\A r \in Run : ~Completes(q, r)') => TriggerOK(q)'
           /\ \A q \in Client : tx'[q] = NoWrites => TriggerOK(q)'
<1>1. \A x \in Dataset : HasRun(x) => HasRun(x)'
  BY DEF RunsKept, HasRun
<1>2. \A r \in Run : db[RowKey(r)] = "completed" => runOf'[r] = runOf[r]
  BY DEF IInv, RowsOK, RunsKept
<1>3. \A q \in Client, r \in Run : Completes(q, r) => runOf'[r] = runOf[r]
  BY DEF IInv, TxOK, RunsKept, Completes
<1>4. ASSUME UNCHANGED db PROVE TriggeredOK'
  BY <1>1, <1>2, <1>4, TriggersAreDatasets DEF TriggerInv, TriggeredOK, RowKey
<1>5. ASSUME NEW q \in Client, tx'[q] = tx[q], pc'[q] = pc[q], job'[q] = job[q] PROVE TriggerOK(q)'
  <2>1. \A r \in Run : Completes(q, r)' <=> Completes(q, r)
    BY <1>5 DEF Completes, RowKey
  <2>2. TriggerOK(q)
    BY DEF TriggerInv
  <2>3. ASSUME NEW r \in Run, Completes(q, r)
        PROVE  /\ pc'[q] \in {"trigger", "commit"}
               /\ \A x \in ToTrigger(runOf'[r]) : HasRun(x)' \/ (pc'[q] = "trigger" /\ x \in job'[q].trigger)
    BY <1>1, <1>3, <1>5, <2>2, <2>3, TriggersAreDatasets DEF TriggerOK
  <2> QED  BY <2>1, <2>3 DEF TriggerOK
<1>6. ASSUME NEW q \in Client, \A r \in Run : ~Completes(q, r)' PROVE TriggerOK(q)'
  BY <1>6 DEF TriggerOK
<1>7. ASSUME NEW q \in Client, tx'[q] = NoWrites PROVE TriggerOK(q)'
  <2>1. \A r \in Run : ~Completes(q, r)'
    BY <1>7 DEF Completes, NoWrites, RowKey
  <2> QED  BY <1>6, <2>1
<1> QED  BY <1>1, <1>4, <1>5, <1>6, <1>7

(* The completed rows of a transaction after a write.                      *)
LEMMA CompletesAfter ==
    ASSUME IInv, NEW p \in Client, NEW w, Write(p, w)
    PROVE  /\ \A q \in Client \ {p} : tx'[q] = tx[q]
           /\ \A r \in Run : Completes(p, r)' <=>
                IF RowKey(r) \in DOMAIN w THEN w[RowKey(r)] = "completed" ELSE Completes(p, r)
           /\ DOMAIN tx'[p] = DOMAIN tx[p] \cup DOMAIN w
           /\ \A k \in DOMAIN tx'[p] : tx'[p][k] = IF k \in DOMAIN w THEN w[k] ELSE tx[p][k]
<1>1. tx' = [tx EXCEPT ![p] = [k \in DOMAIN tx[p] \cup DOMAIN w |->
                                  IF k \in DOMAIN w THEN w[k] ELSE tx[p][k]]]
  BY DEF Write
<1>2. DOMAIN tx = Client
  BY DEF IInv, ServiceTyped
<1>3. /\ \A q \in Client \ {p} : tx'[q] = tx[q]
      /\ DOMAIN tx'[p] = DOMAIN tx[p] \cup DOMAIN w
      /\ \A k \in DOMAIN tx'[p] : tx'[p][k] = IF k \in DOMAIN w THEN w[k] ELSE tx[p][k]
  BY <1>1, <1>2
<1>4. ASSUME NEW r \in Run
      PROVE  Completes(p, r)' <=> IF RowKey(r) \in DOMAIN w THEN w[RowKey(r)] = "completed" ELSE Completes(p, r)
  <2>1. Completes(p, r)' <=> RowKey(r) \in DOMAIN tx'[p] /\ tx'[p][RowKey(r)] = "completed"
    BY DEF Completes, RowKey
  <2> QED  BY <1>3, <2>1 DEF Completes
<1> QED  BY <1>3, <1>4

LEMMA CreateWrites ==
    ASSUME IInv, NEW p \in Client, NEW r \in Run, NEW d \in Dataset, NEW s \in {"queued", "running"},
           CreateRun(p, r, d, s)
    PROVE  \E w : /\ Write(p, w) /\ DOMAIN w = {RowKey(r), LastKey(d)}
                  /\ w[RowKey(r)] = s /\ w[LastKey(d)] = "running"
<1>1. PICK w : w = [k \in {RowKey(r), LastKey(d)} |-> IF k = RowKey(r) THEN s ELSE "running"]
  OBVIOUS
<1>2. DOMAIN w = {RowKey(r), LastKey(d)} /\ w[RowKey(r)] = s /\ w[LastKey(d)] = "running"
  BY <1>1, KeyFacts
<1>3. Write(p, w)
  BY <1>1 DEF CreateRun
<1> QED  BY <1>2, <1>3

(* Where a client stands after a step of p.                                *)
LEMMA OthersStand ==
    ASSUME IInv, NEW p \in Client, NEW c, NEW j, pc' = [pc EXCEPT ![p] = c], job' = [job EXCEPT ![p] = j]
    PROVE  /\ pc'[p] = c /\ job'[p] = j
           /\ \A q \in Client \ {p} : pc'[q] = pc[q] /\ job'[q] = job[q]
BY DEF IInv, ServiceTyped

(* A step of p that completes no row, when p is not between the completion *)
(* and its commit.                                                         *)
LEMMA IdleTriggers ==
    ASSUME IInv, TriggerInv, RunsKept, UNCHANGED db, NEW p \in Client, NEW c, NEW j,
           pc[p] \notin {"trigger", "commit"},
           pc' = [pc EXCEPT ![p] = c], job' = [job EXCEPT ![p] = j],
           \/ UNCHANGED tx
           \/ \E w : Write(p, w) /\ \A r \in Run : RowKey(r) \in DOMAIN w => w[RowKey(r)] # "completed"
    PROVE  TriggerInv'
<1>1. \A r \in Run : ~Completes(p, r)
  BY DEF TriggerInv, TriggerOK
<1>2. (\A r \in Run : ~Completes(p, r)') /\ \A q \in Client \ {p} : tx'[q] = tx[q]
  <2>1. CASE UNCHANGED tx
    BY <1>1, <2>1 DEF Completes, RowKey
  <2>2. CASE \E w : Write(p, w) /\ \A r \in Run : RowKey(r) \in DOMAIN w => w[RowKey(r)] # "completed"
    <3>1. PICK w : Write(p, w) /\ \A r \in Run : RowKey(r) \in DOMAIN w => w[RowKey(r)] # "completed"
      BY <2>2
    <3> QED  BY <1>1, <3>1, CompletesAfter
  <2> QED  BY <2>1, <2>2
<1>3. \A q \in Client \ {p} : pc'[q] = pc[q] /\ job'[q] = job[q]
  BY OthersStand
<1>4. \A q \in Client : TriggerOK(q)'
  BY <1>2, <1>3, TriggerFrame
<1> QED  BY <1>4, TriggerFrame DEF TriggerInv

LEMMA QuietRuns == UNCHANGED runOf => RunsKept
BY DEF RunsKept

LEMMA TriggersOnCompletion ==
    ASSUME IInv, TriggerInv, NEW p \in Client, PollCompleted(p)
    PROVE  TriggerInv'
<1>1. PICK r, d : r = job[p].run /\ d = runOf[r]
  OBVIOUS
<1>2. PICK w : w = [k \in {RowKey(r), FreshKey(d), LastKey(d), DatedKey(d)} |->
                       CASE k = RowKey(r) -> "completed"
                         [] k = FreshKey(d) -> "fresh"
                         [] k = LastKey(d) -> "success"
                         [] k = DatedKey(d) -> IF ReportsDates THEN "yes" ELSE "no"]
  OBVIOUS
<1>3. Write(p, w)
  BY <1>1, <1>2 DEF PollCompleted
<1>4. \A q \in Run : RowKey(q) \in DOMAIN w => q = r
  BY <1>2, KeyFacts
<1>5. \A q \in Run : ~Completes(p, q)
  BY DEF TriggerInv, TriggerOK, PollCompleted
<1>6. \A q \in Run : Completes(p, q)' => q = r
  BY <1>3, <1>4, <1>5, CompletesAfter
<1>7. PICK j : j = [job[p] EXCEPT !.trigger = ToTrigger(d)]
  OBVIOUS
<1>8. pc' = [pc EXCEPT ![p] = "trigger"] /\ job' = [job EXCEPT ![p] = j]
  BY <1>1, <1>7 DEF PollCompleted, Goto
<1>9. j.trigger = ToTrigger(d)
  BY <1>7 DEF IInv, ServiceTyped
<1>10. UNCHANGED <<runOf, db>>
  BY DEF PollCompleted
<1>11. TriggerOK(p)'
  <2>1. pc'[p] = "trigger" /\ job'[p] = j
    BY <1>8, OthersStand
  <2>2. ASSUME NEW q \in Run, Completes(p, q)' PROVE ToTrigger(runOf'[q]) = job'[p].trigger
    BY <1>1, <1>6, <1>9, <1>10, <2>1, <2>2
  <2> QED  BY <2>1, <2>2 DEF TriggerOK
<1>12. \A q \in Client \ {p} : TriggerOK(q)'
  BY <1>3, <1>8, <1>10, QuietRuns, CompletesAfter, OthersStand, TriggerFrame
<1> QED  BY <1>10, <1>11, <1>12, QuietRuns, TriggerFrame DEF TriggerInv

LEMMA TriggersOneMore ==
    ASSUME IInv, TriggerInv, NEW p \in Client, NEW x \in job[p].trigger, NEW r \in AutoRun,
           NEW s \in {"queued", "running"}, Trigger(p, x, r, s)
    PROVE  TriggerInv'
<1>1. x \in Dataset /\ job[p] \in Jobs
  BY DEF IInv, ServiceTyped, Jobs
<1>2. r \in Run /\ runOf[r] = NoDataset /\ CreateRun(p, r, x, s) /\ NoDataset \notin Dataset
  BY LineageAssumption DEF Trigger, IsNext, Unused, Run
<1>3. RunsKept /\ runOf'[r] = x
  BY <1>1, <1>2, CreatedIsKept
<1>4. PICK w : Write(p, w) /\ DOMAIN w = {RowKey(r), LastKey(x)} /\ w[RowKey(r)] = s /\ w[LastKey(x)] = "running"
  <2>1. x \in Dataset /\ r \in Run /\ CreateRun(p, r, x, s)
    BY <1>1, <1>2
  <2> HIDE DEF IInv
  <2> QED  BY <2>1, CreateWrites
<1>5. \A q \in Run : RowKey(q) \in DOMAIN w => w[RowKey(q)] # "completed"
  BY <1>4, KeyFacts
<1>6. \A q \in Run : Completes(p, q)' => Completes(p, q)
  BY <1>4, <1>5, CompletesAfter
<1>7. PICK j : j = [job[p] EXCEPT !.trigger = @ \ {x}]
  OBVIOUS
<1>8. j.trigger = job[p].trigger \ {x}
  BY <1>1, <1>7 DEF Jobs
<1>9. pc' = pc /\ pc[p] = "trigger" /\ job' = [job EXCEPT ![p] = j] /\ UNCHANGED db
  BY <1>7 DEF Trigger
<1>10. job'[p] = j /\ \A q \in Client \ {p} : job'[q] = job[q]
  BY <1>9 DEF IInv, ServiceTyped
<1>11. HasRun(x)' /\ \A y \in Dataset : HasRun(y) => HasRun(y)'
  BY <1>2, <1>3, TriggerFrame DEF HasRun
<1>12. ASSUME NEW q \in Run, Completes(p, q)'
       PROVE  \A y \in ToTrigger(runOf'[q]) : HasRun(y)' \/ y \in job'[p].trigger
  <2>1. Completes(p, q) /\ runOf'[q] = runOf[q]
    BY <1>3, <1>6, <1>12 DEF RunsKept, IInv, TxOK, Completes
  <2>2. \A y \in ToTrigger(runOf[q]) : HasRun(y) \/ y \in job[p].trigger
    BY <2>1 DEF TriggerInv, TriggerOK
  <2> QED  BY <1>8, <1>10, <1>11, <2>1, <2>2, TriggersAreDatasets
<1>13. TriggerOK(p)'
  BY <1>9, <1>12 DEF TriggerOK
<1>14. \A q \in Client \ {p} : TriggerOK(q)'
  BY <1>3, <1>4, <1>9, <1>10, CompletesAfter, TriggerFrame
<1> QED  BY <1>3, <1>9, <1>13, <1>14, TriggerFrame DEF TriggerInv

LEMMA TriggersAtPropagation ==
    ASSUME IInv, TriggerInv, NEW p \in Client, Propagate(p)
    PROVE  TriggerInv'
<1>1. PICK w : Write(p, w) /\ \E S : DOMAIN w = {FreshKey(x) : x \in S}
  <2>1. PICK S : S = {y \in Invalidated(runOf[job[p].run]) : Sees(p, FreshKey(y)) # "stale"}
    OBVIOUS
  <2>2. PICK w : w = [k \in {FreshKey(x) : x \in S} |-> "stale"]
    OBVIOUS
  <2>3. Write(p, w) /\ DOMAIN w = {FreshKey(x) : x \in S}
    BY <2>1, <2>2 DEF Propagate
  <2> QED  BY <2>3
<1>2. \A r \in Run : RowKey(r) \notin DOMAIN w
  BY <1>1, KeyFacts
<1>3. \A r \in Run : Completes(p, r)' => Completes(p, r)
  BY <1>1, <1>2, CompletesAfter
<1>4. /\ pc' = [pc EXCEPT ![p] = "commit"] /\ job' = job /\ pc[p] = "trigger" /\ job[p].trigger = {}
      /\ UNCHANGED <<runOf, db>>
  BY DEF Propagate, Goto
<1>5. pc'[p] = "commit" /\ \A q \in Client \ {p} : pc'[q] = pc[q]
  BY <1>4 DEF IInv, ServiceTyped
<1>6. ASSUME NEW r \in Run, Completes(p, r)
      PROVE  \A x \in ToTrigger(runOf[r]) : HasRun(x)
  BY <1>4, <1>6 DEF TriggerInv, TriggerOK
<1>7. \A x : HasRun(x)' <=> HasRun(x)
  BY <1>4 DEF HasRun
<1>8. TriggerOK(p)'
  BY <1>3, <1>4, <1>5, <1>6, <1>7 DEF TriggerOK
<1>9. \A q \in Client \ {p} : TriggerOK(q)'
  BY <1>1, <1>4, <1>5, QuietRuns, CompletesAfter, TriggerFrame
<1> QED  BY <1>4, <1>8, <1>9, QuietRuns, TriggerFrame DEF TriggerInv

(* The values of a commit.                                                 *)
LEMMA CommitFacts ==
    ASSUME IInv, NEW p \in Client, Commit(p)
    PROVE  \E w : /\ w = Committed(tx[p]) /\ (w = tx[p] \/ DOMAIN w = {})
                  /\ \A k \in Key : db'[k] = IF k \in DOMAIN w THEN w[k] ELSE db[k]
                  /\ tx'[p] = NoWrites /\ \A q \in Client \ {p} : tx'[q] = tx[q]
                  /\ pc'[p] = "idle" /\ \A q \in Client \ {p} : pc'[q] = pc[q] /\ job'[q] = job[q]
                  /\ UNCHANGED runOf
<1>1. PICK w : w = Committed(tx[p])
  OBVIOUS
<1>2. db' = [k \in Key |-> IF k \in DOMAIN w THEN w[k] ELSE db[k]]
  BY <1>1 DEF Commit, Overlay
<1>3. /\ tx' = [tx EXCEPT ![p] = NoWrites] /\ UNCHANGED runOf
      /\ pc' = [pc EXCEPT ![p] = "idle"] /\ job' = [job EXCEPT ![p] = NoJob]
  BY DEF Commit, End, Goto
<1>4. w = tx[p] \/ DOMAIN w = {}
  BY <1>1 DEF Committed, NoWrites
<1>5. tx'[p] = NoWrites /\ \A q \in Client \ {p} : tx'[q] = tx[q]
  BY <1>3 DEF IInv, ServiceTyped
<1>6. pc'[p] = "idle" /\ \A q \in Client \ {p} : pc'[q] = pc[q] /\ job'[q] = job[q]
  BY <1>3, OthersStand
<1> QED  BY <1>1, <1>2, <1>3, <1>4, <1>5, <1>6

LEMMA TriggersAtCommit ==
    ASSUME IInv, TriggerInv, NEW p \in Client, Commit(p)
    PROVE  TriggerInv'
<1>1. PICK w : /\ w = Committed(tx[p]) /\ (w = tx[p] \/ DOMAIN w = {})
               /\ \A k \in Key : db'[k] = IF k \in DOMAIN w THEN w[k] ELSE db[k]
               /\ tx'[p] = NoWrites /\ \A q \in Client \ {p} : tx'[q] = tx[q]
               /\ pc'[p] = "idle" /\ \A q \in Client \ {p} : pc'[q] = pc[q] /\ job'[q] = job[q]
               /\ UNCHANGED runOf
  BY CommitFacts
<1>2. \A q \in Client : TriggerOK(q)'
  BY <1>1, QuietRuns, TriggerFrame
<1>3. ASSUME NEW r \in Run, db'[RowKey(r)] = "completed"
      PROVE  \A x \in ToTrigger(runOf[r]) : HasRun(x)
  <2>1. db[RowKey(r)] = "completed" \/ Completes(p, r)
    BY <1>1, <1>3, KeyFacts DEF Completes
  <2>2. Completes(p, r) => \A x \in ToTrigger(runOf[r]) : HasRun(x)
    BY DEF TriggerInv, TriggerOK, Commit
  <2> QED  BY <2>1, <2>2 DEF TriggerInv, TriggeredOK
<1>4. TriggeredOK'
  BY <1>1, <1>3 DEF TriggeredOK, HasRun, RowKey
<1> QED  BY <1>2, <1>4 DEF TriggerInv

LEMMA TriggersAtSubmit ==
    ASSUME IInv, TriggerInv, NEW p \in Client, NEW d \in Dataset, NEW force \in BOOLEAN, Submit(p, d, force)
    PROVE  TriggerInv'
<1>1. PICK r \in UserRun : IsNext(r, UserRun) /\ CreateRun(p, r, d, "running")
  BY DEF Submit
<1>2. r \in Run /\ runOf[r] = NoDataset
  BY <1>1 DEF IsNext, Unused, Run
<1>3. RunsKept
  BY <1>1, <1>2, CreatedIsKept
<1>4. PICK w : Write(p, w) /\ DOMAIN w = {RowKey(r), LastKey(d)} /\ w[RowKey(r)] = "running"
  BY <1>1, <1>2, CreateWrites
<1>5. \A q \in Run : RowKey(q) \in DOMAIN w => w[RowKey(q)] # "completed"
  BY <1>4, KeyFacts
<1>6. /\ pc[p] = "idle" /\ UNCHANGED db /\ pc' = [pc EXCEPT ![p] = "commit"]
      /\ job' = [job EXCEPT ![p] = job[p]]
  BY DEF Submit, Goto, IInv, ServiceTyped
<1> QED  BY <1>3, <1>4, <1>5, <1>6, IdleTriggers

LEMMA TriggersWhilePolling ==
    ASSUME IInv, TriggerInv, NEW p \in Client,
           \/ \E r \in Run : PollLoad(p, r) \/ CancelAsk(p, r)
           \/ PollAsk(p) \/ PollFailed(p)
    PROVE  TriggerInv'
<1>1. UNCHANGED <<runOf, db, tx>> /\ pc[p] \notin {"trigger", "commit"}
  BY DEF PollLoad, CancelAsk, PollAsk, PollFailed
<1>2. \E c, j : pc' = [pc EXCEPT ![p] = c] /\ job' = [job EXCEPT ![p] = j]
  BY DEF PollLoad, CancelAsk, PollAsk, PollFailed, Goto, End
<1> QED  BY <1>1, <1>2, QuietRuns, IdleTriggers

LEMMA TriggersAtOutcome ==
    ASSUME IInv, TriggerInv, NEW p \in Client, PollOther(p) \/ CancelWrite(p)
    PROVE  TriggerInv'
<1>1. UNCHANGED <<runOf, db>> /\ pc[p] \notin {"trigger", "commit"}
  BY DEF PollOther, CancelWrite
<1>2. pc' = [pc EXCEPT ![p] = "commit"] /\ job' = [job EXCEPT ![p] = job[p]]
  BY DEF PollOther, CancelWrite, Goto, IInv, ServiceTyped
<1>3. \E w : Write(p, w) /\ \A r \in Run : RowKey(r) \in DOMAIN w => w[RowKey(r)] # "completed"
  <2>1. CASE PollOther(p)
    <3>1. PICK w : w = [k \in {RowKey(job[p].run)} |-> job[p].seen]
      OBVIOUS
    <3>2. Write(p, w) /\ job[p].seen # "completed"
      BY <2>1, <3>1 DEF PollOther
    <3> QED  BY <3>1, <3>2
  <2>2. CASE CancelWrite(p)
    <3>1. PICK r : r = job[p].run
      OBVIOUS
    <3>2. PICK w : w = [k \in {RowKey(r), LastKey(runOf[r])} |-> IF k = RowKey(r) THEN "cancelled" ELSE CancelMark]
      OBVIOUS
    <3>3. Write(p, w)
      BY <2>2, <3>1, <3>2 DEF CancelWrite
    <3>4. \A k \in DOMAIN w : w[k] # "completed"
      BY <3>2 DEF CancelMark, MarkError
    <3> QED  BY <3>3, <3>4
  <2> QED  BY <2>1, <2>2
<1> QED  BY <1>1, <1>2, <1>3, QuietRuns, IdleTriggers

LEMMA TriggersWhenDropped ==
    ASSUME IInv, TriggerInv, Restart \/ \E p \in Client : RequestDies(p)
    PROVE  TriggerInv'
<1>1. UNCHANGED <<runOf, db>>
  BY DEF Restart, RequestDies
<1>2. ASSUME NEW q \in Client
      PROVE  tx'[q] = NoWrites \/ (tx'[q] = tx[q] /\ pc'[q] = pc[q] /\ job'[q] = job[q])
  BY DEF Restart, RequestDies, End, Goto, IInv, ServiceTyped
<1> QED  BY <1>1, <1>2, QuietRuns, TriggerFrame DEF TriggerInv

LEMMA TriggerStep ==
    ASSUME IInv, TriggerInv, [Next]_vars
    PROVE  TriggerInv'
<1>1. CASE UNCHANGED vars \/ BackendStep
  <2>1. UNCHANGED <<runOf, db, tx, pc, job>>
    BY <1>1 DEF vars, service, BackendStep
  <2> QED  BY <2>1, QuietRuns, TriggerFrame DEF TriggerInv
<1>2. CASE Restart
  BY <1>2, TriggersWhenDropped
<1>3. ASSUME NEW p \in Client, NEW d \in Dataset, NEW force \in BOOLEAN, Submit(p, d, force)
      PROVE  TriggerInv'
  BY <1>3, TriggersAtSubmit
<1>4. ASSUME NEW p \in Client, NEW r \in Run, PollLoad(p, r) \/ CancelAsk(p, r)
      PROVE  TriggerInv'
  BY <1>4, TriggersWhilePolling
<1>5. ASSUME NEW p \in Client, TriggerNext(p)
      PROVE  TriggerInv'
  BY <1>5, TriggersOneMore DEF TriggerNext
<1>6. ASSUME NEW p \in Client, TriggerRefused(p)
      PROVE  TriggerInv'
  BY <1>6, TriggersOneMore DEF TriggerRefused, BeforeSubmission
<1>7. ASSUME NEW p \in Client, RequestDies(p)
      PROVE  TriggerInv'
  BY <1>7, TriggersWhenDropped
<1>8. ASSUME NEW p \in Client, Serve(p)
      PROVE  TriggerInv'
  BY <1>5, <1>8, TriggersWhilePolling, TriggersAtOutcome, TriggersOnCompletion, TriggersAtPropagation,
     TriggersAtCommit DEF Serve
<1> QED  BY <1>1, <1>2, <1>3, <1>4, <1>6, <1>7, <1>8 DEF Next

LEMMA TriggerStart == Init => TriggerInv
<1> SUFFICES ASSUME Init  PROVE TriggerInv
  OBVIOUS
<1>1. \A r \in Run : db[RowKey(r)] = "none"
  BY KeyFacts DEF Init, RowKey
<1>2. \A p \in Client : tx[p] = NoWrites
  BY DEF Init
<1>3. \A p \in Client, r \in Run : ~Completes(p, r)
  BY <1>2 DEF Completes, NoWrites
<1> QED  BY <1>1, <1>3 DEF TriggerInv, TriggeredOK, TriggerOK

(* Where an auto-triggered dataset has no second upstream, a completion    *)
(* of its upstream is followed by a run of it, whatever requests overlap   *)
(* or die.  With a second upstream the code triggers nothing: the stored   *)
(* statuses of the others stay as they were initialised.                   *)
OneUpstream == \A x \in AutoTrigger : \A u, v \in Upstream[x] : u = v

THEOREM TriggerTheorem == OneUpstream /\ Spec => []CompletionsTrigger
<1> SUFFICES ASSUME OneUpstream  PROVE Spec => []CompletionsTrigger
  OBVIOUS
<1>1. ASSUME TriggerInv PROVE CompletionsTrigger
  <2> SUFFICES ASSUME NEW x \in AutoTrigger, Upstream[x] # {},
                      \A u \in Upstream[x] : \E r \in Run : runOf[r] = u /\ db[RowKey(r)] = "completed"
               PROVE  HasRun(x)
    BY DEF CompletionsTrigger, HasRun
  <2>1. PICK u \in Upstream[x] : TRUE
    OBVIOUS
  <2>2. PICK r \in Run : runOf[r] = u /\ db[RowKey(r)] = "completed"
    BY <2>1
  <2>3. x \in Dataset /\ Upstream[x] = {u}
    BY <2>1, LineageAssumption DEF OneUpstream
  <2>4. x \in Downstream(u)
    BY <2>3 DEF Downstream
  <2>5. [StoredUpstreamStatus(x) EXCEPT ![u] = "ready"][u] = "ready"
    BY <2>3 DEF StoredUpstreamStatus
  <2>6. x \in ToTrigger(u)
    BY <2>3, <2>4, <2>5 DEF ToTrigger, Triggers, ReadyAfter
  <2> QED  BY <1>1, <2>2, <2>6 DEF TriggerInv, TriggeredOK
<1> QED  BY <1>1, Initially, StepKeeps, TriggerStart, TriggerStep, PTL DEF Spec

-----------------------------------------------------------------------------
(* What rows and marks are worth.  A transaction is sound if its rows are  *)
(* of runs that an orchestrator was given, end only where requests share   *)
(* an orchestrator, and come with the mark of a completion; and if what it *)
(* marks was done by a run of the dataset.                                 *)
MarkedIn(w, mark, r) ==
    \/ mark = "running" /\ RowKey(r) \in DOMAIN w /\ w[RowKey(r)] # "completed"
    \/ mark = "success" /\ RowKey(r) \in DOMAIN w /\ w[RowKey(r)] = "completed"
    \/ mark = "error" /\ accepted[r]

RowsSound(w) ==
    \A r \in Run : RowKey(r) \in DOMAIN w =>
        /\ w[RowKey(r)] # "queued" => HasBackendRun(r)
        /\ w[RowKey(r)] \in Terminal => setting.shared
        /\ w[RowKey(r)] = "completed" => LastKey(runOf[r]) \in DOMAIN w

MarksSound(w) ==
    \A d \in Dataset : LastKey(d) \in DOMAIN w =>
        \E r \in Run : runOf[r] = d /\ MarkedIn(w, w[LastKey(d)], r)

Sound(w) == RowsSound(w) /\ MarksSound(w)

(* A request that has not written yet works on a run that an orchestrator  *)
(* was given, and only a shared one tells it that a run has ended.         *)
WorkSound(p) ==
    /\ pc[p] \in {"idle", "loaded", "answered", "cancelling"} => DOMAIN tx[p] = {}
    /\ pc[p] \in {"loaded", "answered", "cancelling"} => HasBackendRun(job[p].run)
    /\ pc[p] = "answered" /\ job[p].seen \in Terminal => setting.shared
    /\ pc[p] = "cancelling" => setting.shared

MarksInv ==
    /\ MarksHaveRuns
    /\ handled \in [Run -> Nat]
    /\ \A p \in Client : Sound(tx[p]) /\ WorkSound(p)

(* What a step may do to the facts that rows and marks rest on.            *)
Grows ==
    /\ RunsKept
    /\ \A r \in Run : HasBackendRun(r) => HasBackendRun(r)'
    /\ \A r \in Run : accepted[r] => accepted'[r]
    /\ UNCHANGED setting

LEMMA GivenIsKept ==
    ASSUME IInv, [Backend!Next]_orchestrator
    PROVE  \A r \in Run : /\ HasBackendRun(r) => HasBackendRun(r)'
                          /\ accepted[r] => accepted'[r]
<1> USE DEF HasBackendRun, IInv, BackendOK, Backend!TypeOK, orchestrator
<1>1. CASE UNCHANGED orchestrator
  BY <1>1
<1>2. ASSUME NEW q \in Run,
             Backend!Submit(q) \/ Backend!Begin(q) \/ Backend!Succeed(q) \/ Backend!Fail(q) \/ Backend!Cancel(q)
      PROVE  \A r \in Run : /\ HasBackendRun(r) => HasBackendRun(r)'
                            /\ accepted[r] => accepted'[r]
  BY <1>2 DEF Backend!Submit, Backend!Begin, Backend!Succeed, Backend!Fail, Backend!Cancel
<1>3. CASE Backend!Lose
  BY <1>3 DEF Backend!Lose
<1> QED  BY <1>1, <1>2, <1>3 DEF Backend!Next

LEMMA SubmittedIsGiven ==
    ASSUME IInv, NEW r \in Run, Backend!Submit(r)
    PROVE  HasBackendRun(r)'
BY DEF HasBackendRun, IInv, BackendOK, Backend!TypeOK, Backend!Submit

(* What is sound stays sound.                                              *)
LEMMA SoundStays ==
    ASSUME Grows, NEW u, Sound(u), \A r \in Run : RowKey(r) \in DOMAIN u => runOf[r] \in Dataset
    PROVE  Sound(u)'
<1>1. RowsSound(u)'
  <2>1. RowsSound(u)
    BY DEF Sound
  <2>2. ASSUME NEW r \in Run, RowKey(r) \in DOMAIN u
        PROVE  /\ u[RowKey(r)] # "queued" => HasBackendRun(r)'
               /\ u[RowKey(r)] \in Terminal => setting'.shared
               /\ u[RowKey(r)] = "completed" => LastKey(runOf'[r]) \in DOMAIN u
    <3>1. runOf'[r] = runOf[r] /\ UNCHANGED setting
      BY <2>2 DEF Grows, RunsKept
    <3> QED  BY <2>1, <2>2, <3>1 DEF RowsSound, Grows
  <2> QED  BY <2>2 DEF RowsSound, RowKey, LastKey, Terminal
<1>2. MarksSound(u)'
  <2>1. MarksSound(u)
    BY DEF Sound
  <2>2. ASSUME NEW d \in Dataset, LastKey(d) \in DOMAIN u
        PROVE  \E r \in Run : runOf'[r] = d /\ MarkedIn(u, u[LastKey(d)], r)'
    <3>1. PICK r \in Run : runOf[r] = d /\ MarkedIn(u, u[LastKey(d)], r)
      BY <2>1, <2>2 DEF MarksSound
    <3>2. runOf'[r] = d /\ (accepted[r] => accepted'[r])
      BY <3>1 DEF Grows, RunsKept
    <3>3. MarkedIn(u, u[LastKey(d)], r)'
      BY <3>1, <3>2 DEF MarkedIn, RowKey, LastKey
    <3> QED  BY <3>2, <3>3
  <2> QED  BY <2>2 DEF MarksSound, LastKey
<1> QED  BY <1>1, <1>2 DEF Sound

(* A sound transaction that writes something sound, and no row twice,      *)
(* stays sound.                                                            *)
LEMMA JoinIsSound ==
    ASSUME NEW u, NEW w, NEW v, Sound(u)', Sound(w)',
           \A r \in Run : RowKey(r) \in DOMAIN w => RowKey(r) \notin DOMAIN u,
           DOMAIN v = DOMAIN u \cup DOMAIN w,
           \A k \in DOMAIN v : v[k] = IF k \in DOMAIN w THEN w[k] ELSE u[k]
    PROVE  Sound(v)'
<1> DEFINE Row(r) == RowKey(r)
           Last(d) == LastKey(d)
<1>1. \A r \in Run :
         /\ Row(r) \in DOMAIN w => Row(r) \in DOMAIN v /\ v[Row(r)] = w[Row(r)]
         /\ Row(r) \in DOMAIN u => Row(r) \in DOMAIN v /\ v[Row(r)] = u[Row(r)]
         /\ Row(r) \in DOMAIN v => Row(r) \in DOMAIN u \/ Row(r) \in DOMAIN w
  OBVIOUS
<1>2. RowsSound(v)'
  <2>1. \A x : RowsSound(x)' <=>
           \A r \in Run : Row(r) \in DOMAIN x =>
              /\ x[Row(r)] # "queued" => HasBackendRun(r)'
              /\ x[Row(r)] \in Terminal => setting'.shared
              /\ x[Row(r)] = "completed" => Last(runOf'[r]) \in DOMAIN x
    BY DEF RowsSound, RowKey, LastKey, Terminal
  <2>2. RowsSound(u)' /\ RowsSound(w)'
    BY DEF Sound
  <2> HIDE DEF Row, Last
  <2> QED  BY <1>1, <2>1, <2>2
<1>3. ASSUME NEW d \in Dataset, Last(d) \in DOMAIN v
      PROVE  \E r \in Run : runOf'[r] = d /\ MarkedIn(v, v[Last(d)], r)'
  <2>1. \A x : MarksSound(x)' <=>
           \A e \in Dataset : Last(e) \in DOMAIN x =>
              \E r \in Run : runOf'[r] = e /\ MarkedIn(x, x[Last(e)], r)'
    BY DEF MarksSound, MarkedIn, LastKey, RowKey
  <2>2. MarksSound(u)' /\ MarksSound(w)'
    BY DEF Sound
  <2>3. \A x, m : \A r \in Run : MarkedIn(x, m, r)' <=>
           \/ m = "running" /\ Row(r) \in DOMAIN x /\ x[Row(r)] # "completed"
           \/ m = "success" /\ Row(r) \in DOMAIN x /\ x[Row(r)] = "completed"
           \/ m = "error" /\ accepted'[r]
    BY DEF MarkedIn, RowKey
  <2> HIDE DEF Row, Last
  <2>4. CASE Last(d) \in DOMAIN w
    <3>1. PICK r \in Run : runOf'[r] = d /\ MarkedIn(w, w[Last(d)], r)'
      BY <2>1, <2>2, <2>4
    <3>2. v[Last(d)] = w[Last(d)]
      BY <1>3, <2>4
    <3>3. MarkedIn(v, v[Last(d)], r)'
      BY <1>1, <2>3, <3>1, <3>2
    <3> QED  BY <3>1, <3>3
  <2>5. CASE Last(d) \notin DOMAIN w
    <3>1. Last(d) \in DOMAIN u /\ v[Last(d)] = u[Last(d)]
      BY <1>3, <2>5
    <3>2. PICK r \in Run : runOf'[r] = d /\ MarkedIn(u, u[Last(d)], r)'
      BY <2>1, <2>2, <3>1
    <3>3. MarkedIn(v, v[Last(d)], r)'
      BY <1>1, <2>3, <3>1, <3>2
    <3> QED  BY <3>2, <3>3
  <2> QED  BY <2>4, <2>5
<1>4. MarksSound(v)'
  BY <1>3 DEF MarksSound, LastKey
<1> QED  BY <1>2, <1>4 DEF Sound

(* What a step leaves alone keeps its worth.                               *)
LEMMA MarksFrame ==
    ASSUME IInv, MarksInv, Grows
    PROVE  /\ UNCHANGED <<db, handled>> => MarksHaveRuns'
           /\ \A q \in Client : tx'[q] = tx[q] => Sound(tx[q])'
           /\ \A q \in Client : tx'[q] = tx[q] /\ pc'[q] = pc[q] /\ job'[q] = job[q] => WorkSound(q)'
           /\ \A q \in Client : tx'[q] = NoWrites => Sound(tx[q])'
           /\ \A q \in Client : tx'[q] = NoWrites /\ pc'[q] = "idle" => WorkSound(q)'
<1>1. ASSUME UNCHANGED <<db, handled>>  PROVE MarksHaveRuns'
  <2>1. MarksHaveRuns
    BY DEF MarksInv
  <2>2. \A r \in Run : /\ db'[RowKey(r)] \notin {"none", "queued"} => HasBackendRun(r)'
                       /\ db'[RowKey(r)] \in Terminal => setting'.shared
    BY <1>1, <2>1 DEF MarksHaveRuns, Grows
  <2>3. ASSUME NEW d \in Dataset, db[LastKey(d)] # "none"
        PROVE  \E r \in Run : runOf'[r] = d /\ MarkedBy(db[LastKey(d)], r)'
    <3>1. PICK r \in Run : runOf[r] = d /\ MarkedBy(db[LastKey(d)], r)
      BY <2>1, <2>3 DEF MarksHaveRuns
    <3>2. runOf'[r] = d /\ (accepted[r] => accepted'[r])
      BY <3>1 DEF Grows, RunsKept
    <3>3. MarkedBy(db[LastKey(d)], r)'
      BY <1>1, <3>1, <3>2 DEF MarkedBy, RowKey, LastKey
    <3> QED  BY <3>2, <3>3
  <2> QED  BY <1>1, <2>2, <2>3 DEF MarksHaveRuns, RowKey, LastKey, Terminal
<1>2. ASSUME NEW q \in Client, tx'[q] = tx[q]  PROVE Sound(tx[q])'
  <2>1. PICK u : u = tx[q]
    OBVIOUS
  <2>2. Sound(u) /\ \A r \in Run : RowKey(r) \in DOMAIN u => runOf[r] \in Dataset
    BY <2>1 DEF MarksInv, IInv, TxOK
  <2>3. Sound(u)'
    BY <2>2, SoundStays
  <2> QED  BY <1>2, <2>1, <2>3
<1>3. ASSUME NEW q \in Client, tx'[q] = tx[q], pc'[q] = pc[q], job'[q] = job[q]  PROVE WorkSound(q)'
  <2>1. WorkSound(q)
    BY DEF MarksInv
  <2>2. pc[q] \in {"loaded", "answered", "cancelling"} => job[q].run \in Run
    BY DEF IInv, JobOK, Working
  <2>3. pc[q] \in {"loaded", "answered", "cancelling"} => HasBackendRun(job[q].run)'
    BY <1>3, <2>1, <2>2 DEF WorkSound, Grows, HasBackendRun
  <2> QED  BY <1>3, <2>1, <2>3 DEF WorkSound, Grows, HasBackendRun, Terminal
<1>4. ASSUME NEW q \in Client, tx'[q] = NoWrites  PROVE Sound(tx[q])'
  <2>1. PICK u : u = tx'[q]
    OBVIOUS
  <2>2. DOMAIN u = {}
    BY <1>4, <2>1 DEF NoWrites
  <2>3. Sound(u)'
    BY <2>2 DEF Sound, RowsSound, MarksSound
  <2> QED  BY <2>1, <2>3
<1>5. ASSUME NEW q \in Client, tx'[q] = NoWrites, pc'[q] = "idle"  PROVE WorkSound(q)'
  BY <1>5 DEF WorkSound, NoWrites
<1> QED  BY <1>1, <1>2, <1>3, <1>4, <1>5

(* A step of p that writes nothing.                                        *)
LEMMA MarksAtMove ==
    ASSUME IInv, MarksInv, Grows, UNCHANGED <<db, handled, tx>>,
           NEW p \in Client, NEW c, NEW j, pc' = [pc EXCEPT ![p] = c], job' = [job EXCEPT ![p] = j],
           WorkSound(p)'
    PROVE  MarksInv'
<1>1. \A q \in Client \ {p} : pc'[q] = pc[q] /\ job'[q] = job[q]
  BY OthersStand
<1>2. \A q \in Client : Sound(tx[q])' /\ WorkSound(q)'
  BY <1>1, MarksFrame
<1>3. MarksHaveRuns' /\ handled' \in [Run -> Nat]
  BY MarksFrame DEF MarksInv
<1> QED  BY <1>2, <1>3 DEF MarksInv

(* A step of p that writes w, on its way to the commit.                    *)
LEMMA MarksAtWrite ==
    ASSUME IInv, MarksInv, Grows, UNCHANGED <<db, handled>>,
           NEW p \in Client, NEW c \in {"trigger", "commit"}, NEW j,
           pc' = [pc EXCEPT ![p] = c], job' = [job EXCEPT ![p] = j],
           NEW w, Write(p, w), Sound(w)',
           \A r \in Run : RowKey(r) \in DOMAIN w => RowKey(r) \notin DOMAIN tx[p]
    PROVE  MarksInv'
<1>1. /\ pc'[p] = c
      /\ \A q \in Client \ {p} : pc'[q] = pc[q] /\ job'[q] = job[q]
  BY OthersStand
<1>2. PICK u, v : u = tx[p] /\ v = tx'[p]
  OBVIOUS
<1>3. /\ \A q \in Client \ {p} : tx'[q] = tx[q]
      /\ DOMAIN v = DOMAIN u \cup DOMAIN w
      /\ \A k \in DOMAIN v : v[k] = IF k \in DOMAIN w THEN w[k] ELSE u[k]
  BY <1>2, CompletesAfter
<1>4. Sound(u) /\ \A r \in Run : RowKey(r) \in DOMAIN u => runOf[r] \in Dataset
  BY <1>2 DEF MarksInv, IInv, TxOK
<1>5. Sound(u)'
  BY <1>4, SoundStays
<1>6. \A r \in Run : RowKey(r) \in DOMAIN w => RowKey(r) \notin DOMAIN u
  BY <1>2
<1>7. Sound(v)'
  BY <1>3, <1>5, <1>6, JoinIsSound
<1>8. Sound(tx[p])'
  BY <1>2, <1>7
<1>9. WorkSound(p)'
  BY <1>1 DEF WorkSound
<1>10. \A q \in Client \ {p} : Sound(tx[q])' /\ WorkSound(q)'
  BY <1>1, <1>3, MarksFrame
<1>11. MarksHaveRuns' /\ handled' \in [Run -> Nat]
  BY MarksFrame DEF MarksInv
<1> QED  BY <1>8, <1>9, <1>10, <1>11 DEF MarksInv

(* Each step of a client.                                                  *)
LEMMA MarksAtCreation ==
    ASSUME IInv, MarksInv, Grows, UNCHANGED <<db, handled>>,
           NEW p \in Client, NEW r \in Run, NEW d \in Dataset, NEW s \in {"queued", "running"},
           runOf[r] = NoDataset, runOf'[r] = d, NEW w, Write(p, w),
           DOMAIN w = {RowKey(r), LastKey(d)}, w[RowKey(r)] = s, w[LastKey(d)] = "running",
           s # "queued" => HasBackendRun(r)',
           NEW c \in {"trigger", "commit"}, NEW j,
           pc' = [pc EXCEPT ![p] = c], job' = [job EXCEPT ![p] = j]
    PROVE  MarksInv'
<1>1. DOMAIN w = {RowKey(r), LastKey(d)} /\ w[RowKey(r)] = s /\ w[LastKey(d)] = "running"
  OBVIOUS
<1>2. \A q \in Run : RowKey(q) \in DOMAIN w => q = r
  BY <1>1, KeyFacts
<1>3. RowsSound(w)'
  BY <1>1, <1>2 DEF RowsSound, RowKey, Terminal
<1>4. \A e \in Dataset : LastKey(e) \in DOMAIN w => e = d
  BY <1>1, KeyFacts DEF LastKey
<1>5. MarkedIn(w, "running", r)'
  BY <1>1 DEF MarkedIn, RowKey
<1>6. MarksSound(w)'
  BY <1>1, <1>4, <1>5 DEF MarksSound, LastKey
<1>7. \A q \in Run : RowKey(q) \in DOMAIN w => RowKey(q) \notin DOMAIN tx[p]
  BY <1>2, LineageAssumption DEF IInv, TxOK
<1>8. Sound(w)'
  BY <1>3, <1>6 DEF Sound
<1> QED  BY <1>1, <1>7, <1>8, MarksAtWrite

LEMMA MarksAtSubmit ==
    ASSUME IInv, MarksInv, UNCHANGED setting,
           NEW p \in Client, NEW d \in Dataset, NEW force \in BOOLEAN, Submit(p, d, force)
    PROVE  MarksInv'
<1>1. PICK r \in UserRun : IsNext(r, UserRun) /\ CreateRun(p, r, d, "running") /\ Backend!Submit(r)
  BY DEF Submit
<1>2. r \in Run /\ runOf[r] = NoDataset
  BY <1>1 DEF IsNext, Unused, Run
<1>3. RunsKept /\ runOf'[r] = d
  BY <1>1, <1>2, CreatedIsKept
<1>4. [Backend!Next]_orchestrator /\ HasBackendRun(r)'
  BY <1>1, <1>2, SubmittedIsGiven DEF Backend!Next
<1>5. Grows
  BY <1>3, <1>4, GivenIsKept DEF Grows
<1>6. /\ UNCHANGED <<db, handled>> /\ pc' = [pc EXCEPT ![p] = "commit"]
      /\ job' = [job EXCEPT ![p] = job[p]]
  BY DEF Submit, Goto, IInv, ServiceTyped
<1>7. PICK w : /\ Write(p, w) /\ DOMAIN w = {RowKey(r), LastKey(d)}
               /\ w[RowKey(r)] = "running" /\ w[LastKey(d)] = "running"
  BY <1>1, <1>2, CreateWrites
<1> QED  BY <1>2, <1>3, <1>4, <1>5, <1>6, <1>7, MarksAtCreation

LEMMA MarksAtTrigger ==
    ASSUME IInv, MarksInv, UNCHANGED setting,
           NEW p \in Client, NEW x \in job[p].trigger, NEW r \in AutoRun,
           NEW s \in {"queued", "running"}, Trigger(p, x, r, s),
           [Backend!Next]_orchestrator, s # "queued" => Backend!Submit(r)
    PROVE  MarksInv'
<1>1. x \in Dataset
  BY DEF IInv, ServiceTyped
<1>2. r \in Run /\ runOf[r] = NoDataset /\ CreateRun(p, r, x, s)
  BY DEF Trigger, IsNext, Unused, Run
<1>3. RunsKept /\ runOf'[r] = x
  BY <1>1, <1>2, CreatedIsKept
<1>4. s # "queued" => HasBackendRun(r)'
  BY <1>2, SubmittedIsGiven
<1>5. Grows
  BY <1>3, GivenIsKept DEF Grows
<1>6. PICK j : j = [job[p] EXCEPT !.trigger = @ \ {x}]
  OBVIOUS
<1>7. /\ UNCHANGED <<db, handled>> /\ pc' = [pc EXCEPT ![p] = "trigger"]
      /\ job' = [job EXCEPT ![p] = j]
  BY <1>6 DEF Trigger, IInv, ServiceTyped
<1>8. PICK w : /\ Write(p, w) /\ DOMAIN w = {RowKey(r), LastKey(x)}
               /\ w[RowKey(r)] = s /\ w[LastKey(x)] = "running"
  BY <1>1, <1>2, CreateWrites
<1> QED  BY <1>1, <1>2, <1>3, <1>4, <1>5, <1>7, <1>8, MarksAtCreation

LEMMA MarksWhilePolling ==
    ASSUME IInv, MarksInv, UNCHANGED setting, NEW p \in Client,
           \/ \E r \in Run : PollLoad(p, r) \/ CancelAsk(p, r)
           \/ PollAsk(p) \/ PollFailed(p)
    PROVE  MarksInv'
<1>1. UNCHANGED <<runOf, db, tx, handled>>
  BY DEF PollLoad, CancelAsk, PollAsk, PollFailed
<1>2. [Backend!Next]_orchestrator
  BY DEF PollLoad, CancelAsk, CancelSucceeds, PollAsk, PollFailed, Backend!Next
<1>3. Grows
  BY <1>1, <1>2, GivenIsKept DEF Grows, RunsKept
<1>4. DOMAIN tx[p] = {}
  BY DEF MarksInv, WorkSound, PollLoad, CancelAsk, PollAsk, PollFailed
<1>5. WorkSound(p) /\ pc \in [Client -> Places] /\ job \in [Client -> Jobs]
  BY DEF MarksInv, IInv, ServiceTyped, Places, Jobs
<1>6. ASSUME NEW r \in Run, PollLoad(p, r)
      PROVE  \E c, j : pc' = [pc EXCEPT ![p] = c] /\ job' = [job EXCEPT ![p] = j] /\ WorkSound(p)'
  <2>1. PICK j : j = [NoJob EXCEPT !.run = r, !.seen = db[RowKey(r)]]
    OBVIOUS
  <2>2. pc' = [pc EXCEPT ![p] = "loaded"] /\ job' = [job EXCEPT ![p] = j] /\ HasBackendRun(r)
    BY <1>6, <2>1 DEF PollLoad, Goto
  <2>3. pc'[p] = "loaded" /\ job'[p].run = r
    BY <1>5, <2>1, <2>2 DEF NoJob
  <2>4. HasBackendRun(job[p].run)'
    BY <2>2, <2>3, <1>3 DEF Grows, HasBackendRun
  <2>5. WorkSound(p)'
    BY <1>1, <1>4, <2>3, <2>4 DEF WorkSound
  <2> QED  BY <2>2, <2>5
<1>7. ASSUME NEW r \in Run, CancelAsk(p, r)
      PROVE  \E c, j : pc' = [pc EXCEPT ![p] = c] /\ job' = [job EXCEPT ![p] = j] /\ WorkSound(p)'
  <2>1. PICK j : j = [NoJob EXCEPT !.run = r]
    OBVIOUS
  <2>2. pc' = [pc EXCEPT ![p] = "cancelling"] /\ job' = [job EXCEPT ![p] = j] /\ Agrees(r)
    BY <1>7, <2>1 DEF CancelAsk, CancelSucceeds, Goto
  <2>3. pc'[p] = "cancelling" /\ job'[p].run = r
    BY <1>5, <2>1, <2>2 DEF NoJob
  <2>4. setting.shared /\ HasBackendRun(r)
    BY <2>2 DEF Agrees, Answer, HasBackendRun
  <2>5. HasBackendRun(job[p].run)'
    BY <2>3, <2>4, <1>3 DEF Grows, HasBackendRun
  <2>6. WorkSound(p)'
    BY <1>1, <1>4, <2>3, <2>4, <2>5 DEF WorkSound
  <2> QED  BY <2>2, <2>6
<1>8. ASSUME PollAsk(p)
      PROVE  \E c, j : pc' = [pc EXCEPT ![p] = c] /\ job' = [job EXCEPT ![p] = j] /\ WorkSound(p)'
  <2>1. PICK s : s = Answer(job[p].run)
    OBVIOUS
  <2>2. job[p].run \in Run /\ HasBackendRun(job[p].run) /\ (s \in Terminal => setting.shared)
    BY <1>5, <1>8, <2>1 DEF PollAsk, WorkSound, Answer, Terminal, IInv, JobOK, Working
  <2>3. CASE s = job[p].seen
    <3>1. pc' = [pc EXCEPT ![p] = "idle"] /\ job' = [job EXCEPT ![p] = NoJob]
      BY <1>8, <2>1, <2>3 DEF PollAsk, End, Goto
    <3>2. WorkSound(p)'
      BY <1>1, <1>4, <1>5, <3>1 DEF WorkSound
    <3> QED  BY <3>1, <3>2
  <2>4. CASE s # job[p].seen
    <3>1. PICK j : j = [job[p] EXCEPT !.seen = s]
      OBVIOUS
    <3>2. pc' = [pc EXCEPT ![p] = "answered"] /\ job' = [job EXCEPT ![p] = j]
      BY <1>8, <2>1, <2>4, <3>1 DEF PollAsk, Goto
    <3>3. pc'[p] = "answered" /\ job'[p].run = job[p].run /\ job'[p].seen = s
      BY <1>5, <3>1, <3>2 DEF Jobs
    <3>4. HasBackendRun(job[p].run)'
      BY <1>3, <2>2, <3>3 DEF Grows, HasBackendRun
    <3>5. WorkSound(p)'
      BY <1>1, <1>4, <2>2, <3>3, <3>4 DEF WorkSound, Terminal
    <3> QED  BY <3>2, <3>5
  <2> QED  BY <2>3, <2>4
<1>9. ASSUME PollFailed(p)
      PROVE  \E c, j : pc' = [pc EXCEPT ![p] = c] /\ job' = [job EXCEPT ![p] = j] /\ WorkSound(p)'
  <2>1. pc' = [pc EXCEPT ![p] = "idle"] /\ job' = [job EXCEPT ![p] = NoJob]
    BY <1>9 DEF PollFailed, End, Goto
  <2>2. WorkSound(p)'
    BY <1>1, <1>4, <1>5, <2>1 DEF WorkSound
  <2> QED  BY <2>1, <2>2
<1>10. PICK c, j : pc' = [pc EXCEPT ![p] = c] /\ job' = [job EXCEPT ![p] = j] /\ WorkSound(p)'
  BY <1>6, <1>7, <1>8, <1>9
<1> QED  BY <1>1, <1>3, <1>10, MarksAtMove

LEMMA MarksAtOutcome ==
    ASSUME IInv, MarksInv, UNCHANGED setting, NEW p \in Client, PollOther(p) \/ CancelWrite(p)
    PROVE  MarksInv'
<1>1. /\ UNCHANGED <<orchestrator, runOf, db, handled>>
      /\ pc' = [pc EXCEPT ![p] = "commit"] /\ job' = [job EXCEPT ![p] = job[p]]
  BY DEF PollOther, CancelWrite, Goto, IInv, ServiceTyped, orchestrator
<1>2. Grows
  BY <1>1, GivenIsKept DEF Grows, RunsKept
<1>3. PICK r : r = job[p].run
  OBVIOUS
<1>4. r \in Run /\ runOf[r] \in Dataset /\ HasBackendRun(r) /\ DOMAIN tx[p] = {}
  BY <1>3 DEF PollOther, CancelWrite, IInv, JobOK, Working, MarksInv, WorkSound
<1>5. HasBackendRun(r)'
  BY <1>2, <1>4 DEF Grows
<1>6. CASE PollOther(p)
  <2>1. PICK w : w = [k \in {RowKey(r)} |-> job[p].seen]
    OBVIOUS
  <2>2. /\ Write(p, w) /\ job[p].seen # "completed"
        /\ job[p].seen \in Terminal => setting.shared
    BY <1>3, <1>6, <2>1 DEF PollOther, MarksInv, WorkSound
  <2>3. DOMAIN w = {RowKey(r)} /\ w[RowKey(r)] = job[p].seen
    BY <2>1
  <2>4. \A q \in Run : RowKey(q) \in DOMAIN w => q = r
    BY <2>3, KeyFacts
  <2>5. \A d \in Dataset : LastKey(d) \notin DOMAIN w
    BY <2>3, KeyFacts
  <2>6. RowsSound(w)'
    BY <1>5, <2>2, <2>3, <2>4 DEF RowsSound, RowKey, Terminal
  <2>7. MarksSound(w)'
    BY <2>5 DEF MarksSound, LastKey
  <2>8. Sound(w)'
    BY <2>6, <2>7 DEF Sound
  <2> QED  BY <1>1, <1>2, <1>4, <2>2, <2>8, MarksAtWrite
<1>7. CASE CancelWrite(p)
  <2>1. PICK w : w = [k \in {RowKey(r), LastKey(runOf[r])} |-> IF k = RowKey(r) THEN "cancelled" ELSE CancelMark]
    OBVIOUS
  <2>2. Write(p, w) /\ setting.shared /\ accepted[r]
    BY <1>3, <1>7, <2>1 DEF CancelWrite, MarksInv, WorkSound, IInv, JobOK
  <2>3. /\ DOMAIN w = {RowKey(r), LastKey(runOf[r])}
        /\ w[RowKey(r)] = "cancelled" /\ w[LastKey(runOf[r])] = "error"
    BY <2>1, KeyFacts DEF CancelMark, MarkError
  <2>4. \A q \in Run : RowKey(q) \in DOMAIN w => q = r
    BY <2>3, KeyFacts
  <2>5. \A d \in Dataset : LastKey(d) \in DOMAIN w => d = runOf[r]
    BY <2>3, KeyFacts DEF LastKey
  <2>6. RowsSound(w)'
    BY <1>5, <2>2, <2>3, <2>4 DEF RowsSound, RowKey, Terminal
  <2>7. MarkedIn(w, "error", r)' /\ runOf'[r] = runOf[r]
    BY <1>1, <1>2, <1>4, <2>2 DEF MarkedIn, Grows
  <2>8. MarksSound(w)'
    BY <1>4, <2>3, <2>5, <2>7 DEF MarksSound, LastKey
  <2>9. Sound(w)'
    BY <2>6, <2>8 DEF Sound
  <2> QED  BY <1>1, <1>2, <1>4, <2>2, <2>9, MarksAtWrite
<1> QED  BY <1>6, <1>7

LEMMA MarksOnCompletion ==
    ASSUME IInv, MarksInv, UNCHANGED setting, NEW p \in Client, PollCompleted(p)
    PROVE  MarksInv'
<1>1. PICK r, d : r = job[p].run /\ d = runOf[r]
  OBVIOUS
<1>2. PICK w : w = [k \in {RowKey(r), FreshKey(d), LastKey(d), DatedKey(d)} |->
                       CASE k = RowKey(r) -> "completed"
                         [] k = FreshKey(d) -> "fresh"
                         [] k = LastKey(d) -> "success"
                         [] k = DatedKey(d) -> IF ReportsDates THEN "yes" ELSE "no"]
  OBVIOUS
<1>3. Write(p, w)
  BY <1>1, <1>2 DEF PollCompleted
<1>4. r \in Run /\ d \in Dataset /\ HasBackendRun(r) /\ DOMAIN tx[p] = {} /\ setting.shared
  BY <1>1 DEF PollCompleted, IInv, JobOK, Working, MarksInv, WorkSound, Terminal
<1>5. /\ DOMAIN w = {RowKey(r), FreshKey(d), LastKey(d), DatedKey(d)}
      /\ w[RowKey(r)] = "completed" /\ w[LastKey(d)] = "success"
  BY <1>2, KeyFacts
<1>6. PICK j : j = [job[p] EXCEPT !.trigger = ToTrigger(d)]
  OBVIOUS
<1>7. /\ pc' = [pc EXCEPT ![p] = "trigger"] /\ job' = [job EXCEPT ![p] = j]
      /\ UNCHANGED <<orchestrator, runOf, db, handled>>
  BY <1>1, <1>6 DEF PollCompleted, Goto, orchestrator
<1>8. Grows /\ HasBackendRun(r)'
  BY <1>4, <1>7, GivenIsKept DEF Grows, RunsKept
<1>9. /\ \A q \in Run : RowKey(q) \in DOMAIN w => q = r
      /\ \A e \in Dataset : LastKey(e) \in DOMAIN w => e = d
  BY <1>5, KeyFacts DEF LastKey, FreshKey, DatedKey
<1>10. runOf'[r] = d
  BY <1>1, <1>7
<1>11. RowsSound(w)'
  BY <1>4, <1>5, <1>8, <1>9, <1>10 DEF RowsSound, RowKey, LastKey, Terminal
<1>12. MarkedIn(w, "success", r)'
  BY <1>5 DEF MarkedIn, RowKey
<1>13. MarksSound(w)'
  BY <1>4, <1>5, <1>9, <1>10, <1>12 DEF MarksSound, LastKey
<1>14. Sound(w)'
  BY <1>11, <1>13 DEF Sound
<1> QED  BY <1>3, <1>4, <1>7, <1>8, <1>14, MarksAtWrite

LEMMA MarksAtPropagation ==
    ASSUME IInv, MarksInv, UNCHANGED setting, NEW p \in Client, Propagate(p)
    PROVE  MarksInv'
<1>1. PICK w : Write(p, w) /\ \E S : DOMAIN w = {FreshKey(x) : x \in S}
  <2>1. PICK S : S = {y \in Invalidated(runOf[job[p].run]) : Sees(p, FreshKey(y)) # "stale"}
    OBVIOUS
  <2>2. PICK w : w = [k \in {FreshKey(x) : x \in S} |-> "stale"]
    OBVIOUS
  <2>3. Write(p, w) /\ DOMAIN w = {FreshKey(x) : x \in S}
    BY <2>1, <2>2 DEF Propagate
  <2> QED  BY <2>3
<1>2. /\ \A r \in Run : RowKey(r) \notin DOMAIN w
      /\ \A d \in Dataset : LastKey(d) \notin DOMAIN w
  BY <1>1, KeyFacts
<1>3. Sound(w)'
  BY <1>2 DEF Sound, RowsSound, MarksSound, RowKey, LastKey
<1>4. /\ pc' = [pc EXCEPT ![p] = "commit"] /\ job' = [job EXCEPT ![p] = job[p]]
      /\ UNCHANGED <<orchestrator, runOf, db, handled>>
  BY DEF Propagate, Goto, IInv, ServiceTyped, orchestrator
<1>5. Grows
  BY <1>4, GivenIsKept DEF Grows, RunsKept
<1> QED  BY <1>1, <1>2, <1>3, <1>4, <1>5, MarksAtWrite

(* What a sound transaction commits.                                       *)
LEMMA MarksAtCommit ==
    ASSUME IInv, MarksInv, UNCHANGED setting, NEW p \in Client, Commit(p)
    PROVE  MarksInv'
<1>1. PICK w : /\ w = Committed(tx[p]) /\ (w = tx[p] \/ DOMAIN w = {})
               /\ \A k \in Key : db'[k] = IF k \in DOMAIN w THEN w[k] ELSE db[k]
               /\ tx'[p] = NoWrites /\ \A q \in Client \ {p} : tx'[q] = tx[q]
               /\ pc'[p] = "idle" /\ \A q \in Client \ {p} : pc'[q] = pc[q] /\ job'[q] = job[q]
               /\ UNCHANGED runOf
  BY CommitFacts
<1>2. UNCHANGED orchestrator /\ handled' = [r \in Run |-> handled[r] + (IF r \in CompletedIn(w) THEN 1 ELSE 0)]
  BY <1>1 DEF Commit, orchestrator
<1>3. Grows
  BY <1>1, <1>2, GivenIsKept DEF Grows, RunsKept
<1>4. /\ handled' \in [Run -> Nat]
      /\ \A r \in Run : (handled[r] > 0 => handled'[r] > 0) /\ (r \in CompletedIn(w) => handled'[r] > 0)
  BY <1>2 DEF MarksInv
<1>5. Sound(w) /\ \A r \in Run : RowKey(r) \in DOMAIN w => w[RowKey(r)] # "none"
  <2>1. CASE w = tx[p]
    BY <2>1 DEF MarksInv, IInv, TxOK
  <2>2. CASE DOMAIN w = {}
    BY <2>2 DEF Sound, RowsSound, MarksSound
  <2> QED  BY <1>1, <2>1, <2>2
<1>6. /\ \A r \in Run : db'[RowKey(r)] = IF RowKey(r) \in DOMAIN w THEN w[RowKey(r)] ELSE db[RowKey(r)]
      /\ \A d \in Dataset : db'[LastKey(d)] = IF LastKey(d) \in DOMAIN w THEN w[LastKey(d)] ELSE db[LastKey(d)]
  BY <1>1, KeyFacts
<1>7. \A r \in Run : accepted'[r] = accepted[r] /\ (HasBackendRun(r) => HasBackendRun(r)')
  BY <1>2, <1>3 DEF Grows, orchestrator
<1>8. ASSUME NEW r \in Run
      PROVE  /\ db'[RowKey(r)] \notin {"none", "queued"} => HasBackendRun(r)'
             /\ db'[RowKey(r)] \in Terminal => setting'.shared
  BY <1>5, <1>6, <1>7 DEF Sound, RowsSound, MarksInv, MarksHaveRuns
<1>9. ASSUME NEW d \in Dataset, NEW m, m = db'[LastKey(d)], m # "none"
      PROVE  \E r \in Run : runOf'[r] = d /\ MarkedBy(m, r)'
  <2>1. \A r \in Run : MarkedBy(m, r)' <=>
           \/ m = "running" /\ db'[RowKey(r)] \notin {"none", "completed"}
           \/ m = "success" /\ handled'[r] > 0
           \/ m = "error" /\ accepted'[r]
    BY DEF MarkedBy, RowKey
  <2>2. CASE LastKey(d) \in DOMAIN w
    <3>1. m = w[LastKey(d)]
      BY <1>6, <1>9, <2>2
    <3>2. PICK r \in Run : runOf[r] = d /\ MarkedIn(w, m, r)
      BY <1>5, <2>2, <3>1 DEF Sound, MarksSound
    <3>3. MarkedBy(m, r)'
      BY <1>4, <1>5, <1>6, <1>7, <2>1, <3>2 DEF MarkedIn, CompletedIn
    <3>4. runOf'[r] = d
      BY <1>1, <3>2
    <3> QED  BY <3>3, <3>4
  <2>3. CASE LastKey(d) \notin DOMAIN w
    <3>1. m = db[LastKey(d)] /\ m # "none"
      BY <1>6, <1>9, <2>3
    <3>2. PICK r \in Run : runOf[r] = d /\ MarkedBy(m, r)
      BY <3>1 DEF MarksInv, MarksHaveRuns
    <3>3. RowKey(r) \in DOMAIN w => w[RowKey(r)] # "completed"
      BY <1>5, <2>3, <3>2 DEF Sound, RowsSound
    <3>4. MarkedBy(m, r)'
      BY <1>4, <1>5, <1>6, <1>7, <2>1, <3>2, <3>3 DEF MarkedBy
    <3>5. runOf'[r] = d
      BY <1>1, <3>2
    <3> QED  BY <3>4, <3>5
  <2> QED  BY <2>2, <2>3
<1>10. MarksHaveRuns'
  <2>1. \A d \in Dataset : \A m : m = db'[LastKey(d)] /\ m # "none" =>
           \E r \in Run : runOf'[r] = d /\ MarkedBy(m, r)'
    BY <1>9
  <2> QED  BY <1>8, <2>1 DEF MarksHaveRuns, MarkedBy, RowKey, LastKey, Terminal
<1>11. \A q \in Client : Sound(tx[q])' /\ WorkSound(q)'
  BY <1>1, <1>3, MarksFrame
<1> QED  BY <1>4, <1>10, <1>11 DEF MarksInv

LEMMA MarksWhenDropped ==
    ASSUME IInv, MarksInv, UNCHANGED setting, Restart \/ \E p \in Client : RequestDies(p)
    PROVE  MarksInv'
<1>1. UNCHANGED <<runOf, db, handled>> /\ [Backend!Next]_orchestrator
  BY DEF Restart, RequestDies, Backend!Next
<1>2. Grows
  BY <1>1, GivenIsKept DEF Grows, RunsKept
<1>3. ASSUME NEW q \in Client
      PROVE  \/ tx'[q] = NoWrites /\ pc'[q] = "idle"
             \/ tx'[q] = tx[q] /\ pc'[q] = pc[q] /\ job'[q] = job[q]
  BY DEF Restart, RequestDies, End, Goto, IInv, ServiceTyped
<1>4. \A q \in Client : Sound(tx[q])' /\ WorkSound(q)'
  BY <1>2, <1>3, MarksFrame
<1>5. MarksHaveRuns' /\ handled' \in [Run -> Nat]
  BY <1>1, <1>2, MarksFrame DEF MarksInv
<1> QED  BY <1>4, <1>5 DEF MarksInv

LEMMA MarksStep ==
    ASSUME IInv, MarksInv, [Next]_vars
    PROVE  MarksInv'
<1>1. UNCHANGED setting
  BY DEF Next, vars
<1>2. CASE UNCHANGED vars \/ BackendStep
  <2>1. UNCHANGED <<runOf, db, tx, pc, job, handled>> /\ [Backend!Next]_orchestrator
    BY <1>2 DEF vars, service, BackendStep, orchestrator, Backend!Next
  <2>2. Grows
    BY <1>1, <2>1, GivenIsKept DEF Grows, RunsKept
  <2>3. \A q \in Client : Sound(tx[q])' /\ WorkSound(q)'
    BY <2>1, <2>2, MarksFrame
  <2>4. MarksHaveRuns' /\ handled' \in [Run -> Nat]
    BY <2>1, <2>2, MarksFrame DEF MarksInv
  <2> QED  BY <2>3, <2>4 DEF MarksInv
<1>3. CASE Restart
  BY <1>1, <1>3, MarksWhenDropped
<1>4. ASSUME NEW p \in Client, NEW d \in Dataset, NEW force \in BOOLEAN, Submit(p, d, force)
      PROVE  MarksInv'
  BY <1>1, <1>4, MarksAtSubmit
<1>5. ASSUME NEW p \in Client, NEW r \in Run, PollLoad(p, r) \/ CancelAsk(p, r)
      PROVE  MarksInv'
  BY <1>1, <1>5, MarksWhilePolling
<1>6. ASSUME NEW p \in Client, TriggerNext(p) \/ TriggerRefused(p)
      PROVE  MarksInv'
  <2>1. PICK x \in job[p].trigger, r \in AutoRun, s \in {"queued", "running"} :
           /\ Trigger(p, x, r, s)
           /\ [Backend!Next]_orchestrator /\ (s # "queued" => Backend!Submit(r))
    BY <1>6 DEF TriggerNext, TriggerRefused, BeforeSubmission, Backend!Next, AutoRun, Run
  <2> QED  BY <1>1, <2>1, MarksAtTrigger
<1>7. ASSUME NEW p \in Client, RequestDies(p)
      PROVE  MarksInv'
  BY <1>1, <1>7, MarksWhenDropped
<1>8. ASSUME NEW p \in Client, Serve(p)
      PROVE  MarksInv'
  BY <1>1, <1>6, <1>8, MarksWhilePolling, MarksAtOutcome, MarksOnCompletion, MarksAtPropagation,
     MarksAtCommit DEF Serve
<1> QED  BY <1>2, <1>3, <1>4, <1>5, <1>6, <1>7, <1>8 DEF Next

LEMMA MarksStart == Init => MarksInv
<1> SUFFICES ASSUME Init  PROVE MarksInv
  OBVIOUS
<1>1. /\ \A r \in Run : db[RowKey(r)] = "none"
      /\ \A d \in Dataset : db[LastKey(d)] = "none"
  BY KeyFacts DEF Init, RowKey, LastKey
<1>2. MarksHaveRuns
  BY <1>1 DEF MarksHaveRuns, Terminal
<1>3. \A p \in Client : DOMAIN tx[p] = {} /\ pc[p] = "idle"
  BY DEF Init, NoWrites
<1>4. \A p \in Client : Sound(tx[p]) /\ WorkSound(p)
  BY <1>3 DEF Sound, RowsSound, MarksSound, WorkSound
<1>5. handled \in [Run -> Nat]
  BY DEF Init
<1> QED  BY <1>2, <1>4, <1>5 DEF MarksInv

(* Whoever commits or does not, whatever orchestrator a request has and    *)
(* however requests overlap and die, what rows and marks say was done by a *)
(* run that an orchestrator was given; and where each request has an       *)
(* orchestrator of its own, no run is ever recorded as ended.              *)
THEOREM MarksTheorem == Spec => []MarksHaveRuns
<1>1. MarksInv => MarksHaveRuns
  BY DEF MarksInv
<1> QED  BY <1>1, Initially, StepKeeps, MarksStart, MarksStep, PTL DEF Spec

-----------------------------------------------------------------------------
(* One client.  A dataset is below another exactly if that one is above    *)
(* it: a set that is closed downwards has a complement closed upwards.     *)
LEMMA BelowAndAbove ==
    ASSUME NEW d \in Dataset, NEW x \in Dataset, d \in AllUpstream(x)
    PROVE  x \in AllDownstream(d)
<1> DEFINE Next2 == [y \in Dataset |-> Downstream(y)]
<1>1. SUFFICES ASSUME NEW C \in SUBSET Dataset, Downstream(d) \subseteq C,
                      \A y \in C : Downstream(y) \subseteq C, x \notin C
               PROVE  FALSE
  <2>1. \A C \in SUBSET Dataset : (\A y \in C : Next2[y] \subseteq C) <=> (\A y \in C : Downstream(y) \subseteq C)
    OBVIOUS
  <2> QED  BY <2>1 DEF AllDownstream, Reachable
<1> DEFINE D == {y \in Dataset : y # d /\ y \notin C}
<1>2. ASSUME NEW y \in Dataset, y \notin C, NEW z \in Upstream[y]  PROVE z \in D
  <2>1. z \in Dataset /\ y \in Downstream(z)
    BY <1>2, LineageAssumption DEF Downstream
  <2> QED  BY <1>1, <1>2, <2>1
<1>3. D \in SUBSET Dataset /\ Upstream[x] \subseteq D /\ \A y \in D : Upstream[y] \subseteq D
  BY <1>1, <1>2
<1>4. d \in D
  BY <1>3 DEF AllUpstream, Reachable
<1> QED  BY <1>4

Serial == \A p, q \in Client : p = q

(* A request writes only rows of runs that are not completed; it completes *)
(* at most one, the one it works on; it writes that its dataset is fresh   *)
(* and before it commits that what lies below is stale.                    *)
RowsOpen(p) ==
    /\ \A r \in Run : RowKey(r) \in DOMAIN tx[p] => db[RowKey(r)] # "completed"
    /\ pc[p] \in {"loaded", "answered"} => db[RowKey(job[p].run)] # "completed"
OneCompletion(p) ==
    /\ \A r, q \in Run : Completes(p, r) /\ Completes(p, q) => r = q
    /\ pc[p] = "trigger" => Completes(p, job[p].run)
Refreshes(p) ==
    \A d \in Dataset : FreshKey(d) \in DOMAIN tx[p] /\ tx[p][FreshKey(d)] = "fresh" =>
        \E r \in Run : Completes(p, r) /\ runOf[r] = d
Invalidates(p) ==
    pc[p] = "commit" => \A r \in Run : Completes(p, r) =>
        \A x \in AllDownstream(runOf[r]) : Sees(p, FreshKey(x)) = "stale"
WorkOK(p) == RowsOpen(p) /\ OneCompletion(p) /\ Refreshes(p) /\ Invalidates(p)

CountOK ==
    /\ DOMAIN handled = Run
    /\ \A r \in Run : handled[r] \in {0, 1} /\ (db[RowKey(r)] # "completed" => handled[r] = 0)

SerialInv ==
    /\ IInv /\ TriggerInv
    /\ \A p \in Client : WorkOK(p)
    /\ CountOK /\ FreshIsLatest /\ recent \subseteq Dataset \X Dataset

LEMMA DropsAll ==
    ASSUME NEW p \in Client, tx'[p] = NoWrites, pc'[p] = "idle"
    PROVE  WorkOK(p)'
<1>1. DOMAIN tx'[p] = {}
  BY DEF NoWrites
<1>2. \A r \in Run : ~Completes(p, r)'
  BY <1>1 DEF Completes
<1>3. RowsOpen(p)'
  BY <1>1 DEF RowsOpen
<1>4. OneCompletion(p)'
  BY <1>2 DEF OneCompletion
<1>5. Refreshes(p)'
  BY <1>1 DEF Refreshes
<1>6. Invalidates(p)'
  BY DEF Invalidates
<1> QED  BY <1>3, <1>4, <1>5, <1>6 DEF WorkOK

(* While nothing is committed, the counts and the freshness of the stored  *)
(* datasets stay as they are.                                              *)
LEMMA StoredStays ==
    ASSUME SerialInv, UNCHANGED <<db, recent, handled>>
    PROVE  CountOK' /\ FreshIsLatest' /\ recent' \subseteq Dataset \X Dataset
BY DEF SerialInv, CountOK, FreshIsLatest, RowKey, FreshKey

(* A step of the only client that commits nothing.                         *)
LEMMA OneWorks ==
    ASSUME Serial, SerialInv, IInv', TriggerInv', UNCHANGED <<db, recent, handled>>,
           NEW p \in Client, WorkOK(p)'
    PROVE  SerialInv'
<1>1. \A q \in Client : WorkOK(q)'
  BY DEF Serial
<1> QED  BY <1>1, StoredStays DEF SerialInv

(* Outside of the completion the transaction refreshes nothing.            *)
LEMMA NothingCompleted ==
    ASSUME SerialInv, NEW p \in Client, pc[p] \notin {"trigger", "commit"}
    PROVE  /\ \A r \in Run : ~Completes(p, r)
           /\ \A d \in Dataset : ~(FreshKey(d) \in DOMAIN tx[p] /\ tx[p][FreshKey(d)] = "fresh")
<1>1. \A r \in Run : ~Completes(p, r)
  BY DEF SerialInv, TriggerInv, TriggerOK
<1> QED  BY <1>1 DEF SerialInv, WorkOK, Refreshes

(* A write of p, outside of the completion, that completes and refreshes   *)
(* nothing and touches no completed row.                                   *)
LEMMA PlainWrite ==
    ASSUME SerialInv, NEW p \in Client, pc[p] \notin {"trigger", "commit"}, UNCHANGED db,
           NEW w, Write(p, w),
           \A k \in DOMAIN w : w[k] # "completed" /\ w[k] # "fresh",
           \A r \in Run : RowKey(r) \in DOMAIN w => db[RowKey(r)] # "completed",
           pc'[p] = "commit"
    PROVE  WorkOK(p)'
<1>1. /\ \A r \in Run : Completes(p, r)' <=>
            IF RowKey(r) \in DOMAIN w THEN w[RowKey(r)] = "completed" ELSE Completes(p, r)
      /\ DOMAIN tx'[p] = DOMAIN tx[p] \cup DOMAIN w
      /\ \A k \in DOMAIN tx'[p] : tx'[p][k] = IF k \in DOMAIN w THEN w[k] ELSE tx[p][k]
  BY CompletesAfter DEF SerialInv
<1>2. \A r \in Run : ~Completes(p, r)'
  BY <1>1, NothingCompleted
<1>3. \A d \in Dataset : ~(FreshKey(d) \in DOMAIN tx'[p] /\ tx'[p][FreshKey(d)] = "fresh")
  BY <1>1, NothingCompleted
<1>4. RowsOpen(p)'
  <2>1. RowsOpen(p)
    BY DEF SerialInv, WorkOK
  <2>2. \A r \in Run : RowKey(r) \in DOMAIN tx'[p] => db'[RowKey(r)] # "completed"
    BY <1>1, <2>1 DEF RowsOpen
  <2> QED  BY <2>2 DEF RowsOpen, RowKey
<1>5. OneCompletion(p)'
  BY <1>2 DEF OneCompletion
<1>6. Refreshes(p)'
  BY <1>3 DEF Refreshes, FreshKey
<1>7. Invalidates(p)'
  BY <1>2 DEF Invalidates
<1> QED  BY <1>4, <1>5, <1>6, <1>7 DEF WorkOK

(* A step of p that writes nothing, before any completion.                 *)
LEMMA PlainMove ==
    ASSUME SerialInv, NEW p \in Client, pc[p] \notin {"trigger", "commit"}, UNCHANGED <<db, tx>>,
           pc'[p] \notin {"trigger", "commit"},
           pc'[p] \in {"loaded", "answered"} => db[RowKey(job'[p].run)] # "completed"
    PROVE  WorkOK(p)'
<1>1. \A r \in Run : ~Completes(p, r)'
  BY NothingCompleted DEF Completes, RowKey
<1>2. RowsOpen(p)'
  BY DEF SerialInv, WorkOK, RowsOpen, RowKey
<1>3. OneCompletion(p)'
  BY <1>1 DEF OneCompletion
<1>4. Refreshes(p)'
  BY NothingCompleted DEF Refreshes, FreshKey
<1>5. Invalidates(p)'
  BY DEF Invalidates
<1> QED  BY <1>2, <1>3, <1>4, <1>5 DEF WorkOK

LEMMA WorksAtSubmit ==
    ASSUME SerialInv, NEW p \in Client, NEW d \in Dataset, NEW force \in BOOLEAN, Submit(p, d, force)
    PROVE  WorkOK(p)'
<1>1. PICK r \in UserRun : IsNext(r, UserRun) /\ CreateRun(p, r, d, "running")
  BY DEF Submit
<1>2. r \in Run /\ runOf[r] = NoDataset /\ runOf[r] \notin Dataset
  BY <1>1, LineageAssumption DEF IsNext, Unused, Run
<1>3. PICK w : Write(p, w) /\ DOMAIN w = {RowKey(r), LastKey(d)} /\ w[RowKey(r)] = "running" /\ w[LastKey(d)] = "running"
  <2>1. IInv /\ CreateRun(p, r, d, "running") /\ "running" \in {"queued", "running"}
    BY <1>1 DEF SerialInv
  <2> QED  BY <1>2, <2>1, CreateWrites
<1>4. db[RowKey(r)] = "none"
  BY <1>2 DEF SerialInv, IInv, RowsOK
<1>5. \A q \in Run : RowKey(q) \in DOMAIN w => db[RowKey(q)] # "completed"
  BY <1>3, <1>4, KeyFacts
<1>6. pc[p] = "idle" /\ UNCHANGED db /\ pc'[p] = "commit"
  BY DEF Submit, Goto, SerialInv, IInv, ServiceTyped
<1> QED  BY <1>3, <1>5, <1>6, PlainWrite

LEMMA WorksWhilePolling ==
    ASSUME SerialInv, NEW p \in Client,
           \/ \E r \in Run : PollLoad(p, r) \/ CancelAsk(p, r)
           \/ PollAsk(p) \/ PollFailed(p)
    PROVE  WorkOK(p)'
<1>1. DOMAIN pc = Client /\ DOMAIN job = Client /\ job[p] \in Jobs
  BY DEF SerialInv, IInv, ServiceTyped, Jobs
<1>2. ASSUME NEW r \in Run, PollLoad(p, r)  PROVE WorkOK(p)'
  <2>1. PICK j : j = [NoJob EXCEPT !.run = r, !.seen = db[RowKey(r)]]
    OBVIOUS
  <2>2. j.run = r
    BY <2>1 DEF NoJob
  <2>3. pc[p] = "idle" /\ pc'[p] = "loaded" /\ job'[p] = j /\ UNCHANGED <<db, tx>>
    BY <1>1, <1>2, <2>1 DEF PollLoad, Goto
  <2>4. db[RowKey(r)] # "completed"
    BY <1>2 DEF PollLoad, Skips, SkipTerminal, Terminal
  <2> QED  BY <2>2, <2>3, <2>4, PlainMove
<1>3. ASSUME NEW r \in Run, CancelAsk(p, r)  PROVE WorkOK(p)'
  <2>1. pc[p] = "idle" /\ pc'[p] = "cancelling" /\ UNCHANGED <<db, tx>>
    BY <1>1, <1>3 DEF CancelAsk, Goto
  <2> QED  BY <2>1, PlainMove
<1>4. ASSUME PollAsk(p)  PROVE WorkOK(p)'
  <2>1. pc[p] = "loaded" /\ UNCHANGED <<db, tx>>
    BY <1>4 DEF PollAsk
  <2>2. db[RowKey(job[p].run)] # "completed"
    BY <2>1 DEF SerialInv, WorkOK, RowsOpen
  <2>3. CASE pc'[p] = "idle"
    BY <2>1, <2>3, PlainMove
  <2>4. CASE pc'[p] # "idle"
    <3>1. pc' = [pc EXCEPT ![p] = "answered"]
          /\ job' = [job EXCEPT ![p].seen = Answer(job[p].run)]
      BY <1>1, <1>4, <2>4 DEF PollAsk, Goto, End
    <3>2. pc'[p] = "answered" /\ job'[p] = [job[p] EXCEPT !.seen = Answer(job[p].run)]
      BY <1>1, <3>1
    <3>3. job'[p].run = job[p].run
      BY <1>1, <3>2 DEF Jobs
    <3> QED  BY <2>1, <2>2, <3>2, <3>3, PlainMove
  <2> QED  BY <2>3, <2>4
<1>5. ASSUME PollFailed(p)  PROVE WorkOK(p)'
  <2>1. pc[p] = "answered" /\ pc'[p] = "idle" /\ UNCHANGED <<db, tx>>
    BY <1>1, <1>5 DEF PollFailed, End, Goto
  <2> QED  BY <2>1, PlainMove
<1> QED  BY <1>2, <1>3, <1>4, <1>5

LEMMA WorksAtOutcome ==
    ASSUME SerialInv, NEW p \in Client, PollOther(p) \/ CancelWrite(p)
    PROVE  WorkOK(p)'
<1>1. UNCHANGED db /\ pc[p] \notin {"trigger", "commit"} /\ pc'[p] = "commit"
  BY DEF PollOther, CancelWrite, Goto, SerialInv, IInv, ServiceTyped
<1>2. CASE PollOther(p)
  <2>1. PICK w : w = [k \in {RowKey(job[p].run)} |-> job[p].seen]
    OBVIOUS
  <2>2. Write(p, w) /\ job[p].seen # "completed" /\ job[p].seen # "fresh"
    BY <1>2, <2>1 DEF PollOther, SerialInv, IInv, ServiceTyped, RowStatus, Terminal
  <2>3. \A k \in DOMAIN w : w[k] # "completed" /\ w[k] # "fresh"
    BY <2>1, <2>2
  <2>4. db[RowKey(job[p].run)] # "completed"
    BY <1>2 DEF PollOther, SerialInv, WorkOK, RowsOpen
  <2>5. \A r \in Run : RowKey(r) \in DOMAIN w => db[RowKey(r)] # "completed"
    BY <2>1, <2>4
  <2> QED  BY <1>1, <2>2, <2>3, <2>5, PlainWrite
<1>3. CASE CancelWrite(p)
  <2>1. PICK r : r = job[p].run
    OBVIOUS
  <2>2. PICK w : w = [k \in {RowKey(r), LastKey(runOf[r])} |-> IF k = RowKey(r) THEN "cancelled" ELSE CancelMark]
    OBVIOUS
  <2>3. Write(p, w)
    BY <1>3, <2>1, <2>2 DEF CancelWrite
  <2>4. \A k \in DOMAIN w : w[k] # "completed" /\ w[k] # "fresh"
    BY <2>2 DEF CancelMark, MarkError
  <2>5. r \in Run /\ accepted[r]
    BY <1>3, <2>1 DEF CancelWrite, SerialInv, IInv, JobOK, Working
  <2>6. db[RowKey(r)] # "completed"
    BY <2>5 DEF SerialInv, IInv, RowsOK, Tells
  <2>7. \A q \in Run : RowKey(q) \in DOMAIN w => db[RowKey(q)] # "completed"
    BY <2>2, <2>6, KeyFacts
  <2> QED  BY <1>1, <2>3, <2>4, <2>7, PlainWrite
<1> QED  BY <1>2, <1>3

LEMMA WorksOnCompletion ==
    ASSUME SerialInv, NEW p \in Client, PollCompleted(p)
    PROVE  WorkOK(p)'
<1>1. PICK r, d : r = job[p].run /\ d = runOf[r]
  OBVIOUS
<1>2. r \in Run /\ d \in Dataset /\ pc[p] = "answered" /\ UNCHANGED <<db, runOf>>
  BY <1>1 DEF PollCompleted, SerialInv, IInv, JobOK, Working
<1>3. PICK w : w = [k \in {RowKey(r), FreshKey(d), LastKey(d), DatedKey(d)} |->
                       CASE k = RowKey(r) -> "completed"
                         [] k = FreshKey(d) -> "fresh"
                         [] k = LastKey(d) -> "success"
                         [] k = DatedKey(d) -> IF ReportsDates THEN "yes" ELSE "no"]
  OBVIOUS
<1>4. Write(p, w)
  BY <1>1, <1>3 DEF PollCompleted
<1>5. RowKey(r) \in DOMAIN w /\ w[RowKey(r)] = "completed"
  BY <1>3, KeyFacts
<1>6. /\ \A q \in Run : RowKey(q) \in DOMAIN w => q = r
      /\ \A x \in Dataset : FreshKey(x) \in DOMAIN w => x = d
  BY <1>3, KeyFacts DEF FreshKey
<1>7. /\ \A q \in Run : Completes(p, q)' <=>
            IF RowKey(q) \in DOMAIN w THEN w[RowKey(q)] = "completed" ELSE Completes(p, q)
      /\ DOMAIN tx'[p] = DOMAIN tx[p] \cup DOMAIN w
      /\ \A k \in DOMAIN tx'[p] : tx'[p][k] = IF k \in DOMAIN w THEN w[k] ELSE tx[p][k]
  BY <1>4, CompletesAfter DEF SerialInv
<1>8. \A q \in Run : Completes(p, q)' <=> q = r
  BY <1>2, <1>5, <1>6, <1>7, NothingCompleted
<1>9. pc'[p] = "trigger" /\ job'[p].run = r
  <2>1. pc' = [pc EXCEPT ![p] = "trigger"] /\ job' = [job EXCEPT ![p].trigger = ToTrigger(d)]
    BY <1>1 DEF PollCompleted, Goto
  <2>2. DOMAIN pc = Client /\ DOMAIN job = Client /\ job[p] \in Jobs
    BY DEF SerialInv, IInv, ServiceTyped, Jobs
  <2>3. job'[p] = [job[p] EXCEPT !.trigger = ToTrigger(d)]
    BY <2>1, <2>2
  <2> QED  BY <1>1, <2>1, <2>2, <2>3 DEF Jobs
<1>10. RowsOpen(p)'
  <2>1. RowsOpen(p)
    BY DEF SerialInv, WorkOK
  <2>2. db[RowKey(r)] # "completed"
    BY <1>1, <1>2, <2>1 DEF RowsOpen
  <2>3. \A q \in Run : RowKey(q) \in DOMAIN tx'[p] => db'[RowKey(q)] # "completed"
    BY <1>2, <1>6, <1>7, <2>1, <2>2 DEF RowsOpen
  <2> QED  BY <1>9, <2>3 DEF RowsOpen, RowKey
<1>11. OneCompletion(p)'
  BY <1>2, <1>8, <1>9 DEF OneCompletion, Completes, RowKey
<1>12. Refreshes(p)'
  <2>1. ASSUME NEW x \in Dataset, FreshKey(x) \in DOMAIN tx'[p], tx'[p][FreshKey(x)] = "fresh"
        PROVE  x = d
    <3>1. FreshKey(x) \in DOMAIN w
      BY <1>2, <1>7, <2>1, NothingCompleted
    <3> QED  BY <1>6, <3>1
  <2>2. Completes(p, r)' /\ runOf'[r] = d
    BY <1>1, <1>2, <1>8
  <2> QED  BY <1>2, <2>1, <2>2 DEF Refreshes, FreshKey
<1>13. Invalidates(p)'
  BY <1>9 DEF Invalidates
<1> QED  BY <1>10, <1>11, <1>12, <1>13 DEF WorkOK

LEMMA WorksOneMore ==
    ASSUME SerialInv, NEW p \in Client, NEW x \in job[p].trigger, NEW r \in AutoRun,
           NEW s \in {"queued", "running"}, Trigger(p, x, r, s)
    PROVE  WorkOK(p)'
<1>1. x \in Dataset /\ job[p] \in Jobs /\ DOMAIN job = Client
  BY DEF SerialInv, IInv, ServiceTyped, Jobs
<1>2. r \in Run /\ runOf[r] = NoDataset /\ runOf[r] \notin Dataset /\ CreateRun(p, r, x, s)
  BY LineageAssumption DEF Trigger, IsNext, Unused, Run
<1>3. PICK w : Write(p, w) /\ DOMAIN w = {RowKey(r), LastKey(x)} /\ w[RowKey(r)] = s /\ w[LastKey(x)] = "running"
  <2>1. PICK w : w = [k \in {RowKey(r), LastKey(x)} |-> IF k = RowKey(r) THEN s ELSE "running"]
    OBVIOUS
  <2>2. DOMAIN w = {RowKey(r), LastKey(x)} /\ w[RowKey(r)] = s /\ w[LastKey(x)] = "running"
    BY <2>1, KeyFacts
  <2> QED  BY <1>2, <2>1, <2>2 DEF CreateRun
<1>4. /\ \A q \in Run : Completes(p, q)' <=>
            IF RowKey(q) \in DOMAIN w THEN w[RowKey(q)] = "completed" ELSE Completes(p, q)
      /\ DOMAIN tx'[p] = DOMAIN tx[p] \cup DOMAIN w
      /\ \A k \in DOMAIN tx'[p] : tx'[p][k] = IF k \in DOMAIN w THEN w[k] ELSE tx[p][k]
  BY <1>3, CompletesAfter DEF SerialInv
<1>5. RunsKept
  <2>1. IInv
    BY DEF SerialInv
  <2> QED  BY <1>1, <1>2, <2>1, CreatedIsKept
<1>6. ~Completes(p, r) /\ db[RowKey(r)] = "none"
  BY <1>2 DEF SerialInv, IInv, TxOK, RowsOK, Completes
<1>7. \A q \in Run : Completes(p, q)' <=> Completes(p, q)
  <2>1. \A q \in Run : RowKey(q) \in DOMAIN w => q = r /\ w[RowKey(q)] # "completed"
    BY <1>3, KeyFacts
  <2> QED  BY <1>4, <1>6, <2>1
<1>8. pc'[p] = "trigger" /\ pc[p] = "trigger" /\ job'[p].run = job[p].run /\ UNCHANGED db
  <2>1. job'[p] = [job[p] EXCEPT !.trigger = @ \ {x}]
    BY <1>1 DEF Trigger
  <2> QED  BY <1>1, <2>1 DEF Trigger, Jobs
<1>9. RowsOpen(p)'
  <2>1. RowsOpen(p)
    BY DEF SerialInv, WorkOK
  <2>2. \A q \in Run : RowKey(q) \in DOMAIN w => q = r
    BY <1>3, KeyFacts
  <2>3. \A q \in Run : RowKey(q) \in DOMAIN tx'[p] => db'[RowKey(q)] # "completed"
    BY <1>4, <1>6, <1>8, <2>1, <2>2 DEF RowsOpen
  <2> QED  BY <1>8, <2>3 DEF RowsOpen, RowKey
<1>10. OneCompletion(p)'
  <2>1. OneCompletion(p) /\ job[p].run \in Run
    BY <1>8 DEF SerialInv, WorkOK, IInv, JobOK, Working
  <2>2. Completes(p, job[p].run)'
    BY <1>7, <1>8, <2>1 DEF OneCompletion, Completes, RowKey
  <2>3. \A q, v \in Run : Completes(p, q)' /\ Completes(p, v)' => q = v
    BY <1>7, <2>1 DEF OneCompletion
  <2> QED  BY <2>2, <2>3 DEF OneCompletion
<1>11. Refreshes(p)'
  <2>1. Refreshes(p)
    BY DEF SerialInv, WorkOK
  <2>2. ASSUME NEW d \in Dataset, FreshKey(d) \in DOMAIN tx'[p], tx'[p][FreshKey(d)] = "fresh"
        PROVE  \E q \in Run : Completes(p, q)' /\ runOf'[q] = d
    <3>1. FreshKey(d) \notin DOMAIN w
      BY <1>3, KeyFacts
    <3>2. PICK q \in Run : Completes(p, q) /\ runOf[q] = d
      BY <1>4, <2>1, <2>2, <3>1 DEF Refreshes
    <3> QED  BY <1>5, <1>7, <3>2 DEF RunsKept
  <2> QED  BY <2>2 DEF Refreshes, FreshKey
<1>12. Invalidates(p)'
  BY <1>8 DEF Invalidates
<1> QED  BY <1>9, <1>10, <1>11, <1>12 DEF WorkOK

LEMMA WorksAtPropagation ==
    ASSUME SerialInv, NEW p \in Client, Propagate(p)
    PROVE  WorkOK(p)'
<1>1. PICK r, d : r = job[p].run /\ d = runOf[r]
  OBVIOUS
<1>2. /\ pc[p] = "trigger" /\ pc'[p] = "commit" /\ UNCHANGED <<db, runOf>>
      /\ r \in Run /\ d \in Dataset
  BY <1>1 DEF Propagate, Goto, SerialInv, IInv, ServiceTyped, JobOK, Working
<1>3. PICK S : S = {y \in AllDownstream(d) : Sees(p, FreshKey(y)) # "stale"}
  OBVIOUS
<1>4. PICK w : w = [k \in {FreshKey(x) : x \in S} |-> "stale"]
  OBVIOUS
<1>5. Write(p, w)
  BY <1>1, <1>3, <1>4 DEF Propagate, Invalidated
<1>6. /\ \A q \in Run : Completes(p, q)' <=>
            IF RowKey(q) \in DOMAIN w THEN w[RowKey(q)] = "completed" ELSE Completes(p, q)
      /\ DOMAIN tx'[p] = DOMAIN tx[p] \cup DOMAIN w
      /\ \A k \in DOMAIN tx'[p] : tx'[p][k] = IF k \in DOMAIN w THEN w[k] ELSE tx[p][k]
  BY <1>5, CompletesAfter DEF SerialInv
<1>7. \A q \in Run : RowKey(q) \notin DOMAIN w
  BY <1>4, KeyFacts
<1>8. \A q \in Run : Completes(p, q)' <=> Completes(p, q)
  BY <1>6, <1>7
<1>9. RowsOpen(p)'
  <2>1. RowsOpen(p)
    BY DEF SerialInv, WorkOK
  <2>2. \A q \in Run : RowKey(q) \in DOMAIN tx'[p] => db'[RowKey(q)] # "completed"
    BY <1>2, <1>6, <1>7, <2>1 DEF RowsOpen
  <2> QED  BY <1>2, <2>2 DEF RowsOpen, RowKey
<1>10. OneCompletion(p) /\ OneCompletion(p)'
  BY <1>2, <1>8 DEF SerialInv, WorkOK, OneCompletion
<1>11. Refreshes(p)'
  <2>1. Refreshes(p)
    BY DEF SerialInv, WorkOK
  <2>2. ASSUME NEW x \in Dataset, FreshKey(x) \in DOMAIN tx'[p], tx'[p][FreshKey(x)] = "fresh"
        PROVE  \E q \in Run : Completes(p, q)' /\ runOf'[q] = x
    <3>1. FreshKey(x) \notin DOMAIN w
      BY <1>4, <1>6, <2>2
    <3> QED  BY <1>2, <1>6, <1>8, <2>1, <2>2, <3>1 DEF Refreshes
  <2> QED  BY <2>2 DEF Refreshes, FreshKey
<1>12. Invalidates(p)'
  <2>1. ASSUME NEW q \in Run, Completes(p, q)'  PROVE q = r
    BY <1>1, <1>2, <1>8, <1>10, <2>1 DEF OneCompletion
  <2>2. ASSUME NEW x \in AllDownstream(d)
        PROVE  IF FreshKey(x) \in DOMAIN tx'[p] THEN tx'[p][FreshKey(x)] = "stale" ELSE db'[FreshKey(x)] = "stale"
    <3>1. CASE x \in S
      <4>1. FreshKey(x) \in DOMAIN w /\ w[FreshKey(x)] = "stale"
        BY <1>4, <3>1
      <4> QED  BY <1>6, <4>1
    <3>2. CASE x \notin S
      <4>1. Sees(p, FreshKey(x)) = "stale"
        BY <1>3, <2>2, <3>2
      <4>2. FreshKey(x) \in DOMAIN w => w[FreshKey(x)] = "stale"
        BY <1>4
      <4> QED  BY <1>2, <1>6, <4>1, <4>2 DEF Sees
    <3> QED  BY <3>1, <3>2
  <2>3. \A x \in AllDownstream(d) : Sees(p, FreshKey(x))' = "stale"
    BY <2>2 DEF Sees, FreshKey
  <2>4. \A q \in Run : Completes(p, q)' => runOf'[q] = d
    BY <1>1, <1>2, <2>1
  <2> QED  BY <2>3, <2>4 DEF Invalidates, FreshKey
<1> QED  BY <1>9, <1>10, <1>11, <1>12 DEF WorkOK

(* A commit completes at most one run, on behalf of whose dataset it has   *)
(* invalidated all that depends on it.                                     *)
LEMMA SerialAtCommit ==
    ASSUME SerialInv, NEW p \in Client, Commit(p)
    PROVE  WorkOK(p)' /\ CountOK' /\ FreshIsLatest' /\ recent' \subseteq Dataset \X Dataset
<1>1. PICK w : /\ w = Committed(tx[p]) /\ (w = tx[p] \/ DOMAIN w = {})
               /\ \A k \in Key : db'[k] = IF k \in DOMAIN w THEN w[k] ELSE db[k]
               /\ tx'[p] = NoWrites /\ pc'[p] = "idle" /\ UNCHANGED runOf
  <2>1. IInv
    BY DEF SerialInv
  <2> QED  BY <2>1, CommitFacts
<1>2. WorkOK(p)'
  BY <1>1, DropsAll
<1>3. RowsOpen(p) /\ OneCompletion(p) /\ Refreshes(p) /\ Invalidates(p) /\ pc[p] = "commit"
  BY DEF SerialInv, WorkOK, Commit
<1>4. PICK Done : Done = CompletedIn(w)
  OBVIOUS
<1>5. \A r : r \in Done <=> r \in Run /\ RowKey(r) \in DOMAIN w /\ w[RowKey(r)] = "completed"
  BY <1>4 DEF CompletedIn
<1>6. \A r \in Done : r \in Run /\ Completes(p, r) /\ w = tx[p]
  BY <1>1, <1>5 DEF Completes
<1>7. CountOK'
  <2>1. CountOK
    BY DEF SerialInv
  <2>2. handled' = [r \in Run |-> handled[r] + (IF r \in Done THEN 1 ELSE 0)]
    BY <1>1, <1>4 DEF Commit
  <2>3. ASSUME NEW r \in Run
        PROVE  handled'[r] \in {0, 1} /\ (db'[RowKey(r)] # "completed" => handled'[r] = 0)
    <3>1. CASE r \in Done
      <4>1. db[RowKey(r)] # "completed"
        BY <1>3, <1>6, <3>1 DEF RowsOpen, Completes
      <4>2. handled[r] = 0 /\ handled'[r] = handled[r] + 1
        BY <2>1, <2>2, <3>1, <4>1 DEF CountOK
      <4>3. db'[RowKey(r)] = "completed"
        BY <1>1, <1>5, <3>1, KeyFacts
      <4> QED  BY <4>2, <4>3
    <3>2. CASE r \notin Done
      <4>1. handled'[r] = handled[r] + 0 /\ handled[r] \in {0, 1}
        BY <2>1, <2>2, <3>2 DEF CountOK
      <4>2. handled'[r] = handled[r]
        BY <4>1
      <4>3. db'[RowKey(r)] # "completed" => db[RowKey(r)] # "completed"
        <5>1. CASE RowKey(r) \in DOMAIN w
          <6>1. RowKey(r) \in DOMAIN tx[p]
            BY <1>1, <5>1
          <6> QED  BY <1>3, <6>1 DEF RowsOpen
        <5>2. CASE RowKey(r) \notin DOMAIN w
          BY <1>1, <5>2, KeyFacts
        <5> QED  BY <5>1, <5>2
      <4> QED  BY <2>1, <4>1, <4>2, <4>3 DEF CountOK
    <3> QED  BY <3>1, <3>2
  <2> QED  BY <2>2, <2>3 DEF CountOK, RowKey
<1>8. ASSUME NEW x \in Dataset, db'[FreshKey(x)] = "fresh"
      PROVE  \/ db[FreshKey(x)] = "fresh"
             \/ \E r \in Done : runOf[r] = x
  <2>1. CASE FreshKey(x) \in DOMAIN w
    <3>1. w = tx[p] /\ tx[p][FreshKey(x)] = "fresh"
      BY <1>1, <1>8, <2>1, KeyFacts
    <3>2. PICK r \in Run : Completes(p, r) /\ runOf[r] = x
      BY <1>3, <2>1, <3>1 DEF Refreshes
    <3> QED  BY <1>5, <3>1, <3>2 DEF Completes
  <2>2. CASE FreshKey(x) \notin DOMAIN w
    BY <1>1, <1>8, <2>2, KeyFacts
  <2> QED  BY <2>1, <2>2
<1>9. recent \subseteq Dataset \X Dataset /\ FreshIsLatest
  BY DEF SerialInv
<1>10. CASE Done = {}
  <2>1. recent' = recent
    BY <1>1, <1>4, <1>10 DEF Commit
  <2>2. \A x \in Dataset : db'[FreshKey(x)] = "fresh" => db[FreshKey(x)] = "fresh"
    BY <1>8, <1>10
  <2>3. FreshIsLatest'
    BY <1>9, <2>1, <2>2 DEF FreshIsLatest, FreshKey
  <2> QED  BY <1>2, <1>7, <1>9, <2>1, <2>3
<1>11. CASE Done # {}
  <2>1. PICK r \in Done : TRUE
    BY <1>11
  <2>2. PICK d : d = runOf[r]
    OBVIOUS
  <2>3. r \in Run /\ Completes(p, r) /\ w = tx[p] /\ \A q \in Done : q = r
    BY <1>3, <1>6, <2>1 DEF OneCompletion
  <2>4. d \in Dataset
    BY <2>2, <2>3 DEF SerialInv, IInv, TxOK, Completes
  <2>5. {runOf[q] : q \in Done} = {d}
    BY <2>1, <2>2, <2>3
  <2>6. recent' = {x \in recent : x[1] # d} \cup (Dataset \X {d})
    <3>1. {runOf[q] : q \in CompletedIn(Committed(tx[p]))} = {d}
      BY <1>1, <1>4, <2>5
    <3>2. \/ {runOf[q] : q \in CompletedIn(Committed(tx[p]))} = {}
          \/ \E e \in {runOf[q] : q \in CompletedIn(Committed(tx[p]))} :
                recent' = {x \in recent : x[1] # e} \cup (Dataset \X {e})
      BY DEF Commit
    <3> QED  BY <3>1, <3>2
  <2>7. \A x \in AllDownstream(d) : db'[FreshKey(x)] = "stale"
    <3>1. \A x \in AllDownstream(d) : Sees(p, FreshKey(x)) = "stale" /\ x \in Dataset
      BY <1>3, <2>2, <2>3 DEF Invalidates, AllDownstream, Reachable
    <3> QED  BY <1>1, <2>3, <3>1, KeyFacts DEF Sees
  <2>8. ASSUME NEW x \in Dataset, db'[FreshKey(x)] = "fresh"
        PROVE  <<x, x>> \in recent' /\ \A u \in AllUpstream(x) : <<x, u>> \notin recent'
    <3>1. d \notin AllUpstream(x)
      BY <2>4, <2>7, <2>8, BelowAndAbove
    <3>2. AllUpstream(x) \subseteq Dataset
      BY DEF AllUpstream, Reachable
    <3>3. CASE x = d
      <4>1. <<x, x>> \in recent'
        BY <2>4, <2>6, <3>3
      <4>2. \A u \in AllUpstream(x) : <<x, u>> \notin recent'
        BY <2>6, <3>1, <3>3
      <4> QED  BY <4>1, <4>2
    <3>4. CASE x # d
      <4>1. db[FreshKey(x)] = "fresh"
        BY <1>8, <2>2, <2>3, <2>8, <3>4
      <4>2. <<x, x>> \in recent /\ \A u \in AllUpstream(x) : <<x, u>> \notin recent
        BY <1>9, <4>1 DEF FreshIsLatest
      <4>3. <<x, x>> \in recent'
        BY <2>6, <3>4, <4>2
      <4>4. \A u \in AllUpstream(x) : <<x, u>> \notin recent'
        BY <2>6, <3>1, <4>2
      <4> QED  BY <4>3, <4>4
    <3> QED  BY <3>3, <3>4
  <2>9. FreshIsLatest'
    BY <2>8 DEF FreshIsLatest, FreshKey
  <2>10. recent' \subseteq Dataset \X Dataset
    BY <1>9, <2>4, <2>6
  <2> QED  BY <1>2, <1>7, <2>9, <2>10
<1> QED  BY <1>10, <1>11

LEMMA SerialStep ==
    ASSUME Serial, SerialInv, [Next]_vars
    PROVE  SerialInv'
<1>1. IInv' /\ TriggerInv'
  BY StepKeeps, TriggerStep DEF SerialInv
<1>2. CASE UNCHANGED vars \/ BackendStep
  <2>1. UNCHANGED <<runOf, db, tx, pc, job, recent, handled>>
    BY <1>2 DEF vars, service, BackendStep
  <2>2. ASSUME NEW p \in Client  PROVE WorkOK(p)'
    <3>1. WorkOK(p)
      BY DEF SerialInv
    <3>2. \A r \in Run : Completes(p, r)' <=> Completes(p, r)
      BY <2>1 DEF Completes, RowKey
    <3>3. \A x : Sees(p, FreshKey(x))' = Sees(p, FreshKey(x))
      BY <2>1 DEF Sees, FreshKey
    <3>4. RowsOpen(p)'
      BY <2>1, <3>1 DEF WorkOK, RowsOpen, RowKey
    <3>5. OneCompletion(p)'
      BY <2>1, <3>1 DEF WorkOK, OneCompletion, Completes, RowKey
    <3>6. Refreshes(p)'
      BY <2>1, <3>1, <3>2 DEF WorkOK, Refreshes, FreshKey
    <3>7. Invalidates(p)'
      BY <2>1, <3>1, <3>2, <3>3 DEF WorkOK, Invalidates
    <3> QED  BY <3>4, <3>5, <3>6, <3>7 DEF WorkOK
  <2> QED  BY <1>1, <2>1, <2>2, StoredStays DEF SerialInv
<1>3. CASE Restart
  <2>1. UNCHANGED <<db, recent, handled>> /\ \A p \in Client : WorkOK(p)'
    BY <1>3, DropsAll DEF Restart
  <2> QED  BY <1>1, <2>1, StoredStays DEF SerialInv
<1>4. ASSUME NEW p \in Client, RequestDies(p)  PROVE SerialInv'
  <2>1. UNCHANGED <<db, recent, handled>> /\ tx'[p] = NoWrites /\ pc'[p] = "idle"
    BY <1>4 DEF RequestDies, End, Goto, SerialInv, IInv, ServiceTyped
  <2> QED  BY <1>1, <2>1, DropsAll, OneWorks
<1>5. ASSUME NEW p \in Client, Commit(p)  PROVE SerialInv'
  <2>1. WorkOK(p)' /\ CountOK' /\ FreshIsLatest' /\ recent' \subseteq Dataset \X Dataset
    BY <1>5, SerialAtCommit
  <2>2. \A q \in Client : WorkOK(q)'
    BY <2>1 DEF Serial
  <2> QED  BY <1>1, <2>1, <2>2 DEF SerialInv
<1>6. ASSUME NEW p \in Client, NEW d \in Dataset, NEW force \in BOOLEAN, Submit(p, d, force)
      PROVE  SerialInv'
  <2>1. UNCHANGED <<db, recent, handled>>
    BY <1>6 DEF Submit
  <2> QED  BY <1>1, <1>6, <2>1, WorksAtSubmit, OneWorks
<1>7. ASSUME NEW p \in Client, NEW r \in Run, PollLoad(p, r) \/ CancelAsk(p, r)
      PROVE  SerialInv'
  <2>1. UNCHANGED <<db, recent, handled>>
    BY <1>7 DEF PollLoad, CancelAsk
  <2> QED  BY <1>1, <1>7, <2>1, WorksWhilePolling, OneWorks
<1>8. ASSUME NEW p \in Client, TriggerNext(p) \/ TriggerRefused(p)
      PROVE  SerialInv'
  <2>1. PICK x \in job[p].trigger, r \in AutoRun, s \in {"queued", "running"} : Trigger(p, x, r, s)
    BY <1>8 DEF TriggerNext, TriggerRefused, BeforeSubmission
  <2>2. UNCHANGED <<db, recent, handled>>
    BY <2>1 DEF Trigger
  <2> QED  BY <1>1, <2>1, <2>2, WorksOneMore, OneWorks
<1>9. ASSUME NEW p \in Client,
             PollAsk(p) \/ PollFailed(p) \/ PollOther(p) \/ CancelWrite(p) \/ PollCompleted(p) \/ Propagate(p)
      PROVE  SerialInv'
  <2>1. UNCHANGED <<db, recent, handled>>
    BY <1>9 DEF PollAsk, PollFailed, PollOther, CancelWrite, PollCompleted, Propagate
  <2>2. WorkOK(p)'
    BY <1>9, WorksWhilePolling, WorksAtOutcome, WorksOnCompletion, WorksAtPropagation
  <2> QED  BY <1>1, <2>1, <2>2, OneWorks
<1> QED  BY <1>2, <1>3, <1>4, <1>5, <1>6, <1>7, <1>8, <1>9 DEF Next, Serve

LEMMA SerialStart == Init => SerialInv
<1> SUFFICES ASSUME Init  PROVE SerialInv
  OBVIOUS
<1>1. IInv /\ TriggerInv
  BY Initially, TriggerStart
<1>2. \A p \in Client : tx[p] = NoWrites /\ pc[p] = "idle" /\ DOMAIN tx[p] = {}
  BY DEF Init, NoWrites
<1>3. \A p \in Client : WorkOK(p)
  BY <1>2 DEF WorkOK, RowsOpen, OneCompletion, Refreshes, Invalidates, Completes
<1>4. \A d \in Dataset : db[FreshKey(d)] # "fresh"
  BY KeyFacts DEF Init, FreshKey
<1>5. CountOK /\ FreshIsLatest /\ recent \subseteq Dataset \X Dataset
  BY <1>4 DEF Init, CountOK, FreshIsLatest
<1> QED  BY <1>1, <1>3, <1>5 DEF SerialInv

(* One client at a time handles each completion once, and a dataset it     *)
(* recorded as fresh has no upstream, direct or not, that completed since, *)
(* for every lineage, cycles included, and however its requests die.  Two  *)
(* clients break both.                                                     *)
THEOREM InOrderTheorem == Serial /\ Spec => []HandledInOrder
<1> SUFFICES ASSUME Serial  PROVE Spec => []HandledInOrder
  OBVIOUS
<1>1. SerialInv => HandledInOrder
  BY DEF SerialInv, CountOK, HandledInOrder, HandledOnce
<1>2. SerialInv /\ [Next]_vars => SerialInv'
  BY SerialStep
<1> QED  BY <1>1, <1>2, SerialStart, PTL DEF Spec

=============================================================================
