------------------------------- MODULE Outbox -------------------------------
(***************************************************************************)
(* The transactional outbox: producers write an activity and its outbox    *)
(* row in one transaction (libs/core/activity), workers fetch unpublished  *)
(* rows in batches, write the audit row and the notification, push the     *)
(* event to the real-time channels and mark the row published, a whole     *)
(* batch in one database transaction (apps/worker/outbox.py, main.py).     *)
(*                                                                         *)
(* What a worker has written and not committed is kept apart (marked,      *)
(* inserted) from what the database holds (published, audits, notified);   *)
(* what was pushed to a channel cannot be rolled back (sent).              *)
(***************************************************************************)
EXTENDS Naturals, FiniteSets

CONSTANTS
    Row,         \* outbox rows; each stands for one activity
    Worker,      \* worker processes
    Channel,     \* real-time channels
    Nobody,      \* holder of the SQLite write lock when it is free
    ChannelsOf,  \* [Row -> SUBSET Channel]: where the event of a row goes
    Activities,  \* rows whose topic is "activity", the only one handled
    Malformed,   \* rows whose key and payload name no activity
    Targeted,    \* rows whose event has a target principal to notify
    Sqlite,      \* TRUE: one writer at a time and no row locks
    BatchSize,   \* rows a worker fetches at a time
    MaxRetries,  \* attempts to publish to one channel
    MaxFaults    \* bound on failed publishes, rejected rows and crashes

ASSUME RowsAreFinite      == IsFiniteSet(Row)
ASSUME NobodyIsNobody     == Nobody \notin Row \cup Worker
ASSUME RowsAreNotWorkers  == Row \cap Worker = {}
ASSUME ChannelsOfIsTotal  == ChannelsOf \in [Row -> SUBSET Channel]
ASSUME RowKinds           == /\ Activities \subseteq Row
                             /\ Malformed \subseteq Activities
                             /\ Targeted \subseteq Activities
ASSUME SqliteIsFlag       == Sqlite \in BOOLEAN
ASSUME BatchSizeIsPos     == BatchSize \in Nat \ {0}
ASSUME MaxRetriesIsPos    == MaxRetries \in Nat \ {0}
ASSUME MaxFaultsIsNat     == MaxFaults \in Nat

VARIABLES
    stage,      \* the producer's transaction that inserts the row
    stamp,      \* created_at of the row
    clock,      \* the next created_at
    published,  \* rows with a committed published_at
    audits,     \* number of committed audit_log rows of the activity
    notified,   \* rows whose target has its (unique) notification
    pc,         \* where the worker is
    batch,      \* rows the worker's transaction fetched
    marked,     \* rows it has set published_at of, uncommitted
    inserted,   \* rows it has inserted an audit_log row for, uncommitted
    row,        \* the row its handler is at
    unsent,     \* channels left to publish that row to
    trying,     \* the channel of the attempt under way
    attempt,    \* failed attempts on that channel
    writer,     \* SQLite: who holds the write lock
    sent,       \* times the event of a row reached a channel
    faults      \* failures so far (bounded by MaxFaults)

rows    == <<stage, stamp, clock>>
effects == <<published, audits, notified>>
tx      == <<pc, batch, marked, inserted, row, unsent, trying, attempt>>
vars    == <<rows, effects, tx, writer, sent, faults>>

-----------------------------------------------------------------------------
Init ==
    /\ stage = [r \in Row |-> "absent"]
    /\ stamp = [r \in Row |-> 0]
    /\ clock = 1
    /\ published = {}
    /\ audits = [r \in Row |-> 0]
    /\ notified = {}
    /\ pc = [w \in Worker |-> "idle"]
    /\ batch = [w \in Worker |-> {}]
    /\ marked = [w \in Worker |-> {}]
    /\ inserted = [w \in Worker |-> {}]
    /\ row = [w \in Worker |-> Nobody]
    /\ unsent = [w \in Worker |-> {}]
    /\ trying = [w \in Worker |-> Nobody]
    /\ attempt = [w \in Worker |-> 0]
    /\ writer = Nobody
    /\ sent = [r \in Row |-> [c \in Channel |-> 0]]
    /\ faults = 0

(* SQLite lets one transaction write at a time; PostgreSQL does not limit it. *)
CanWrite(p) == ~Sqlite \/ writer \in {Nobody, p}
TakeWrite(p) == writer' = IF Sqlite THEN p ELSE writer
ReleaseWrite(p) == writer' = IF writer = p THEN Nobody ELSE writer

-----------------------------------------------------------------------------
(* Producers: tx_activity / record_activity_with_outbox.                   *)

(* The activity and its outbox row are flushed; created_at is set now. *)
Enqueue(r) ==
    /\ stage[r] = "absent"
    /\ CanWrite(r)
    /\ stage' = [stage EXCEPT ![r] = "pending"]
    /\ stamp' = [stamp EXCEPT ![r] = clock]
    /\ clock' = clock + 1
    /\ TakeWrite(r)
    /\ UNCHANGED <<effects, tx, sent, faults>>

(* The request's transaction ends: rows become visible together or never. *)
EndProducer(r) ==
    /\ stage[r] = "pending"
    /\ \E outcome \in {"committed", "aborted"} :
          stage' = [stage EXCEPT ![r] = outcome]
    /\ ReleaseWrite(r)
    /\ UNCHANGED <<stamp, clock, effects, tx, sent, faults>>

-----------------------------------------------------------------------------
(* Workers.                                                                *)

Todo(w) == batch[w] \ marked[w]

(* process_outbox_batch walks the batch in created_at order. *)
IsNext(w, r) == r \in Todo(w) /\ \A q \in Todo(w) : stamp[r] <= stamp[q]

(* Bug: the lock clause is forgotten. *)
NoLocked == {}

(* Rows row-locked by an open transaction: the batches of FOR UPDATE. *)
Locked == IF Sqlite THEN {} ELSE UNION {batch[w] : w \in Worker}

(* WHERE published_at IS NULL, SKIP LOCKED on PostgreSQL. *)
Available == {r \in Row : stage[r] = "committed"} \ (published \cup Locked)

(* Bug: the worker waits for a full batch. *)
IsFullBatch(S) ==
    /\ S \subseteq Available
    /\ \A r \in S, q \in Available \ S : stamp[r] < stamp[q]
    /\ Cardinality(S) = BatchSize

(* ORDER BY created_at LIMIT BatchSize. *)
IsOldest(S) ==
    /\ S \subseteq Available
    /\ \A r \in S, q \in Available \ S : stamp[r] < stamp[q]
    /\ \/ Cardinality(S) = BatchSize
       \/ S = Available /\ Cardinality(S) <= BatchSize

FetchBatch(w) ==
    /\ pc[w] = "idle"
    /\ \E S \in SUBSET Available :
          /\ S # {}
          /\ IsOldest(S)
          /\ batch' = [batch EXCEPT ![w] = S]
    /\ pc' = [pc EXCEPT ![w] = "open"]
    /\ UNCHANGED <<rows, effects, marked, inserted, row, unsent, trying,
                   attempt, writer, sent, faults>>

(* Nothing to fetch: the worker sleeps two seconds. *)
FetchNothing(w) ==
    /\ pc[w] = "idle"
    /\ Available = {}
    /\ pc' = [pc EXCEPT ![w] = "sleeping"]
    /\ UNCHANGED <<rows, effects, batch, marked, inserted, row, unsent,
                   trying, attempt, writer, sent, faults>>

Wake(w) ==
    /\ pc[w] = "sleeping"
    /\ pc' = [pc EXCEPT ![w] = "idle"]
    /\ UNCHANGED <<rows, effects, batch, marked, inserted, row, unsent,
                   trying, attempt, writer, sent, faults>>

(* No handler for the topic: the row is marked and nothing else happens. *)
SkipUnhandled(w) ==
    /\ pc[w] = "open"
    /\ \E r \in Row \ Activities :
          /\ IsNext(w, r)
          /\ marked' = [marked EXCEPT ![w] = @ \cup {r}]
    /\ UNCHANGED <<rows, effects, pc, batch, inserted, row, unsent, trying,
                   attempt, writer, sent, faults>>

(* The handler flushes the notification and the audit row, then publishes. *)
InsertAudit(w) ==
    /\ pc[w] = "open"
    /\ CanWrite(w)
    /\ TakeWrite(w)
    /\ \E r \in Activities \ Malformed :
          /\ IsNext(w, r)
          /\ row' = [row EXCEPT ![w] = r]
          /\ inserted' = [inserted EXCEPT ![w] = @ \cup {r}]
          /\ unsent' = [unsent EXCEPT ![w] = ChannelsOf[r]]
    /\ pc' = [pc EXCEPT ![w] = "publishing"]
    /\ UNCHANGED <<rows, effects, batch, marked, trying, attempt, sent, faults>>

(* One POST to the real-time server succeeds. *)
PublishOk(w) ==
    /\ pc[w] = "publishing"
    /\ \E c \in unsent[w] :
          /\ attempt[w] = 0 \/ trying[w] = c
          /\ sent' = [sent EXCEPT ![row[w]][c] = @ + 1]
          /\ unsent' = [unsent EXCEPT ![w] = @ \ {c}]
    /\ trying' = [trying EXCEPT ![w] = Nobody]
    /\ attempt' = [attempt EXCEPT ![w] = 0]
    /\ UNCHANGED <<rows, effects, pc, batch, marked, inserted, row, writer,
                   faults>>

(* Every channel has the event: published_at is set in the transaction. *)
MarkPublished(w) ==
    /\ pc[w] = "publishing" /\ unsent[w] = {}
    /\ marked' = [marked EXCEPT ![w] = @ \cup {row[w]}]
    /\ row' = [row EXCEPT ![w] = Nobody]
    /\ pc' = [pc EXCEPT ![w] = "open"]
    /\ UNCHANGED <<rows, effects, batch, inserted, unsent, trying, attempt,
                   writer, sent, faults>>

(* Bug: only the audit rows are committed, the marks are lost. *)
LoseMarks(w) == published

(* published_at of every row of the batch, written by the commit. *)
PublishedBy(w) == published \cup marked[w]

(* The end of "async with session.begin()": everything becomes durable. *)
Commit(w) ==
    /\ pc[w] = "open" /\ Todo(w) = {}
    /\ CanWrite(w)
    /\ published' = PublishedBy(w)
    /\ audits' = [r \in Row |-> IF r \in inserted[w] THEN audits[r] + 1 ELSE audits[r]]
    /\ notified' = notified \cup (inserted[w] \cap Targeted)
    /\ pc' = [pc EXCEPT ![w] = "idle"]
    /\ batch' = [batch EXCEPT ![w] = {}]
    /\ marked' = [marked EXCEPT ![w] = {}]
    /\ inserted' = [inserted EXCEPT ![w] = {}]
    /\ ReleaseWrite(w)
    /\ UNCHANGED <<rows, row, unsent, trying, attempt, sent, faults>>

(* An exception leaves the transaction: all of the batch is undone, only   *)
(* what was sent to the channels stays.                                    *)
Rollback(w, next) ==
    /\ pc' = [pc EXCEPT ![w] = next]
    /\ batch' = [batch EXCEPT ![w] = {}]
    /\ marked' = [marked EXCEPT ![w] = {}]
    /\ inserted' = [inserted EXCEPT ![w] = {}]
    /\ row' = [row EXCEPT ![w] = Nobody]
    /\ unsent' = [unsent EXCEPT ![w] = {}]
    /\ trying' = [trying EXCEPT ![w] = Nobody]
    /\ attempt' = [attempt EXCEPT ![w] = 0]
    /\ ReleaseWrite(w)

(* A row that names no activity: ValueError. *)
RejectMalformed(w) ==
    /\ pc[w] = "open"
    /\ \E r \in Malformed : IsNext(w, r)
    /\ faults < MaxFaults
    /\ faults' = faults + 1
    /\ Rollback(w, "sleeping")
    /\ UNCHANGED <<rows, effects, sent>>

(* SQLite: busy_timeout runs out while another transaction writes. *)
WriteTimeout(w) ==
    /\ pc[w] = "open"
    /\ ~CanWrite(w)
    /\ Todo(w) # {} => \E r \in Activities \ Malformed : IsNext(w, r)
    /\ Rollback(w, "sleeping")
    /\ UNCHANGED <<rows, effects, sent, faults>>

(* Bug: the error is logged and the row goes on as if it were published. *)
SwallowError(w) ==
    /\ unsent' = [unsent EXCEPT ![w] = {}]
    /\ trying' = [trying EXCEPT ![w] = Nobody]
    /\ attempt' = [attempt EXCEPT ![w] = 0]
    /\ UNCHANGED <<pc, batch, marked, inserted, row, writer>>

(* The last attempt re-raises: the handler and the batch fail. *)
GiveUp(w) == Rollback(w, "sleeping")

(* A POST fails; the event may have arrived all the same (a lost answer).  *)
(* The last failure leaves the handler and rolls the batch back.           *)
PublishFail(w) ==
    /\ pc[w] = "publishing"
    /\ faults < MaxFaults
    /\ faults' = faults + 1
    /\ \E c \in unsent[w] :
          /\ attempt[w] = 0 \/ trying[w] = c
          /\ \/ UNCHANGED sent
             \/ sent' = [sent EXCEPT ![row[w]][c] = @ + 1]
          /\ \/ /\ attempt[w] + 1 < MaxRetries
                /\ attempt' = [attempt EXCEPT ![w] = @ + 1]
                /\ trying' = [trying EXCEPT ![w] = c]
                /\ UNCHANGED <<pc, batch, marked, inserted, row, unsent, writer>>
             \/ /\ attempt[w] + 1 = MaxRetries
                /\ GiveUp(w)
    /\ UNCHANGED <<rows, effects>>

(* The worker process dies: the database undoes its transaction. *)
Crash(w) ==
    /\ pc[w] \in {"open", "publishing"}
    /\ faults < MaxFaults
    /\ faults' = faults + 1
    /\ Rollback(w, "idle")
    /\ UNCHANGED <<rows, effects, sent>>

-----------------------------------------------------------------------------
(* What one pass of worker_loop does on its own account. *)
WorkerStep(w) ==
    \/ FetchBatch(w) \/ FetchNothing(w) \/ Wake(w)
    \/ SkipUnhandled(w) \/ InsertAudit(w) \/ PublishOk(w)
    \/ MarkPublished(w) \/ Commit(w)

Fault(w) ==
    \/ RejectMalformed(w) \/ WriteTimeout(w) \/ PublishFail(w) \/ Crash(w)

Next ==
    \/ \E r \in Row : Enqueue(r) \/ EndProducer(r)
    \/ \E w \in Worker : WorkerStep(w) \/ Fault(w)

(* worker_loop is "while True" around a try: a worker never stops, and the *)
(* event loop runs it. Producers owe nothing.                              *)
Fairness == \A w \in Worker : WF_vars(WorkerStep(w))

Spec == Init /\ [][Next]_vars
FairSpec == Spec /\ Fairness
-----------------------------------------------------------------------------
(* Types of the variables. *)
TypeOK ==
    /\ stage \in [Row -> {"absent", "pending", "committed", "aborted"}]
    /\ stamp \in [Row -> Nat]
    /\ clock \in Nat
    /\ published \subseteq Row
    /\ audits \in [Row -> Nat]
    /\ notified \subseteq Row
    /\ pc \in [Worker -> {"idle", "sleeping", "open", "publishing"}]
    /\ batch \in [Worker -> SUBSET Row]
    /\ marked \in [Worker -> SUBSET Row]
    /\ inserted \in [Worker -> SUBSET Row]
    /\ row \in [Worker -> Row \cup {Nobody}]
    /\ unsent \in [Worker -> SUBSET Channel]
    /\ trying \in [Worker -> Channel \cup {Nobody}]
    /\ attempt \in [Worker -> 0..(MaxRetries - 1)]
    /\ writer \in Row \cup Worker \cup {Nobody}
    /\ sent \in [Row -> [Channel -> Nat]]
    /\ faults \in 0..MaxFaults

(* An activity has at most one audit_log row, however many workers there   *)
(* are and however often they fail (test_outbox_worker.py:132).            *)
AuditedOnce == \A r \in Row : audits[r] <= 1

(* A row gets its published_at exactly together with its audit row and its *)
(* notification, and only when every channel has had the event.            *)
PublishedIsComplete ==
    \A r \in Activities :
        /\ r \in published <=> audits[r] > 0
        /\ r \in published =>
              /\ r \in Targeted => r \in notified
              /\ \A c \in ChannelsOf[r] : sent[r][c] > 0

(* Nobody hears, durably or in real time, of a change that was rolled back *)
(* or is not committed yet.                                                *)
OnlyCommittedIsTold ==
    \A r \in Row :
        (r \in published \/ audits[r] > 0 \/ \E c \in Channel : sent[r][c] > 0)
            => stage[r] = "committed"

(* A channel hears twice of an activity only because something failed: a   *)
(* lost answer, a crash or a rejected row costs at most one repetition.    *)
RepeatsAreFaults ==
    \A r \in Row, c \in Channel : sent[r][c] <= 1 + faults

(* Once a row is marked published nothing is said or written about it. *)
SilentOncePublished ==
    [][\A r \in published : /\ r \in published'
                            /\ sent'[r] = sent[r]
                            /\ audits'[r] = audits[r]]_vars

(* Every committed row is eventually published, through crashes and        *)
(* failures that end.                                                      *)
EventuallyPublished ==
    \A r \in Row : stage[r] = "committed" ~> r \in published
(* The outbox, seen as the delivery it promises. *)
Delivery == INSTANCE ActivityDelivery WITH
    status  <- [r \in Row |-> IF r \in published THEN "settled"
                              ELSE IF stage[r] = "committed" THEN "accepted"
                              ELSE "unknown"],
    audited <- audits,
    inbox   <- notified,
    told    <- [r \in Row |-> {c \in Channel : sent[r][c] > 0}]

(* Row locks make the workers, whatever fails, one reliable delivery. *)
ImplementsDelivery == Delivery!Spec
=============================================================================
