------------------------------ MODULE Sessions ------------------------------
(***************************************************************************)
(* The database session of a request: what it holds, sends and commits     *)
(* (SQLAlchemy's AsyncSession with autoflush and expire_on_commit off,     *)
(* libs/db/session.py), tx_activity and record_activity_with_outbox        *)
(* (libs/core/activity), and the dependencies that a request starts with   *)
(* (apps/api/deps.py).  A script is the sequence of session operations on  *)
(* one path through a handler; a handler is the set of its scripts.        *)
(***************************************************************************)
EXTENDS Naturals, Sequences, FiniteSets, SequencesExt

CONSTANT Handler        \* scripts of each handler, by name

(* What a script is made of.  A row stands for what is written to it; an   *)
(* activity and the row of the outbox that carries it name the rows that   *)
(* they tell of.                                                           *)
Rows(kind, of) == [kind |-> kind, of |-> of]
Written == [kind : {"row", "activity", "outbox", "login"}, of : SUBSET STRING]
Operations ==
    [op : {"look", "flush", "commit", "begin", "end", "crash", "reset"}]
    \cup [op : {"add", "execute"}, row : Written] \cup [op : {"do"}, what : STRING]

ASSUME HandlerAssumption == \A h \in DOMAIN Handler : Handler[h] \subseteq Seq(Operations)

VARIABLES
    dialect,        \* the database that the server was started with
    request,        \* the request being handled: its script and the next operation
    session,        \* transaction, savepoint, rows pending and rows sent
    stored          \* rows of this request that are committed

request_vars == <<dialect, request, session, stored>>

Named(name) == Rows("row", {name})
-----------------------------------------------------------------------------
(* Operations, as handlers of one operation                                *)
Look == {<<[op |-> "look"]>>}               \* a query, or anything else that may raise
Row(name) == {<<[op |-> "add", row |-> Named(name)]>>}
Flush == {<<[op |-> "flush"]>>}
Sql(name) == {<<[op |-> "execute", row |-> Named(name)]>>}
Commit == {<<[op |-> "commit"]>>}
Enter == {<<[op |-> "begin"]>>}
Leave == {<<[op |-> "end"]>>}
Do(what) == {<<[op |-> "do", what |-> what]>>}      \* a call of another service
Crash == {<<[op |-> "crash"]>>}             \* an operation that always raises
reset_session == {<<[op |-> "reset"]>>}

(* Sequential composition, and a part that a path may leave out.           *)
A ** B == {a \o b : a \in A, b \in B}
Maybe(A) == {<<>>} \cup A

(* The row that looks up the idempotency key comes first; the event is     *)
(* built from what the database holds.                                     *)
record_activity(tells) == {<<[op |-> "add", row |-> Rows("activity", tells)]>>} ** Flush
enqueue_outbox(tells) == {<<[op |-> "add", row |-> Rows("outbox", tells)]>>} ** Flush
CommitsItself(tells) ==                                            (* Bug: a commit of its own *)
    Look ** record_activity(tells) ** Look ** enqueue_outbox(tells) ** Commit
record_activity_with_outbox(tells) == Look ** record_activity(tells) ** Look ** enqueue_outbox(tells)

RowsFirst(body, tells) ==                              (* Bug: the activity in a second transaction *)
    Enter ** Look ** body ** Leave ** Enter ** record_activity(tells) ** Look ** enqueue_outbox(tells) ** Leave
tx_activity(body, tells) ==
    Enter ** Look ** body ** record_activity(tells) ** Look ** enqueue_outbox(tells) ** Leave
-----------------------------------------------------------------------------
(* Who asks: a key leaves last_used_at to be written, a token of another   *)
(* provider commits the principal that it maps to, a cookie or the headers *)
(* of development write nothing.                                           *)
Login(name) == {<<[op |-> "add", row |-> Rows("login", {name})]>>}
validate_api_key == Look ** Login("key")
validate_oidc_token == Look
get_or_create_principal_from_oidc ==
    (Look ** Login("mapping") ** Look) \cup (Look ** Login("principal") ** Login("mapping"))
get_authenticated_principal ==
    Maybe(validate_api_key \cup (validate_oidc_token ** get_or_create_principal_from_oidc ** Commit))
get_actor == get_authenticated_principal ** Look
-----------------------------------------------------------------------------
NoRequest == [handler |-> "none", script |-> <<>>, at |-> 0, reply |-> "none"]
Opened == [tx |-> FALSE, point |-> "none", held |-> FALSE, pending |-> {}, sent |-> {}]

RequestInit ==
    /\ dialect \in {"postgres", "sqlite"}
    /\ request = NoRequest /\ session = Opened /\ stored = {}

Running == request.handler # "none" /\ request.reply = "none"
Upcoming(op) == Running /\ request.at < Len(request.script) /\ request.script[request.at + 1].op = op
Operation == request.script[request.at + 1]
Advance == request' = [request EXCEPT !.at = @ + 1]

(* A behaviour is of one request: sessions share nothing but the database, *)
(* and stored is what this one has stored.                                 *)
get_db ==
    /\ request.handler = "none"
    /\ \E h \in DOMAIN Handler : \E script \in Handler[h] :
          request' = [handler |-> h, script |-> script, at |-> 0, reply |-> "none"]
    /\ session' = Opened /\ stored' = {}
    /\ UNCHANGED dialect

(* A query opens the session's transaction; a change of a row does too.    *)
Query ==
    /\ Upcoming("look") /\ Advance
    /\ session' = [session EXCEPT !.tx = TRUE]
    /\ UNCHANGED <<dialect, stored>>

Add ==
    /\ Upcoming("add") /\ Advance
    /\ session' = [session EXCEPT !.tx = TRUE, !.pending = @ \cup {Operation.row}]
    /\ UNCHANGED <<dialect, stored>>

Flushed(s) == [s EXCEPT !.sent = @ \cup s.pending, !.pending = {}]

FlushRows ==
    /\ Upcoming("flush") /\ Advance
    /\ session' = Flushed(session)
    /\ UNCHANGED <<dialect, stored>>

Execute ==
    /\ Upcoming("execute") /\ Advance
    /\ session' = [session EXCEPT !.tx = TRUE, !.sent = @ \cup {Operation.row}]
    /\ UNCHANGED <<dialect, stored>>

Call ==
    /\ Upcoming("do") /\ Advance
    /\ UNCHANGED <<dialect, session, stored>>

CommitAll(s) == stored' = stored \cup Flushed(s).sent /\ session' = Opened

CommitRows ==
    /\ Upcoming("commit") /\ Advance
    /\ CommitAll(session)
    /\ UNCHANGED dialect

Reset ==
    /\ Upcoming("reset") /\ Advance
    /\ session' = Opened
    /\ UNCHANGED <<dialect, stored>>

(* tx_activity opens a savepoint when the session is in a transaction:     *)
(* begin_nested sends what is pending first.                               *)
BeginBlock ==
    /\ Upcoming("begin") /\ Advance
    /\ session' = IF session.tx
                  THEN [Flushed(session) EXCEPT !.point = "savepoint", !.held = Flushed(session).sent # {}]
                  ELSE [session EXCEPT !.tx = TRUE, !.point = "outer"]
    /\ UNCHANGED <<dialect, stored>>

(* The end of the outer block commits.  The release of a savepoint commits *)
(* nothing, except on SQLite when nothing was sent before the savepoint:   *)
(* the driver begins a transaction with the first change of a row, so that *)
(* the savepoint is the transaction.                                       *)
EndBlock ==
    /\ Upcoming("end") /\ Advance
    /\ CASE session.point = "outer" -> CommitAll(session)
         [] session.point = "savepoint" /\ dialect = "sqlite" /\ ~session.held ->
               /\ stored' = stored \cup Flushed(session).sent
               /\ session' = [Opened EXCEPT !.tx = TRUE]
         [] OTHER ->
               /\ session' = [Flushed(session) EXCEPT !.point = "none"]
               /\ UNCHANGED stored
    /\ UNCHANGED dialect

(* Any operation but a change in memory may raise, and the process may     *)
(* stop anywhere: what is not committed is rolled back.                    *)
Raise ==
    /\ Running
    /\ request.at < Len(request.script)
    /\ request' = [request EXCEPT !.reply = "error"]
    /\ session' = Opened
    /\ UNCHANGED <<dialect, stored>>

Reply ==
    /\ Running /\ request.at = Len(request.script)
    /\ request' = [request EXCEPT !.reply = "ok"]
    /\ session' = Opened
    /\ UNCHANGED <<dialect, stored>>

RequestNext ==
    \/ get_db \/ Query \/ Add \/ FlushRows \/ Execute \/ Call \/ CommitRows \/ Reset
    \/ BeginBlock \/ EndBlock \/ Raise \/ Reply

RequestSpec == RequestInit /\ [][RequestNext]_request_vars
-----------------------------------------------------------------------------
(* What a path writes, and where.  A handler that resets the session       *)
(* discards what it wrote until then; the rest is to be kept.              *)
Wrote(script) == {i \in 1..Len(script) : script[i].op \in {"add", "execute"}}
Lasting(script) == {i \in 1..Len(script) : \A j \in i..Len(script) : script[j].op # "reset"}
Writes(script) == {script[i].row : i \in Wrote(script)}
KeptRows(script) == {script[i].row : i \in Wrote(script) \cap Lasting(script)}

(* Whether the session is in a transaction that no block began, once n     *)
(* operations are done: a block within it is a savepoint.                  *)
InTransaction(script, n) ==
    \E k \in 1..n :
        /\ script[k].op \in {"look", "add", "execute"}
        /\ \A i \in 1..k : script[i].op = "begin" => \E j \in i..k : script[j].op = "end"
        /\ \A i \in k..n : script[i].op \notin {"commit", "reset"}

MayCommit(script, i, database) ==
    \/ script[i].op = "commit"
    \/ script[i].op = "end" /\ (database = "sqlite" \/ ~InTransaction(script, i - 1))

(* Of these rows the path commits all at once, or none.                    *)
Together(script, database, rows) ==
    LET writes == {i \in Wrote(script) : script[i].row \in rows}
    IN  /\ \A i, j \in writes \cap Lasting(script) : \A k \in i..j : ~MayCommit(script, k, database)
        /\ \A i \in writes \ Lasting(script) : \E j \in i..Len(script) :
              script[j].op = "reset" /\ \A k \in i..j : ~MayCommit(script, k, database)

Over == request.reply # "none"
=============================================================================
