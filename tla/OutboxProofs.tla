---------------------------- MODULE OutboxProofs ----------------------------
(***************************************************************************)
(* Proofs about Outbox, for any rows, workers, channels, batch size and    *)
(* number of failures.                                                     *)
(*                                                                         *)
(* The argument: what a worker has marked or inserted lies in its batch    *)
(* (TxInv), what it has marked has been heard on every channel (HeardInv), *)
(* committed rows are the only ones to leave a trace (TraceInv), and, with *)
(* row locks, two open batches never meet, nor a batch a published row     *)
(* (LockInv). Only the last part needs PostgreSQL.                         *)
(***************************************************************************)
EXTENDS Outbox, TLAPS

(* An idle worker has no transaction; a publishing one stands at a row of  *)
(* its batch that is inserted and not marked.                              *)
TxInv ==
    \A w \in Worker :
        /\ \A r \in batch[w] : stage[r] = "committed"
        /\ marked[w] \subseteq batch[w]
        /\ inserted[w] \subseteq batch[w] \cap Activities
        /\ pc[w] \in {"idle", "sleeping"} => batch[w] = {}
        /\ pc[w] = "open" => inserted[w] = marked[w] \cap Activities
        /\ pc[w] = "publishing" =>
              /\ row[w] \in Todo(w) \cap inserted[w]
              /\ inserted[w] = (marked[w] \cap Activities) \cup {row[w]}

(* What is marked is heard everywhere; what is not unsent is heard. *)
HeardInv ==
    \A w \in Worker :
        /\ \A r \in marked[w] \cap Activities : \A c \in ChannelsOf[r] : sent[r][c] > 0
        /\ pc[w] = "publishing" =>
              \A c \in ChannelsOf[row[w]] \ unsent[w] : sent[row[w]][c] > 0

(* Row locks: batches are disjoint and hold unpublished rows. *)
LockInv ==
    \A w \in Worker :
        /\ batch[w] \cap published = {}
        /\ \A v \in Worker : v # w => batch[v] \cap batch[w] = {}

(* Audit rows are written once per published activity. *)
OnceInv == \A r \in Row : audits[r] = IF r \in published \cap Activities THEN 1 ELSE 0

-----------------------------------------------------------------------------
(* Typing. TypeOK is not inductive alone: a publishing worker has a row.   *)
TypeInv == TypeOK /\ \A w \in Worker : pc[w] = "publishing" => row[w] \in Row

LEMMA TypeInit == Init => TypeInv
  BY NobodyIsNobody, MaxRetriesIsPos, MaxFaultsIsNat DEF Init, TypeOK, TypeInv

(* A delivered event leaves the counters of the channels numbers. *)
LEMMA HeardType ==
  ASSUME NEW r \in Row, NEW c \in Channel, sent \in [Row -> [Channel -> Nat]]
  PROVE  [sent EXCEPT ![r][c] = @ + 1] \in [Row -> [Channel -> Nat]]
<1>1. sent[r] \in [Channel -> Nat]
  OBVIOUS
<1>2. [sent[r] EXCEPT ![c] = @ + 1] \in [Channel -> Nat]
  BY <1>1
<1>3. QED
  BY <1>2

LEMMA TypeStep == TypeInv /\ [Next]_vars => TypeInv'
<1> SUFFICES ASSUME TypeInv, [Next]_vars PROVE TypeInv'
  OBVIOUS
<1> USE MaxRetriesIsPos, MaxFaultsIsNat DEF TypeInv, TypeOK
<1>1. ASSUME NEW r \in Row, Enqueue(r) PROVE TypeInv'
  BY <1>1 DEF Enqueue, TakeWrite, effects, tx
<1>2. ASSUME NEW r \in Row, EndProducer(r) PROVE TypeInv'
  BY <1>2 DEF EndProducer, ReleaseWrite, effects, tx
<1>3. ASSUME NEW w \in Worker, FetchBatch(w) PROVE TypeInv'
  BY <1>3 DEF FetchBatch, Available, rows, effects
<1>4. ASSUME NEW w \in Worker, FetchNothing(w) \/ Wake(w) PROVE TypeInv'
  BY <1>4 DEF FetchNothing, Wake, rows, effects
<1>5. ASSUME NEW w \in Worker, SkipUnhandled(w) PROVE TypeInv'
  BY <1>5 DEF SkipUnhandled, rows, effects
<1>6. ASSUME NEW w \in Worker, InsertAudit(w) PROVE TypeInv'
  <2>1. PICK r \in Activities \ Malformed :
           /\ row' = [row EXCEPT ![w] = r]
           /\ inserted' = [inserted EXCEPT ![w] = @ \cup {r}]
           /\ unsent' = [unsent EXCEPT ![w] = ChannelsOf[r]]
    BY <1>6 DEF InsertAudit
  <2>2. r \in Row /\ ChannelsOf[r] \in SUBSET Channel
    BY RowKinds, ChannelsOfIsTotal
  <2>3. QED
    BY <1>6, <2>1, <2>2 DEF InsertAudit, TakeWrite, rows, effects
<1>7. ASSUME NEW w \in Worker, PublishOk(w) PROVE TypeInv'
  <2>1. PICK c \in unsent[w] : sent' = [sent EXCEPT ![row[w]][c] = @ + 1]
    BY <1>7 DEF PublishOk
  <2>2. row[w] \in Row /\ c \in Channel
    BY <1>7, <2>1 DEF PublishOk
  <2>3. sent' \in [Row -> [Channel -> Nat]]
    BY <2>1, <2>2, HeardType
  <2>4. QED
    BY <1>7, <2>3 DEF PublishOk, rows, effects
<1>8. ASSUME NEW w \in Worker, MarkPublished(w) PROVE TypeInv'
  BY <1>8 DEF MarkPublished, rows, effects
<1>9. ASSUME NEW w \in Worker, Commit(w) PROVE TypeInv'
  BY <1>9 DEF Commit, PublishedBy, ReleaseWrite, rows
<1>10. ASSUME NEW w \in Worker, RejectMalformed(w) PROVE TypeInv'
  BY <1>10 DEF RejectMalformed, Rollback, ReleaseWrite, rows, effects
<1>11. ASSUME NEW w \in Worker, WriteTimeout(w) PROVE TypeInv'
  BY <1>11 DEF WriteTimeout, Rollback, ReleaseWrite, rows, effects
<1>12. ASSUME NEW w \in Worker, PublishFail(w) PROVE TypeInv'
  <2>1. PICK c \in unsent[w] :
           /\ \/ UNCHANGED sent
              \/ sent' = [sent EXCEPT ![row[w]][c] = @ + 1]
           /\ \/ /\ attempt[w] + 1 < MaxRetries
                 /\ attempt' = [attempt EXCEPT ![w] = @ + 1]
                 /\ trying' = [trying EXCEPT ![w] = c]
                 /\ UNCHANGED <<pc, batch, marked, inserted, row, unsent, writer>>
              \/ Rollback(w, "sleeping")
    BY <1>12 DEF PublishFail, GiveUp
  <2>2. row[w] \in Row /\ c \in Channel
    BY <1>12, <2>1 DEF PublishFail
  <2>3. sent' \in [Row -> [Channel -> Nat]]
    <3>1. CASE UNCHANGED sent
      BY <3>1
    <3>2. CASE sent' = [sent EXCEPT ![row[w]][c] = @ + 1]
      BY <2>2, <3>2, HeardType
    <3>3. QED
      BY <2>1, <3>1, <3>2
  <2>4. faults' \in 0..MaxFaults
    BY <1>12 DEF PublishFail
  <2>5. CASE Rollback(w, "sleeping")
    BY <1>12, <2>3, <2>4, <2>5
       DEF PublishFail, Rollback, ReleaseWrite, rows, effects
  <2>6. CASE /\ attempt[w] + 1 < MaxRetries
             /\ attempt' = [attempt EXCEPT ![w] = @ + 1]
             /\ trying' = [trying EXCEPT ![w] = c]
             /\ UNCHANGED <<pc, batch, marked, inserted, row, unsent, writer>>
    BY <1>12, <2>2, <2>3, <2>4, <2>6 DEF PublishFail, rows, effects
  <2>7. QED
    BY <2>1, <2>5, <2>6
<1>13. ASSUME NEW w \in Worker, Crash(w) PROVE TypeInv'
  BY <1>13 DEF Crash, Rollback, ReleaseWrite, rows, effects
<1>14. CASE UNCHANGED vars
  BY <1>14 DEF vars, rows, effects, tx
<1>15. QED
  BY <1>1, <1>2, <1>3, <1>4, <1>5, <1>6, <1>7, <1>8, <1>9, <1>10, <1>11, <1>12,
     <1>13, <1>14 DEF Next, WorkerStep, Fault

(* The types hold in every reachable state. *)
THEOREM Typing == Spec => []TypeOK
<1>1. TypeInv => TypeOK
  BY DEF TypeInv
<1>2. QED
  BY TypeInit, TypeStep, <1>1, PTL DEF Spec
-----------------------------------------------------------------------------
(* The worker's transaction.                                               *)
LEMMA TxInit == Init => TxInv
  BY DEF Init, TxInv

LEMMA TxStep == TypeInv /\ TxInv /\ [Next]_vars => TxInv'
<1> SUFFICES ASSUME TypeInv, TxInv, [Next]_vars PROVE TxInv'
  OBVIOUS
<1> USE DEF TypeInv, TypeOK, TxInv, Todo
<1>1. ASSUME NEW r \in Row, Enqueue(r) PROVE TxInv'
  BY <1>1 DEF Enqueue, effects, tx
<1>2. ASSUME NEW r \in Row, EndProducer(r) PROVE TxInv'
  BY <1>2 DEF EndProducer, effects, tx
<1>3. ASSUME NEW w \in Worker, FetchBatch(w) PROVE TxInv'
  BY <1>3 DEF FetchBatch, Available, rows, effects
<1>4. ASSUME NEW w \in Worker, FetchNothing(w) \/ Wake(w) PROVE TxInv'
  BY <1>4 DEF FetchNothing, Wake, rows, effects
<1>5. ASSUME NEW w \in Worker, SkipUnhandled(w) PROVE TxInv'
  BY <1>5 DEF SkipUnhandled, IsNext, rows, effects
<1>6. ASSUME NEW w \in Worker, InsertAudit(w) PROVE TxInv'
  BY <1>6 DEF InsertAudit, IsNext, rows, effects
<1>7. ASSUME NEW w \in Worker, PublishOk(w) PROVE TxInv'
  BY <1>7 DEF PublishOk, rows, effects
<1>8. ASSUME NEW w \in Worker, MarkPublished(w) PROVE TxInv'
  BY <1>8 DEF MarkPublished, rows, effects
<1>9. ASSUME NEW w \in Worker, Commit(w) PROVE TxInv'
  BY <1>9 DEF Commit, rows
<1>10. ASSUME NEW w \in Worker, RejectMalformed(w) PROVE TxInv'
  BY <1>10 DEF RejectMalformed, Rollback, rows, effects
<1>11. ASSUME NEW w \in Worker, WriteTimeout(w) PROVE TxInv'
  BY <1>11 DEF WriteTimeout, Rollback, rows, effects
<1>12. ASSUME NEW w \in Worker, PublishFail(w) PROVE TxInv'
  BY <1>12 DEF PublishFail, GiveUp, Rollback, rows, effects
<1>13. ASSUME NEW w \in Worker, Crash(w) PROVE TxInv'
  BY <1>13 DEF Crash, Rollback, rows, effects
<1>14. CASE UNCHANGED vars
  BY <1>14 DEF vars, rows, effects, tx
<1>15. QED
  BY <1>1, <1>2, <1>3, <1>4, <1>5, <1>6, <1>7, <1>8, <1>9, <1>10, <1>11, <1>12,
     <1>13, <1>14 DEF Next, WorkerStep, Fault
-----------------------------------------------------------------------------
(* Nothing of a row that is not committed is told.                         *)
LEMMA ToldInit == Init => OnlyCommittedIsTold
  BY DEF Init, OnlyCommittedIsTold

LEMMA ToldStep ==
  TypeInv /\ TxInv /\ OnlyCommittedIsTold /\ [Next]_vars => OnlyCommittedIsTold'
<1> SUFFICES ASSUME TypeInv, TxInv, OnlyCommittedIsTold, [Next]_vars
             PROVE  OnlyCommittedIsTold'
  OBVIOUS
<1> USE DEF TypeInv, TypeOK, TxInv, Todo, OnlyCommittedIsTold
<1>1. ASSUME NEW r \in Row, Enqueue(r) PROVE OnlyCommittedIsTold'
  BY <1>1 DEF Enqueue, effects, tx
<1>2. ASSUME NEW r \in Row, EndProducer(r) PROVE OnlyCommittedIsTold'
  BY <1>2 DEF EndProducer, effects, tx
<1>3. ASSUME NEW w \in Worker, FetchBatch(w) PROVE OnlyCommittedIsTold'
  BY <1>3 DEF FetchBatch, rows, effects
<1>4. ASSUME NEW w \in Worker, FetchNothing(w) \/ Wake(w) PROVE OnlyCommittedIsTold'
  BY <1>4 DEF FetchNothing, Wake, rows, effects
<1>5. ASSUME NEW w \in Worker, SkipUnhandled(w) PROVE OnlyCommittedIsTold'
  BY <1>5 DEF SkipUnhandled, IsNext, rows, effects
<1>6. ASSUME NEW w \in Worker, InsertAudit(w) PROVE OnlyCommittedIsTold'
  BY <1>6 DEF InsertAudit, IsNext, rows, effects
<1>7. ASSUME NEW w \in Worker, PublishOk(w) PROVE OnlyCommittedIsTold'
  BY <1>7 DEF PublishOk, rows, effects
<1>8. ASSUME NEW w \in Worker, MarkPublished(w) PROVE OnlyCommittedIsTold'
  BY <1>8 DEF MarkPublished, rows, effects
<1>9. ASSUME NEW w \in Worker, Commit(w) PROVE OnlyCommittedIsTold'
  BY <1>9 DEF Commit, PublishedBy, rows
<1>10. ASSUME NEW w \in Worker, RejectMalformed(w) PROVE OnlyCommittedIsTold'
  BY <1>10 DEF RejectMalformed, Rollback, rows, effects
<1>11. ASSUME NEW w \in Worker, WriteTimeout(w) PROVE OnlyCommittedIsTold'
  BY <1>11 DEF WriteTimeout, Rollback, rows, effects
<1>12. ASSUME NEW w \in Worker, PublishFail(w) PROVE OnlyCommittedIsTold'
  BY <1>12 DEF PublishFail, GiveUp, Rollback, rows, effects
<1>13. ASSUME NEW w \in Worker, Crash(w) PROVE OnlyCommittedIsTold'
  BY <1>13 DEF Crash, Rollback, rows, effects
<1>14. CASE UNCHANGED vars
  BY <1>14 DEF vars, rows, effects, tx
<1>15. QED
  BY <1>1, <1>2, <1>3, <1>4, <1>5, <1>6, <1>7, <1>8, <1>9, <1>10, <1>11, <1>12,
     <1>13, <1>14 DEF Next, WorkerStep, Fault

(* Nobody hears of a change that was not committed. *)
THEOREM ToldTheorem == Spec => []OnlyCommittedIsTold
<1>1. Init => TypeInv /\ TxInv /\ OnlyCommittedIsTold
  BY TypeInit, TxInit, ToldInit
<1>2. TypeInv /\ TxInv /\ OnlyCommittedIsTold /\ [Next]_vars
        => (TypeInv /\ TxInv /\ OnlyCommittedIsTold)'
  BY TypeStep, TxStep, ToldStep
<1>3. QED
  BY <1>1, <1>2, PTL DEF Spec

-----------------------------------------------------------------------------
(* What is marked is heard on every channel.                               *)
LEMMA HeardInit == Init => HeardInv
  BY DEF Init, HeardInv

(* A failed attempt takes nothing back, and either goes on or rolls back. *)
LEMMA PublishFailFacts ==
  ASSUME TypeInv, NEW w \in Worker, PublishFail(w)
  PROVE  /\ \A r \in Row, d \in Channel : sent[r][d] > 0 => sent'[r][d] > 0
         /\ UNCHANGED <<rows, effects>>
         /\ \/ UNCHANGED <<pc, batch, marked, inserted, row, unsent>>
            \/ Rollback(w, "sleeping")
<1>1. PICK c \in unsent[w] :
         /\ \/ UNCHANGED sent
            \/ sent' = [sent EXCEPT ![row[w]][c] = @ + 1]
         /\ \/ UNCHANGED <<pc, batch, marked, inserted, row, unsent>>
            \/ Rollback(w, "sleeping")
  BY DEF PublishFail, GiveUp
<1>2. row[w] \in Row /\ c \in Channel
  BY <1>1 DEF PublishFail, TypeInv, TypeOK
<1>3. ASSUME sent' = [sent EXCEPT ![row[w]][c] = @ + 1],
             NEW r \in Row, NEW d \in Channel, sent[r][d] > 0
      PROVE  sent'[r][d] > 0
  <2>1. sent \in [Row -> [Channel -> Nat]]
    BY DEF TypeInv, TypeOK
  <2>2. CASE r = row[w] /\ d = c
    BY <1>2, <1>3, <2>1, <2>2
  <2>3. CASE ~(r = row[w] /\ d = c)
    <3>1. sent'[r][d] = sent[r][d]
      BY <1>2, <1>3, <2>1, <2>3
    <3>2. QED
      BY <1>3, <3>1
  <2>4. QED
    BY <2>2, <2>3
<1>4. UNCHANGED <<rows, effects>>
  BY DEF PublishFail
<1>5. QED
  BY <1>1, <1>3, <1>4

LEMMA HeardStep == TypeInv /\ TxInv /\ HeardInv /\ [Next]_vars => HeardInv'
<1> SUFFICES ASSUME TypeInv, TxInv, HeardInv, [Next]_vars
             PROVE  HeardInv'
  OBVIOUS
<1> USE RowKinds, ChannelsOfIsTotal DEF TypeInv, TypeOK, TxInv, Todo, HeardInv
<1>1. ASSUME NEW r \in Row, Enqueue(r) PROVE HeardInv'
  BY <1>1 DEF Enqueue, effects, tx
<1>2. ASSUME NEW r \in Row, EndProducer(r) PROVE HeardInv'
  BY <1>2 DEF EndProducer, effects, tx
<1>3. ASSUME NEW w \in Worker, FetchBatch(w) PROVE HeardInv'
  BY <1>3 DEF FetchBatch, rows, effects
<1>4. ASSUME NEW w \in Worker, FetchNothing(w) \/ Wake(w) PROVE HeardInv'
  BY <1>4 DEF FetchNothing, Wake, rows, effects
<1>5. ASSUME NEW w \in Worker, SkipUnhandled(w) PROVE HeardInv'
  BY <1>5 DEF SkipUnhandled, IsNext, rows, effects
<1>6. ASSUME NEW w \in Worker, InsertAudit(w) PROVE HeardInv'
  BY <1>6 DEF InsertAudit, IsNext, rows, effects
<1>7. ASSUME NEW w \in Worker, PublishOk(w) PROVE HeardInv'
  BY <1>7 DEF PublishOk, rows, effects
<1>8. ASSUME NEW w \in Worker, MarkPublished(w) PROVE HeardInv'
  BY <1>8 DEF MarkPublished, rows, effects
<1>9. ASSUME NEW w \in Worker, Commit(w) PROVE HeardInv'
  BY <1>9 DEF Commit, PublishedBy, rows
<1>10. ASSUME NEW w \in Worker, RejectMalformed(w) PROVE HeardInv'
  BY <1>10 DEF RejectMalformed, Rollback, rows, effects
<1>11. ASSUME NEW w \in Worker, WriteTimeout(w) PROVE HeardInv'
  BY <1>11 DEF WriteTimeout, Rollback, rows, effects
<1>12. ASSUME NEW w \in Worker, PublishFail(w) PROVE HeardInv'
  <2>1. \A r \in Row, d \in Channel : sent[r][d] > 0 => sent'[r][d] > 0
    BY <1>12, PublishFailFacts
  <2>2. UNCHANGED <<rows, effects>>
    BY <1>12, PublishFailFacts
  <2>3. CASE UNCHANGED <<pc, batch, marked, inserted, row, unsent>>
    BY <2>1, <2>2, <2>3 DEF rows, effects
  <2>4. CASE Rollback(w, "sleeping")
    BY <2>1, <2>2, <2>4 DEF Rollback, rows, effects
  <2>5. QED
    BY <1>12, <2>3, <2>4, PublishFailFacts
<1>13. ASSUME NEW w \in Worker, Crash(w) PROVE HeardInv'
  BY <1>13 DEF Crash, Rollback, rows, effects
<1>14. CASE UNCHANGED vars
  BY <1>14 DEF vars, rows, effects, tx
<1>15. QED
  BY <1>1, <1>2, <1>3, <1>4, <1>5, <1>6, <1>7, <1>8, <1>9, <1>10, <1>11, <1>12,
     <1>13, <1>14 DEF Next, WorkerStep, Fault
-----------------------------------------------------------------------------
(* Published, audited, notified and heard go together.                     *)
CompleteInv == TypeInv /\ TxInv /\ HeardInv /\ PublishedIsComplete

LEMMA CompleteInit == Init => PublishedIsComplete
  BY RowKinds DEF Init, PublishedIsComplete

LEMMA CompleteStep == CompleteInv /\ [Next]_vars => PublishedIsComplete'
<1> SUFFICES ASSUME TypeInv, TxInv, HeardInv, PublishedIsComplete, [Next]_vars
             PROVE  PublishedIsComplete'
  BY DEF CompleteInv
<1> USE RowKinds, ChannelsOfIsTotal
        DEF TypeInv, TypeOK, TxInv, Todo, HeardInv, PublishedIsComplete
<1>1. ASSUME NEW r \in Row, Enqueue(r) PROVE PublishedIsComplete'
  BY <1>1 DEF Enqueue, effects, tx
<1>2. ASSUME NEW r \in Row, EndProducer(r) PROVE PublishedIsComplete'
  BY <1>2 DEF EndProducer, effects, tx
<1>3. ASSUME NEW w \in Worker, FetchBatch(w) PROVE PublishedIsComplete'
  BY <1>3 DEF FetchBatch, rows, effects
<1>4. ASSUME NEW w \in Worker, FetchNothing(w) \/ Wake(w) PROVE PublishedIsComplete'
  BY <1>4 DEF FetchNothing, Wake, rows, effects
<1>5. ASSUME NEW w \in Worker, SkipUnhandled(w) PROVE PublishedIsComplete'
  BY <1>5 DEF SkipUnhandled, IsNext, rows, effects
<1>6. ASSUME NEW w \in Worker, InsertAudit(w) PROVE PublishedIsComplete'
  BY <1>6 DEF InsertAudit, IsNext, rows, effects
<1>7. ASSUME NEW w \in Worker, PublishOk(w) PROVE PublishedIsComplete'
  BY <1>7 DEF PublishOk, rows, effects
<1>8. ASSUME NEW w \in Worker, MarkPublished(w) PROVE PublishedIsComplete'
  BY <1>8 DEF MarkPublished, rows, effects
<1>9. ASSUME NEW w \in Worker, Commit(w) PROVE PublishedIsComplete'
  BY <1>9 DEF Commit, PublishedBy, rows
<1>10. ASSUME NEW w \in Worker, RejectMalformed(w) PROVE PublishedIsComplete'
  BY <1>10 DEF RejectMalformed, Rollback, rows, effects
<1>11. ASSUME NEW w \in Worker, WriteTimeout(w) PROVE PublishedIsComplete'
  BY <1>11 DEF WriteTimeout, Rollback, rows, effects
<1>12. ASSUME NEW w \in Worker, PublishFail(w) PROVE PublishedIsComplete'
  <2>1. \A r \in Row, d \in Channel : sent[r][d] > 0 => sent'[r][d] > 0
    BY <1>12, PublishFailFacts
  <2>2. UNCHANGED <<rows, effects>>
    BY <1>12, PublishFailFacts
  <2>3. CASE UNCHANGED <<pc, batch, marked, inserted, row, unsent>>
    BY <2>1, <2>2, <2>3 DEF rows, effects
  <2>4. CASE Rollback(w, "sleeping")
    BY <2>1, <2>2, <2>4 DEF Rollback, rows, effects
  <2>5. QED
    BY <1>12, <2>3, <2>4, PublishFailFacts
<1>13. ASSUME NEW w \in Worker, Crash(w) PROVE PublishedIsComplete'
  BY <1>13 DEF Crash, Rollback, rows, effects
<1>14. CASE UNCHANGED vars
  BY <1>14 DEF vars, rows, effects, tx
<1>15. QED
  BY <1>1, <1>2, <1>3, <1>4, <1>5, <1>6, <1>7, <1>8, <1>9, <1>10, <1>11, <1>12,
     <1>13, <1>14 DEF Next, WorkerStep, Fault

(* A row is published exactly together with its audit row, its             *)
(* notification and all its real-time events, on either database.          *)
THEOREM CompleteTheorem == Spec => []PublishedIsComplete
<1>1. Init => CompleteInv
  BY TypeInit, TxInit, HeardInit, CompleteInit DEF CompleteInv
<1>2. CompleteInv /\ [Next]_vars => CompleteInv'
  BY TypeStep, TxStep, HeardStep, CompleteStep DEF CompleteInv
<1>3. CompleteInv => PublishedIsComplete
  BY DEF CompleteInv
<1>4. QED
  BY <1>1, <1>2, <1>3, PTL DEF Spec

-----------------------------------------------------------------------------
(* With row locks: no two transactions hold a row, nor a published one.    *)
LEMMA LockInit == Init => LockInv /\ OnceInv
  BY DEF Init, LockInv, OnceInv

LEMMA LockStep ==
  ASSUME ~Sqlite
  PROVE  TypeInv /\ TxInv /\ LockInv /\ [Next]_vars => LockInv'
<1> SUFFICES ASSUME TypeInv, TxInv, LockInv, [Next]_vars
             PROVE  LockInv'
  OBVIOUS
<1> USE ~Sqlite DEF TypeInv, TypeOK, TxInv, Todo, LockInv
<1>1. ASSUME NEW r \in Row, Enqueue(r) PROVE LockInv'
  BY <1>1 DEF Enqueue, effects, tx
<1>2. ASSUME NEW r \in Row, EndProducer(r) PROVE LockInv'
  BY <1>2 DEF EndProducer, effects, tx
<1>3. ASSUME NEW w \in Worker, FetchBatch(w) PROVE LockInv'
  BY <1>3 DEF FetchBatch, Available, Locked, rows, effects
<1>4. ASSUME NEW w \in Worker, FetchNothing(w) \/ Wake(w) PROVE LockInv'
  BY <1>4 DEF FetchNothing, Wake, rows, effects
<1>5. ASSUME NEW w \in Worker, SkipUnhandled(w) PROVE LockInv'
  BY <1>5 DEF SkipUnhandled, IsNext, rows, effects
<1>6. ASSUME NEW w \in Worker, InsertAudit(w) PROVE LockInv'
  BY <1>6 DEF InsertAudit, IsNext, rows, effects
<1>7. ASSUME NEW w \in Worker, PublishOk(w) PROVE LockInv'
  BY <1>7 DEF PublishOk, rows, effects
<1>8. ASSUME NEW w \in Worker, MarkPublished(w) PROVE LockInv'
  BY <1>8 DEF MarkPublished, rows, effects
<1>9. ASSUME NEW w \in Worker, Commit(w) PROVE LockInv'
  BY <1>9 DEF Commit, PublishedBy, rows
<1>10. ASSUME NEW w \in Worker, RejectMalformed(w) PROVE LockInv'
  BY <1>10 DEF RejectMalformed, Rollback, rows, effects
<1>11. ASSUME NEW w \in Worker, WriteTimeout(w) PROVE LockInv'
  BY <1>11 DEF WriteTimeout, Rollback, rows, effects
<1>12. ASSUME NEW w \in Worker, PublishFail(w) PROVE LockInv'
  <2>1. \A r \in Row, d \in Channel : sent[r][d] > 0 => sent'[r][d] > 0
    BY <1>12, PublishFailFacts
  <2>2. UNCHANGED <<rows, effects>>
    BY <1>12, PublishFailFacts
  <2>3. CASE UNCHANGED <<pc, batch, marked, inserted, row, unsent>>
    BY <2>1, <2>2, <2>3 DEF rows, effects
  <2>4. CASE Rollback(w, "sleeping")
    BY <2>1, <2>2, <2>4 DEF Rollback, rows, effects
  <2>5. QED
    BY <1>12, <2>3, <2>4, PublishFailFacts
<1>13. ASSUME NEW w \in Worker, Crash(w) PROVE LockInv'
  BY <1>13 DEF Crash, Rollback, rows, effects
<1>14. CASE UNCHANGED vars
  BY <1>14 DEF vars, rows, effects, tx
<1>15. QED
  BY <1>1, <1>2, <1>3, <1>4, <1>5, <1>6, <1>7, <1>8, <1>9, <1>10, <1>11, <1>12,
     <1>13, <1>14 DEF Next, WorkerStep, Fault

LEMMA OnceStep ==
  ASSUME ~Sqlite
  PROVE  TypeInv /\ TxInv /\ LockInv /\ OnceInv /\ [Next]_vars => OnceInv'
<1> SUFFICES ASSUME TypeInv, TxInv, LockInv, OnceInv, [Next]_vars
             PROVE  OnceInv'
  OBVIOUS
<1> USE ~Sqlite, RowKinds DEF TypeInv, TypeOK, TxInv, Todo, LockInv, OnceInv
<1>1. ASSUME NEW r \in Row, Enqueue(r) PROVE OnceInv'
  BY <1>1 DEF Enqueue, effects, tx
<1>2. ASSUME NEW r \in Row, EndProducer(r) PROVE OnceInv'
  BY <1>2 DEF EndProducer, effects, tx
<1>3. ASSUME NEW w \in Worker, FetchBatch(w) PROVE OnceInv'
  BY <1>3 DEF FetchBatch, rows, effects
<1>4. ASSUME NEW w \in Worker, FetchNothing(w) \/ Wake(w) PROVE OnceInv'
  BY <1>4 DEF FetchNothing, Wake, rows, effects
<1>5. ASSUME NEW w \in Worker, SkipUnhandled(w) PROVE OnceInv'
  BY <1>5 DEF SkipUnhandled, IsNext, rows, effects
<1>6. ASSUME NEW w \in Worker, InsertAudit(w) PROVE OnceInv'
  BY <1>6 DEF InsertAudit, IsNext, rows, effects
<1>7. ASSUME NEW w \in Worker, PublishOk(w) PROVE OnceInv'
  BY <1>7 DEF PublishOk, rows, effects
<1>8. ASSUME NEW w \in Worker, MarkPublished(w) PROVE OnceInv'
  BY <1>8 DEF MarkPublished, rows, effects
<1>9. ASSUME NEW w \in Worker, Commit(w) PROVE OnceInv'
  BY <1>9 DEF Commit, PublishedBy, rows
<1>10. ASSUME NEW w \in Worker, RejectMalformed(w) PROVE OnceInv'
  BY <1>10 DEF RejectMalformed, Rollback, rows, effects
<1>11. ASSUME NEW w \in Worker, WriteTimeout(w) PROVE OnceInv'
  BY <1>11 DEF WriteTimeout, Rollback, rows, effects
<1>12. ASSUME NEW w \in Worker, PublishFail(w) PROVE OnceInv'
  BY <1>12 DEF PublishFail, GiveUp, Rollback, rows, effects
<1>13. ASSUME NEW w \in Worker, Crash(w) PROVE OnceInv'
  BY <1>13 DEF Crash, Rollback, rows, effects
<1>14. CASE UNCHANGED vars
  BY <1>14 DEF vars, rows, effects, tx
<1>15. QED
  BY <1>1, <1>2, <1>3, <1>4, <1>5, <1>6, <1>7, <1>8, <1>9, <1>10, <1>11, <1>12,
     <1>13, <1>14 DEF Next, WorkerStep, Fault

(* On PostgreSQL an activity is never audited twice, however many workers  *)
(* share the outbox and whatever fails.                                    *)
THEOREM AuditedOnceTheorem ==
  ASSUME ~Sqlite
  PROVE  Spec => []AuditedOnce
<1> DEFINE Inv == TypeInv /\ TxInv /\ LockInv /\ OnceInv
<1>1. Init => Inv
  BY TypeInit, TxInit, LockInit
<1>2. Inv /\ [Next]_vars => Inv'
  BY TypeStep, TxStep, LockStep, OnceStep
<1>3. Inv => AuditedOnce
  BY DEF OnceInv, AuditedOnce
<1> HIDE DEF Inv
<1>4. QED
  BY <1>1, <1>2, <1>3, PTL DEF Spec
-----------------------------------------------------------------------------
(* Repetitions. In a transaction that has told c of r, one more event than *)
(* there were failures may have arrived; a rollback turns it into one of   *)
(* the failures.                                                           *)
ToldInTx(r, c) ==
    \E w \in Worker :
        \/ r \in marked[w]
        \/ pc[w] = "publishing" /\ row[w] = r /\ c \notin unsent[w]

RepeatInv ==
    \A r \in Row, c \in Channel :
        \/ sent[r][c] <= faults
        \/ sent[r][c] <= 1 + faults /\ (r \in published \/ ToldInTx(r, c))

LEMMA RepeatInit == Init => RepeatInv
  BY MaxFaultsIsNat DEF Init, RepeatInv

LEMMA RepeatStep ==
  ASSUME ~Sqlite
  PROVE  TypeInv /\ TxInv /\ LockInv /\ RepeatInv /\ [Next]_vars => RepeatInv'
<1> SUFFICES ASSUME TypeInv, TxInv, LockInv, RepeatInv, [Next]_vars
             PROVE  RepeatInv'
  OBVIOUS
<1> USE ~Sqlite, MaxFaultsIsNat
        DEF TypeInv, TypeOK, TxInv, Todo, LockInv, RepeatInv, ToldInTx
<1>1. ASSUME NEW r \in Row, Enqueue(r) PROVE RepeatInv'
  BY <1>1 DEF Enqueue, effects, tx
<1>2. ASSUME NEW r \in Row, EndProducer(r) PROVE RepeatInv'
  BY <1>2 DEF EndProducer, effects, tx
<1>3. ASSUME NEW w \in Worker, FetchBatch(w) PROVE RepeatInv'
  BY <1>3 DEF FetchBatch, rows, effects
<1>4. ASSUME NEW w \in Worker, FetchNothing(w) \/ Wake(w) PROVE RepeatInv'
  BY <1>4 DEF FetchNothing, Wake, rows, effects
<1>5. ASSUME NEW w \in Worker, SkipUnhandled(w) PROVE RepeatInv'
  BY <1>5 DEF SkipUnhandled, IsNext, rows, effects
<1>6. ASSUME NEW w \in Worker, InsertAudit(w) PROVE RepeatInv'
  BY <1>6 DEF InsertAudit, IsNext, rows, effects
<1>7. ASSUME NEW w \in Worker, PublishOk(w) PROVE RepeatInv'
  BY <1>7 DEF PublishOk, rows, effects
<1>8. ASSUME NEW w \in Worker, MarkPublished(w) PROVE RepeatInv'
  BY <1>8 DEF MarkPublished, rows, effects
<1>9. ASSUME NEW w \in Worker, Commit(w) PROVE RepeatInv'
  BY <1>9 DEF Commit, PublishedBy, rows
<1>10. ASSUME NEW w \in Worker, RejectMalformed(w) PROVE RepeatInv'
  BY <1>10 DEF RejectMalformed, Rollback, rows, effects
<1>11. ASSUME NEW w \in Worker, WriteTimeout(w) PROVE RepeatInv'
  BY <1>11 DEF WriteTimeout, CanWrite
<1>12. ASSUME NEW w \in Worker, PublishFail(w) PROVE RepeatInv'
  <2>1. PICK c \in unsent[w] :
           \/ UNCHANGED sent
           \/ sent' = [sent EXCEPT ![row[w]][c] = @ + 1]
    BY <1>12 DEF PublishFail
  <2>2. row[w] \in Row /\ c \in Channel /\ faults' = faults + 1
    BY <1>12, <2>1 DEF PublishFail
  <2>3. sent[row[w]][c] <= faults
    <3>1. row[w] \notin published
      BY <1>12 DEF PublishFail
    <3>2. ~ToldInTx(row[w], c)
      <4>1. row[w] \in batch[w] /\ row[w] \notin marked[w]
        BY <1>12 DEF PublishFail
      <4>2. \A v \in Worker : v # w => row[w] \notin batch[v]
        BY <4>1
      <4>3. \A v \in Worker : v # w => row[w] \notin marked[v]
        BY <4>2
      <4>4. \A v \in Worker : v # w /\ pc[v] = "publishing" => row[v] # row[w]
        BY <4>2
      <4>5. QED
        BY <2>1, <4>1, <4>3, <4>4
    <3>3. QED
      BY <2>2, <3>1, <3>2
  <2>4. ASSUME NEW r \in Row, NEW d \in Channel
        PROVE  sent'[r][d] <= faults'
    <3>1. sent[r][d] <= 1 + faults /\ sent[r][d] \in Nat
      OBVIOUS
    <3>2. CASE sent'[r][d] = sent[r][d]
      BY <2>2, <3>1, <3>2
    <3>3. CASE sent'[r][d] # sent[r][d]
      <4>1. r = row[w] /\ d = c /\ sent'[r][d] = sent[r][d] + 1
        BY <2>1, <2>2, <3>1, <3>3
      <4>2. QED
        BY <2>2, <2>3, <3>1, <4>1
    <3>4. QED
      BY <3>2, <3>3
  <2>5. QED
    BY <2>4
<1>13. ASSUME NEW w \in Worker, Crash(w) PROVE RepeatInv'
  BY <1>13 DEF Crash, Rollback, rows, effects
<1>14. CASE UNCHANGED vars
  BY <1>14 DEF vars, rows, effects, tx
<1>15. QED
  BY <1>1, <1>2, <1>3, <1>4, <1>5, <1>6, <1>7, <1>8, <1>9, <1>10, <1>11, <1>12,
     <1>13, <1>14 DEF Next, WorkerStep, Fault

(* On PostgreSQL a channel hears twice of an activity only for a failure.  *)
THEOREM RepeatTheorem ==
  ASSUME ~Sqlite
  PROVE  Spec => []RepeatsAreFaults
<1> DEFINE Inv == TypeInv /\ TxInv /\ LockInv /\ RepeatInv
<1>1. Init => Inv
  BY TypeInit, TxInit, LockInit, RepeatInit
<1>2. Inv /\ [Next]_vars => Inv'
  BY TypeStep, TxStep, LockStep, RepeatStep
<1>3. Inv => RepeatsAreFaults
  BY MaxFaultsIsNat DEF RepeatInv, RepeatsAreFaults, TypeInv, TypeOK
<1> HIDE DEF Inv
<1>4. QED
  BY <1>1, <1>2, <1>3, PTL DEF Spec
-----------------------------------------------------------------------------
(* A published row is left alone.                                          *)
LEMMA SilentStep ==
  ASSUME ~Sqlite, TypeInv, TxInv, LockInv, [Next]_vars,
         NEW q \in published
  PROVE  q \in published' /\ sent'[q] = sent[q] /\ audits'[q] = audits[q]
<1> DEFINE Silent == q \in published' /\ sent'[q] = sent[q] /\ audits'[q] = audits[q]
<1> SUFFICES Silent
  OBVIOUS
<1> USE DEF TypeInv, TypeOK, TxInv, Todo, LockInv
<1>1. ASSUME NEW r \in Row, Enqueue(r) PROVE Silent
  BY <1>1 DEF Enqueue, effects, tx
<1>2. ASSUME NEW r \in Row, EndProducer(r) PROVE Silent
  BY <1>2 DEF EndProducer, effects, tx
<1>3. ASSUME NEW w \in Worker, FetchBatch(w) PROVE Silent
  BY <1>3 DEF FetchBatch, rows, effects
<1>4. ASSUME NEW w \in Worker, FetchNothing(w) \/ Wake(w) PROVE Silent
  BY <1>4 DEF FetchNothing, Wake, rows, effects
<1>5. ASSUME NEW w \in Worker, SkipUnhandled(w) PROVE Silent
  BY <1>5 DEF SkipUnhandled, IsNext, rows, effects
<1>6. ASSUME NEW w \in Worker, InsertAudit(w) PROVE Silent
  BY <1>6 DEF InsertAudit, IsNext, rows, effects
<1>7. ASSUME NEW w \in Worker, PublishOk(w) PROVE Silent
  BY <1>7 DEF PublishOk, effects
<1>8. ASSUME NEW w \in Worker, MarkPublished(w) PROVE Silent
  BY <1>8 DEF MarkPublished, rows, effects
<1>9. ASSUME NEW w \in Worker, Commit(w) PROVE Silent
  BY <1>9 DEF Commit, PublishedBy, rows
<1>10. ASSUME NEW w \in Worker, RejectMalformed(w) PROVE Silent
  BY <1>10 DEF RejectMalformed, Rollback, rows, effects
<1>11. ASSUME NEW w \in Worker, WriteTimeout(w) PROVE Silent
  BY <1>11 DEF WriteTimeout, Rollback, rows, effects
<1>12. ASSUME NEW w \in Worker, PublishFail(w) PROVE Silent
  BY <1>12 DEF PublishFail, effects
<1>13. ASSUME NEW w \in Worker, Crash(w) PROVE Silent
  BY <1>13 DEF Crash, Rollback, rows, effects
<1>14. CASE UNCHANGED vars
  BY <1>14 DEF vars, rows, effects, tx
<1>15. QED
  BY <1>1, <1>2, <1>3, <1>4, <1>5, <1>6, <1>7, <1>8, <1>9, <1>10, <1>11, <1>12,
     <1>13, <1>14 DEF Next, WorkerStep, Fault

(* On PostgreSQL a published row is never told, audited or opened again. *)
THEOREM SilentTheorem ==
  ASSUME ~Sqlite
  PROVE  Spec => SilentOncePublished
<1> DEFINE Inv == TypeInv /\ TxInv /\ LockInv
<1>1. Init => Inv
  BY TypeInit, TxInit, LockInit
<1>2. Inv /\ [Next]_vars => Inv'
  BY TypeStep, TxStep, LockStep
<1>3. Inv /\ [Next]_vars =>
        [\A r \in published : /\ r \in published'
                              /\ sent'[r] = sent[r]
                              /\ audits'[r] = audits[r]]_vars
  BY SilentStep
<1> HIDE DEF Inv
<1>4. QED
  BY <1>1, <1>2, <1>3, PTL DEF Spec, SilentOncePublished

-----------------------------------------------------------------------------
(* Refinement.                                                             *)

(* Only the channels of a handled row hear of it. *)
AddressInv ==
    /\ \A w \in Worker : pc[w] = "publishing" => unsent[w] \subseteq ChannelsOf[row[w]]
    /\ \A r \in Row, c \in Channel :
          sent[r][c] > 0 => r \in Activities /\ c \in ChannelsOf[r]

LEMMA AddressInit == Init => AddressInv
  BY DEF Init, AddressInv

LEMMA AddressStep == TypeInv /\ TxInv /\ AddressInv /\ [Next]_vars => AddressInv'
<1> SUFFICES ASSUME TypeInv, TxInv, AddressInv, [Next]_vars
             PROVE  AddressInv'
  OBVIOUS
<1> USE RowKinds, ChannelsOfIsTotal DEF TypeInv, TypeOK, TxInv, Todo, AddressInv
<1>1. ASSUME NEW r \in Row, Enqueue(r) PROVE AddressInv'
  BY <1>1 DEF Enqueue, effects, tx
<1>2. ASSUME NEW r \in Row, EndProducer(r) PROVE AddressInv'
  BY <1>2 DEF EndProducer, effects, tx
<1>3. ASSUME NEW w \in Worker, FetchBatch(w) PROVE AddressInv'
  BY <1>3 DEF FetchBatch, rows, effects
<1>4. ASSUME NEW w \in Worker, FetchNothing(w) \/ Wake(w) PROVE AddressInv'
  BY <1>4 DEF FetchNothing, Wake, rows, effects
<1>5. ASSUME NEW w \in Worker, SkipUnhandled(w) PROVE AddressInv'
  BY <1>5 DEF SkipUnhandled, IsNext, rows, effects
<1>6. ASSUME NEW w \in Worker, InsertAudit(w) PROVE AddressInv'
  BY <1>6 DEF InsertAudit, IsNext, rows, effects
<1>7. ASSUME NEW w \in Worker, PublishOk(w) PROVE AddressInv'
  BY <1>7 DEF PublishOk, rows, effects
<1>8. ASSUME NEW w \in Worker, MarkPublished(w) PROVE AddressInv'
  BY <1>8 DEF MarkPublished, rows, effects
<1>9. ASSUME NEW w \in Worker, Commit(w) PROVE AddressInv'
  BY <1>9 DEF Commit, PublishedBy, rows
<1>10. ASSUME NEW w \in Worker, RejectMalformed(w) PROVE AddressInv'
  BY <1>10 DEF RejectMalformed, Rollback, rows, effects
<1>11. ASSUME NEW w \in Worker, WriteTimeout(w) PROVE AddressInv'
  BY <1>11 DEF WriteTimeout, Rollback, rows, effects
<1>12. ASSUME NEW w \in Worker, PublishFail(w) PROVE AddressInv'
  <2>1. PICK c \in unsent[w] :
           \/ UNCHANGED sent
           \/ sent' = [sent EXCEPT ![row[w]][c] = @ + 1]
    BY <1>12 DEF PublishFail
  <2>2. row[w] \in Row /\ c \in Channel
        /\ row[w] \in Activities /\ c \in ChannelsOf[row[w]]
    BY <1>12, <2>1 DEF PublishFail
  <2>3. ASSUME NEW r \in Row, NEW d \in Channel, sent'[r][d] > 0
        PROVE  r \in Activities /\ d \in ChannelsOf[r]
    <3>1. CASE sent'[r][d] = sent[r][d]
      BY <2>3, <3>1
    <3>2. CASE sent'[r][d] # sent[r][d]
      <4>1. r = row[w] /\ d = c
        BY <2>1, <2>2, <3>2
      <4>2. QED
        BY <2>2, <4>1
    <3>3. QED
      BY <3>1, <3>2
  <2>4. CASE UNCHANGED <<pc, batch, marked, inserted, row, unsent>>
    BY <2>3, <2>4
  <2>5. CASE Rollback(w, "sleeping")
    BY <2>3, <2>5 DEF Rollback
  <2>6. QED
    BY <1>12, <2>4, <2>5, PublishFailFacts
<1>13. ASSUME NEW w \in Worker, Crash(w) PROVE AddressInv'
  BY <1>13 DEF Crash, Rollback, rows, effects
<1>14. CASE UNCHANGED vars
  BY <1>14 DEF vars, rows, effects, tx
<1>15. QED
  BY <1>1, <1>2, <1>3, <1>4, <1>5, <1>6, <1>7, <1>8, <1>9, <1>10, <1>11, <1>12,
     <1>13, <1>14 DEF Next, WorkerStep, Fault
RefInv == TypeInv /\ TxInv /\ HeardInv /\ AddressInv /\ LockInv /\ OnlyCommittedIsTold

(* The refinement mapping: status and told of the abstract delivery. *)
Status == [r \in Row |-> IF r \in published THEN "settled"
                         ELSE IF stage[r] = "committed" THEN "accepted"
                         ELSE "unknown"]
Told == [r \in Row |-> {c \in Channel : sent[r][c] > 0}]

LEMMA RefInit == Init => Delivery!Init
<1> SUFFICES ASSUME Init PROVE Delivery!Init
  OBVIOUS
<1>1. Status = [r \in Row |-> "unknown"]
  BY DEF Init, Status
<1>2. Told = [r \in Row |-> {}]
  BY DEF Init, Told
<1>3. QED
  BY <1>1, <1>2 DEF Init, Delivery!Init, Status, Told

(* Steps that neither change a row's fate nor reach a channel stutter. *)
LEMMA RefStutter ==
  ASSUME UNCHANGED <<stage, published, audits, notified, sent>>
  PROVE  UNCHANGED Delivery!vars
BY DEF Delivery!vars

(* One delivered event is one abstract step. *)
LEMMA RefTell ==
  ASSUME RefInv, NEW w \in Worker, pc[w] = "publishing",
         NEW r, r = row[w], NEW c \in unsent[w],
         sent' = [sent EXCEPT ![r][c] = @ + 1],
         UNCHANGED <<stage, published, audits, notified>>
  PROVE  r \in Row /\ c \in Channel /\ Delivery!Tell(r, c)
<1> USE DEF RefInv, TypeInv, TypeOK, TxInv, AddressInv, LockInv, Todo
<1>1. r \in Row /\ c \in Channel /\ r \in Activities /\ c \in ChannelsOf[r]
  OBVIOUS
<1>2. r \notin published /\ stage[r] = "committed"
  OBVIOUS
<1>3. Told' = [Told EXCEPT ![r] = @ \cup {c}]
  <2>1. ASSUME NEW q \in Row, q # r PROVE sent'[q] = sent[q]
    BY <1>1, <2>1
  <2>2. ASSUME NEW d \in Channel, d # c PROVE sent'[r][d] = sent[r][d]
    BY <1>1, <2>2
  <2>3. sent'[r][c] > 0
    BY <1>1
  <2>4. {d \in Channel : sent'[r][d] > 0} = {d \in Channel : sent[r][d] > 0} \cup {c}
    BY <1>1, <2>2, <2>3
  <2>5. ASSUME NEW q \in Row
        PROVE  {d \in Channel : sent'[q][d] > 0}
                 = IF q = r THEN Told[q] \cup {c} ELSE Told[q]
    BY <1>1, <2>1, <2>4 DEF Told
  <2>6. Told' = [q \in Row |-> IF q = r THEN Told[q] \cup {c} ELSE Told[q]]
    BY <2>5 DEF Told
  <2>7. Told = [q \in Row |-> Told[q]]
    BY DEF Told
  <2>8. QED
    BY <1>1, <2>6, <2>7
<1>4. Status[r] = "accepted" /\ Status' = Status
  BY <1>1, <1>2 DEF Status
<1>5. QED
  BY <1>1, <1>3, <1>4 DEF Delivery!Tell, Status, Told
(* A committed batch is settled at once. *)
LEMMA RefSettle ==
  ASSUME RefInv, NEW w \in Worker, Commit(w), NEW S, S = marked[w]
  PROVE  S \in SUBSET Row /\ Delivery!Settle(S)
<1> USE DEF RefInv, TypeInv, TypeOK, TxInv, AddressInv, LockInv, Todo
<1>1. S \subseteq Row /\ S = batch[w] /\ inserted[w] = S \cap Activities
  <2>1. pc[w] = "open" /\ batch[w] \ marked[w] = {}
    BY DEF Commit
  <2>2. marked[w] \subseteq batch[w] /\ batch[w] \subseteq Row
    OBVIOUS
  <2>3. inserted[w] = marked[w] \cap Activities
    BY <2>1
  <2>4. QED
    BY <2>1, <2>2, <2>3
<1>2. ASSUME NEW r \in S
      PROVE  /\ Status[r] = "accepted"
             /\ r \in Activities => Told[r] = ChannelsOf[r]
  <2>1. r \in Row /\ r \notin published /\ stage[r] = "committed"
    BY <1>1
  <2>2. Status[r] = "accepted"
    BY <2>1 DEF Status
  <2>3. ASSUME r \in Activities PROVE Told[r] = ChannelsOf[r]
    <3>1. \A c \in ChannelsOf[r] : c \in Channel /\ sent[r][c] > 0
      BY <2>1, <2>3, ChannelsOfIsTotal DEF HeardInv
    <3>2. \A c \in Channel : sent[r][c] > 0 => c \in ChannelsOf[r]
      BY <2>1
    <3>3. QED
      BY <2>1, <3>1, <3>2 DEF Told
  <2>4. QED
    BY <2>2, <2>3
<1>3. Status' = [r \in Row |-> IF r \in S THEN "settled" ELSE Status[r]]
  BY DEF Commit, PublishedBy, Status, rows
<1>4. audits' = [r \in Row |-> IF r \in S \cap Activities THEN audits[r] + 1
                                                         ELSE audits[r]]
  BY <1>1 DEF Commit
<1>5. notified' = notified \cup (S \cap Activities \cap Targeted)
  BY <1>1 DEF Commit
<1>6. Told' = Told
  BY DEF Commit, Told
<1>7. QED
  BY <1>1, <1>2, <1>3, <1>4, <1>5, <1>6 DEF Delivery!Settle, Status, Told

(* A committed request is accepted; a rolled back one leaves no trace. *)
LEMMA RefEndProducer ==
  ASSUME RefInv, NEW r \in Row, EndProducer(r)
  PROVE  Delivery!Accept(r) \/ UNCHANGED Delivery!vars
<1> USE DEF RefInv, TypeInv, TypeOK, OnlyCommittedIsTold
<1>1. PICK outcome \in {"committed", "aborted"} :
         stage' = [stage EXCEPT ![r] = outcome]
  BY DEF EndProducer
<1>2. stage[r] = "pending" /\ r \notin published
  BY DEF EndProducer
<1>3. UNCHANGED <<effects, sent>>
  BY DEF EndProducer
<1>4. CASE outcome = "committed"
  <2>1. Status' = [Status EXCEPT ![r] = "accepted"] /\ Status[r] = "unknown"
    BY <1>1, <1>2, <1>3, <1>4 DEF Status, effects
  <2>2. QED
    BY <1>3, <2>1 DEF Delivery!Accept, Status, effects
<1>5. CASE outcome = "aborted"
  <2>1. Status' = Status
    BY <1>1, <1>2, <1>3, <1>5 DEF Status, effects
  <2>2. QED
    BY <1>3, <2>1 DEF Delivery!vars, Status, effects
<1>6. QED
  BY <1>1, <1>4, <1>5

LEMMA RefStep ==
  ASSUME ~Sqlite
  PROVE  RefInv /\ [Next]_vars => [Delivery!Next]_(Delivery!vars)
<1> SUFFICES ASSUME RefInv, [Next]_vars
             PROVE  Delivery!Next \/ UNCHANGED Delivery!vars
  OBVIOUS
<1> DEFINE Goal == Delivery!Next \/ UNCHANGED Delivery!vars
<1>1. ASSUME NEW r \in Row, Enqueue(r) PROVE Goal
  <2>1. Status' = Status
    BY <1>1 DEF Enqueue, Status, effects, RefInv, TypeInv, TypeOK
  <2>2. QED
    BY <1>1, <2>1 DEF Enqueue, Status, effects, Delivery!vars
<1>2. ASSUME NEW r \in Row, EndProducer(r) PROVE Goal
  BY <1>2, RefEndProducer DEF Delivery!Next
<1>3. ASSUME NEW w \in Worker,
             \/ FetchBatch(w) \/ FetchNothing(w) \/ Wake(w) \/ SkipUnhandled(w)
             \/ InsertAudit(w) \/ MarkPublished(w) \/ RejectMalformed(w)
             \/ WriteTimeout(w) \/ Crash(w)
      PROVE  Goal
  <2>1. UNCHANGED <<stage, published, audits, notified, sent>>
    BY <1>3 DEF FetchBatch, FetchNothing, Wake, SkipUnhandled, InsertAudit,
                MarkPublished, RejectMalformed, WriteTimeout, Crash, rows, effects
  <2>2. QED
    BY <2>1, RefStutter
<1>4. ASSUME NEW w \in Worker, PublishOk(w) PROVE Goal
  <2>1. PICK r : r = row[w]
    OBVIOUS
  <2>2. PICK c \in unsent[w] : sent' = [sent EXCEPT ![r][c] = @ + 1]
    BY <1>4, <2>1 DEF PublishOk
  <2>3. pc[w] = "publishing" /\ UNCHANGED <<stage, published, audits, notified>>
    BY <1>4 DEF PublishOk, rows, effects
  <2>4. r \in Row /\ c \in Channel /\ Delivery!Tell(r, c)
    BY <2>1, <2>2, <2>3, RefTell
  <2>5. QED
    BY <2>4 DEF Delivery!Next
<1>5. ASSUME NEW w \in Worker, PublishFail(w) PROVE Goal
  <2>1. PICK r : r = row[w]
    OBVIOUS
  <2>2. PICK c \in unsent[w] :
           \/ UNCHANGED sent
           \/ sent' = [sent EXCEPT ![r][c] = @ + 1]
    BY <1>5, <2>1 DEF PublishFail
  <2>3. pc[w] = "publishing" /\ UNCHANGED <<stage, published, audits, notified>>
    BY <1>5 DEF PublishFail, rows, effects
  <2>4. CASE UNCHANGED sent
    BY <2>3, <2>4, RefStutter
  <2>5. CASE sent' = [sent EXCEPT ![r][c] = @ + 1]
    <3>1. r \in Row /\ c \in Channel /\ Delivery!Tell(r, c)
      BY <2>1, <2>2, <2>3, <2>5, RefTell
    <3>2. QED
      BY <3>1 DEF Delivery!Next
  <2>6. QED
    BY <2>2, <2>4, <2>5
<1>6. ASSUME NEW w \in Worker, Commit(w) PROVE Goal
  <2>1. PICK S : S = marked[w]
    OBVIOUS
  <2>2. S \in SUBSET Row /\ Delivery!Settle(S)
    BY <1>6, <2>1, RefSettle
  <2>3. QED
    BY <2>2 DEF Delivery!Next
<1>7. CASE UNCHANGED vars
  BY <1>7, RefStutter DEF vars, rows, effects
<1>8. QED
  BY <1>1, <1>2, <1>3, <1>4, <1>5, <1>6, <1>7 DEF Next, WorkerStep, Fault

(* On PostgreSQL, workers, batches, retries and crashes together implement *)
(* the delivery that settles every activity once.                          *)
THEOREM RefinementTheorem ==
  ASSUME ~Sqlite
  PROVE  Spec => ImplementsDelivery
<1>1. Init => RefInv
  BY TypeInit, TxInit, HeardInit, AddressInit, LockInit, ToldInit DEF RefInv
<1>2. RefInv /\ [Next]_vars => RefInv'
  BY TypeStep, TxStep, HeardStep, AddressStep, LockStep, ToldStep DEF RefInv
<1>3. QED
  BY <1>1, <1>2, RefInit, RefStep, PTL DEF Spec, ImplementsDelivery, Delivery!Spec
=============================================================================
