-------------------------- MODULE BackgroundProofs --------------------------
(***************************************************************************)
(* What holds of the work that goes on behind the requests, for any number *)
(* of runs, graphs, threads, agents and messages.                          *)
(*                                                                         *)
(* The local orchestrator: nodes are executed in dependency order,         *)
(* "completed" means that everything succeeded, and the contract that      *)
(* Orchestrator states is implemented.  The inductive invariant adds to    *)
(* the type invariant what the place of the coroutine (task) says of the   *)
(* run's status, flag and nodes.                                           *)
(*                                                                         *)
(* The flows behind a Prefect server, and the agent process.               *)
(***************************************************************************)
EXTENDS LocalOrchestrator, PrefectAdapter, Agents, FiniteSetTheorems, SequenceTheorems,
        WellFoundedInduction, TLAPS

-----------------------------------------------------------------------------
(* The local orchestrator                                                  *)
Progress == {"todo", "queued", "executing", "ok", "error", "dropped"}

Typed ==
    /\ status \in [Run -> {"unknown", "queued", "running"} \cup Terminal]
    /\ cancelled \in [Run -> BOOLEAN]
    /\ task \in [Run -> {"none", "scheduled", "gather", "returned"}]
    /\ DOMAIN node = Run
    /\ \A r \in Run : node[r] \in [NodesOf(r) -> Progress]
    /\ restarts \in 0..MaxRestarts

PoolBound == Cardinality(Executing) <= MaxWorkers

RunOK(r) ==
    /\ task[r] = "none" => status[r] = "unknown" /\ ~cancelled[r]
    /\ task[r] \in {"none", "scheduled"} => \A n \in NodesOf(r) : node[r][n] = "todo"
    /\ task[r] = "scheduled" => status[r] = IF cancelled[r] THEN "cancelled" ELSE "queued"
    /\ task[r] = "gather" =>
          /\ status[r] = IF cancelled[r] THEN "cancelled" ELSE "running"
          /\ IsAcyclic(r)
          /\ \A n \in NodesOf(r) : node[r][n] # "dropped"
    /\ status[r] = "unknown" => task[r] \in {"none", "returned"}
    /\ \A n \in NodesOf(r) :
          node[r][n] # "todo" => \A u \in GraphOf[r][n] : node[r][u] = "ok"
    /\ status[r] = "completed" =>
          /\ task[r] = "returned"
          /\ ~cancelled[r]
          /\ \A n \in NodesOf(r) : node[r][n] = "ok"

IInv == Typed /\ \A r \in Run : RunOK(r)

-----------------------------------------------------------------------------
(* Facts about a run's graph and its batches.                              *)

LEMMA GraphFacts ==
    ASSUME NEW r \in Run
    PROVE  /\ NodesOf(r) \subseteq Node
           /\ \A n \in NodesOf(r) : GraphOf[r][n] \subseteq NodesOf(r)
<1>1. GraphOf[r] \in UNION {[S -> SUBSET S] : S \in SUBSET Node}
  BY GraphAssumption
<1>2. PICK S \in SUBSET Node : GraphOf[r] \in [S -> SUBSET S]
  BY <1>1
<1> QED  BY <1>2 DEF NodesOf

(* When everything handed out so far has succeeded, the next batch only    *)
(* holds nodes whose upstreams have succeeded, and it is empty only when   *)
(* every node has: an acyclic graph always has a ready node.               *)
LEMMA BatchFacts ==
    ASSUME NEW r \in Run,
           \A n \in NodesOf(r) : node[r][n] \in {"todo", "ok"},
           IsAcyclic(r)
    PROVE  /\ \A n \in NextBatch(r) :
                 /\ n \in NodesOf(r) /\ node[r][n] = "todo"
                 /\ \A u \in GraphOf[r][n] : node[r][u] = "ok"
           /\ NextBatch(r) = {} => \A n \in NodesOf(r) : node[r][n] = "ok"
<1> DEFINE done == {n \in NodesOf(r) : node[r][n] # "todo"}
           todo == NodesOf(r) \ done
<1>0. NextBatch(r) = {n \in todo : GraphOf[r][n] \subseteq done}
  BY DEF NextBatch, UpstreamDone, AllUpstream
<1>1. \A n \in NextBatch(r) :
         /\ n \in NodesOf(r) /\ node[r][n] = "todo"
         /\ \A u \in GraphOf[r][n] : node[r][u] = "ok"
  BY <1>0
<1>2. ASSUME NextBatch(r) = {} PROVE todo = {}
  <2>1. SUFFICES ASSUME todo # {} PROVE FALSE
    OBVIOUS
  <2>2. PICK n \in todo : GraphOf[r][n] \cap todo = {}
    BY <2>1 DEF IsAcyclic
  <2>3. GraphOf[r][n] \subseteq done
    BY <2>2, GraphFacts
  <2> QED  BY <1>0, <1>2, <2>2, <2>3
<1> QED  BY <1>1, <1>2

(* Going on to the next batch, or returning, preserves the invariant.      *)
LEMMA ProceedInv ==
    ASSUME IInv, NEW r \in Run, NEW s \in {"running", "cancelled"},
           Proceed(r, s), UNCHANGED <<cancelled, restarts>>,
           task[r] \in {"scheduled", "gather"},
           s = "running" \/ (cancelled[r] /\ s = "cancelled"),
           IsAcyclic(r),
           \A n \in NodesOf(r) : node[r][n] \in {"todo", "ok"}
    PROVE  IInv'
<1> USE DEF IInv, Typed
<1>1. CASE Return(r, s) /\ cancelled[r]
  <2>1. Typed'
    BY <1>1 DEF Return, Terminal
  <2>2. ASSUME NEW q \in Run PROVE RunOK(q)'
    BY <1>1, <2>2 DEF Return, RunOK, IsAcyclic, NodesOf
  <2> QED  BY <2>1, <2>2
<1>2. CASE Return(r, "completed") /\ ~cancelled[r] /\ NextBatch(r) = {}
  <2>1. Typed'
    BY <1>2 DEF Return, Terminal
  <2>2. ASSUME NEW q \in Run PROVE RunOK(q)'
    BY <1>2, <2>2, BatchFacts DEF Return, RunOK, IsAcyclic, NodesOf
  <2> QED  BY <2>1, <2>2
<1>3. CASE StartBatch(r, s) /\ ~cancelled[r]
  <2>1. node' = [node EXCEPT ![r] =
            [n \in NodesOf(r) |-> IF n \in NextBatch(r) THEN "queued" ELSE node[r][n]]]
    BY <1>3 DEF StartBatch
  <2>2. Typed'
    <3>1. \A q \in Run : node'[q] \in [NodesOf(q) -> Progress]
      <4>1. [n \in NodesOf(r) |-> IF n \in NextBatch(r) THEN "queued" ELSE node[r][n]]
                \in [NodesOf(r) -> Progress]
        BY DEF Progress
      <4> QED  BY <2>1, <4>1
    <3> QED  BY <1>3, <2>1, <3>1 DEF StartBatch, Terminal, NodesOf
  <2>3. ASSUME NEW q \in Run, q # r PROVE RunOK(q)'
    BY <1>3, <2>1, <2>3 DEF StartBatch, RunOK, IsAcyclic, NodesOf
  <2>4. ASSUME NEW n \in NodesOf(r), node'[r][n] # "todo", NEW u \in GraphOf[r][n]
        PROVE  node'[r][u] = "ok"
    <3>1. u \in NodesOf(r) /\ node[r][u] = "ok"
      BY <2>1, <2>4, BatchFacts, GraphFacts DEF RunOK, NodesOf
    <3> QED  BY <2>1, <3>1, BatchFacts
  <2>5. RunOK(r)'
    <3>1. task'[r] = "gather" /\ status'[r] = "running" /\ ~cancelled'[r]
      BY <1>3 DEF StartBatch
    <3>2. IsAcyclic(r)'
      BY DEF IsAcyclic, NodesOf
    <3>3. \A n \in NodesOf(r) : node'[r][n] # "dropped"
      BY <2>1
    <3> QED  BY <2>4, <3>1, <3>2, <3>3 DEF RunOK, NodesOf
  <2> QED  BY <2>2, <2>3, <2>5
<1> QED  BY <1>1, <1>2, <1>3 DEF Proceed, Stops, StopsHere
-----------------------------------------------------------------------------
(* Every step preserves the invariant.                                     *)

LEMMA InitInv == Init => IInv
  BY BoundsAssumption DEF Init, IInv, Typed, RunOK, Progress, NodesOf, Terminal

LEMMA SubmitInv ==
    ASSUME IInv, NEW r \in Run, Submit(r) PROVE IInv'
<1>1. Typed'
  BY DEF IInv, Typed, Submit, Terminal
<1>2. ASSUME NEW q \in Run PROVE RunOK(q)'
  BY <1>2 DEF IInv, Typed, Submit, RunOK, IsAcyclic, NodesOf
<1> QED  BY <1>1, <1>2 DEF IInv

LEMMA BeginInv ==
    ASSUME IInv, NEW r \in Run, Begin(r) PROVE IInv'
<1>1. CASE IsAcyclic(r)
  <2>1. \A n \in NodesOf(r) : node[r][n] \in {"todo", "ok"}
    BY DEF IInv, RunOK, Begin
  <2>2. Proceed(r, "running")
    BY <1>1 DEF Begin
  <2> HIDE DEF IInv
  <2> QED  BY <1>1, <2>1, <2>2, ProceedInv DEF Begin
<1>2. CASE ~IsAcyclic(r)
  <2>1. Typed'
    BY <1>2 DEF IInv, Typed, Begin, Return, Terminal
  <2>2. ASSUME NEW q \in Run PROVE RunOK(q)'
    BY <1>2, <2>2 DEF IInv, Typed, Begin, Return, RunOK, IsAcyclic, NodesOf
  <2> QED  BY <2>1, <2>2 DEF IInv
<1> QED  BY <1>1, <1>2

LEMMA ResumeInv ==
    ASSUME IInv, NEW r \in Run, Resume(r) PROVE IInv'
<1>1. CASE HasError(r)
  <2>1. Typed'
    BY <1>1 DEF IInv, Typed, Resume, FoundError, Return, Terminal
  <2>2. ASSUME NEW q \in Run PROVE RunOK(q)'
    BY <1>1, <2>2 DEF IInv, Typed, Resume, FoundError, Return, RunOK, IsAcyclic, NodesOf
  <2> QED  BY <2>1, <2>2 DEF IInv
<1>2. CASE ~HasError(r)
  <2>1. \A n \in NodesOf(r) : node[r][n] \in {"todo", "ok"}
    BY <1>2 DEF IInv, Typed, RunOK, Resume, BatchSettled, Settled, HasError, Progress
  <2>2. Proceed(r, status[r]) /\ task[r] = "gather"
    BY <1>2 DEF Resume, FoundError
  <2>3. IsAcyclic(r) /\ status[r] = IF cancelled[r] THEN "cancelled" ELSE "running"
    BY <2>2 DEF IInv, RunOK
  <2>4. PICK s \in {"running", "cancelled"} : s = status[r]
    BY <2>3
  <2> QED  BY <2>1, <2>2, <2>3, <2>4, ProceedInv DEF Resume
<1> QED  BY <1>1, <1>2

LEMMA NodeInv ==
    ASSUME IInv, NEW r \in Run, NEW n \in NodesOf(r),
           StartNode(r, n) \/ FinishNode(r, n)
    PROVE  IInv'
<1>1. PICK v \in Progress \ {"todo", "dropped"} : node' = [node EXCEPT ![r][n] = v]
  BY DEF StartNode, FinishNode, Progress
<1>2. node[r][n] \in {"queued", "executing"} /\ UNCHANGED <<status, cancelled, task, restarts>>
  BY DEF StartNode, FinishNode
<1>3. Typed'
  BY <1>1, <1>2 DEF IInv, Typed
<1>4. ASSUME NEW q \in Run PROVE RunOK(q)'
  BY <1>1, <1>2, <1>4, GraphFacts DEF IInv, Typed, RunOK, IsAcyclic, NodesOf
<1> QED  BY <1>3, <1>4 DEF IInv

LEMMA CancelInv ==
    ASSUME IInv, NEW r \in Run, Cancel(r) PROVE IInv'
<1>1. Typed'
  BY DEF IInv, Typed, Cancel, Terminal
<1>2. ASSUME NEW q \in Run PROVE RunOK(q)'
  BY <1>2 DEF IInv, Typed, Cancel, CanCancel, MayCancel, RunOK, IsAcyclic, NodesOf
<1> QED  BY <1>1, <1>2 DEF IInv

LEMMA RestartInv ==
    ASSUME IInv, Restart PROVE IInv'
<1>1. Typed'
  BY BoundsAssumption DEF IInv, Typed, Restart, NodesOf, Progress
<1>2. ASSUME NEW q \in Run PROVE RunOK(q)'
  <2>1. \A n \in NodesOf(q) :
           /\ node[q][n] = "todo" <=> node'[q][n] = "todo"
           /\ node[q][n] = "ok" <=> node'[q][n] = "ok"
    BY DEF Restart
  <2>2. status'[q] = "unknown" /\ cancelled' = cancelled
    BY DEF Restart
  <2>3. task'[q] \in {"none", "returned"} /\ (task'[q] = "none" => task[q] = "none")
    BY DEF Restart
  <2> QED  BY <2>1, <2>2, <2>3, GraphFacts DEF IInv, RunOK, NodesOf
<1> QED  BY <1>1, <1>2 DEF IInv

LEMMA NextInv == IInv /\ [Next]_vars => IInv'
<1> SUFFICES ASSUME IInv, [Next]_vars PROVE IInv'
  OBVIOUS
<1>1. ASSUME NEW r \in Run, Submit(r) \/ Begin(r) \/ Resume(r) \/ Cancel(r) PROVE IInv'
  BY <1>1, SubmitInv, BeginInv, ResumeInv, CancelInv
<1>2. CASE UNCHANGED vars
  <2>1. Typed'
    BY <1>2 DEF IInv, Typed, vars, NodesOf
  <2>2. \A q \in Run : RunOK(q)'
    BY <1>2 DEF IInv, RunOK, vars, IsAcyclic, NodesOf
  <2> QED  BY <2>1, <2>2 DEF IInv
<1> QED  BY <1>1, <1>2, NodeInv, RestartInv DEF Next

(* The invariant holds in every reachable state.                           *)
THEOREM Inductive == Spec => []IInv
<1>1. IInv /\ [Next]_vars => IInv'
  BY NextInv
<1> QED  BY InitInv, <1>1, PTL DEF Spec

-----------------------------------------------------------------------------
(* The pool.  Only StartNode adds an executing node.                       *)

LEMMA ExecutingFinite ==
    IsFiniteSet(Executing) /\ Cardinality(Executing) \in Nat
<1>1. IsFiniteSet(Run \X Node)
  BY BoundsAssumption, FS_Product
<1>2. Executing \subseteq Run \X Node
  BY DEF Executing
<1> QED  BY <1>1, <1>2, FS_Subset, FS_CardinalityType

LEMMA PoolStep ==
    ASSUME IInv, PoolBound, [Next]_vars PROVE PoolBound'
<1> USE DEF PoolBound
<1>1. ASSUME NEW r \in Run, NEW n \in NodesOf(r), StartNode(r, n) PROVE PoolBound'
  <2>1. Executing' \subseteq Executing \cup {<<r, n>>}
    BY <1>1 DEF StartNode, Executing, NodesOf, IInv, Typed
  <2>2. Cardinality(Executing \cup {<<r, n>>}) <= Cardinality(Executing) + 1
    <3>1. Cardinality(Executing \cup {<<r, n>>}) =
             IF <<r, n>> \in Executing THEN Cardinality(Executing) ELSE Cardinality(Executing) + 1
      BY ExecutingFinite, FS_AddElement
    <3>2. Cardinality(Executing) \in Nat
      BY ExecutingFinite
    <3> HIDE DEF PoolBound
    <3> QED  BY <3>1, <3>2
  <2>3. IsFiniteSet(Executing \cup {<<r, n>>})
    BY ExecutingFinite, FS_AddElement
  <2>4. Cardinality(Executing') <= Cardinality(Executing \cup {<<r, n>>})
    BY <2>1, <2>3, FS_Subset
  <2>5. Cardinality(Executing) < MaxWorkers
    BY <1>1 DEF StartNode, HasThread, ThreadIdle
  <2>6. Cardinality(Executing \cup {<<r, n>>}) \in Nat /\ Cardinality(Executing') \in Nat
    BY <2>1, <2>3, FS_Subset, FS_CardinalityType
  <2> QED  BY <2>2, <2>4, <2>5, <2>6, ExecutingFinite, BoundsAssumption
<1>2. ASSUME Executing' \subseteq Executing PROVE PoolBound'
  <2>1. IsFiniteSet(Executing') /\ Cardinality(Executing') <= Cardinality(Executing)
    BY <1>2, ExecutingFinite, FS_Subset
  <2> QED  BY <2>1, ExecutingFinite, FS_CardinalityType, BoundsAssumption
<1>3. ASSUME NEW r \in Run, Return(r, "failed") \/ \E s \in {"running", status[r]} : Proceed(r, s)
      PROVE  Executing' \subseteq Executing
  <2>1. CASE node' = node
    BY <2>1 DEF Executing, NodesOf
  <2>2. CASE node' = [node EXCEPT ![r] =
             [n \in NodesOf(r) |-> IF n \in NextBatch(r) THEN "queued" ELSE node[r][n]]]
    BY <2>2 DEF Executing, NodesOf, IInv, Typed
  <2> QED  BY <1>3, <2>1, <2>2 DEF Proceed, Return, StartBatch
<1>4. ASSUME NEW r \in Run, Submit(r) \/ Cancel(r) PROVE PoolBound'
  BY <1>4, <1>2 DEF Submit, Cancel, Executing, NodesOf
<1>5. ASSUME NEW r \in Run, Begin(r) \/ Resume(r) PROVE PoolBound'
  BY <1>5, <1>2, <1>3 DEF Begin, Resume
<1>6. ASSUME NEW r \in Run, NEW n \in NodesOf(r), FinishNode(r, n) PROVE PoolBound'
  <2>1. Executing' \subseteq Executing
    BY <1>6 DEF FinishNode, Executing, NodesOf, IInv, Typed
  <2> QED  BY <2>1, <1>2
<1>7. CASE Restart
  <2>1. Executing' = {}
    BY <1>7 DEF Restart, Executing, NodesOf
  <2> QED  BY <2>1, <1>2
<1>8. CASE UNCHANGED vars
  BY <1>8, <1>2 DEF vars, Executing, NodesOf
<1> QED  BY <1>1, <1>4, <1>5, <1>6, <1>7, <1>8 DEF Next

-----------------------------------------------------------------------------
(* The pool never executes more nodes than it has threads, and every       *)
(* variable keeps its type.                                                *)
THEOREM Typing == Spec => []TypeOK
<1>1. Init => PoolBound
  <2>1. Init => Executing = {}
    BY DEF Init, Executing, NodesOf
  <2> QED  BY <2>1, FS_EmptySet, BoundsAssumption DEF PoolBound
<1>2. IInv /\ PoolBound /\ [Next]_vars => IInv' /\ PoolBound'
  BY NextInv, PoolStep
<1>3. IInv /\ PoolBound => TypeOK
  BY DEF IInv, Typed, PoolBound, TypeOK, Progress
<1> QED  BY InitInv, <1>1, <1>2, <1>3, PTL DEF Spec

(* A node starts only after all its upstream nodes have succeeded,         *)
(* whatever the graph and however the threads interleave.                  *)
THEOREM OrderTheorem == Spec => []DependencyOrder
<1>1. IInv => DependencyOrder
  BY DEF IInv, RunOK, DependencyOrder
<1> QED  BY Inductive, <1>1, PTL

(* A run reported as completed was not cancelled and every one of its      *)
(* nodes has succeeded.                                                    *)
THEOREM CompletedTheorem == Spec => []CompletedMeansAllOk
<1>1. IInv => CompletedMeansAllOk
  BY DEF IInv, RunOK, CompletedMeansAllOk
<1> QED  BY Inductive, <1>1, PTL

(* A run whose cancellation was accepted starts no further node.           *)
THEOREM NoBatchTheorem == Spec => NoBatchAfterCancel
<1>1. ASSUME IInv, [Next]_vars, NEW r \in Run, cancelled[r],
             NEW n \in NodesOf(r), node[r][n] = "todo"
      PROVE  node'[r][n] = "todo"
  <2> USE <1>1 DEF IInv, Typed
  <2>1. ASSUME NEW q \in Run, Submit(q) \/ Cancel(q) PROVE node'[r][n] = "todo"
    BY <2>1 DEF Submit, Cancel
  <2>2. ASSUME NEW q \in Run, Begin(q) \/ Resume(q) PROVE node'[r][n] = "todo"
    <3>1. CASE q = r
      BY <2>2, <3>1 DEF Begin, Resume, Proceed, Return, Stops, StopsHere
    <3>2. CASE q # r
      BY <2>2, <3>2 DEF Begin, Resume, Proceed, Return, StartBatch
    <3> QED  BY <3>1, <3>2
  <2>3. ASSUME NEW q \in Run, NEW k \in NodesOf(q), StartNode(q, k) \/ FinishNode(q, k)
        PROVE  node'[r][n] = "todo"
    BY <2>3 DEF StartNode, FinishNode
  <2>4. CASE Restart
    BY <2>4 DEF Restart
  <2>5. CASE UNCHANGED vars
    BY <2>5 DEF vars
  <2> QED  BY <2>1, <2>2, <2>3, <2>4, <2>5 DEF Next
<1>2. IInv /\ [Next]_vars =>
        [\A r \in Run : cancelled[r] =>
           \A n \in NodesOf(r) : node[r][n] = "todo" => node'[r][n] = "todo"]_vars
  BY <1>1
<1> QED  BY Inductive, <1>2, PTL DEF Spec, NoBatchAfterCancel

(* No thread, coroutine or cancellation changes the verdict of a run that  *)
(* has completed or failed; only a restart forgets it.                     *)
THEOREM FinalTheorem == Spec => VerdictIsFinal
<1>1. ASSUME IInv, [Next]_vars, NEW r \in Run, status[r] \in {"completed", "failed"}
      PROVE  status'[r] \in {status[r], "unknown"}
  <2> USE <1>1 DEF IInv, Typed
  <2>0. task[r] = "returned"
    BY DEF RunOK
  <2>1. ASSUME NEW q \in Run, Submit(q) \/ Cancel(q) PROVE status'[r] = status[r]
    BY <2>0, <2>1 DEF Submit, Cancel, CanCancel, MayCancel
  <2>2. ASSUME NEW q \in Run, Begin(q) \/ Resume(q) PROVE status'[r] = status[r]
    <3>1. q # r
      BY <2>0, <2>2 DEF Begin, Resume
    <3> QED  BY <2>2, <3>1 DEF Begin, Resume, Proceed, Return, StartBatch
  <2>3. ASSUME NEW q \in Run, NEW k \in NodesOf(q), StartNode(q, k) \/ FinishNode(q, k)
        PROVE  status'[r] = status[r]
    BY <2>3 DEF StartNode, FinishNode
  <2>4. CASE Restart
    BY <2>4 DEF Restart
  <2>5. CASE UNCHANGED vars
    BY <2>5 DEF vars
  <2> QED  BY <2>1, <2>2, <2>3, <2>4, <2>5 DEF Next
<1>2. IInv /\ [Next]_vars =>
        [\A r \in Run : status[r] \in {"completed", "failed"} =>
           status'[r] \in {status[r], "unknown"}]_vars
  BY <1>1
<1> QED  BY Inductive, <1>2, PTL DEF Spec, VerdictIsFinal

-----------------------------------------------------------------------------
(* Every behaviour of the orchestrator is one that Orchestrator allows:    *)
(* the coroutine's steps map to Begin, Succeed, Fail or to a stutter.      *)

HasBegun == {r \in Run : task[r] \in {"gather", "returned"}}

LEMMA SubmitRefines ==
    ASSUME IInv, NEW r \in Run, Submit(r) PROVE Contract!Submit(r)
<1>1. HasBegun' = HasBegun /\ r \notin HasBegun
  BY DEF IInv, Typed, Submit, HasBegun
<1> QED  BY <1>1 DEF IInv, Typed, RunOK, Submit, Contract!Submit, HasBegun

LEMMA BeginRefines ==
    ASSUME IInv, NEW r \in Run, Begin(r) PROVE Contract!Begin(r)
<1>1. PICK s \in {"running", "failed", "completed"} :
         /\ status' = [status EXCEPT ![r] = s]
         /\ cancelled[r] => s # "completed"
  <2>1. CASE Return(r, "failed")
    BY <2>1 DEF Return
  <2>2. CASE Proceed(r, "running")
    <3>1. CASE cancelled[r]
      BY <2>2, <3>1 DEF Proceed, Return, Stops, StopsHere
    <3>2. CASE ~cancelled[r]
      BY <2>2, <3>2 DEF Proceed, Return, StartBatch
    <3> QED  BY <3>1, <3>2
  <2> QED  BY <2>1, <2>2 DEF Begin
<1>2. PICK t \in {"gather", "returned"} : task' = [task EXCEPT ![r] = t]
  BY DEF Begin, Proceed, Return, StartBatch
<1>3. HasBegun' = HasBegun \cup {r} /\ r \notin HasBegun
  BY <1>2 DEF IInv, Typed, HasBegun, Begin
<1>4. status[r] \in {"queued", "cancelled"}
  BY DEF IInv, RunOK, Begin
<1> QED  BY <1>1, <1>3, <1>4 DEF Begin, Contract!Begin, HasBegun, IInv, Typed

LEMMA ResumeRefines ==
    ASSUME IInv, NEW r \in Run, Resume(r)
    PROVE  \/ Contract!Succeed(r) \/ Contract!Fail(r)
           \/ UNCHANGED <<status, cancelled, HasBegun>>
<1>0. cancelled' = cancelled
  BY DEF Resume
<1>1. PICK t \in {"gather", "returned"} : task' = [task EXCEPT ![r] = t]
  BY DEF Resume, Proceed, Return, StartBatch
<1>2. HasBegun' = HasBegun /\ r \in HasBegun
  BY <1>1 DEF HasBegun, Resume, IInv, Typed
<1>3. status[r] = IF cancelled[r] THEN "cancelled" ELSE "running"
  BY DEF IInv, RunOK, Resume
<1>4. CASE Return(r, "failed")
  BY <1>0, <1>2, <1>3, <1>4 DEF Return, Contract!Fail, HasBegun
<1>5. CASE Proceed(r, status[r])
  <2>1. CASE status' = [status EXCEPT ![r] = status[r]]
    BY <2>1, <1>0, <1>2 DEF IInv, Typed
  <2>2. CASE ~cancelled[r] /\ status' = [status EXCEPT ![r] = "completed"]
    BY <2>2, <1>0, <1>2, <1>3 DEF Contract!Succeed, HasBegun
  <2> QED  BY <1>5, <2>1, <2>2 DEF Proceed, Return, StartBatch, Stops, StopsHere
<1> QED  BY <1>4, <1>5 DEF Resume

LEMMA RestartRefines ==
    ASSUME IInv, Restart PROVE Contract!Lose
<1>1. status' = [r \in Run |-> "unknown"] /\ cancelled' = cancelled
  BY DEF Restart
<1>2. HasBegun' = HasBegun \cup {r \in Run : status[r] # "unknown"}
  BY DEF Restart, IInv, Typed, RunOK, HasBegun
<1> QED  BY <1>1, <1>2 DEF Contract!Lose, HasBegun

(* The in-process orchestrator implements the contract on which            *)
(* PipelineRuns builds.                                                    *)
THEOREM RefinementTheorem == Spec => ImplementsContract
<1>1. Init => Contract!Init
  BY DEF Init, Contract!Init
<1>2. IInv /\ [Next]_vars => [Contract!Next]_(Contract!vars)
  <2> SUFFICES ASSUME IInv, [Next]_vars PROVE [Contract!Next]_(Contract!vars)
    OBVIOUS
  <2>1. ASSUME NEW r \in Run, Submit(r) PROVE Contract!Next
    BY <2>1, SubmitRefines DEF Contract!Next
  <2>2. ASSUME NEW r \in Run, Begin(r) PROVE Contract!Next
    BY <2>2, BeginRefines DEF Contract!Next
  <2>3. ASSUME NEW r \in Run, Resume(r) PROVE [Contract!Next]_(Contract!vars)
    BY <2>3, ResumeRefines DEF Contract!Next, Contract!vars, HasBegun
  <2>4. ASSUME NEW r \in Run, Cancel(r) PROVE Contract!Next
    <3>1. Contract!Cancel(r)
      BY <2>4 DEF Cancel, CanCancel, MayCancel, Contract!Cancel
    <3> QED  BY <3>1 DEF Contract!Next
  <2>5. ASSUME NEW r \in Run, NEW n \in NodesOf(r), StartNode(r, n) \/ FinishNode(r, n)
        PROVE  UNCHANGED Contract!vars
    BY <2>5 DEF StartNode, FinishNode, Contract!vars
  <2>6. CASE Restart
    BY <2>6, RestartRefines DEF Contract!Next
  <2>7. CASE UNCHANGED vars
    BY <2>7 DEF vars, Contract!vars
  <2> QED  BY <2>1, <2>2, <2>3, <2>4, <2>5, <2>6, <2>7 DEF Next
<1> QED  BY Inductive, <1>1, <1>2, PTL DEF Spec, ImplementsContract, Contract!Spec

-----------------------------------------------------------------------------
(* The flows of Prefect                                                    *)
Callers == {"none", "waiting", "answered", "raised", "lost"}
StageStates == {"todo", "submitted", "ok", "error", "lost"}
Deployments == {"none", "local", "prefect", "deleted"}

PrefectTypes ==
    /\ deployment \in [Job -> Deployments]
    /\ caller \in [Job -> Callers]
    /\ flow \in [Job -> FlowStates \cup {"none"}]
    /\ DOMAIN stages = Job
    /\ \A j \in Job : stages[j] \in [Graph(j) -> StageStates]

(* A run that is not a deployment's: its graph is the one that was asked   *)
(* for, sorted before anything of it is submitted; a node is touched when  *)
(* its upstreams have succeeded, and the flow is completed when all have.  *)
Submitted(j) ==
    /\ caller[j] \in {"none", "raised"} => flow[j] = "none" /\ Graph(j) = {}
    /\ caller[j] = "waiting" => flow[j] = "RUNNING" /\ Graph(j) = DOMAIN Needs[j] /\ Sorted(j)
    /\ caller[j] = "lost" => flow[j] \in {"RUNNING", "CRASHED"}
    /\ caller[j] = "answered" => flow[j] \in {"COMPLETED", "FAILED", "CANCELLED"}
    /\ flow[j] = "COMPLETED" => \A n \in DOMAIN Needs[j] : n \in Graph(j) /\ stages[j][n] = "ok"

InOrder(j) ==
    \A n \in Graph(j) : stages[j][n] # "todo" =>
        \A u \in Needs[j][n] : u \in Graph(j) /\ stages[j][u] = "ok"

PrefectInv == \A j \in Job : deployment[j] = "none" => Submitted(j) /\ InOrder(j)

LEMMA NeedsWithin ==
    ASSUME NEW j \in Job
    PROVE  Needs[j] \in [DOMAIN Needs[j] -> SUBSET DOMAIN Needs[j]]
BY PrefectAssumption

(* Batch by batch a graph that can be sorted is worked off: as long as     *)
(* something is to do, something may be submitted.                         *)
LEMMA SomethingIsNext ==
    ASSUME NEW j \in Job, Graph(j) = DOMAIN Needs[j], Sorted(j), AllOk(j), NextStages(j) = {}
    PROVE  \A n \in DOMAIN Needs[j] : stages[j][n] = "ok"
<1> DEFINE todo == {n \in DOMAIN Needs[j] : stages[j][n] = "todo"}
<1>1. SUFFICES ASSUME todo # {} PROVE FALSE
  BY DEF AllOk
<1>2. PICK n \in todo : Needs[j][n] \cap todo = {}
  BY <1>1 DEF Sorted
<1>3. \A u \in Needs[j][n] : stages[j][u] = "ok"
  BY <1>2, NeedsWithin DEF AllOk
<1> QED  BY <1>2, <1>3 DEF NextStages

LEMMA PrefectTypeStep == PrefectTypes /\ [PrefectNext]_prefect_vars => PrefectTypes'
<1> SUFFICES ASSUME PrefectTypes, [PrefectNext]_prefect_vars PROVE PrefectTypes'
  OBVIOUS
<1>0. \A j \in Job : [n \in DOMAIN Needs[j] |-> "todo"] \in [DOMAIN Needs[j] -> StageStates]
  BY DEF StageStates
<1>1. ASSUME NEW j \in Job, submit_run(j) PROVE PrefectTypes'
  BY <1>1, <1>0 DEF submit_run, Submits, Ends, PrefectTypes, Graph, FlowStates, Callers
<1>2. ASSUME NEW j \in Job, orchestration_flow(j) PROVE PrefectTypes'
  BY <1>2 DEF orchestration_flow, Ends, PrefectTypes, Graph, FlowStates, Callers, StageStates
<1>3. ASSUME NEW j \in Job, flow_fails(j) PROVE PrefectTypes'
  BY <1>3 DEF flow_fails, Ends, PrefectTypes, Graph, FlowStates, Callers
<1>4. ASSUME NEW j \in Job, cancel_run(j) PROVE PrefectTypes'
  BY <1>4 DEF cancel_run, PrefectTypes, Graph, FlowStates
<1>5. ASSUME NEW j \in Job, create_deployment(j) \/ delete_deployment(j) PROVE PrefectTypes'
  BY <1>5 DEF create_deployment, delete_deployment, PrefectTypes, Graph, Deployments
<1>6. ASSUME NEW j \in Job, trigger_deployment(j) PROVE PrefectTypes'
  <2>1. CASE Submits(j, Graphless) /\ UNCHANGED deployment
    <3>1. \A k \in Job : stages'[k] = stages[k] \/ stages'[k] = Graphless
      BY <2>1 DEF Submits, PrefectTypes
    <3>2. Graphless \in [DOMAIN Graphless -> StageStates]
      BY DEF Graphless
    <3>3. DOMAIN stages' = Job /\ \A k \in Job : stages'[k] \in [Graph(k)' -> StageStates]
      BY <2>1, <3>1, <3>2 DEF Submits, PrefectTypes, Graph
    <3> QED  BY <2>1, <3>3 DEF Submits, Ends, PrefectTypes, FlowStates, Callers
  <2>2. CASE UNCHANGED <<deployment, stages>>
    BY <2>2, <1>6 DEF trigger_deployment, Submits, Ends, PrefectTypes, Graph, FlowStates, Callers
  <2> QED  BY <2>1, <2>2, <1>6 DEF trigger_deployment
<1>7. ASSUME NEW j \in Job, instance_flow(j) PROVE PrefectTypes'
  BY <1>7 DEF instance_flow, PrefectTypes, Graph, FlowStates
<1>8. ASSUME NEW j \in Job, NEW n \in Graph(j), run_node_task(j, n) PROVE PrefectTypes'
  BY <1>8 DEF run_node_task, PrefectTypes, Graph, StageStates
<1>9. ASSUME Stop PROVE PrefectTypes'
  BY <1>9 DEF Stop, PrefectTypes, Graph, FlowStates, Callers, StageStates
<1>10. CASE UNCHANGED prefect_vars
  BY <1>10 DEF prefect_vars, PrefectTypes, Graph
<1> QED
  BY <1>1, <1>2, <1>3, <1>4, <1>5, <1>6, <1>7, <1>8, <1>9, <1>10 DEF PrefectNext

(* What the invariant says of a run changes only with the run.             *)
LEMMA PrefectFrame ==
    ASSUME NEW i \in Job, deployment[i] = "none" => Submitted(i) /\ InOrder(i),
           deployment'[i] = deployment[i], caller'[i] = caller[i],
           flow'[i] = flow[i], stages'[i] = stages[i]
    PROVE  deployment'[i] = "none" => Submitted(i)' /\ InOrder(i)'
BY DEF Submitted, InOrder, Graph, Sorted

LEMMA PrefectStep == PrefectTypes /\ PrefectInv /\ [PrefectNext]_prefect_vars => PrefectInv'
<1> SUFFICES ASSUME PrefectTypes, PrefectInv, [PrefectNext]_prefect_vars, NEW i \in Job
             PROVE  deployment'[i] = "none" => Submitted(i)' /\ InOrder(i)'
  BY DEF PrefectInv
<1> DEFINE Goal == deployment'[i] = "none" => Submitted(i)' /\ InOrder(i)'
           Same == /\ deployment'[i] = deployment[i] /\ caller'[i] = caller[i]
                   /\ flow'[i] = flow[i] /\ stages'[i] = stages[i]
<1>0. deployment[i] = "none" => Submitted(i) /\ InOrder(i)
  BY DEF PrefectInv
<1>s. Same => Goal
  BY <1>0, PrefectFrame
<1>1. ASSUME NEW j \in Job, submit_run(j) PROVE Goal
  <2>1. CASE i # j
    BY <2>1, <1>1, <1>s DEF submit_run, Submits, Ends, PrefectTypes
  <2>2. CASE i = j
    <3>0. flow[i] = "none" /\ Graph(i) = {} /\ deployment'[i] = "none"
      BY <2>2, <1>1, <1>0 DEF submit_run, Submitted
    <3>1. CASE ~installed
      BY <2>2, <1>1, <3>0, <3>1 DEF submit_run, Submits, Submitted, InOrder, Graph, PrefectTypes
    <3>2. CASE installed
      <4>1. Graph(i)' = DOMAIN Needs[i] /\ \A n \in DOMAIN Needs[i] : stages'[i][n] = "todo"
        BY <2>2, <1>1, <3>2 DEF submit_run, Submits, Graph, PrefectTypes
      <4>2. InOrder(i)'
        BY <4>1 DEF InOrder
      <4>3. CASE Ends(i, "FAILED")
        BY <4>3, <4>2 DEF Ends, Submitted, PrefectTypes
      <4>4. CASE ~Ends(i, "FAILED")
        <5>1. flow'[i] = "RUNNING" /\ caller'[i] = "waiting"
          BY <4>4, <2>2, <1>1, <3>2 DEF submit_run, Submits, PrefectTypes
        <5>2. Sorted(i)
          <6>1. CASE [n \in DOMAIN Needs[i] |-> "todo"] = Graphless
            BY <6>1 DEF Graphless, Sorted
          <6> QED  BY <6>1, <4>4, <2>2, <1>1, <3>2 DEF submit_run, Submits
        <5> QED  BY <5>1, <5>2, <4>1, <4>2 DEF Submitted, Sorted
      <4> QED  BY <4>3, <4>4
    <3> QED  BY <3>1, <3>2
  <2> QED  BY <2>1, <2>2
<1>2. ASSUME NEW j \in Job, orchestration_flow(j) PROVE Goal
  <2>1. CASE i # j
    BY <2>1, <1>2, <1>s DEF orchestration_flow, Ends, PrefectTypes
  <2>2. CASE i = j
    <3>1. SUFFICES ASSUME deployment[i] = "none" PROVE Submitted(i)' /\ InOrder(i)'
      BY <1>2 DEF orchestration_flow
    <3>2. Graph(i) = DOMAIN Needs[i] /\ Sorted(i) /\ flow[i] = "RUNNING" /\ InOrder(i) /\ AllOk(i)
      BY <1>2, <2>2, <1>0, <3>1 DEF orchestration_flow, Submitted, BatchIsOver
    <3>3. CASE NextStages(i) = {}
      <4>1. \A n \in DOMAIN Needs[i] : stages[i][n] = "ok"
        BY <3>2, <3>3, SomethingIsNext
      <4>2. stages' = stages /\ caller'[i] = "answered" /\ flow'[i] = "COMPLETED"
        BY <1>2, <2>2, <3>3 DEF orchestration_flow, Ends, PrefectTypes
      <4>3. Submitted(i)'
        BY <4>1, <4>2, <3>2 DEF Submitted, Graph
      <4> QED  BY <4>2, <4>3, <3>2 DEF InOrder, Graph
    <3>4. CASE NextStages(i) # {}
      <4>1. /\ caller'[i] = "waiting" /\ flow'[i] = "RUNNING" /\ Graph(i)' = Graph(i)
            /\ \A n \in Graph(i) : stages'[i][n] = IF n \in NextStages(i) THEN "submitted" ELSE stages[i][n]
        BY <1>2, <2>2, <3>4, <3>2 DEF orchestration_flow, PrefectTypes, Graph
      <4>2. Submitted(i)'
        BY <4>1, <3>2 DEF Submitted, Sorted
      <4>3. ASSUME NEW n \in Graph(i), stages'[i][n] # "todo", NEW u \in Needs[i][n]
            PROVE  u \in Graph(i) /\ stages'[i][u] = "ok"
        <5>1. u \in Graph(i) /\ stages[i][u] = "ok"
          <6>1. CASE n \in NextStages(i)
            BY <6>1, <3>2, NeedsWithin DEF NextStages
          <6>2. CASE n \notin NextStages(i)
            BY <6>2, <4>1, <4>3, <3>2 DEF InOrder
          <6> QED  BY <6>1, <6>2
        <5> QED  BY <5>1, <4>1 DEF NextStages
      <4> QED  BY <4>1, <4>2, <4>3 DEF InOrder
    <3> QED  BY <3>3, <3>4
  <2> QED  BY <2>1, <2>2
<1>3. ASSUME NEW j \in Job, flow_fails(j) PROVE Goal
  <2>1. CASE i # j
    BY <2>1, <1>3, <1>s DEF flow_fails, Ends, PrefectTypes
  <2>2. CASE i = j
    BY <2>2, <1>3, <1>0 DEF flow_fails, Ends, PrefectTypes, Submitted, InOrder, Graph
  <2> QED  BY <2>1, <2>2
<1>4. ASSUME NEW j \in Job, cancel_run(j) PROVE Goal
  <2>1. CASE i # j
    BY <2>1, <1>4, <1>s DEF cancel_run, PrefectTypes
  <2>2. CASE i = j
    BY <2>2, <1>4, <1>0 DEF cancel_run, PrefectTypes, Submitted, InOrder, Graph
  <2> QED  BY <2>1, <2>2
<1>5. ASSUME NEW j \in Job, create_deployment(j) \/ delete_deployment(j) PROVE Goal
  <2>1. CASE i # j
    BY <2>1, <1>5, <1>s DEF create_deployment, delete_deployment, PrefectTypes
  <2>2. CASE i = j
    BY <2>2, <1>5 DEF create_deployment, delete_deployment, PrefectTypes
  <2> QED  BY <2>1, <2>2
<1>6. ASSUME NEW j \in Job, trigger_deployment(j) PROVE Goal
  <2>1. CASE i # j
    BY <2>1, <1>6, <1>s DEF trigger_deployment, Submits, Ends, PrefectTypes
  <2>2. CASE i = j
    BY <2>2, <1>6 DEF trigger_deployment
  <2> QED  BY <2>1, <2>2
<1>7. ASSUME NEW j \in Job, instance_flow(j) PROVE Goal
  <2>1. CASE i # j
    BY <2>1, <1>7, <1>s DEF instance_flow, PrefectTypes
  <2>2. CASE i = j
    BY <2>2, <1>7 DEF instance_flow
  <2> QED  BY <2>1, <2>2
<1>8. ASSUME NEW j \in Job, NEW n \in Graph(j), run_node_task(j, n) PROVE Goal
  <2>1. CASE i # j
    BY <2>1, <1>8, <1>s DEF run_node_task, PrefectTypes
  <2>2. CASE i = j
    <3>1. SUFFICES ASSUME deployment[i] = "none" PROVE Submitted(i)' /\ InOrder(i)'
      BY <1>8 DEF run_node_task
    <3>2. Submitted(i) /\ InOrder(i) /\ stages[i][n] = "submitted"
      BY <1>8, <2>2, <1>0, <3>1 DEF run_node_task
    <3>3. /\ caller' = caller /\ flow' = flow /\ Graph(i)' = Graph(i)
          /\ \A k \in Graph(i) : k # n => stages'[i][k] = stages[i][k]
      BY <1>8, <2>2 DEF run_node_task, PrefectTypes, Graph
    <3>4. Submitted(i)'
      BY <3>2, <3>3 DEF Submitted, Sorted
    <3>5. InOrder(i)'
      <4>1. \A k, u : k \in Graph(i) /\ stages[i][k] # "todo" /\ u \in Needs[i][k] => u # n /\ u \in Graph(i)
        BY <3>2 DEF InOrder
      <4>2. \A k \in Graph(i) : stages'[i][k] # "todo" => stages[i][k] # "todo"
        BY <3>2, <3>3
      <4> QED  BY <3>2, <3>3, <4>1, <4>2 DEF InOrder
    <3> QED  BY <3>4, <3>5
  <2> QED  BY <2>1, <2>2
<1>9. ASSUME Stop PROVE Goal
  <2>1. SUFFICES ASSUME deployment[i] = "none" PROVE Submitted(i)' /\ InOrder(i)'
    BY <1>9 DEF Stop
  <2>2. Submitted(i) /\ InOrder(i)
    BY <1>0, <2>1
  <2>3. /\ Graph(i)' = Graph(i)
        /\ \A n \in Graph(i) : stages'[i][n] = IF stages[i][n] = "submitted" THEN "lost" ELSE stages[i][n]
    BY <1>9 DEF Stop, PrefectTypes, Graph
  <2>4. IF caller[i] = "waiting" THEN caller'[i] = "lost" /\ flow'[i] \in {"CRASHED", flow[i]}
        ELSE caller'[i] = caller[i] /\ flow'[i] = flow[i]
    BY <1>9 DEF Stop, PrefectTypes
  <2>5. Submitted(i)'
    BY <2>2, <2>3, <2>4 DEF Submitted, Sorted
  <2> QED  BY <2>2, <2>3, <2>5 DEF InOrder
<1>10. CASE UNCHANGED prefect_vars
  BY <1>10, <1>s DEF prefect_vars
<1> QED
  BY <1>1, <1>2, <1>3, <1>4, <1>5, <1>6, <1>7, <1>8, <1>9, <1>10 DEF PrefectNext

(* A graph that was submitted is reported completed only when each of its  *)
(* nodes has succeeded after its upstreams, and whoever knows the id of a  *)
(* run knows it of a run that is over.                                     *)
THEOREM CompletedIsEarned == PrefectSpec => []SubmittedIsEarned
<1>1. PrefectInit => PrefectTypes /\ PrefectInv
  BY DEF PrefectInit, PrefectTypes, PrefectInv, Submitted, InOrder, Graph, Graphless, Deployments, Callers
<1>2. PrefectTypes /\ PrefectInv /\ [PrefectNext]_prefect_vars => (PrefectTypes /\ PrefectInv)'
  BY PrefectTypeStep, PrefectStep
<1>3. PrefectTypes /\ PrefectInv => SubmittedIsEarned
  BY DEF PrefectTypes, PrefectInv, Submitted, InOrder, SubmittedIsEarned, get_status, _map_prefect_state, FlowStates
<1> QED  BY <1>1, <1>2, <1>3, PTL DEF PrefectSpec

-----------------------------------------------------------------------------
(* The agent process                                                       *)
MessageRow == [sender : Agent \cup {Human}, calls : BOOLEAN, to : Nat,
               state : {"sent", "stored"}, late : SUBSET Agent]

AgentTypes ==
    /\ messages \in Seq(MessageRow)
    /\ cursor \in [Agent -> Nat] /\ tried \in [Agent -> SUBSET Nat] /\ stops \in Nat
    /\ runner \in [left : SUBSET Agent, agent : Agent \cup {Human}, batch : SUBSET Nat,
                   at : {"sleep", "cycle", "handle", "wait", "move"}]

(* A batch holds what is visible behind the cursor of its agent, without a *)
(* gap but for what became visible when it was fetched already.            *)
BatchInv ==
    IF runner.at \in {"sleep", "cycle"} THEN runner.batch = {}
    ELSE LET a == runner.agent
         IN  /\ a \in Agent /\ runner.batch # {}
             /\ \A i \in runner.batch : Stored(i) /\ i > cursor[a]
             /\ \A i \in Dates, k \in runner.batch :
                   Stored(i) /\ a \notin messages[i].late /\ i > cursor[a] /\ i < k => i \in runner.batch
             /\ runner.at \in {"wait", "move"} => First(runner.batch) \in tried[a]

CursorInv == \A a \in Agent : cursor[a] = 0 \/ Stored(cursor[a])

(* An agent answers a message behind its cursor once for each time that a  *)
(* cycle broke off, and once more on the way past it.                      *)
Answers(a, i) == {k \in Dates : messages[k].sender = a /\ messages[k].to = i}
Answered(a, i) ==
    \/ i <= cursor[a]
    \/ runner.agent = a /\ runner.at \in {"wait", "move"} /\ i = First(runner.batch)
AnswersInv ==
    \A a \in Agent, i \in Nat \ {0} :
        Cardinality(Answers(a, i)) <= stops + (IF Answered(a, i) THEN 1 ELSE 0)

TurnInv == BatchInv /\ CursorInv /\ NothingIsSkipped /\ AnswersInv

(* Every set of dates has an earliest one.                                 *)
Less == {ss \in Nat \X Nat : ss[1] < ss[2]}

LEMMA Least ==
    ASSUME NEW S \in SUBSET Nat, S # {}
    PROVE  \E m \in S : \A n \in S : m <= n
<1>1. IsWellFoundedOn(Less, Nat)
  BY NatLessThanWellFounded DEF OpToRel, Less
<1>2. PICK x \in S : \A y \in S : ~(<<y, x>> \in Less)
  BY <1>1, WFMin
<1>3. ASSUME NEW y \in S PROVE x <= y
  <2>1. ~(<<y, x>> \in Less)
    BY <1>2
  <2>2. x \in Nat /\ y \in Nat /\ <<y, x>> \in Nat \X Nat
    OBVIOUS
  <2> QED  BY <2>1, <2>2 DEF Less
<1> QED  BY <1>3

LEMMA FirstIsLeast ==
    ASSUME NEW S \in SUBSET Nat, S # {}
    PROVE  First(S) \in S /\ \A k \in S : First(S) <= k
BY Least DEF First

LEMMA AnswersAreFinite ==
    ASSUME AgentTypes, NEW a, NEW i
    PROVE  IsFiniteSet(Answers(a, i)) /\ Cardinality(Answers(a, i)) \in Nat
<1>1. IsFiniteSet(Dates)
  BY FS_Interval DEF Dates, AgentTypes
<1> QED  BY <1>1, FS_Subset, FS_CardinalityType DEF Answers

LEMMA WrittenFacts ==
    ASSUME AgentTypes, NEW sender \in Agent \cup {Human}, NEW calls \in BOOLEAN, NEW to \in Nat,
           messages' = Written(sender, calls, to)
    PROVE  /\ messages' \in Seq(MessageRow)
           /\ Dates' = Dates \cup {Len(messages) + 1} /\ Len(messages) + 1 \notin Dates
           /\ \A i \in Dates : messages'[i] = messages[i]
           /\ messages'[Len(messages) + 1] =
                [sender |-> sender, calls |-> calls, to |-> to, state |-> "sent", late |-> {}]
<1> DEFINE message == [sender |-> sender, calls |-> calls, to |-> to, state |-> "sent", late |-> {}]
<1>1. message \in MessageRow
  BY DEF MessageRow
<1> HIDE DEF message
<1>2. messages' = Append(messages, message)
  BY DEF Written, message
<1>3. /\ messages' \in Seq(MessageRow) /\ Len(messages') = Len(messages) + 1 /\ Len(messages) \in Nat
      /\ \A i \in 1..Len(messages) : messages'[i] = messages[i]
      /\ messages'[Len(messages) + 1] = message
  BY <1>1, <1>2 DEF AgentTypes
<1> QED  BY <1>3 DEF Dates, message

LEMMA ReplaceFacts ==
    ASSUME NEW S, NEW s \in Seq(S), NEW i \in 1..Len(s), NEW x \in S
    PROVE  /\ [s EXCEPT ![i] = x] \in Seq(S) /\ Len([s EXCEPT ![i] = x]) = Len(s)
           /\ \A k \in 1..Len(s) : [s EXCEPT ![i] = x][k] = IF k = i THEN x ELSE s[k]
  OBVIOUS

LEMMA CommitFacts ==
    ASSUME AgentTypes, NEW i \in Dates, CommitMessage(i)
    PROVE  \E message \in MessageRow :
              /\ messages' = [messages EXCEPT ![i] = message]
              /\ message.state = "stored" /\ message.late = {a \in Agent : Past(a, i)}
              /\ message.sender = messages[i].sender /\ message.to = messages[i].to
<1> DEFINE message == [messages[i] EXCEPT !.state = "stored", !.late = {a \in Agent : Past(a, i)}]
<1>1. messages[i] \in MessageRow
  BY DEF AgentTypes, Dates
<1>2. /\ message \in MessageRow /\ message.state = "stored" /\ message.late = {a \in Agent : Past(a, i)}
      /\ message.sender = messages[i].sender /\ message.to = messages[i].to
  BY <1>1 DEF MessageRow
<1>3. messages' = [messages EXCEPT ![i] = message]
  BY <1>1 DEF CommitMessage, AgentTypes, Dates, MessageRow
<1> HIDE DEF message
<1> QED  BY <1>2, <1>3

LEMMA EditFacts ==
    ASSUME AgentTypes, NEW i \in Dates, edit_message(i)
    PROVE  \E message \in MessageRow :
              /\ messages' = [messages EXCEPT ![i] = message]
              /\ message.state = messages[i].state /\ message.late = messages[i].late
              /\ message.sender = messages[i].sender /\ message.to = messages[i].to
<1> DEFINE message == [messages[i] EXCEPT !.calls = FALSE]
<1>1. messages[i] \in MessageRow
  BY DEF AgentTypes, Dates
<1>2. /\ message \in MessageRow /\ message.state = messages[i].state /\ message.late = messages[i].late
      /\ message.sender = messages[i].sender /\ message.to = messages[i].to
  BY <1>1 DEF MessageRow
<1>3. messages' = [messages EXCEPT ![i] = message]
  BY <1>1 DEF edit_message, AgentTypes, Dates, MessageRow
<1> HIDE DEF message
<1> QED  BY <1>2, <1>3

LEMMA AgentTypeStep == AgentTypes /\ BatchInv /\ [AgentsNext]_agent_vars => AgentTypes'
<1> SUFFICES ASSUME AgentTypes, BatchInv, [AgentsNext]_agent_vars PROVE AgentTypes'
  OBVIOUS
<1>0. ASSUME runner.at \notin {"sleep", "cycle"}
      PROVE  runner.agent \in Agent /\ First(runner.batch) \in Nat
  BY <1>0, FirstIsLeast DEF BatchInv, AgentTypes
<1>1. CASE run_once \/ end_cycle \/ respond_returns
  <2>1. CASE run_once
    BY <2>1 DEF run_once, AgentTypes
  <2>2. CASE end_cycle
    BY <2>2 DEF end_cycle, Asleep, AgentTypes
  <2>3. CASE respond_returns
    BY <2>3 DEF respond_returns, AgentTypes
  <2> QED  BY <1>1, <2>1, <2>2, <2>3
<1>2. CASE _handle_activity
  <2>1. runner.agent \in Agent /\ First(runner.batch) \in Nat /\ runner.at = "handle"
    BY <1>2, <1>0 DEF _handle_activity
  <2>2. tried' \in [Agent -> SUBSET Nat] /\ runner' \in [left : SUBSET Agent, agent : Agent \cup {Human},
            batch : SUBSET Nat, at : {"sleep", "cycle", "handle", "wait", "move"}]
    BY <1>2, <2>1 DEF _handle_activity, AgentTypes
  <2>3. messages' \in Seq(MessageRow)
    <3>1. CASE UNCHANGED messages
      BY <3>1 DEF AgentTypes
    <3>2. CASE ~UNCHANGED messages
      <4>1. PICK calls \in {FALSE, messages[First(runner.batch)].calls} :
               messages' = Written(runner.agent, calls, First(runner.batch))
        BY <3>2, <1>2 DEF _handle_activity
      <4>2. calls \in BOOLEAN
        <5>1. First(runner.batch) \in Dates
          BY <2>1, FirstIsLeast DEF BatchInv, AgentTypes, Stored
        <5>2. messages[First(runner.batch)] \in MessageRow
          BY <5>1 DEF AgentTypes, Dates
        <5> QED  BY <5>2 DEF MessageRow
      <4> QED  BY <4>1, <4>2, <2>1, WrittenFacts
    <3> QED  BY <3>1, <3>2
  <2> QED  BY <1>2, <2>2, <2>3 DEF _handle_activity, AgentTypes
<1>3. CASE full_stop
  BY <1>3, <1>0 DEF full_stop, AgentTypes
<1>4. CASE _update_cursor
  BY <1>4, <1>0 DEF _update_cursor, Done, AgentTypes
<1>5. ASSUME NEW a \in Agent, _process_policy(a) PROVE AgentTypes'
  BY <1>5 DEF _process_policy, _fetch_activities, Behind, Dates, AgentTypes
<1>6. CASE agent_loop
  BY <1>6 DEF agent_loop, Asleep, AgentTypes
<1>7. CASE send_message
  <2>1. PICK calls \in BOOLEAN : messages' = Written(Human, calls, 0)
    BY <1>7 DEF send_message
  <2> QED  BY <1>7, <2>1, WrittenFacts DEF send_message, AgentTypes
<1>8. ASSUME NEW i \in Dates, CommitMessage(i) \/ edit_message(i) PROVE AgentTypes'
  <2>1. PICK message \in MessageRow : messages' = [messages EXCEPT ![i] = message]
    BY <1>8, CommitFacts, EditFacts
  <2>2. messages' \in Seq(MessageRow)
    BY <2>1, ReplaceFacts DEF AgentTypes, Dates
  <2> QED  BY <1>8, <2>2 DEF CommitMessage, edit_message, AgentTypes
<1>9. CASE UNCHANGED agent_vars
  BY <1>9 DEF agent_vars, AgentTypes
<1> QED
  BY <1>1, <1>2, <1>3, <1>4, <1>5, <1>6, <1>7, <1>8, <1>9 DEF AgentsNext, AgentStep

(* A message that is written changes nothing of those before it, and       *)
(* nobody answers it yet.                                                  *)
LEMMA AfterWriting ==
    ASSUME AgentTypes, NEW sender \in Agent \cup {Human}, NEW calls \in BOOLEAN, NEW to \in Nat,
           messages' = Written(sender, calls, to)
    PROVE  /\ \A i : Stored(i)' <=> Stored(i)
           /\ \A i \in Dates' : Stored(i)' => i \in Dates /\ messages'[i] = messages[i]
           /\ \A a, i : Answers(a, i)' = Answers(a, i) \cup
                           (IF a = sender /\ i = to THEN {Len(messages) + 1} ELSE {})
<1> DEFINE new == Len(messages) + 1
<1>1. /\ Dates' = Dates \cup {new} /\ new \notin Dates
      /\ \A i \in Dates : messages'[i] = messages[i]
      /\ messages'[new].state = "sent" /\ messages'[new].sender = sender /\ messages'[new].to = to
  <2>1. /\ Dates' = Dates \cup {new} /\ new \notin Dates
        /\ \A i \in Dates : messages'[i] = messages[i]
        /\ messages'[new] = [sender |-> sender, calls |-> calls, to |-> to, state |-> "sent", late |-> {}]
    BY WrittenFacts
  <2> HIDE DEF new
  <2> QED  BY <2>1
<1> HIDE DEF new
<1>2. \A a, i : Answers(a, i)' = Answers(a, i) \cup (IF a = sender /\ i = to THEN {new} ELSE {})
  BY <1>1 DEF Answers
<1> QED  BY <1>1, <1>2 DEF Stored, new

LEMMA AfterRewriting ==
    ASSUME AgentTypes, NEW i \in Dates, NEW message \in MessageRow,
           messages' = [messages EXCEPT ![i] = message],
           message.sender = messages[i].sender, message.to = messages[i].to
    PROVE  /\ Dates' = Dates /\ \A k \in Dates : messages'[k] = IF k = i THEN message ELSE messages[k]
           /\ \A a, k : Answers(a, k)' = Answers(a, k)
<1>1. Dates' = Dates /\ \A k \in Dates : messages'[k] = IF k = i THEN message ELSE messages[k]
  BY ReplaceFacts DEF AgentTypes, Dates
<1> QED  BY <1>1 DEF Answers

LEMMA TurnStep == AgentTypes /\ TurnInv /\ [AgentsNext]_agent_vars => TurnInv'
<1> SUFFICES ASSUME AgentTypes, BatchInv, CursorInv, NothingIsSkipped, AnswersInv,
                    [AgentsNext]_agent_vars
             PROVE  BatchInv' /\ CursorInv' /\ NothingIsSkipped' /\ AnswersInv'
  BY DEF TurnInv
<1> DEFINE Goal == BatchInv' /\ CursorInv' /\ NothingIsSkipped' /\ AnswersInv'
           i == First(runner.batch)
           b == runner.agent
<1>f. ASSUME runner.at \notin {"sleep", "cycle"}
      PROVE  /\ i \in runner.batch /\ i \in Nat \ {0} /\ Stored(i) /\ i > cursor[b] /\ b \in Agent
             /\ \A k \in runner.batch : i <= k
  <2>1. runner.batch \in SUBSET Nat /\ runner.batch # {} /\ b \in Agent
        /\ \A k \in runner.batch : Stored(k) /\ k > cursor[b]
    BY <1>f DEF BatchInv, AgentTypes
  <2>2. i \in runner.batch /\ \A k \in runner.batch : i <= k
    BY <2>1, FirstIsLeast
  <2> QED  BY <2>1, <2>2 DEF AgentTypes
<1> HIDE DEF i, b
<1>1. CASE run_once
  <2>1. UNCHANGED <<messages, cursor, tried, stops>> /\ runner.at = "sleep" /\ runner'.at = "cycle"
        /\ runner'.batch = runner.batch
    BY <1>1 DEF run_once, AgentTypes
  <2> QED  BY <2>1 DEF BatchInv, CursorInv, NothingIsSkipped, AnswersInv, Answered, Answers, Stored, Dates
<1>2. CASE end_cycle
  <2>1. UNCHANGED <<messages, cursor, tried, stops>> /\ runner.at = "cycle" /\ runner'.at = "sleep"
        /\ runner'.batch = {}
    BY <1>2 DEF end_cycle, Asleep, AgentTypes
  <2> QED  BY <2>1 DEF BatchInv, CursorInv, NothingIsSkipped, AnswersInv, Answered, Answers, Stored, Dates
<1>3. CASE respond_returns
  <2>1. UNCHANGED <<messages, cursor, tried, stops>> /\ runner.at = "wait" /\ runner'.at = "move"
        /\ runner'.batch = runner.batch /\ runner'.agent = runner.agent
    BY <1>3 DEF respond_returns, AgentTypes
  <2> QED  BY <2>1 DEF BatchInv, CursorInv, NothingIsSkipped, AnswersInv, Answered, Answers, Stored, Dates
<1>4. ASSUME NEW a \in Agent, _process_policy(a) PROVE Goal
  <2> DEFINE batch == _fetch_activities(a)
  <2>1. /\ UNCHANGED <<messages, cursor, tried, stops>> /\ runner.at = "cycle"
        /\ runner'.batch = batch /\ runner'.agent = a
        /\ runner'.at = IF batch = {} THEN "cycle" ELSE "handle"
    BY <1>4 DEF _process_policy, AgentTypes
  <2>2. batch \subseteq Behind(a) /\ \A k \in batch, n \in Behind(a) : n < k => n \in batch
    <3> SUFFICES ASSUME NEW k \in batch, NEW n \in Behind(a), n < k PROVE n \in batch
      BY DEF _fetch_activities
    <3>0. Behind(a) \subseteq Nat /\ k \in Nat /\ n \in Nat
      BY DEF Behind, Dates, AgentTypes, _fetch_activities
    <3>1. {x \in Behind(a) : x < n} \subseteq {x \in Behind(a) : x < k}
      BY <3>0
    <3>2. IsFiniteSet({x \in Behind(a) : x < k})
      <4>1. IsFiniteSet(Dates)
        BY FS_Interval DEF Dates, AgentTypes
      <4> QED  BY <4>1, FS_Subset DEF Behind
    <3>3. /\ Cardinality({x \in Behind(a) : x < n}) <= Cardinality({x \in Behind(a) : x < k})
          /\ IsFiniteSet({x \in Behind(a) : x < n})
      BY <3>1, <3>2, FS_Subset
    <3>4. Cardinality({x \in Behind(a) : x < n}) \in Nat /\ Cardinality({x \in Behind(a) : x < k}) \in Nat
      BY <3>2, <3>3, FS_CardinalityType
    <3>5. Cardinality({x \in Behind(a) : x < k}) < batch_size
      BY DEF _fetch_activities
    <3> QED  BY <3>3, <3>4, <3>5, AgentsAssumption DEF _fetch_activities
  <2> HIDE DEF batch
  <2>3. BatchInv'
    BY <2>1, <2>2 DEF BatchInv, Behind, Stored, Dates
  <2> QED  BY <2>1, <2>3 DEF CursorInv, NothingIsSkipped, AnswersInv, Answered, Answers, Stored, Dates
<1>5. CASE _handle_activity \/ full_stop
  <2>1. /\ UNCHANGED <<cursor, stops>> /\ runner.at = "handle" /\ runner'.at \in {"wait", "move"}
        /\ runner'.batch = runner.batch /\ runner'.agent = runner.agent
        /\ tried' = [tried EXCEPT ![b] = @ \cup {i}]
    BY <1>5 DEF _handle_activity, full_stop, AgentTypes, i, b
  <2>2. i \in runner.batch /\ i \in Nat \ {0} /\ Stored(i) /\ i > cursor[b] /\ b \in Agent
    BY <1>f, <2>1
  <2>3. i \in tried'[b] /\ \A a \in Agent : tried[a] \subseteq tried'[a]
    BY <2>1, <2>2 DEF AgentTypes
  <2>4. \/ UNCHANGED messages
        \/ \E calls \in BOOLEAN : messages' = Written(b, calls, i)
    <3>1. CASE _handle_activity
      <4>1. messages[i] \in MessageRow
        BY <2>2 DEF Stored, Dates, AgentTypes
      <4>2. messages[i].calls \in BOOLEAN
        BY <4>1 DEF MessageRow
      <4> QED  BY <3>1, <4>2 DEF _handle_activity, i, b
    <3>2. CASE full_stop
      BY <3>2 DEF full_stop
    <3> QED  BY <1>5, <3>1, <3>2
  <2>5. /\ \A k : Stored(k)' <=> Stored(k)
        /\ \A k \in Dates' : Stored(k)' => k \in Dates /\ messages'[k] = messages[k]
        /\ \A a, k : Answers(a, k)' = Answers(a, k) \/ (a = b /\ k = i /\ \E new :
                        Answers(a, k)' = Answers(a, k) \cup {new})
    <3>1. CASE UNCHANGED messages
      BY <3>1 DEF Stored, Dates, Answers
    <3>2. CASE \E calls \in BOOLEAN : messages' = Written(b, calls, i)
      <4>1. PICK calls \in BOOLEAN : messages' = Written(b, calls, i)
        BY <3>2
      <4>2. /\ \A k : Stored(k)' <=> Stored(k)
            /\ \A k \in Dates' : Stored(k)' => k \in Dates /\ messages'[k] = messages[k]
        BY <4>1, <2>2, AfterWriting
      <4>3. \A a, k : Answers(a, k)' = Answers(a, k) \cup
                         (IF a = b /\ k = i THEN {Len(messages) + 1} ELSE {})
        BY <4>1, <2>2, AfterWriting
      <4>4. \A a, k : Answers(a, k)' = Answers(a, k) \/ (a = b /\ k = i /\
                         Answers(a, k)' = Answers(a, k) \cup {Len(messages) + 1})
        BY <4>3
      <4> QED  BY <4>2, <4>4
    <3> QED  BY <2>4, <3>1, <3>2
  <2>6. BatchInv'
    BY <2>1, <2>2, <2>3, <2>5 DEF BatchInv, i, b
  <2>7. CursorInv' /\ NothingIsSkipped'
    BY <2>1, <2>3, <2>5 DEF CursorInv, NothingIsSkipped, Stored
  <2>8. AnswersInv'
    <3> SUFFICES ASSUME NEW a \in Agent, NEW k \in Nat \ {0}
                 PROVE  Cardinality(Answers(a, k)') <= stops + (IF Answered(a, k)' THEN 1 ELSE 0)
      BY <2>1 DEF AnswersInv
    <3>0. Cardinality(Answers(a, k)) <= stops + (IF Answered(a, k) THEN 1 ELSE 0)
      BY DEF AnswersInv
    <3>1. IsFiniteSet(Answers(a, k)) /\ Cardinality(Answers(a, k)) \in Nat /\ stops \in Nat
      BY AnswersAreFinite DEF AgentTypes
    <3>2. Answered(a, k) => Answered(a, k)'
      BY <2>1 DEF Answered
    <3>3. CASE Answers(a, k)' = Answers(a, k)
      BY <3>0, <3>1, <3>2, <3>3
    <3>4. CASE a = b /\ k = i /\ \E new : Answers(a, k)' = Answers(a, k) \cup {new}
      <4>1. ~Answered(a, k) /\ Answered(a, k)'
        BY <3>4, <2>1, <2>2 DEF Answered, i, b, AgentTypes
      <4>2. PICK new : Answers(a, k)' = Answers(a, k) \cup {new}
        BY <3>4
      <4>3. Cardinality(Answers(a, k)') <= Cardinality(Answers(a, k)) + 1
            /\ Cardinality(Answers(a, k)') \in Nat
        <5>1. /\ IsFiniteSet(Answers(a, k) \cup {new})
              /\ Cardinality(Answers(a, k) \cup {new}) \in {Cardinality(Answers(a, k)), Cardinality(Answers(a, k)) + 1}
          BY <3>1, FS_AddElement
        <5> QED  BY <5>1, <4>2, <3>1
      <4> QED  BY <4>1, <4>3, <3>0, <3>1
    <3> QED  BY <2>5, <3>3, <3>4
  <2> QED  BY <2>6, <2>7, <2>8
<1>6. CASE _update_cursor
  <2>1. /\ UNCHANGED <<messages, tried, stops>> /\ runner.at = "move"
        /\ cursor' = [cursor EXCEPT ![b] = i]
        /\ runner'.batch = runner.batch \ {i} /\ runner'.agent = b
        /\ runner'.at = IF runner'.batch = {} THEN "cycle" ELSE "handle"
    BY <1>6 DEF _update_cursor, Done, AgentTypes, i, b
  <2>2. i \in runner.batch /\ i \in Nat \ {0} /\ Stored(i) /\ i > cursor[b] /\ b \in Agent
        /\ \A k \in runner.batch : i <= k
    BY <1>f, <2>1
  <2>3. /\ i \in tried[b] /\ runner.batch \subseteq Nat
        /\ \A k \in runner.batch : Stored(k)
        /\ \A n \in Dates, k \in runner.batch :
              Stored(n) /\ b \notin messages[n].late /\ n > cursor[b] /\ n < k => n \in runner.batch
    BY <2>1 DEF BatchInv, AgentTypes, i, b
  <2>4. cursor'[b] = i /\ \A a \in Agent \ {b} : cursor'[a] = cursor[a]
    BY <2>1, <2>2 DEF AgentTypes
  <2>5. cursor[b] \in Nat /\ Dates \subseteq Nat
    BY <2>2 DEF AgentTypes, Dates
  <2>6. BatchInv'
    <3>1. \A k \in runner'.batch : Stored(k)' /\ k > i
      BY <2>1, <2>2, <2>3 DEF Stored, Dates
    <3>2. \A n \in Dates, k \in runner'.batch :
              Stored(n) /\ b \notin messages[n].late /\ n > i /\ n < k => n \in runner'.batch
      <4> SUFFICES ASSUME NEW n \in Dates, NEW k \in runner'.batch,
                          Stored(n), b \notin messages[n].late, n > i, n < k
                   PROVE  n \in runner'.batch
        OBVIOUS
      <4>1. n \in Nat /\ n > cursor[b] /\ n # i
        BY <2>2, <2>5
      <4>2. k \in runner.batch
        BY <2>1
      <4>3. n \in runner.batch
        BY <4>1, <4>2, <2>3
      <4> QED  BY <4>1, <4>3, <2>1
    <3> QED  BY <2>1, <2>2, <2>4, <3>1, <3>2 DEF BatchInv, Stored, Dates
  <2>7. CursorInv'
    BY <2>1, <2>2, <2>4 DEF CursorInv, Stored, Dates
  <2>8. NothingIsSkipped'
    <3> SUFFICES ASSUME NEW a \in Agent, NEW n \in 1..cursor'[a], Stored(n), a \notin messages[n].late
                 PROVE  n \in tried[a]
      BY <2>1 DEF NothingIsSkipped, Stored, Dates
    <3>1. CASE a # b \/ n <= cursor[a]
      BY <3>1, <2>4 DEF NothingIsSkipped, AgentTypes
    <3>2. CASE a = b /\ n > cursor[b]
      <4>1. n = i
        BY <3>2, <2>2, <2>3, <2>4, <2>5 DEF Stored
      <4> QED  BY <4>1, <2>3, <3>2
    <3> QED  BY <3>1, <3>2 DEF AgentTypes
  <2>9. AnswersInv'
    <3> SUFFICES ASSUME NEW a \in Agent, NEW k \in Nat \ {0}
                 PROVE  Cardinality(Answers(a, k)) <= stops + (IF Answered(a, k)' THEN 1 ELSE 0)
      BY <2>1 DEF AnswersInv, Answers, Dates
    <3>1. Answered(a, k) => Answered(a, k)'
      BY <2>1, <2>2, <2>4, <2>5 DEF Answered, i, b
    <3>2. Cardinality(Answers(a, k)) \in Nat /\ stops \in Nat
      BY AnswersAreFinite DEF AgentTypes
    <3> QED  BY <3>1, <3>2 DEF AnswersInv
  <2> QED  BY <2>6, <2>7, <2>8, <2>9
<1>7. CASE agent_loop
  <2>1. /\ UNCHANGED <<messages, cursor, tried>> /\ stops' = stops + 1
        /\ runner'.at = "sleep" /\ runner'.batch = {}
    BY <1>7 DEF agent_loop, Asleep
  <2>2. BatchInv' /\ CursorInv' /\ NothingIsSkipped'
    BY <2>1 DEF BatchInv, CursorInv, NothingIsSkipped, Stored, Dates
  <2>3. AnswersInv'
    <3> SUFFICES ASSUME NEW a \in Agent, NEW k \in Nat \ {0}
                 PROVE  Cardinality(Answers(a, k)) <= stops + 1 + (IF Answered(a, k)' THEN 1 ELSE 0)
      BY <2>1 DEF AnswersInv, Answers, Dates
    <3>1. Cardinality(Answers(a, k)) \in Nat /\ stops \in Nat
      BY AnswersAreFinite DEF AgentTypes
    <3> QED  BY <3>1 DEF AnswersInv
  <2> QED  BY <2>2, <2>3
<1>8. CASE send_message
  <2>1. PICK calls \in BOOLEAN : messages' = Written(Human, calls, 0)
    BY <1>8 DEF send_message
  <2>2. /\ UNCHANGED <<cursor, runner, tried, stops>>
        /\ \A k : Stored(k)' <=> Stored(k)
        /\ \A k \in Dates' : Stored(k)' => k \in Dates /\ messages'[k] = messages[k]
        /\ \A a, k : k # 0 => Answers(a, k)' = Answers(a, k)
    <3>1. /\ \A k : Stored(k)' <=> Stored(k)
          /\ \A k \in Dates' : Stored(k)' => k \in Dates /\ messages'[k] = messages[k]
      BY <2>1, AfterWriting
    <3>2. \A a, k : Answers(a, k)' = Answers(a, k) \cup
                       (IF a = Human /\ k = 0 THEN {Len(messages) + 1} ELSE {})
      BY <2>1, AfterWriting
    <3>3. \A a, k : k # 0 => Answers(a, k)' = Answers(a, k)
      BY <3>2
    <3> QED  BY <1>8, <3>1, <3>3 DEF send_message
  <2>3. BatchInv'
    BY <2>2 DEF BatchInv
  <2>4. CursorInv' /\ NothingIsSkipped'
    BY <2>2 DEF CursorInv, NothingIsSkipped, Stored
  <2>5. AnswersInv'
    BY <2>2 DEF AnswersInv, Answered
  <2> QED  BY <2>3, <2>4, <2>5
<1>9. ASSUME NEW n \in Dates, CommitMessage(n) PROVE Goal
  <2>1. PICK message \in MessageRow :
           /\ messages' = [messages EXCEPT ![n] = message]
           /\ message.state = "stored" /\ message.late = {a \in Agent : Past(a, n)}
           /\ message.sender = messages[n].sender /\ message.to = messages[n].to
    BY <1>9, CommitFacts
  <2>2. /\ UNCHANGED <<cursor, runner, tried, stops>> /\ ~Stored(n)
        /\ Dates' = Dates /\ \A k \in Dates : messages'[k] = IF k = n THEN message ELSE messages[k]
        /\ \A a, k : Answers(a, k)' = Answers(a, k)
    BY <1>9, <2>1, AfterRewriting DEF CommitMessage, Stored
  <2>3. (\A k : Stored(k) => Stored(k)' /\ k # n) /\ (\A k : Stored(k)' => k = n \/ Stored(k))
    BY <2>1, <2>2 DEF Stored
  <2>4. \A a \in Agent : a \notin messages'[n].late => ~Past(a, n)
    BY <2>1, <2>2
  <2>5. BatchInv'
    <3>1. CASE runner.at \in {"sleep", "cycle"}
      BY <3>1, <2>2 DEF BatchInv
    <3>2. CASE runner.at \notin {"sleep", "cycle"}
      <4>1. ASSUME NEW x \in Dates, NEW k \in runner.batch, Stored(x)', b \notin messages'[x].late,
                   x > cursor[b], x < k
            PROVE  x \in runner.batch
        <5>1. CASE x = n
          <6>1. Past(b, n)
            BY <4>1, <5>1, <1>f, <3>2 DEF Past, b, AgentTypes, Dates
          <6> QED  BY <6>1, <4>1, <5>1, <2>4, <1>f, <3>2
        <5>2. CASE x # n
          BY <5>2, <4>1, <3>2, <2>2, <2>3 DEF BatchInv, b
        <5> QED  BY <5>1, <5>2
      <4> QED  BY <4>1, <3>2, <2>2, <2>3 DEF BatchInv, b
    <3> QED  BY <3>1, <3>2
  <2>6. CursorInv'
    BY <2>2, <2>3 DEF CursorInv
  <2>7. NothingIsSkipped'
    <3> SUFFICES ASSUME NEW a \in Agent, NEW k \in 1..cursor[a], Stored(k)', a \notin messages'[k].late
                 PROVE  k \in tried[a]
      BY <2>2 DEF NothingIsSkipped
    <3>1. CASE k = n
      <4>1. cursor[a] # n /\ cursor[a] >= n /\ cursor[a] \in Nat /\ n \in Nat
        BY <3>1, <2>2 DEF CursorInv, Dates, AgentTypes
      <4>2. Past(a, n)
        BY <4>1 DEF Past
      <4> QED  BY <4>2, <2>4, <3>1
    <3>2. CASE k # n
      BY <3>2, <2>2, <2>3 DEF NothingIsSkipped, Stored
    <3> QED  BY <3>1, <3>2
  <2>8. AnswersInv'
    BY <2>2 DEF AnswersInv, Answered
  <2> QED  BY <2>5, <2>6, <2>7, <2>8
<1>10. ASSUME NEW n \in Dates, edit_message(n) PROVE Goal
  <2>1. PICK message \in MessageRow :
           /\ messages' = [messages EXCEPT ![n] = message]
           /\ message.state = messages[n].state /\ message.late = messages[n].late
           /\ message.sender = messages[n].sender /\ message.to = messages[n].to
    BY <1>10, EditFacts
  <2>2. /\ UNCHANGED <<cursor, runner, tried, stops>>
        /\ Dates' = Dates /\ \A k \in Dates : messages'[k] = IF k = n THEN message ELSE messages[k]
        /\ \A a, k : Answers(a, k)' = Answers(a, k)
    BY <1>10, <2>1, AfterRewriting DEF edit_message
  <2>3. (\A k : Stored(k)' <=> Stored(k)) /\ \A k \in Dates : messages'[k].late = messages[k].late
    BY <2>1, <2>2 DEF Stored
  <2>4. BatchInv'
    BY <2>2, <2>3 DEF BatchInv
  <2>5. CursorInv' /\ NothingIsSkipped'
    BY <2>2, <2>3 DEF CursorInv, NothingIsSkipped, Stored
  <2>6. AnswersInv'
    BY <2>2 DEF AnswersInv, Answered
  <2> QED  BY <2>4, <2>5, <2>6
<1>11. CASE UNCHANGED agent_vars
  BY <1>11 DEF agent_vars, BatchInv, CursorInv, NothingIsSkipped, AnswersInv, Answered, Answers, Stored, Dates
<1> QED
  BY <1>1, <1>2, <1>3, <1>4, <1>5, <1>6, <1>7, <1>8, <1>9, <1>10, <1>11 DEF AgentsNext, AgentStep

(* The cursor of an agent passes no message that became visible in time,   *)
(* and a message is answered again only for a cycle that broke off between *)
(* the answer and the move of the cursor.                                  *)
THEOREM AgentsTakeTurns == AgentsSpec => []HandledInTurn
<1>1. AgentsInit => AgentTypes /\ TurnInv
  <2> SUFFICES ASSUME AgentsInit PROVE AgentTypes /\ TurnInv
    OBVIOUS
  <2>1. AgentTypes /\ Dates = {}
    BY DEF AgentsInit, Asleep, AgentTypes, Dates
  <2>2. \A a, i : Answers(a, i) = {}
    BY <2>1 DEF Answers
  <2>3. AnswersInv
    <3>1. \A a, i : Cardinality(Answers(a, i)) = 0
      BY <2>2, FS_EmptySet
    <3>2. stops = 0
      BY DEF AgentsInit
    <3> QED  BY <3>1, <3>2 DEF AnswersInv
  <2> QED  BY <2>1, <2>3 DEF AgentsInit, Asleep, TurnInv, BatchInv, CursorInv, NothingIsSkipped
<1>2. AgentTypes /\ TurnInv /\ [AgentsNext]_agent_vars => (AgentTypes /\ TurnInv)'
  BY AgentTypeStep, TurnStep DEF TurnInv
<1>3. AgentTypes /\ TurnInv => HandledInTurn
  <2> SUFFICES ASSUME AgentTypes, AnswersInv, NEW a \in Agent, NEW i \in Dates
               PROVE  Cardinality({j \in Dates : messages[j].sender = a /\ messages[j].to = i}) <= 1 + stops
    BY DEF HandledInTurn, TurnInv, AnswersAreBounded
  <2>1. i \in Nat \ {0} /\ stops \in Nat /\ Cardinality(Answers(a, i)) \in Nat
    BY AnswersAreFinite DEF Dates, AgentTypes
  <2> QED  BY <2>1 DEF AnswersInv, Answers
<1> QED  BY <1>1, <1>2, <1>3, PTL DEF AgentsSpec

=============================================================================
