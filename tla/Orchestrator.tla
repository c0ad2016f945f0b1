---------------------------- MODULE Orchestrator ----------------------------
(***************************************************************************)
(* What the services that submit pipeline runs can observe of an           *)
(* orchestration backend (libs/orchestration/adapter.py): the status that  *)
(* get_status returns for a submitted run, and whether a cancel_run call   *)
(* has returned True for it.  It says nothing of the graph of nodes that   *)
(* makes up a run; LocalOrchestrator implements it.                        *)
(*                                                                         *)
(* A backend that has accepted a cancellation may still report "running"   *)
(* or "failed" afterwards, because the in-process backend does; what it    *)
(* never does is to report such a run as completed.                        *)
(***************************************************************************)
CONSTANT Run                  \* orchestrator run identifiers

VARIABLES
    status,                   \* what get_status answers; "unknown" if not found
    accepted,                 \* cancel_run has returned True
    begun                     \* the runs whose execution has started

vars == <<status, accepted, begun>>

Terminal == {"completed", "failed", "cancelled"}

Init ==
    /\ status = [r \in Run |-> "unknown"]
    /\ accepted = [r \in Run |-> FALSE]
    /\ begun = {}

Submit(r) ==
    /\ status[r] = "unknown"
    /\ r \notin begun
    /\ status' = [status EXCEPT ![r] = "queued"]
    /\ UNCHANGED <<accepted, begun>>

(* Execution starts, and may end at once when there is nothing to run.     *)
Begin(r) ==
    /\ status[r] \in {"queued", "cancelled"}
    /\ r \notin begun
    /\ begun' = begun \cup {r}
    /\ \E s \in {"running", "failed"} \cup (IF accepted[r] THEN {} ELSE {"completed"}) :
          status' = [status EXCEPT ![r] = s]
    /\ UNCHANGED accepted

Succeed(r) ==
    /\ r \in begun
    /\ status[r] = "running"
    /\ ~accepted[r]
    /\ status' = [status EXCEPT ![r] = "completed"]
    /\ UNCHANGED <<accepted, begun>>

Fail(r) ==
    /\ r \in begun
    /\ status[r] \in {"running", "cancelled"}
    /\ status' = [status EXCEPT ![r] = "failed"]
    /\ UNCHANGED <<accepted, begun>>

Cancel(r) ==
    /\ status[r] \in {"queued", "running"}
    /\ status' = [status EXCEPT ![r] = "cancelled"]
    /\ accepted' = [accepted EXCEPT ![r] = TRUE]
    /\ UNCHANGED begun

(* The backend's process ends and forgets the runs it was given.           *)
Lose ==
    /\ status' = [r \in Run |-> "unknown"]
    /\ begun' = begun \cup {r \in Run : status[r] # "unknown"}
    /\ UNCHANGED accepted

Next ==
    \/ \E r \in Run : Submit(r) \/ Begin(r) \/ Succeed(r) \/ Fail(r) \/ Cancel(r)
    \/ Lose

Spec == Init /\ [][Next]_vars

TypeOK ==
    /\ status \in [Run -> {"unknown", "queued", "running"} \cup Terminal]
    /\ accepted \in [Run -> BOOLEAN]
    /\ begun \subseteq Run
=============================================================================
