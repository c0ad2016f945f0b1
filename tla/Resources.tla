----------------------------- MODULE Resources -----------------------------
(***************************************************************************)
(* The rows of the resource tree that governance changes, and the request  *)
(* handlers that change them.  A handler reads what it needs, awaits, and  *)
(* writes and commits later; it takes no row locks, so what it read may be *)
(* stale by then.  job holds what a handler has read.                      *)
(*                                                                         *)
(* setting never changes: it says which handlers work at the same time,    *)
(* whether the tables were created from the models, which declare the      *)
(* resource of a transfer request unique, or by the migrations, which do   *)
(* not, and how many requests of each kind are made.                       *)
(***************************************************************************)
EXTENDS Naturals, Sequences

CONSTANTS Principal, Resource, Existing, Project, Staging, Official, Client

CONSTANT Settings

ASSUME SettingsAssumption ==
    Settings \subseteq [handlers : SUBSET Client, unique : BOOLEAN,
                        transfers : Nat, promotions : Nat]

Place == Project \cup {Staging, Official}

VARIABLES
    standing,   \* Resource.status, "absent" before the row exists
    owner,      \* Resource.owner_principal_id
    parent,     \* Resource.parent_id
    bound,      \* the principals with an owner binding that is not revoked
    job,
    setting

resources == <<standing, owner, parent, bound>>

Idle == [op |-> "idle"]
Exists(r) == standing[r] # "absent"
Serial == \A c, d \in setting.handlers : c = d

Free(c) == c \in setting.handlers /\ job[c].op = "idle"
Begin(c, work) == Free(c) /\ job' = [job EXCEPT ![c] = work]
Working(c, op) == job[c].op = op
Finish(c) == job' = [job EXCEPT ![c] = Idle]

ResourceInit ==
    /\ standing = [r \in Resource |-> IF r \in Existing THEN "active" ELSE "absent"]
    /\ \E p \in Principal : owner = [r \in Resource |-> p]
    /\ \E d \in Project : parent = [r \in Resource |-> d]
    /\ bound = [r \in Resource |-> {}]
    /\ setting \in Settings
    /\ job = [c \in Client |-> Idle]

(* The caller goes away, the process dies or the commit fails: the session *)
(* rolls back.                                                             *)
Abort(c) == job[c].op # "idle" /\ Finish(c)
=============================================================================
