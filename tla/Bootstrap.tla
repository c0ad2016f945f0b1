----------------------------- MODULE Bootstrap ------------------------------
(***************************************************************************)
(* The start-up hooks of the API (libs/core/startup.py): the schema, the   *)
(* system's tenant and spaces (libs/core/bootstrap.py), the built-in       *)
(* definitions (scripts/seed_definitions.py), one transaction for all of   *)
(* them, and the uploaded plugins; and the migration that `optaic server`  *)
(* runs before it starts an API.  Several processes may start on one       *)
(* database, and stop at any step.                                         *)
(***************************************************************************)
EXTENDS Naturals, FiniteSets

CONSTANTS Apis,             \* processes
          Definitions       \* built in, by name: rows have ids of their own

VARIABLES
    schema,         \* "none", an older revision, the head, or tables without a revision
    system,         \* the rows with fixed ids that are committed
    seeded,         \* rows committed for each definition
    api,            \* step of each process, what its transaction holds
    loaded          \* processes that have loaded the plugins

boot_vars == <<schema, system, seeded, api, loaded>>

(* In the order in which they are flushed.                                 *)
Parts == {"tenant", "admin", "root", "permissions", "space", "project", "binding"}
Follows == [ admin |-> {"tenant"}, root |-> {"admin"}, permissions |-> {"root"},
             space |-> {"permissions"}, project |-> {"space"}, binding |-> {"project"}, tenant |-> {} ]
Fresh == [pc |-> "off", parts |-> {}, defs |-> {}]

BootInit ==
    /\ schema \in {"none", "older", "head"}
    /\ system = {} /\ seeded = [d \in Definitions |-> 0]
    /\ api = [a \in Apis |-> Fresh] /\ loaded = {}

Is(a, pc) == api[a].pc = pc
Proceed(a, pc) == api' = [api EXCEPT ![a].pc = pc]

(* Of `optaic server`: its failure keeps the server from starting.         *)
run_migrations ==
    /\ schema \in {"none", "older"} /\ \A a \in Apis : api[a].pc = "off"
    /\ schema' = "head"
    /\ UNCHANGED <<system, seeded, api, loaded>>

(* The migrations ask for an event loop of their own, which a process that *)
(* runs one refuses: within the API the upgrade always fails, and the      *)
(* tables are created without a revision.                                  *)
_fallback_create_all == schema' = IF schema = "none" THEN "tables" ELSE schema
_is_at_head == schema = "head"
ensure_schema_and_migrations(a) ==
    /\ Is(a, "off") /\ Proceed(a, "bootstrap")
    /\ IF _is_at_head THEN UNCHANGED schema ELSE _fallback_create_all
    /\ UNCHANGED <<system, seeded, loaded>>

(* The tenant's row decides whether the rest is there.                     *)
bootstrap_system(a) ==
    /\ Is(a, "bootstrap")
    /\ Proceed(a, IF "tenant" \in system THEN "seed" ELSE "create")
    /\ UNCHANGED <<schema, system, seeded, loaded>>

(* A row whose id another transaction has written waits for its end.       *)
CommitsTenant(a) ==                                 (* Bug: the tenant is committed on its own *)
    \E part \in Parts \ api[a].parts :
       /\ Is(a, "create") /\ Follows[part] \subseteq api[a].parts
       /\ \A b \in Apis \ {a} : part \notin api[b].parts
       /\ part \notin system
       /\ api' = [api EXCEPT ![a].parts = @ \cup {part}]
       /\ system' = IF part = "tenant" THEN system \cup {part} ELSE system
       /\ UNCHANGED <<schema, seeded, loaded>>
Create(a) ==
    \E part \in Parts \ api[a].parts :
       /\ Is(a, "create") /\ Follows[part] \subseteq api[a].parts
       /\ \A b \in Apis \ {a} : part \notin api[b].parts
       /\ part \notin system
       /\ api' = [api EXCEPT ![a].parts = @ \cup {part}]
       /\ UNCHANGED <<schema, system, seeded, loaded>>

Created(a) ==
    /\ Is(a, "create") /\ api[a].parts = Parts /\ Proceed(a, "seed")
    /\ UNCHANGED <<schema, system, seeded, loaded>>

(* A definition that nobody has committed is written.                      *)
seed_definitions(a) ==
    /\ Is(a, "seed")
    /\ \E d \in Definitions \ api[a].defs :
          seeded[d] = 0 /\ api' = [api EXCEPT ![a].defs = @ \cup {d}]
    /\ UNCHANGED <<schema, system, seeded, loaded>>

Commit(a) ==
    /\ Is(a, "seed") /\ \A d \in Definitions : d \in api[a].defs \/ seeded[d] # 0
    /\ system' = system \cup api[a].parts
    /\ seeded' = [d \in Definitions |-> IF d \in api[a].defs THEN seeded[d] + 1 ELSE seeded[d]]
    /\ api' = [api EXCEPT ![a] = [Fresh EXCEPT !.pc = "plugins"]]
    /\ UNCHANGED <<schema, loaded>>

load_uploaded_plugins(a) ==
    /\ Is(a, "plugins") /\ Proceed(a, "serving") /\ loaded' = loaded \cup {a}
    /\ UNCHANGED <<schema, system, seeded>>

(* The hooks' failure is logged, and the API serves all the same.  The     *)
(* second of two processes that bootstrap at once fails at the tenant.     *)
HooksFail(a) ==
    /\ api[a].pc \in {"bootstrap", "create", "seed", "plugins"}
    /\ api' = [api EXCEPT ![a] = [Fresh EXCEPT !.pc = "serving"]]
    /\ UNCHANGED <<schema, system, seeded, loaded>>

StopApi(a) ==
    /\ ~Is(a, "off") /\ api' = [api EXCEPT ![a] = Fresh] /\ loaded' = loaded \ {a}
    /\ UNCHANGED <<schema, system, seeded>>

run_startup_hooks(a) ==
    \/ ensure_schema_and_migrations(a) \/ bootstrap_system(a) \/ Create(a) \/ Created(a)
    \/ seed_definitions(a) \/ Commit(a) \/ load_uploaded_plugins(a) \/ HooksFail(a)

BootNext == run_migrations \/ \E a \in Apis : run_startup_hooks(a) \/ StopApi(a)

BootSpec == BootInit /\ [][BootNext]_boot_vars
-----------------------------------------------------------------------------
(* Whatever is committed of the system is all of it, every definition      *)
(* included: bootstrap_system looks for the tenant only and would never    *)
(* repair a part, and whatever a process that serves with its plugins      *)
(* loaded relies on is there.                                              *)
SystemIsWhole ==
    /\ system \in {{}, Parts}
    /\ (\E d \in Definitions : seeded[d] # 0) \/ loaded # {}
          => system = Parts /\ \A d \in Definitions : seeded[d] # 0
=============================================================================
