----------------------------- MODULE Preflight ------------------------------
(***************************************************************************)
(* The preflight that migrates the databases of the engines (Prefect,      *)
(* MLflow) when their packages have changed: run_preflight, the migrations *)
(* of engine_migrations.py and the versions that engines_state.json        *)
(* records.  It runs before a server, under the server's lock, and may     *)
(* stop at any step.                                                       *)
(***************************************************************************)
EXTENDS Supervisor, Sequences

CONSTANTS Preflights,       \* processes: each runs once
          Versions          \* of the engines

ASSUME PreflightAssumption == Versions \subseteq Nat \ {0} /\ None \notin Preflights

VARIABLES
    on_path,        \* the engines' commands are found
    package,        \* installed version of each engine
    database,       \* version of its database, 0 when there is none
    backups,        \* versions of it that were copied
    recorded,       \* version in engines_state.json, 0 for none
    preflight       \* each process: step, engines to go, options, version to record

engine_files == <<on_path, package, database, backups, recorded>>
preflight_vars == <<engine_files, preflight>>

Local == <<"prefect", "mlflow">>
Engines == {Local[i] : i \in DOMAIN Local}

PreflightInit ==
    /\ on_path \in BOOLEAN
    /\ package \in [Engines -> Versions]
    /\ database = [e \in Engines |-> 0] /\ backups = [e \in Engines |-> {}]
    /\ recorded = [e \in Engines |-> 0]
    /\ preflight = [p \in Preflights |->
          [pc |-> "off", engines |-> Local, reset |-> FALSE, allow |-> FALSE, version |-> 0]]

On(p, e, pc) ==
    /\ preflight[p].pc = pc
    /\ preflight[p].engines # <<>> /\ Head(preflight[p].engines) = e
Moves(p, pc) == preflight' = [preflight EXCEPT ![p].pc = pc]

(* A failure, a refusal and a success all go on to the next engine.        *)
NextEngine(p) ==
    preflight' = [preflight EXCEPT ![p].engines = Tail(@),
                                   ![p].pc = IF Len(preflight[p].engines) = 1 THEN "unlock" ELSE "check"]

run_preflight(p) ==
    /\ preflight[p].pc = "off" /\ lockfile = None
    /\ lockfile' = p
    /\ \E reset, allow \in BOOLEAN :
          preflight' = [preflight EXCEPT ![p].pc = "check", ![p].reset = reset, ![p].allow = allow]
    /\ UNCHANGED engine_files

check_upgrade_allowed(p, e) ==
    recorded[e] = 0 \/ package[e] >= recorded[e] \/ preflight[p].allow

Check(p, e) ==
    /\ On(p, e, "check")
    /\ IF (~check_upgrade_allowed(p, e) \/ package[e] = recorded[e]) /\ ~preflight[p].reset
       THEN NextEngine(p)
       ELSE preflight' = [preflight EXCEPT ![p].pc = "backup", ![p].version = package[e]]
    /\ UNCHANGED <<engine_files, lockfile>>

IgnoresFailure(p, e) ==                                    (* Bug: the failure is only logged *)
    /\ On(p, e, "backup")
    /\ backups' \in {backups, [backups EXCEPT ![e] = @ \cup ({database[e]} \ {0})]}
    /\ Moves(p, IF preflight[p].reset THEN "unlink" ELSE "upgrade")
    /\ UNCHANGED <<on_path, package, database, recorded, lockfile>>
Backup(p, e) ==
    /\ On(p, e, "backup")
    /\ \/ /\ backups' = [backups EXCEPT ![e] = @ \cup ({database[e]} \ {0})]
          /\ Moves(p, IF preflight[p].reset THEN "unlink" ELSE "upgrade")
       \/ /\ database[e] # 0 /\ NextEngine(p) /\ UNCHANGED backups
    /\ UNCHANGED <<on_path, package, database, recorded, lockfile>>

Unlink(p, e) ==
    /\ On(p, e, "unlink") /\ Moves(p, "record")
    /\ database' = [database EXCEPT ![e] = 0]
    /\ UNCHANGED <<on_path, package, backups, recorded, lockfile>>

(* A command that is not found counts as a success; an older engine        *)
(* refuses a newer database; a command that fails, or is stopped after the *)
(* timeout, may have got that far.                                         *)
Upgrade(p, e) ==
    /\ On(p, e, "upgrade")
    /\ LET upgraded == [database EXCEPT ![e] = preflight[p].version]
       IN  \/ ~on_path /\ Moves(p, "record") /\ UNCHANGED database
           \/ /\ on_path /\ database[e] <= preflight[p].version
              /\ database' = upgraded /\ Moves(p, "record")
           \/ /\ on_path /\ NextEngine(p)
              /\ \/ UNCHANGED database
                 \/ database[e] <= preflight[p].version /\ database' = upgraded
    /\ UNCHANGED <<on_path, package, backups, recorded, lockfile>>

save_engines_state_atomic(p, e) ==
    /\ On(p, e, "record") /\ NextEngine(p)
    /\ recorded' = [recorded EXCEPT ![e] = preflight[p].version]
    /\ UNCHANGED <<on_path, package, database, backups, lockfile>>

migrate_db_of(p, e) ==
    Check(p, e) \/ Backup(p, e) \/ Unlink(p, e) \/ Upgrade(p, e) \/ save_engines_state_atomic(p, e)
migrate_prefect_db(p) == migrate_db_of(p, "prefect")
migrate_mlflow_db(p) == migrate_db_of(p, "mlflow")

Unlock(p) ==
    /\ preflight[p].pc = "unlock" /\ Moves(p, "over")
    /\ lockfile' = None
    /\ UNCHANGED engine_files

Crash(p) ==
    /\ preflight[p].pc \notin {"off", "over"} /\ Moves(p, "over")
    /\ lockfile' = None
    /\ UNCHANGED engine_files

(* Packages are replaced between two preflights, up or down.               *)
InstallEngine(e, v) ==
    /\ lockfile = None /\ package' = [package EXCEPT ![e] = v]
    /\ UNCHANGED <<on_path, database, backups, recorded, preflight, lockfile>>

PreflightNext ==
    /\ \/ \E p \in Preflights :
             run_preflight(p) \/ migrate_prefect_db(p) \/ migrate_mlflow_db(p) \/ Unlock(p) \/ Crash(p)
       \/ \E e \in Engines, v \in Versions : InstallEngine(e, v)
    /\ UNCHANGED <<files, server, processes, alive, killed, handing, upgrade>>

PreflightSpec == Init /\ PreflightInit /\ [][PreflightNext]_<<vars, preflight_vars>>
-----------------------------------------------------------------------------
(* No version of an engine's database is migrated away from or deleted     *)
(* before a copy of it was made ("backups are created before any           *)
(* migration", engine_migrations.py), in whatever step earlier preflights  *)
(* have stopped.                                                           *)
ReplacedIsBackedUp ==
    [][\A e \in Engines :
          database'[e] # database[e] /\ database[e] # 0 => database[e] \in backups[e]]_preflight_vars

(* A version is recorded only when the database has it, or was deleted for *)
(* the engine to create: a failed or stopped migration is tried again.  A  *)
(* command that is not on the path leaves the record ahead of the database.*)
RecordedWhenMigrated ==
    [][\A e \in Engines :
          on_path /\ recorded'[e] # recorded[e] => database[e] \in {0, recorded'[e]}]_preflight_vars

(* Stopped and tried again in any step, a migration loses no data and is   *)
(* not taken for done before it is (engine_migrations.py, the three steps  *)
(* of backup, upgrade and record).                                         *)
MigrationsAreSafe == ReplacedIsBackedUp /\ RecordedWhenMigrated
=============================================================================
