----------------------------- MODULE Supervisor -----------------------------
(***************************************************************************)
(* `optaic server` (run_supervisor), the services that it starts and       *)
(* stops, the files of the data directory that servers share, and the      *)
(* upgrade that the API starts: it hands over to a process of its own,     *)
(* which waits for the lock, replaces the package and starts a server      *)
(* again.                                                                  *)
(*                                                                         *)
(* A server is one process: it starts once.  Servers may be killed and     *)
(* signalled, services may exit, and an operator may start a server or     *)
(* install another release by hand, at any time.                           *)
(***************************************************************************)
EXTENDS Integers, FiniteSets

CONSTANTS Servers, Upgrades,    \* processes
          Releases,             \* of the package; each wants its own version of Centrifugo
          keep_versions,        \* versions that a clean-up leaves on the disk
          MaxKills,             \* bound: servers that are killed
          None

ASSUME SupervisorAssumption ==
    /\ Releases \subseteq Nat \ {0}
    /\ keep_versions \in Nat \ {0}
    /\ MaxKills \in Nat
    /\ None \notin Servers \cup Upgrades
    /\ Servers \cap Upgrades = {}

VARIABLES
    release,        \* the installed package
    lockfile,       \* who holds the lock of the data directory
    server_pid,     \* state/server.pid
    status,         \* state/upgrade_status.json
    installed,      \* the version in state/installed.json, 0 for none
    bin,            \* directories below bin/centrifugo, one for each version
    binaries,       \* those that a download has filled
    server,         \* where each server is, the version it installs, how often it still shuts down,
                    \* the service whose start broke off (history), whether a shutdown got through (history)
    processes,      \* services that each server will stop
    alive,          \* services that run, with the server that started them
    killed,         \* servers that were killed
    handing,        \* servers whose API will hand over after its answer
    upgrade         \* where each upgrade is, and the server whose API started it

files == <<release, server_pid, status, installed, bin, binaries>>
vars == <<files, lockfile, server, processes, alive, killed, handing, upgrade>>

Off == [pc |-> "off", wants |-> 0, shutdowns |-> 0, lost |-> "none", whole |-> FALSE]
Waiting == [pc |-> "none", asked |-> None]

Init ==
    /\ release \in Releases
    /\ lockfile = None /\ server_pid = None /\ status = "idle" /\ installed = 0
    /\ bin = {} /\ binaries = {}
    /\ server = [s \in Servers |-> Off] /\ processes = [s \in Servers |-> {}]
    /\ alive = {} /\ killed = {} /\ handing = {}
    /\ upgrade = [u \in Upgrades |-> Waiting]

At(s, pc) == server[s].pc = pc
Goto(s, pc) == server' = [server EXCEPT ![s].pc = pc]
Runs(name, s) == <<name, s>> \in alive
Of(s) == {c \in alive : c[2] = s}
-----------------------------------------------------------------------------
(* ----- start ----- *)
Begin(s) ==                 \* ensure_data_layout
    /\ At(s, "off") /\ Goto(s, "acquire_lock")
    /\ UNCHANGED <<files, lockfile, processes, alive, killed, handing, upgrade>>

acquire_lock(s) ==
    /\ At(s, "acquire_lock") /\ lockfile = None
    /\ lockfile' = s /\ Goto(s, "announce")
    /\ UNCHANGED <<files, processes, alive, killed, handing, upgrade>>

Announce(s) ==
    /\ At(s, "announce") /\ Goto(s, "migrate_db")
    /\ server_pid' = s /\ status' = "running"
    /\ UNCHANGED <<release, installed, bin, binaries, lockfile, processes, alive, killed, handing, upgrade>>

migrate_db(s) ==
    /\ At(s, "migrate_db") /\ Goto(s, "plan_upgrades")
    /\ UNCHANGED <<files, lockfile, processes, alive, killed, handing, upgrade>>

(* A binary is downloaded when it is not there, which the manifest of the  *)
(* package must still name.  Its directory is made first (see Abandoned).  *)
ensure_centrifugo_binary(version) ==
    /\ version \in binaries \/ version = release
    /\ bin' = bin \cup {version} /\ binaries' = binaries \cup {version}

_is_installed(version) == installed = version /\ version \in binaries

plan_upgrades(s) ==
    /\ At(s, "plan_upgrades")
    /\ server' = [server EXCEPT ![s].pc = "cleanup_versions", ![s].wants = release]
    /\ IF _is_installed(release) THEN UNCHANGED <<bin, binaries>> ELSE ensure_centrifugo_binary(release)
    /\ UNCHANGED <<release, server_pid, status, installed, lockfile, processes, alive, killed, handing, upgrade>>

Newer(version) == {v \in bin : v > version}
KeepsOldest == {v \in bin : Cardinality(bin \ Newer(v)) <= keep_versions}       (* Bug: the wrong end *)
_cleanup_versions == {v \in bin : Cardinality(Newer(v)) < keep_versions}

cleanup_versions(s) ==
    /\ At(s, "cleanup_versions") /\ Goto(s, "write_installed_state")
    /\ bin' = _cleanup_versions /\ binaries' = binaries \cap _cleanup_versions
    /\ UNCHANGED <<release, server_pid, status, installed, lockfile, processes, alive, killed, handing, upgrade>>

write_installed_state(s) ==
    /\ At(s, "write_installed_state") /\ Goto(s, "start_prefect")
    /\ installed' = server[s].wants /\ status' = "done"
    /\ UNCHANGED <<release, server_pid, bin, binaries, lockfile, processes, alive, killed, handing, upgrade>>

(* A process is spawned first, and tracked by what stops it later: after   *)
(* its pid file is written (Prefect), after it answers (Centrifugo), when  *)
(* the call has returned (the API).                                        *)
Popen(name, s, next) ==
    /\ alive' = alive \cup {<<name, s>>} /\ Goto(s, next)
    /\ UNCHANGED <<lockfile, processes, killed, handing, upgrade>>

Track(name, s, next) ==
    /\ processes' = [processes EXCEPT ![s] = @ \cup {name}] /\ Goto(s, next)
    /\ UNCHANGED <<files, lockfile, alive, killed, handing, upgrade>>

(* A Prefect that answers on the port is used as it is.                    *)
start_prefect(s) ==
    /\ At(s, "start_prefect")
    /\ IF \E o \in Servers : Runs("prefect", o)
       THEN Goto(s, "start_centrifugo") /\ UNCHANGED <<alive, processes, lockfile, killed, handing, upgrade>>
       ELSE Popen("prefect", s, "_track_process")
    /\ UNCHANGED files

TrackedWhenReady(s) ==                                     (* Bug: a timeout leaves it running *)
    /\ At(s, "_track_process") /\ Goto(s, "wait_for_http")
    /\ UNCHANGED <<files, lockfile, processes, alive, killed, handing, upgrade>>
_track_process(s) == At(s, "_track_process") /\ Track("prefect", s, "wait_for_http")

_wait_for_http(s) ==
    /\ At(s, "wait_for_http") /\ Runs("prefect", s) /\ Goto(s, "start_centrifugo")
    /\ UNCHANGED <<files, lockfile, processes, alive, killed, handing, upgrade>>

(* The binary is downloaded again when the clean-up has removed it.        *)
start_centrifugo(s) ==
    /\ At(s, "start_centrifugo")
    /\ ensure_centrifugo_binary(server[s].wants)
    /\ Popen("centrifugo", s, "wait_until_ready")
    /\ UNCHANGED <<release, server_pid, status, installed>>

(* Whoever has the port answers.                                           *)
wait_until_ready(s) ==
    /\ At(s, "wait_until_ready") /\ \E o \in Servers : Runs("centrifugo", o)
    /\ Track("centrifugo", s, "start_api")

(* The worker and the agent, which follow, are started and watched as the  *)
(* API is.                                                                 *)
start_api(s) == At(s, "start_api") /\ Popen("api", s, "append") /\ UNCHANGED files

append(s) == At(s, "append") /\ Track("api", s, "poll")

Starting == {"acquire_lock", "announce", "migrate_db", "plan_upgrades", "cleanup_versions",
             "write_installed_state", "start_prefect", "_track_process", "wait_for_http",
             "start_centrifugo", "wait_until_ready", "start_api", "append"}

(* The service that is spawned and not tracked at this place of the start. *)
Coming(pc) ==
    CASE pc = "_track_process" -> "prefect"
      [] pc = "wait_until_ready" -> "centrifugo"
      [] pc = "append" -> "api"
      [] OTHER -> "none"

(* Whoever leaves the start or the loop shuts down so many times.  A       *)
(* download that was under way has made its directory.                     *)
Abandoned(s) ==
    CASE At(s, "plan_upgrades") -> {release}
      [] At(s, "start_centrifugo") -> {server[s].wants}
      [] OTHER -> {}
Leave(s, shutdowns) ==
    /\ server' = [server EXCEPT ![s].pc = "stop_all", ![s].wants = 0, ![s].shutdowns = shutdowns,
                                ![s].lost = Coming(server[s].pc)]
    /\ \E made \in SUBSET Abandoned(s) : bin' = bin \cup made
    /\ UNCHANGED <<release, server_pid, installed, binaries, lockfile, processes, alive, killed, handing, upgrade>>

(* Any step of the start may raise: the lock is held, a migration or a     *)
(* download fails, a pid file cannot be written, a service does not come   *)
(* up in time.  The finally clause shuts down.                             *)
Raise(s) ==
    /\ server[s].pc \in Starting
    /\ (At(s, "acquire_lock") => lockfile # None)
    /\ Leave(s, 1)
    /\ status' = IF server[s].pc \in {"migrate_db", "plan_upgrades", "cleanup_versions"} THEN "failed" ELSE status
-----------------------------------------------------------------------------
(* ----- stop: twice when a service exits or a signal comes, since the     *)
(* finally clause follows ----- *)
IgnoresApi(s) ==                                          (* Bug: only the engines are watched *)
    /\ At(s, "poll")
    /\ \E name \in processes[s] \ {"api"} : ~Runs(name, s)
    /\ Leave(s, 2) /\ UNCHANGED status
Poll(s) ==
    /\ At(s, "poll")
    /\ \E name \in processes[s] : ~Runs(name, s)
    /\ Leave(s, 2) /\ UNCHANGED status

_signal_handler(s) ==
    /\ server[s].pc \in Starting \cup {"poll"}
    /\ Leave(s, 2) /\ UNCHANGED status

Stopped(s, names) == alive' = alive \ {<<name, s>> : name \in processes[s] \cap names}
Released(s) == lockfile' = IF lockfile = s THEN None ELSE lockfile

(* The service manager stops Prefect, and writes what it has stopped.      *)
stop_all(s) ==
    /\ At(s, "stop_all") /\ Stopped(s, {"prefect"}) /\ Goto(s, "terminate")
    /\ UNCHANGED <<files, lockfile, processes, killed, handing, upgrade>>

(* When it cannot, the rest of this shutdown is not reached.  The lock     *)
(* goes with the process.                                                  *)
BreaksOff(s) ==
    /\ At(s, "stop_all") /\ Stopped(s, {"prefect"})
    /\ server' = [server EXCEPT ![s].shutdowns = @ - 1,
                                ![s].pc = IF server[s].shutdowns = 1 THEN "over" ELSE "stop_all"]
    /\ IF server[s].shutdowns = 1 THEN Released(s) ELSE UNCHANGED lockfile
    /\ UNCHANGED <<files, processes, killed, handing, upgrade>>

UnlocksFirst(s) ==                                   (* Bug: the lock goes before the services *)
    \/ /\ At(s, "terminate") /\ Released(s) /\ Goto(s, "unlocked")
       /\ UNCHANGED <<files, processes, alive, killed, handing, upgrade>>
    \/ /\ At(s, "unlocked") /\ Stopped(s, {"centrifugo", "api"}) /\ Goto(s, "unlink")
       /\ UNCHANGED <<files, lockfile, processes, killed, handing, upgrade>>
_terminate(s) ==
    /\ At(s, "terminate") /\ Stopped(s, {"centrifugo", "api"}) /\ Goto(s, "unlink")
    /\ UNCHANGED <<files, lockfile, processes, killed, handing, upgrade>>

(* The pid is removed, whoever's it is.                                    *)
_remove_server_pid(s) ==
    /\ At(s, "unlink") /\ Goto(s, "release")
    /\ server_pid' = None
    /\ UNCHANGED <<release, status, installed, bin, binaries, lockfile, processes, alive, killed, handing, upgrade>>

_release_lock(s) ==
    /\ At(s, "release") /\ Released(s)
    /\ server' = [server EXCEPT ![s].shutdowns = @ - 1, ![s].whole = TRUE,
                                ![s].pc = IF server[s].shutdowns = 1 THEN "over" ELSE "stop_all"]
    /\ UNCHANGED <<files, processes, alive, killed, handing, upgrade>>

(* The system frees the lock of a killed server; its services run on.      *)
Kill(s) ==
    /\ server[s].pc \notin {"off", "over"} /\ Cardinality(killed) < MaxKills
    /\ killed' = killed \cup {s} /\ Goto(s, "over") /\ Released(s)
    /\ UNCHANGED <<files, processes, alive, handing, upgrade>>

Exit(c) ==
    /\ c \in alive /\ alive' = alive \ {c}
    /\ UNCHANGED <<files, lockfile, server, processes, killed, handing, upgrade>>

pip(r) ==                   \* by hand
    /\ release' = r
    /\ UNCHANGED <<server_pid, status, installed, bin, binaries, lockfile, server, processes, alive, killed, handing, upgrade>>
-----------------------------------------------------------------------------
(* ----- upgrade ----- *)
upgrade_start(s, restart) ==
    /\ Runs("api", s) /\ status # "running"
    /\ status' = "running"
    /\ handing' = IF restart THEN handing \cup {s} ELSE handing
    /\ UNCHANGED <<release, server_pid, installed, bin, binaries, lockfile, server, processes, alive, killed, upgrade>>

(* The API starts the upgrade, then exits.                                 *)
_trigger_self_upgrade(s, u) ==
    /\ s \in handing /\ Runs("api", s) /\ upgrade[u].pc = "none"
    /\ upgrade' = [upgrade EXCEPT ![u] = [pc |-> "waiting", asked |-> s]]
    /\ alive' = alive \ {<<"api", s>>} /\ handing' = handing \ {s}
    /\ UNCHANGED <<files, lockfile, server, processes, killed>>

Step(u, from, to) == upgrade[u].pc = from /\ upgrade' = [upgrade EXCEPT ![u].pc = to]

_acquire_lock_with_retry(u) ==
    /\ lockfile = None /\ Step(u, "waiting", "installing")
    /\ lockfile' = u /\ status' = "running"
    /\ UNCHANGED <<release, server_pid, installed, bin, binaries, server, processes, alive, killed, handing>>

Timeout(u) ==
    /\ lockfile # None /\ Step(u, "waiting", "over")
    /\ status' = "failed"
    /\ UNCHANGED <<release, server_pid, installed, bin, binaries, lockfile, server, processes, alive, killed, handing>>

(* A newer release, or the same when the restart is all that was asked.    *)
_run_pip(u) ==
    /\ Step(u, "installing", "restarting")
    /\ \E r \in {r \in Releases : r >= release} : release' = r
    /\ UNCHANGED <<server_pid, status, installed, bin, binaries, lockfile, server, processes, alive, killed, handing>>

InstallFails(u) ==
    /\ Step(u, "installing", "failed") /\ status' = "failed"
    /\ UNCHANGED <<release, server_pid, installed, bin, binaries, lockfile, server, processes, alive, killed, handing>>

Release(u) ==
    /\ Step(u, "restarting", "spawning") \/ Step(u, "failed", "over")
    /\ lockfile' = None
    /\ UNCHANGED <<files, server, processes, alive, killed, handing>>

(* The status is written after the new server has begun to write it.       *)
Spawn(u, s) ==
    /\ Step(u, "spawning", "finishing") /\ At(s, "off") /\ Goto(s, "acquire_lock")
    /\ UNCHANGED <<files, lockfile, processes, alive, killed, handing>>

SetDone(u) ==
    /\ Step(u, "finishing", "over") /\ status' = "done"
    /\ UNCHANGED <<release, server_pid, installed, bin, binaries, lockfile, server, processes, alive, killed, handing>>
-----------------------------------------------------------------------------
Main(s) ==
    \/ acquire_lock(s) \/ Announce(s) \/ migrate_db(s) \/ plan_upgrades(s) \/ cleanup_versions(s)
    \/ write_installed_state(s) \/ start_prefect(s) \/ _track_process(s) \/ _wait_for_http(s)
    \/ start_centrifugo(s) \/ wait_until_ready(s) \/ start_api(s) \/ append(s)
    \/ Poll(s) \/ stop_all(s) \/ _terminate(s) \/ _remove_server_pid(s) \/ _release_lock(s)

SelfUpgrade(u) ==
    \/ _acquire_lock_with_retry(u) \/ Timeout(u) \/ _run_pip(u) \/ InstallFails(u) \/ Release(u)
    \/ (\E s \in Servers : Spawn(u, s)) \/ SetDone(u)

Next ==
    \/ \E s \in Servers :
          \/ Begin(s) \/ Main(s) \/ Raise(s) \/ _signal_handler(s) \/ BreaksOff(s) \/ Kill(s)
          \/ \E restart \in BOOLEAN : upgrade_start(s, restart)
          \/ \E u \in Upgrades : _trigger_self_upgrade(s, u)
    \/ \E u \in Upgrades : SelfUpgrade(u)
    \/ \E c \in alive : Exit(c)
    \/ \E r \in Releases : pip(r)

(* The main thread of a server goes on, or gives up.                       *)
Spec == Init /\ [][Next]_vars /\ \A s \in Servers : WF_vars(Main(s) \/ Raise(s))
-----------------------------------------------------------------------------
Services == {"prefect", "centrifugo", "api"}
TypeOK ==
    /\ release \in Releases /\ installed \in Releases \cup {0}
    /\ bin \subseteq Releases /\ IsFiniteSet(bin) /\ binaries \subseteq bin
    /\ lockfile \in Servers \cup Upgrades \cup {None} /\ server_pid \in Servers \cup {None}
    /\ status \in {"idle", "running", "done", "failed"}
    /\ server \in [Servers -> [pc : Starting \cup {"off", "poll", "stop_all", "terminate", "unlink", "release", "over"},
                               wants : Releases \cup {0}, shutdowns : 0..2,
                               lost : Services \cup {"none"}, whole : BOOLEAN]]
    /\ processes \in [Servers -> SUBSET Services]
    /\ alive \subseteq Services \X Servers
    /\ killed \subseteq Servers /\ handing \subseteq Servers
    /\ upgrade \in [Upgrades -> [pc : {"none", "waiting", "installing", "restarting", "failed",
                                      "spawning", "finishing", "over"},
                                 asked : Servers \cup {None}]]

(* Killed, or ended with every shutdown broken off.                        *)
Abrupt(s) == At(s, "over") /\ ~server[s].whole
Busy(s) == ~Abrupt(s) /\ \E name \in processes[s] : Runs(name, s)

(* The services that a server tracks run under its lock, one server at a   *)
(* time, and the package is replaced while none do, whatever starts,       *)
(* signals and upgrades come together: the lock outlives the services      *)
(* (run_supervisor's _shutdown), also when a shutdown broke off and the    *)
(* next has to end them.  What an abrupt end leaves is not under the lock. *)
OneAtATime ==
    Cardinality({s \in Servers : Busy(s)} \cup {u \in Upgrades : upgrade[u].pc = "installing"}) <= 1

(* A server that ended, and one of whose shutdowns got through, has left   *)
(* neither its pid nor a service, but the one that it had spawned and not  *)
(* yet tracked when its start broke off; one that was not killed has not   *)
(* left a tracked Prefect even when no shutdown got through.               *)
NothingLeftBehind ==
    \A s \in Servers : At(s, "over") =>
        /\ server[s].whole => server_pid # s /\ \A c \in Of(s) : c[1] = server[s].lost
        /\ s \notin killed /\ Runs("prefect", s) => server[s].lost = "prefect"

(* The version that installed.json names is on the disk, over crashes,     *)
(* broken downloads, upgrades and downgrades, unless the clean-up has      *)
(* found keep_versions newer directories: _cleanup_versions looks neither  *)
(* at what is installed nor into a directory.                              *)
RecordedIsOnDisk ==
    installed \in binaries \cup {0} \/ Cardinality(Newer(installed)) >= keep_versions

(* A server whose API has exited for an upgrade gives up the lock that the *)
(* upgrade waits for.                                                      *)
HandsOver ==
    \A u \in Upgrades, s \in Servers :
        (upgrade[u].pc = "waiting" /\ upgrade[u].asked = s /\ lockfile = s) ~> lockfile # s
=============================================================================
