------------------------- MODULE InstallationProofs -------------------------
(***************************************************************************)
(* For every number of servers, upgrades, releases, preflights, versions,  *)
(* processes and definitions: services of one server run at a time, a      *)
(* server whose shutdown got through leaves no service that it tracked,    *)
(* the recorded version is on the disk, a migration loses no data, and the *)
(* system is all there or not at all.                                      *)
(***************************************************************************)
EXTENDS Preflight, Bootstrap, FiniteSetTheorems, WellFoundedInduction, TLAPS

-----------------------------------------------------------------------------
(* ----- Supervisor ----- *)
Working == (Starting \ {"acquire_lock"}) \cup {"poll"}

(* The lock names whoever starts services, has some that run, or replaces  *)
(* the package.                                                            *)
LockInv ==
    /\ \A s \in Servers : server[s].pc \in Working => lockfile = s
    /\ \A s \in Servers : Busy(s) => lockfile = s
    /\ \A u \in Upgrades : upgrade[u].pc \in {"installing", "restarting", "failed"} => lockfile = u

(* A service that runs is tracked, is about to be, or its start broke off. *)
(* After a shutdown that got through no tracked service runs and the pid   *)
(* is not this server's; Prefect has stopped once stop_all was reached.    *)
NoPrefect(s) == "prefect" \in processes[s] => ~Runs("prefect", s)
Accounted ==
    \A c \in alive : c[2] \notin killed \/ server[c[2]].whole =>
        c[1] \in processes[c[2]] \cup {Coming(server[c[2]].pc), server[c[2]].lost}
ServiceInv ==
    /\ Accounted
    /\ \A s \in Servers :
          /\ server[s].pc \in {"off", "acquire_lock"} => processes[s] = {}
          /\ server[s].pc \in Starting \cup {"off", "poll"} => server[s].lost = "none" /\ ~server[s].whole
          /\ server[s].pc \in {"stop_all", "terminate", "unlink", "release"} => server[s].shutdowns \in {1, 2}
          /\ s \in killed => server[s].pc = "over"
          /\ server[s].pc \in {"unlink", "release"} \/ server[s].whole => ~Busy(s)
          /\ server[s].pc = "release" \/ server[s].whole => server_pid # s
          /\ server[s].pc \in {"terminate", "unlink", "release", "over"} /\ s \notin killed => NoPrefect(s)

(* A version to be recorded was on the disk until the clean-up, which has  *)
(* left enough newer ones if it removed it.                                *)
Above(B, version) == {v \in B : v > version}
Covers(B, F, version) == version \in F \cup {0} \/ Cardinality(Above(B, version)) >= keep_versions
DiskInv ==
    /\ Covers(bin, binaries, installed)
    /\ \A s \in Servers :
          /\ server[s].pc = "cleanup_versions" => server[s].wants \in binaries
          /\ server[s].pc = "write_installed_state" => Covers(bin, binaries, server[s].wants)

(* The functions and the sets of TypeOK.                                   *)
Shape ==
    /\ server \in [Servers -> [pc : Starting \cup {"off", "poll", "stop_all", "terminate", "unlink", "release", "over"},
                               wants : Releases \cup {0}, shutdowns : 0..2,
                               lost : Services \cup {"none"}, whole : BOOLEAN]]
    /\ processes \in [Servers -> SUBSET Services]
    /\ upgrade \in [Upgrades -> [pc : {"none", "waiting", "installing", "restarting", "failed",
                                      "spawning", "finishing", "over"}, asked : Servers \cup {None}]]
    /\ alive \subseteq Services \X Servers

Safe == Shape /\ LockInv /\ ServiceInv

(* Only this server, or this upgrade, goes to another step.                *)
MovesTo(s, pc) ==
    \A t \in Servers : /\ server'[t].pc = IF t = s THEN pc ELSE server[t].pc
                       /\ server'[t].shutdowns = server[t].shutdowns
                       /\ server'[t].lost = server[t].lost
                       /\ server'[t].whole = server[t].whole
StepsTo(u, to) ==
    \A v \in Upgrades : upgrade'[v].pc = IF v = u THEN to ELSE upgrade[v].pc

LEMMA Quiet ==
    ASSUME NEW s \in Servers, NEW pc, MovesTo(s, pc), server[s].pc # "over", pc # "over",
           UNCHANGED <<processes, alive>>
    PROVE  \A t \in Servers : (Busy(t)' <=> Busy(t)) /\ (NoPrefect(t)' <=> NoPrefect(t))
<1>1. \A t \in Servers : Abrupt(t)' <=> Abrupt(t)
  BY DEF Abrupt, At, MovesTo
<1>2. \A t \in Servers : NoPrefect(t)' <=> NoPrefect(t)
  BY DEF NoPrefect, Runs
<1> QED  BY <1>1, <1>2 DEF Busy, Runs

LEMMA NamesOfServices ==
    /\ "none" \notin Services
    /\ \A pc : Coming(pc) \in Services \cup {"none"}
    /\ Services = {"prefect", "centrifugo", "api"}
BY DEF Services, Coming

LEMMA AccountedStays ==
    ASSUME Safe, NEW s \in Servers, Coming(server[s].pc) = "none",
           UNCHANGED <<processes, killed>>, alive' \subseteq alive,
           \A t \in Servers : server'[t].lost = server[t].lost,
           \A t \in Servers \ {s} : server'[t].pc = server[t].pc /\ server'[t].whole = server[t].whole,
           s \in killed => server'[s].whole = server[s].whole
    PROVE  Accounted'
<1> SUFFICES ASSUME NEW c \in alive', c[2] \notin killed \/ server'[c[2]].whole
             PROVE  c[1] \in processes[c[2]] \cup {Coming(server'[c[2]].pc), server'[c[2]].lost}
  BY DEF Accounted
<1>1. c \in alive /\ c[1] \in Services /\ c[2] \in Servers
  BY DEF Safe, Shape
<1>2. c[2] \notin killed \/ server[c[2]].whole
  BY <1>1
<1>3. c[1] \in processes[c[2]] \cup {Coming(server[c[2]].pc), server[c[2]].lost}
  BY <1>1, <1>2 DEF Safe, ServiceInv, Accounted
<1> QED  BY <1>1, <1>3, NamesOfServices

(* A step of a server under its lock that starts and stops nothing.        *)
LEMMA GoesOn ==
    ASSUME Safe, NEW s \in Servers, NEW pc \in Working,
           server[s].pc \in Working, Coming(server[s].pc) = "none", MovesTo(s, pc),
           UNCHANGED <<server_pid, lockfile, processes, alive, killed, upgrade>>
    PROVE  LockInv' /\ ServiceInv'
<1>0. server[s].pc # "over" /\ pc # "over"
  BY DEF Working, Starting
<1>1. \A t \in Servers : (Busy(t)' <=> Busy(t)) /\ (NoPrefect(t)' <=> NoPrefect(t))
  BY <1>0, Quiet
<1>2. LockInv'
  BY <1>1 DEF Safe, LockInv, MovesTo
<1>3. Accounted'
  BY AccountedStays DEF MovesTo
<1>4. ServiceInv'
  BY <1>1, <1>3 DEF Safe, ServiceInv, MovesTo, Working, Starting
<1> QED  BY <1>2, <1>4

(* What is spawned is what the start waits to track.                       *)
LEMMA Spawns ==
    ASSUME Safe, NEW s \in Servers, NEW pc \in Working, NEW name \in Services,
           server[s].pc \in Working, Coming(server[s].pc) = "none", Popen(name, s, pc), Coming(pc) = name,
           UNCHANGED <<server_pid, upgrade>>
    PROVE  LockInv' /\ ServiceInv'
<1>0. server[s].pc # "over" /\ pc # "over"
  BY DEF Working, Starting
<1>1. MovesTo(s, pc)
  BY DEF Safe, Shape, MovesTo, Popen, Goto
<1>2. \A t \in Servers \ {s} : (Busy(t)' <=> Busy(t)) /\ (NoPrefect(t)' <=> NoPrefect(t))
  <2>1. \A t \in Servers \ {s} : Abrupt(t)' <=> Abrupt(t)
    BY <1>1 DEF Abrupt, At, MovesTo
  <2>2. \A t \in Servers \ {s}, x \in STRING \cup Services : Runs(x, t)' <=> Runs(x, t)
    BY DEF Popen, Runs
  <2>3. \A t \in Servers : processes'[t] = processes[t] /\ processes[t] \subseteq Services
    BY DEF Popen, Safe, Shape
  <2> QED  BY <2>1, <2>2, <2>3 DEF Busy, NoPrefect
<1>3. UNCHANGED <<lockfile, processes, killed>>
  BY DEF Popen
<1>4. LockInv'
  BY <1>1, <1>2, <1>3 DEF Safe, LockInv, MovesTo
<1>5. Accounted'
  <2>1. \A c \in alive' : c \in alive \/ c = <<name, s>>
    BY DEF Popen
  <2>2. \A c \in alive : c[1] \in Services /\ c[2] \in Servers
    BY DEF Safe, Shape
  <2>3. Accounted
    BY DEF Safe, ServiceInv
  <2> QED  BY <1>1, <1>3, <2>1, <2>2, <2>3, NamesOfServices DEF MovesTo, Accounted
<1>6. ServiceInv'
  BY <1>1, <1>2, <1>3, <1>5 DEF Safe, ServiceInv, MovesTo, Working, Starting
<1> QED  BY <1>4, <1>6

LEMMA Tracks ==
    ASSUME Safe, NEW s \in Servers, NEW pc \in Working, NEW name \in Services,
           server[s].pc \in Working, Coming(server[s].pc) = name, Track(name, s, pc),
           UNCHANGED <<server_pid, upgrade>>
    PROVE  LockInv' /\ ServiceInv'
<1>0. server[s].pc # "over" /\ pc # "over"
  BY DEF Working, Starting
<1>1. MovesTo(s, pc)
  BY DEF Safe, Shape, MovesTo, Track, Goto
<1>2. /\ \A t \in Servers \ {s} : processes'[t] = processes[t]
      /\ processes'[s] = processes[s] \cup {name}
  BY DEF Track, Safe, Shape
<1>3. UNCHANGED <<lockfile, alive, killed>>
  BY DEF Track
<1>4. \A t \in Servers \ {s} : (Busy(t)' <=> Busy(t)) /\ (NoPrefect(t)' <=> NoPrefect(t))
  <2>1. \A t \in Servers \ {s} : Abrupt(t)' <=> Abrupt(t)
    BY <1>1 DEF Abrupt, At, MovesTo
  <2> QED  BY <1>2, <1>3, <2>1 DEF Busy, NoPrefect, Runs
<1>5. LockInv'
  BY <1>1, <1>3, <1>4 DEF Safe, LockInv, MovesTo
<1>6. Accounted'
  <2>2. \A c \in alive : c[1] \in Services /\ c[2] \in Servers
    BY DEF Safe, Shape
  <2>3. Accounted
    BY DEF Safe, ServiceInv
  <2> QED  BY <1>1, <1>2, <1>3, <2>2, <2>3 DEF MovesTo, Accounted
<1>7. ServiceInv'
  BY <1>1, <1>2, <1>3, <1>4, <1>6 DEF Safe, ServiceInv, MovesTo, Working, Starting
<1> QED  BY <1>5, <1>7

(* Whoever leaves its work for the shutdown keeps the lock that it has.    *)
LEMMA Leaves ==
    ASSUME Safe, NEW s \in Servers, server[s].pc \in Starting \cup {"poll"},
           NEW n \in {1, 2}, Leave(s, n)
    PROVE  LockInv' /\ ServiceInv'
<1>1. \A t \in Servers :
         IF t = s THEN /\ server'[t].pc = "stop_all" /\ server'[t].shutdowns = n
                       /\ server'[t].lost = Coming(server[t].pc) /\ server'[t].whole = server[t].whole
                  ELSE server'[t] = server[t]
  BY DEF Safe, Shape, Leave
<1>2. UNCHANGED <<server_pid, lockfile, processes, alive, killed, upgrade>>
  BY DEF Leave
<1>3. server[s].pc # "over"
  BY DEF Starting
<1>4. \A t \in Servers : (Busy(t)' <=> Busy(t)) /\ (NoPrefect(t)' <=> NoPrefect(t))
  <2>1. \A t \in Servers : Abrupt(t)' <=> Abrupt(t)
    BY <1>1, <1>3 DEF Abrupt, At
  <2> QED  BY <1>2, <2>1 DEF Busy, NoPrefect, Runs
<1>5. LockInv'
  BY <1>1, <1>2, <1>4 DEF Safe, LockInv, Working, Starting
<1>6. Accounted'
  <2>2. \A c \in alive : c[1] \in Services /\ c[2] \in Servers
    BY DEF Safe, Shape
  <2>3. Accounted
    BY DEF Safe, ServiceInv
  <2>4. server[s].lost = "none"
    BY DEF Safe, ServiceInv
  <2> QED  BY <1>1, <1>2, <2>2, <2>3, <2>4, NamesOfServices DEF Accounted
<1>7. ServiceInv'
  <2>1. ~server[s].whole
    BY DEF Safe, ServiceInv
  <2> QED  BY <1>1, <1>2, <1>4, <1>6, <2>1 DEF Safe, ServiceInv, Starting
<1> QED  BY <1>5, <1>7

(* Requests and exits leave the servers and the lock alone.                *)
LEMMA ServersStay ==
    ASSUME Safe, UNCHANGED <<server, server_pid, lockfile, processes, killed, upgrade>>, alive' \subseteq alive
    PROVE  LockInv' /\ ServiceInv'
<1>1. \A t \in Servers : (Busy(t)' => Busy(t)) /\ (NoPrefect(t) => NoPrefect(t)')
  BY DEF Busy, Runs, Abrupt, At, NoPrefect
<1>2. LockInv'
  BY <1>1 DEF Safe, LockInv
<1>3. ServiceInv'
  BY <1>1 DEF Safe, ServiceInv, Accounted
<1> QED  BY <1>2, <1>3

(* So do upgrades, which take the lock when it is free and hold it until   *)
(* they give it up.                                                        *)
UpgradeSteps == {"waiting", "installing", "restarting", "failed", "spawning", "finishing", "over"}
Holds(u, to) ==
    \/ UNCHANGED lockfile /\ (to \in {"restarting", "failed"} => upgrade[u].pc = "installing") /\ to # "installing"
    \/ lockfile = None /\ lockfile' = u
    \/ lockfile = u /\ lockfile' = None /\ to \notin {"installing", "restarting", "failed"}

LEMMA UpgradeGoesOn ==
    ASSUME Safe, UNCHANGED <<server, server_pid, processes, killed>>, alive' \subseteq alive,
           NEW u \in Upgrades, NEW to \in UpgradeSteps, StepsTo(u, to), Holds(u, to)
    PROVE  LockInv' /\ ServiceInv'
<1>1. \A t \in Servers : (Busy(t)' => Busy(t)) /\ (NoPrefect(t) => NoPrefect(t)')
  BY DEF Busy, Runs, Abrupt, At, NoPrefect
<1>2. LockInv'
  BY <1>1, SupervisorAssumption DEF Safe, LockInv, StepsTo, Holds
<1>3. ServiceInv'
  BY <1>1 DEF Safe, ServiceInv, Accounted
<1> QED  BY <1>2, <1>3

LEMMA SafetyStep ==
    ASSUME Safe, [Next]_vars
    PROVE  LockInv' /\ ServiceInv'
<1> USE SupervisorAssumption DEF At
<1>0. ASSUME NEW s \in Servers, NEW pc \in Starting \cup {"release"}, MovesTo(s, pc),
             \/ server[s].pc \in {"off", "acquire_lock", "announce"} /\ pc \in Starting /\ Coming(pc) = "none"
             \/ server[s].pc = "unlink" /\ pc = "release" /\ server_pid' = None,
             pc = "acquire_lock" => server[s].pc = "off",
             UNCHANGED <<processes, alive, killed>>,
             server_pid' = server_pid \/ server_pid' = None \/ (server_pid' = s /\ pc \in Starting)
      PROVE  ServiceInv'
  <2>0. server[s].pc # "over" /\ pc # "over"
    BY <1>0 DEF Starting
  <2>1. \A t \in Servers : (Busy(t)' <=> Busy(t)) /\ (NoPrefect(t)' <=> NoPrefect(t))
    BY <1>0, <2>0, Quiet
  <2>2. Coming(server[s].pc) = "none" /\ Coming(server'[s].pc) = "none"
    BY <1>0 DEF Coming, MovesTo
  <2>3. Accounted'
    BY <1>0, <2>2, AccountedStays DEF MovesTo
  <2>4. pc # "release" => ~server[s].whole
    BY <1>0 DEF Safe, ServiceInv, Starting
  <2> QED  BY <1>0, <2>1, <2>3, <2>4 DEF Safe, ServiceInv, MovesTo, Starting
<1>1. ASSUME NEW s \in Servers, Begin(s)
      PROVE  LockInv' /\ ServiceInv'
  <2>1. MovesTo(s, "acquire_lock")
    BY <1>1 DEF Begin, Goto, MovesTo, Safe, Shape
  <2>2. \A t \in Servers : Busy(t)' <=> Busy(t)
    BY <1>1, <2>1, Quiet DEF Begin
  <2>3. UNCHANGED <<server_pid, lockfile, processes, alive, killed, upgrade>>
    BY <1>1 DEF Begin, files
  <2>4. LockInv'
    BY <2>1, <2>2, <2>3 DEF Safe, LockInv, MovesTo, Working
  <2>5. ServiceInv'
    BY <1>0, <1>1, <2>1, <2>3 DEF Begin, Starting, Coming
  <2> QED  BY <2>4, <2>5
<1>2. ASSUME NEW s \in Servers, acquire_lock(s)
      PROVE  LockInv' /\ ServiceInv'
  <2>1. MovesTo(s, "announce")
    BY <1>2 DEF acquire_lock, Goto, MovesTo, Safe, Shape
  <2>2. \A t \in Servers : Busy(t)' <=> Busy(t)
    BY <1>2, <2>1, Quiet DEF acquire_lock
  <2>3. UNCHANGED <<server_pid, processes, alive, killed, upgrade>> /\ lockfile = None /\ lockfile' = s
    BY <1>2 DEF acquire_lock, files
  <2>4. LockInv'
    BY <2>1, <2>2, <2>3 DEF Safe, LockInv, MovesTo, Working
  <2>5. ServiceInv'
    BY <1>0, <1>2, <2>1, <2>3 DEF acquire_lock, Starting, Coming
  <2> QED  BY <2>4, <2>5
<1>3. ASSUME NEW s \in Servers, Announce(s)
      PROVE  LockInv' /\ ServiceInv'
  <2>1. MovesTo(s, "migrate_db")
    BY <1>3 DEF Announce, Goto, MovesTo, Safe, Shape
  <2>2. \A t \in Servers : Busy(t)' <=> Busy(t)
    BY <1>3, <2>1, Quiet DEF Announce
  <2>3. UNCHANGED <<lockfile, processes, alive, killed, upgrade>> /\ server_pid' = s
    BY <1>3 DEF Announce
  <2>4. LockInv'
    BY <1>3, <2>1, <2>2, <2>3 DEF Announce, Safe, LockInv, MovesTo, Working, Starting
  <2>5. ServiceInv'
    BY <1>0, <1>3, <2>1, <2>3 DEF Announce, Starting, Coming
  <2> QED  BY <2>4, <2>5
<1>4. ASSUME NEW s \in Servers, migrate_db(s)
      PROVE  LockInv' /\ ServiceInv'
  <2>1. MovesTo(s, "plan_upgrades")
    BY <1>4 DEF migrate_db, Goto, MovesTo, Safe, Shape
  <2> QED  BY <1>4, <2>1, GoesOn DEF migrate_db, files, Working, Starting, Coming
<1>5. ASSUME NEW s \in Servers, plan_upgrades(s)
      PROVE  LockInv' /\ ServiceInv'
  <2>1. MovesTo(s, "cleanup_versions")
    BY <1>5 DEF plan_upgrades, MovesTo, Safe, Shape
  <2> QED  BY <1>5, <2>1, GoesOn DEF plan_upgrades, Working, Starting, Coming
<1>6. ASSUME NEW s \in Servers, cleanup_versions(s)
      PROVE  LockInv' /\ ServiceInv'
  <2>1. MovesTo(s, "write_installed_state")
    BY <1>6 DEF cleanup_versions, Goto, MovesTo, Safe, Shape
  <2> QED  BY <1>6, <2>1, GoesOn DEF cleanup_versions, Working, Starting, Coming
<1>7. ASSUME NEW s \in Servers, write_installed_state(s)
      PROVE  LockInv' /\ ServiceInv'
  <2>1. MovesTo(s, "start_prefect")
    BY <1>7 DEF write_installed_state, Goto, MovesTo, Safe, Shape
  <2> QED  BY <1>7, <2>1, GoesOn DEF write_installed_state, Working, Starting, Coming
<1>8. ASSUME NEW s \in Servers, start_prefect(s)
      PROVE  LockInv' /\ ServiceInv'
  <2>1. CASE Popen("prefect", s, "_track_process")
    BY <1>8, <2>1, Spawns DEF start_prefect, files, Services, Working, Starting, Popen, Coming
  <2>2. CASE Goto(s, "start_centrifugo") /\ UNCHANGED <<alive, processes, lockfile, killed, handing, upgrade>>
    <3>1. MovesTo(s, "start_centrifugo")
      BY <2>2 DEF Goto, MovesTo, Safe, Shape
    <3> QED  BY <1>8, <2>2, <3>1, GoesOn DEF start_prefect, files, Working, Starting, Coming
  <2> QED  BY <1>8, <2>1, <2>2 DEF start_prefect
<1>31. ASSUME NEW s \in Servers, _track_process(s) \/ append(s)
      PROVE  LockInv' /\ ServiceInv'
  BY <1>31, Tracks DEF _track_process, append, files, Services, Working, Starting, Track, Coming
<1>9. ASSUME NEW s \in Servers, _wait_for_http(s)
      PROVE  LockInv' /\ ServiceInv'
  <2>1. MovesTo(s, "start_centrifugo")
    BY <1>9 DEF _wait_for_http, Goto, MovesTo, Safe, Shape
  <2> QED  BY <1>9, <2>1, GoesOn DEF _wait_for_http, files, Working, Starting, Coming
<1>10. ASSUME NEW s \in Servers, start_centrifugo(s)
      PROVE  LockInv' /\ ServiceInv'
  BY <1>10, Spawns DEF start_centrifugo, Services, Working, Starting, Popen, Coming
<1>11. ASSUME NEW s \in Servers, wait_until_ready(s)
      PROVE  LockInv' /\ ServiceInv'
  BY <1>11, Tracks DEF wait_until_ready, files, Services, Working, Starting, Track, Coming
<1>12. ASSUME NEW s \in Servers, start_api(s)
      PROVE  LockInv' /\ ServiceInv'
  BY <1>12, Spawns DEF start_api, files, Services, Working, Starting, Popen, Coming
<1>13. ASSUME NEW s \in Servers, Poll(s) \/ _signal_handler(s) \/ Raise(s)
      PROVE  LockInv' /\ ServiceInv'
  BY <1>13, Leaves DEF Poll, _signal_handler, Raise
<1>14. ASSUME NEW s \in Servers, _terminate(s)
      PROVE  LockInv' /\ ServiceInv'
  <2>1. MovesTo(s, "unlink") /\ server[s].pc = "terminate"
    BY <1>14 DEF _terminate, Goto, MovesTo, Safe, Shape
  <2>2. UNCHANGED <<server_pid, lockfile, processes, killed, upgrade>> /\ alive' \subseteq alive
    BY <1>14 DEF _terminate, Stopped, files
  <2>3. ~Busy(s)'
    <3>1. NoPrefect(s)
      BY <2>1 DEF Safe, ServiceInv
    <3>2. ASSUME NEW name \in processes[s]
          PROVE  ~Runs(name, s)'
      <4>1. name \in {"prefect", "centrifugo", "api"}
        BY DEF Safe, Shape, Services
      <4> QED  BY <1>14, <2>2, <3>1, <4>1 DEF _terminate, Stopped, NoPrefect, Runs
    <3> QED  BY <2>2, <3>2 DEF Busy
  <2>4. \A t \in Servers : (Busy(t)' => Busy(t)) /\ (NoPrefect(t) => NoPrefect(t)')
    BY <2>1, <2>2 DEF Busy, Abrupt, At, NoPrefect, Runs, MovesTo
  <2>5. LockInv'
    BY <2>1, <2>2, <2>3, <2>4 DEF Safe, LockInv, MovesTo, Working, Starting
  <2>7. Accounted'
    BY <2>1, <2>2, AccountedStays DEF MovesTo, Coming
  <2>6. ServiceInv'
    BY <2>1, <2>2, <2>3, <2>4, <2>7 DEF Safe, ServiceInv, MovesTo, Starting
  <2> QED  BY <2>5, <2>6
<1>29. ASSUME NEW s \in Servers, stop_all(s)
      PROVE  LockInv' /\ ServiceInv'
  <2>1. MovesTo(s, "terminate") /\ server[s].pc = "stop_all"
    BY <1>29 DEF stop_all, Goto, MovesTo, Safe, Shape
  <2>2. UNCHANGED <<server_pid, lockfile, processes, killed, upgrade>> /\ alive' \subseteq alive /\ NoPrefect(s)'
    BY <1>29 DEF stop_all, Stopped, files, NoPrefect, Runs
  <2>3. \A t \in Servers : (Busy(t)' => Busy(t)) /\ (NoPrefect(t) => NoPrefect(t)')
    BY <2>1, <2>2 DEF Busy, Abrupt, At, NoPrefect, Runs, MovesTo
  <2>4. LockInv'
    BY <2>1, <2>2, <2>3 DEF Safe, LockInv, MovesTo, Working, Starting
  <2>5. Accounted'
    BY <2>1, <2>2, AccountedStays DEF MovesTo, Coming
  <2>6. ServiceInv'
    BY <2>1, <2>2, <2>3, <2>5 DEF Safe, ServiceInv, MovesTo, Starting
  <2> QED  BY <2>4, <2>6
<1>30. ASSUME NEW s \in Servers, BreaksOff(s)
      PROVE  LockInv' /\ ServiceInv'
  <2>1. /\ server[s].pc = "stop_all" /\ server[s].shutdowns \in {1, 2}
        /\ \A t \in Servers \ {s} : server'[t] = server[t]
        /\ server'[s].lost = server[s].lost /\ server'[s].whole = server[s].whole
        /\ \/ server[s].shutdowns = 1 /\ server'[s].pc = "over"
           \/ server[s].shutdowns = 2 /\ server'[s].shutdowns = 1 /\ server'[s].pc = "stop_all"
    BY <1>30 DEF BreaksOff, Safe, Shape, ServiceInv
  <2>2. /\ UNCHANGED <<server_pid, processes, killed, upgrade>> /\ alive' \subseteq alive /\ NoPrefect(s)'
        /\ lockfile' = IF server'[s].pc = "over" /\ lockfile = s THEN None ELSE lockfile
    BY <1>30, <2>1 DEF BreaksOff, Stopped, Released, files, NoPrefect, Runs
  <2>3. \A t \in Servers : (Busy(t)' => Busy(t)) /\ (NoPrefect(t) => NoPrefect(t)')
    BY <2>1, <2>2 DEF Busy, Abrupt, At, NoPrefect, Runs
  <2>4. LockInv'
    <3>1. server'[s].pc = "over" => ~Busy(s)'
      BY <2>1, <2>3 DEF Safe, ServiceInv, Busy, Abrupt, At
    <3>2. \A t \in Servers : server'[t].pc \in Working => server[t].pc \in Working /\ t # s
      BY <2>1 DEF Working, Starting
    <3> QED  BY <2>2, <2>3, <3>1, <3>2 DEF Safe, LockInv
  <2>5. Accounted'
    BY <2>1, <2>2, AccountedStays DEF Coming
  <2>6. ServiceInv'
    BY <2>1, <2>2, <2>3, <2>5 DEF Safe, ServiceInv, Starting
  <2> QED  BY <2>4, <2>6
<1>15. ASSUME NEW s \in Servers, _remove_server_pid(s)
      PROVE  LockInv' /\ ServiceInv'
  <2>1. MovesTo(s, "release")
    BY <1>15 DEF _remove_server_pid, Goto, MovesTo, Safe, Shape
  <2>2. \A t \in Servers : Busy(t)' <=> Busy(t)
    BY <1>15, <2>1, Quiet DEF _remove_server_pid
  <2>3. UNCHANGED <<lockfile, processes, alive, killed, upgrade>> /\ server_pid' = None
    BY <1>15 DEF _remove_server_pid
  <2>4. LockInv'
    BY <2>1, <2>2, <2>3 DEF Safe, LockInv, MovesTo, Working, Starting
  <2>5. ServiceInv'
    BY <1>0, <1>15, <2>1, <2>3 DEF _remove_server_pid, Starting, Coming
  <2> QED  BY <2>4, <2>5
<1>16. ASSUME NEW s \in Servers, _release_lock(s)
      PROVE  LockInv' /\ ServiceInv'
  <2>1. /\ server[s].pc = "release" /\ \A t \in Servers \ {s} : server'[t] = server[t]
        /\ server'[s].lost = server[s].lost /\ server'[s].whole
        /\ \/ server'[s].pc = "over"
           \/ server'[s].pc = "stop_all" /\ server'[s].shutdowns = 1
    BY <1>16 DEF _release_lock, Safe, Shape, ServiceInv
  <2>2. /\ UNCHANGED <<server_pid, processes, alive, killed, upgrade>>
        /\ lockfile' = IF lockfile = s THEN None ELSE lockfile
    BY <1>16 DEF _release_lock, Released, files
  <2>3. ~Busy(s) /\ s \notin killed /\ server_pid # s
    BY <2>1 DEF Safe, ServiceInv
  <2>4. \A t \in Servers : (Busy(t)' => Busy(t)) /\ (NoPrefect(t) => NoPrefect(t)')
    BY <2>1, <2>2 DEF Busy, Abrupt, At, NoPrefect, Runs
  <2>5. LockInv'
    <3>1. \A t \in Servers : server'[t].pc \in Working => server[t].pc \in Working /\ t # s
      BY <2>1 DEF Working, Starting
    <3> QED  BY <2>2, <2>3, <2>4, <3>1 DEF Safe, LockInv
  <2>6. Accounted'
    BY <2>1, <2>2, <2>3, AccountedStays DEF Coming
  <2>7. ServiceInv'
    BY <2>1, <2>2, <2>3, <2>4, <2>6 DEF Safe, ServiceInv, Starting
  <2> QED  BY <2>5, <2>7
<1>17. ASSUME NEW s \in Servers, Kill(s)
      PROVE  LockInv' /\ ServiceInv'
  <2>1. MovesTo(s, "over") /\ server[s].pc # "off"
    BY <1>17 DEF Kill, Goto, MovesTo, Safe, Shape
  <2>2. /\ UNCHANGED <<server_pid, processes, alive, upgrade>> /\ killed' = killed \cup {s}
        /\ lockfile' = IF lockfile = s THEN None ELSE lockfile
    BY <1>17 DEF Kill, Released, files
  <2>3. ~Busy(s)' /\ \A t \in Servers : (Busy(t)' => Busy(t)) /\ (NoPrefect(t) => NoPrefect(t)')
    BY <2>1, <2>2 DEF Busy, Abrupt, At, NoPrefect, Runs, MovesTo, Safe, ServiceInv
  <2>4. LockInv'
    BY <2>1, <2>2, <2>3 DEF Safe, LockInv, MovesTo, Working, Starting
  <2>5. Accounted'
    <3>1. CASE server[s].whole
      <4>1. server[s].pc \notin Starting /\ Coming(server[s].pc) = "none"
        BY <3>1 DEF Safe, ServiceInv, Starting, Coming
      <4>2. \A c \in alive : c[1] \in Services /\ c[2] \in Servers
        BY DEF Safe, Shape
      <4> QED  BY <2>1, <2>2, <3>1, <4>1, <4>2, NamesOfServices DEF Safe, ServiceInv, Accounted, MovesTo
    <3>2. CASE ~server[s].whole
      <4>2. \A c \in alive : c[2] \in Servers
        BY DEF Safe, Shape
      <4> QED  BY <2>1, <2>2, <3>2, <4>2 DEF Safe, ServiceInv, Accounted, MovesTo
    <3> QED  BY <3>1, <3>2
  <2>6. ServiceInv'
    BY <2>1, <2>2, <2>3, <2>5 DEF Safe, ServiceInv, MovesTo, Starting
  <2> QED  BY <2>4, <2>6
<1>18. ASSUME NEW s \in Servers, NEW restart \in BOOLEAN, upgrade_start(s, restart)
      PROVE  LockInv' /\ ServiceInv'
  BY <1>18, ServersStay DEF upgrade_start
<1>19. ASSUME NEW s \in Servers, NEW u \in Upgrades, _trigger_self_upgrade(s, u)
      PROVE  LockInv' /\ ServiceInv'
  <2>1. StepsTo(u, "waiting")
    BY <1>19 DEF _trigger_self_upgrade, StepsTo, Safe, Shape
  <2>2. Holds(u, "waiting")
    BY <1>19 DEF _trigger_self_upgrade, Holds
  <2> QED  BY <1>19, <2>1, <2>2, UpgradeGoesOn DEF UpgradeSteps, _trigger_self_upgrade, files
<1>20. ASSUME NEW u \in Upgrades, _acquire_lock_with_retry(u)
      PROVE  LockInv' /\ ServiceInv'
  <2>1. StepsTo(u, "installing")
    BY <1>20 DEF _acquire_lock_with_retry, Step, StepsTo, Safe, Shape
  <2>2. Holds(u, "installing")
    BY <1>20 DEF _acquire_lock_with_retry, Holds
  <2> QED  BY <1>20, <2>1, <2>2, UpgradeGoesOn DEF UpgradeSteps, _acquire_lock_with_retry
<1>21. ASSUME NEW u \in Upgrades, Timeout(u) \/ SetDone(u)
      PROVE  LockInv' /\ ServiceInv'
  <2>1. StepsTo(u, "over")
    BY <1>21 DEF Timeout, SetDone, Step, StepsTo, Safe, Shape
  <2>2. Holds(u, "over")
    BY <1>21 DEF Timeout, SetDone, Holds
  <2> QED  BY <1>21, <2>1, <2>2, UpgradeGoesOn DEF UpgradeSteps, Timeout, SetDone
<1>22. ASSUME NEW u \in Upgrades, NEW to \in {"restarting", "failed"}, Step(u, "installing", to),
              UNCHANGED <<server_pid, lockfile, server, processes, alive, killed>>
      PROVE  LockInv' /\ ServiceInv'
  <2>1. StepsTo(u, to)
    BY <1>22 DEF Step, StepsTo, Safe, Shape
  <2>2. Holds(u, to)
    BY <1>22 DEF Step, Holds
  <2> QED  BY <1>22, <2>1, <2>2, UpgradeGoesOn DEF UpgradeSteps
<1>23. ASSUME NEW u \in Upgrades, Release(u)
      PROVE  LockInv' /\ ServiceInv'
  <2>1. lockfile = u
    BY <1>23 DEF Release, Step, Safe, LockInv
  <2>2. \E to \in {"spawning", "over"} : StepsTo(u, to) /\ Holds(u, to)
    BY <1>23, <2>1 DEF Release, Step, StepsTo, Safe, Shape, Holds
  <2> QED  BY <1>23, <2>2, UpgradeGoesOn DEF UpgradeSteps, Release, files
<1>24. ASSUME NEW u \in Upgrades, NEW s \in Servers, Spawn(u, s)
      PROVE  LockInv' /\ ServiceInv'
  <2>1. MovesTo(s, "acquire_lock") /\ StepsTo(u, "finishing")
    BY <1>24 DEF Spawn, Step, StepsTo, Goto, MovesTo, Safe, Shape
  <2>2. \A t \in Servers : Busy(t)' <=> Busy(t)
    BY <1>24, <2>1, Quiet DEF Spawn
  <2>3. UNCHANGED <<server_pid, lockfile, processes, alive, killed>>
    BY <1>24 DEF Spawn, files
  <2>4. LockInv'
    BY <2>1, <2>2, <2>3 DEF Safe, LockInv, MovesTo, StepsTo, Working
  <2>5. ServiceInv'
    BY <1>0, <1>24, <2>1, <2>3 DEF Spawn, Starting, Coming
  <2> QED  BY <2>4, <2>5
<1>25. ASSUME NEW c \in alive, Exit(c)
      PROVE  LockInv' /\ ServiceInv'
  BY <1>25, ServersStay DEF Exit, files
<1>26. ASSUME NEW r \in Releases, pip(r)
      PROVE  LockInv' /\ ServiceInv'
  BY <1>26, ServersStay DEF pip
<1>27. CASE UNCHANGED vars
  BY <1>27, ServersStay DEF vars, files
<1>28. ASSUME NEW u \in Upgrades, _run_pip(u) \/ InstallFails(u)
      PROVE  LockInv' /\ ServiceInv'
  BY <1>22, <1>28 DEF _run_pip, InstallFails
<1> QED
  BY <1>1, <1>2, <1>3, <1>4, <1>5, <1>6, <1>7, <1>8, <1>9, <1>10, <1>11, <1>12, <1>13, <1>14, <1>15, <1>16,
     <1>17, <1>18, <1>19, <1>20, <1>21, <1>23, <1>24, <1>25, <1>26, <1>27, <1>28, <1>29, <1>30, <1>31 DEF Next, Main, SelfUpgrade

(* ----- types ----- *)
Records == [pc : Starting \cup {"off", "poll", "stop_all", "terminate", "unlink", "release", "over"},
            wants : Releases \cup {0}, shutdowns : 0..2, lost : Services \cup {"none"}, whole : BOOLEAN]

LEMMA ServerTypes ==
    ASSUME TypeOK, ServiceInv, [Next]_vars
    PROVE  server' \in [Servers -> Records]
<1> USE DEF At
<1>0. server \in [Servers -> Records]
  BY DEF TypeOK, Records
<1>1. ASSUME NEW s \in Servers, NEW pc \in Starting \cup {"poll", "terminate", "unlink", "release", "over"}, Goto(s, pc)
      PROVE  server' \in [Servers -> Records]
  BY <1>0, <1>1 DEF Goto, Records
<1>2. ASSUME NEW s \in Servers, plan_upgrades(s)
      PROVE  server' \in [Servers -> Records]
  <2>1. release \in Releases /\ "cleanup_versions" \in Starting
    BY DEF TypeOK, Starting
  <2>2. \A w \in Records : [w EXCEPT !.pc = "cleanup_versions", !.wants = release] \in Records
    BY <2>1 DEF Records
  <2>3. server' = [server EXCEPT ![s] = [@ EXCEPT !.pc = "cleanup_versions", !.wants = release]]
    BY <1>0, <1>2 DEF plan_upgrades
  <2> QED  BY <1>0, <2>2, <2>3
<1>3. ASSUME NEW s \in Servers, NEW n \in {1, 2}, Leave(s, n)
      PROVE  server' \in [Servers -> Records]
  <2>1. n \in 0..2 /\ Coming(server[s].pc) \in Services \cup {"none"}
    BY NamesOfServices
  <2>2. \A w \in Records : [w EXCEPT !.pc = "stop_all", !.wants = 0, !.shutdowns = n,
                                     !.lost = Coming(server[s].pc)] \in Records
    BY <2>1 DEF Records
  <2>3. server' = [server EXCEPT ![s] = [@ EXCEPT !.pc = "stop_all", !.wants = 0, !.shutdowns = n,
                                                  !.lost = Coming(server[s].pc)]]
    BY <1>0, <1>3 DEF Leave
  <2> QED  BY <1>0, <2>2, <2>3
<1>4. ASSUME NEW s \in Servers, _release_lock(s)
      PROVE  server' \in [Servers -> Records]
  <2>1. server[s].shutdowns \in {1, 2}
    BY <1>4 DEF _release_lock, ServiceInv
  <2>2. server[s].shutdowns - 1 \in 0..2
    BY <2>1
  <2> QED  BY <1>0, <1>4, <2>2 DEF _release_lock, Records
<1>13. ASSUME NEW s \in Servers, BreaksOff(s)
       PROVE  server' \in [Servers -> Records]
  <2>1. server[s].shutdowns \in {1, 2}
    BY <1>13 DEF BreaksOff, ServiceInv
  <2> DEFINE n == server[s].shutdowns - 1
             pc == IF server[s].shutdowns = 1 THEN "over" ELSE "stop_all"
  <2>2. n \in 0..2
    BY <2>1
  <2>3. \A w \in Records : [w EXCEPT !.shutdowns = n, !.pc = pc] \in Records
    BY <2>2 DEF Records
  <2>4. server' = [server EXCEPT ![s] = [@ EXCEPT !.shutdowns = n, !.pc = pc]]
    BY <1>0, <1>13 DEF BreaksOff
  <2> HIDE DEF n, pc
  <2> QED  BY <1>0, <2>3, <2>4
<1>5. ASSUME NEW s \in Servers,
             \/ Begin(s) \/ acquire_lock(s) \/ Announce(s) \/ migrate_db(s) \/ cleanup_versions(s)
             \/ write_installed_state(s) \/ start_prefect(s) \/ _track_process(s) \/ _wait_for_http(s)
             \/ start_centrifugo(s) \/ wait_until_ready(s) \/ start_api(s) \/ append(s) \/ stop_all(s)
             \/ _terminate(s) \/ _remove_server_pid(s) \/ Kill(s)
      PROVE  \E pc \in Starting \cup {"poll", "terminate", "unlink", "release", "over"} : Goto(s, pc)
  BY <1>5 DEF Begin, acquire_lock, Announce, migrate_db, cleanup_versions, write_installed_state, start_prefect,
     _track_process, _wait_for_http, start_centrifugo, wait_until_ready, start_api, append, stop_all, _terminate,
     _remove_server_pid, Kill, Popen, Track, Starting
<1>6. ASSUME NEW s \in Servers, Poll(s) \/ _signal_handler(s) \/ Raise(s)
      PROVE  server' \in [Servers -> Records]
  BY <1>3, <1>6 DEF Poll, _signal_handler, Raise
<1>7. ASSUME NEW u \in Upgrades, NEW s \in Servers, Spawn(u, s)
      PROVE  Goto(s, "acquire_lock")
  BY <1>7 DEF Spawn
<1>8. CASE UNCHANGED server
  BY <1>0, <1>8
<1>9. ASSUME NEW s \in Servers,
             \/ \E restart \in BOOLEAN : upgrade_start(s, restart)
             \/ \E u \in Upgrades : _trigger_self_upgrade(s, u)
      PROVE  UNCHANGED server
  BY <1>9 DEF upgrade_start, _trigger_self_upgrade
<1>10. ASSUME NEW u \in Upgrades, SelfUpgrade(u), \A s \in Servers : ~Spawn(u, s)
       PROVE  UNCHANGED server
  BY <1>10 DEF SelfUpgrade, _acquire_lock_with_retry, Timeout, _run_pip, InstallFails, Release, SetDone
<1>11. ASSUME (\E c \in alive : Exit(c)) \/ (\E r \in Releases : pip(r)) \/ UNCHANGED vars
       PROVE  UNCHANGED server
  BY <1>11 DEF Exit, pip, vars
<1>12. "acquire_lock" \in Starting
  BY DEF Starting
<1> QED
  BY <1>1, <1>2, <1>4, <1>5, <1>6, <1>7, <1>8, <1>9, <1>10, <1>11, <1>12, <1>13 DEF Next, Main

(* A server past its plan knows the version that it starts.                *)
WantsInv ==
    \A s \in Servers :
        server[s].pc \in {"cleanup_versions", "write_installed_state", "start_prefect", "_track_process",
                         "wait_for_http", "start_centrifugo"} => server[s].wants \in Releases

FileTypes ==
    /\ release \in Releases /\ installed \in Releases \cup {0}
    /\ bin \subseteq Releases /\ IsFiniteSet(bin) /\ binaries \subseteq bin
    /\ server_pid \in Servers \cup {None} /\ status \in {"idle", "running", "done", "failed"}

LEMMA FileTypesStep ==
    ASSUME TypeOK, ServiceInv, WantsInv, [Next]_vars
    PROVE  FileTypes'
<1>0. FileTypes
  BY DEF TypeOK, FileTypes
<1>1. ASSUME NEW s \in Servers, plan_upgrades(s)
      PROVE  FileTypes'
  <2>1. IsFiniteSet(bin \cup {release})
    BY <1>0, FS_AddElement DEF FileTypes
  <2> QED  BY <1>0, <1>1, <2>1 DEF plan_upgrades, ensure_centrifugo_binary, FileTypes
<1>2. ASSUME NEW s \in Servers, cleanup_versions(s)
      PROVE  FileTypes'
  <2>1. bin' \subseteq bin /\ binaries' \subseteq bin'
    BY <1>2 DEF cleanup_versions, _cleanup_versions
  <2>2. IsFiniteSet(bin')
    BY <1>0, <2>1, FS_Subset DEF FileTypes
  <2> QED  BY <1>0, <1>2, <2>1, <2>2 DEF cleanup_versions, FileTypes
<1>3. ASSUME NEW s \in Servers, start_centrifugo(s)
      PROVE  FileTypes'
  <2>1. /\ bin' = bin \cup {release} \/ bin' = bin
        /\ binaries' \subseteq bin'
    BY <1>0, <1>3 DEF start_centrifugo, ensure_centrifugo_binary, FileTypes
  <2>2. IsFiniteSet(bin \cup {release})
    BY <1>0, FS_AddElement DEF FileTypes
  <2> QED  BY <1>0, <1>3, <2>1, <2>2 DEF start_centrifugo, FileTypes
<1>9. ASSUME NEW s \in Servers, NEW n \in {1, 2}, Leave(s, n), server[s].pc \in Starting \cup {"poll"},
             status' \in {"idle", "running", "done", "failed"}
      PROVE  FileTypes'
  <2>1. PICK made \in SUBSET Abandoned(s) : bin' = bin \cup made
    BY <1>9 DEF Leave
  <2>2. Abandoned(s) = {} \/ Abandoned(s) = {release} \/ Abandoned(s) = {server[s].wants}
    BY DEF Abandoned
  <2>3. Abandoned(s) \subseteq Releases
    BY <1>0, <1>9, <2>2 DEF Abandoned, WantsInv, At, FileTypes
  <2>4. IsFiniteSet(Abandoned(s))
    <3>1. CASE Abandoned(s) = {}
      BY <3>1, FS_EmptySet
    <3>2. CASE Abandoned(s) = {release}
      BY <3>2, FS_Singleton
    <3>3. CASE Abandoned(s) = {server[s].wants}
      BY <3>3, FS_Singleton
    <3> QED  BY <2>2, <3>1, <3>2, <3>3
  <2>5. IsFiniteSet(made)
    BY <2>4, FS_Subset
  <2>6. IsFiniteSet(bin \cup made)
    BY <1>0, <2>5, FS_Union DEF FileTypes
  <2> QED  BY <1>0, <1>9, <2>1, <2>3, <2>6 DEF Leave, FileTypes
<1>4. ASSUME NEW s \in Servers, write_installed_state(s)
      PROVE  FileTypes'
  BY <1>0, <1>4 DEF write_installed_state, TypeOK, FileTypes
<1>5. ASSUME UNCHANGED <<release, installed, bin, binaries>>, server_pid' \in Servers \cup {None},
             status' \in {"idle", "running", "done", "failed"}
      PROVE  FileTypes'
  BY <1>0, <1>5 DEF FileTypes
<1>6. ASSUME NEW s \in Servers,
             \/ Begin(s) \/ acquire_lock(s) \/ Announce(s) \/ migrate_db(s) \/ start_prefect(s)
             \/ _track_process(s) \/ _wait_for_http(s) \/ wait_until_ready(s) \/ start_api(s) \/ append(s)
             \/ stop_all(s) \/ BreaksOff(s) \/ _terminate(s) \/ _remove_server_pid(s) \/ _release_lock(s)
             \/ Kill(s)
             \/ (\E restart \in BOOLEAN : upgrade_start(s, restart))
             \/ (\E u \in Upgrades : _trigger_self_upgrade(s, u))
      PROVE  FileTypes'
  <2>1. UNCHANGED <<release, installed, bin, binaries>>
    BY <1>6 DEF Begin, acquire_lock, Announce, migrate_db, start_prefect, _track_process, _wait_for_http,
       wait_until_ready, start_api, append, Track, stop_all, BreaksOff, _terminate, _remove_server_pid, _release_lock, Kill,
       upgrade_start, _trigger_self_upgrade, files
  <2>2. server_pid' \in Servers \cup {None}
    BY <1>0, <1>6 DEF FileTypes, Begin, acquire_lock, Announce, migrate_db, start_prefect, _track_process, _wait_for_http,
       wait_until_ready, start_api, append, Track, stop_all, BreaksOff, _terminate, _remove_server_pid, _release_lock,
       Kill, upgrade_start, _trigger_self_upgrade, files
  <2>3. status' \in {"idle", "running", "done", "failed"}
    BY <1>0, <1>6 DEF FileTypes, Begin, acquire_lock, Announce, migrate_db, start_prefect, _track_process, _wait_for_http,
       wait_until_ready, start_api, append, Track, stop_all, BreaksOff, _terminate, _remove_server_pid, _release_lock,
       Kill, upgrade_start, _trigger_self_upgrade, files
  <2> QED  BY <1>5, <2>1, <2>2, <2>3
<1>7. ASSUME NEW u \in Upgrades, SelfUpgrade(u)
      PROVE  FileTypes'
  BY <1>0, <1>7 DEF SelfUpgrade, _acquire_lock_with_retry, Timeout, _run_pip, InstallFails, Release, Spawn,
     SetDone, files, FileTypes
<1>8. ASSUME (\E c \in alive : Exit(c)) \/ (\E r \in Releases : pip(r)) \/ UNCHANGED vars
      PROVE  FileTypes'
  BY <1>0, <1>8 DEF Exit, pip, vars, files, FileTypes
<1>10. ASSUME NEW s \in Servers, Poll(s) \/ _signal_handler(s) \/ Raise(s)
       PROVE  FileTypes'
  <2>1. server[s].pc \in Starting \cup {"poll"} /\ status' \in {"idle", "running", "done", "failed"}
    BY <1>0, <1>10 DEF Poll, _signal_handler, Raise, At, FileTypes
  <2>2. Leave(s, 1) \/ Leave(s, 2)
    BY <1>10 DEF Poll, _signal_handler, Raise
  <2> QED  BY <1>9, <2>1, <2>2
<1> QED
  BY <1>1, <1>2, <1>3, <1>4, <1>6, <1>7, <1>8, <1>10 DEF Next, Main

HoldersTyped ==
    /\ lockfile \in Servers \cup Upgrades \cup {None}
    /\ killed \subseteq Servers /\ handing \subseteq Servers
    /\ upgrade \in [Upgrades -> [pc : UpgradeSteps \cup {"none"}, asked : Servers \cup {None}]]

LEMMA TypeStep ==
    ASSUME TypeOK, ServiceInv, WantsInv, [Next]_vars
    PROVE  TypeOK'
<1>1. server' \in [Servers -> Records] /\ FileTypes'
  BY ServerTypes, FileTypesStep
<1>2. processes' \in [Servers -> SUBSET Services] /\ alive' \subseteq Services \X Servers
  <2>1. ASSUME NEW s \in Servers, NEW name \in Services, NEW pc, Popen(name, s, pc) \/ Track(name, s, pc)
        PROVE  processes' \in [Servers -> SUBSET Services] /\ alive' \subseteq Services \X Servers
    BY <2>1 DEF Popen, Track, TypeOK
  <2>2. ASSUME NEW s \in Servers,
               \/ start_prefect(s) \/ _track_process(s) \/ start_centrifugo(s) \/ wait_until_ready(s)
               \/ start_api(s) \/ append(s)
        PROVE  \/ \E name \in Services, pc \in Starting \cup {"poll"} : Popen(name, s, pc) \/ Track(name, s, pc)
               \/ UNCHANGED <<processes, alive>>
    BY <2>2 DEF start_prefect, _track_process, start_centrifugo, wait_until_ready, start_api, append,
       Services, Starting
  <2>4. ASSUME UNCHANGED processes, alive' \subseteq alive
        PROVE  processes' \in [Servers -> SUBSET Services] /\ alive' \subseteq Services \X Servers
    BY <2>4 DEF TypeOK
  <2>5. ASSUME NEW s \in Servers,
               \/ Begin(s) \/ acquire_lock(s) \/ Announce(s) \/ migrate_db(s) \/ plan_upgrades(s)
               \/ cleanup_versions(s) \/ write_installed_state(s) \/ _wait_for_http(s) \/ Poll(s)
               \/ stop_all(s) \/ BreaksOff(s) \/ _terminate(s) \/ _remove_server_pid(s) \/ _release_lock(s) \/ Raise(s)
               \/ _signal_handler(s) \/ Kill(s)
               \/ (\E restart \in BOOLEAN : upgrade_start(s, restart))
               \/ (\E u \in Upgrades : _trigger_self_upgrade(s, u))
        PROVE  UNCHANGED processes /\ alive' \subseteq alive
    BY <2>5 DEF Begin, acquire_lock, Announce, migrate_db, plan_upgrades, cleanup_versions,
       write_installed_state, _wait_for_http, Poll, Leave, stop_all, BreaksOff, _terminate, Stopped,
       _remove_server_pid, _release_lock, Raise, _signal_handler, Kill, upgrade_start, _trigger_self_upgrade
  <2>6. ASSUME NEW u \in Upgrades, SelfUpgrade(u)
        PROVE  UNCHANGED processes /\ alive' \subseteq alive
    BY <2>6 DEF SelfUpgrade, _acquire_lock_with_retry, Timeout, _run_pip, InstallFails, Release, Spawn, SetDone
  <2>7. ASSUME (\E c \in alive : Exit(c)) \/ (\E r \in Releases : pip(r)) \/ UNCHANGED vars
        PROVE  UNCHANGED processes /\ alive' \subseteq alive
    BY <2>7 DEF Exit, pip, vars
  <2>8. UNCHANGED alive => alive' \subseteq alive
    OBVIOUS
  <2> QED  BY <2>1, <2>2, <2>4, <2>5, <2>6, <2>7, <2>8 DEF Next, Main
<1>3. HoldersTyped'
  <2>1. HoldersTyped
    BY DEF TypeOK, HoldersTyped, UpgradeSteps
  <2>2. ASSUME NEW s \in Servers,
               \/ Begin(s) \/ acquire_lock(s) \/ Announce(s) \/ migrate_db(s) \/ plan_upgrades(s)
               \/ cleanup_versions(s) \/ write_installed_state(s) \/ _wait_for_http(s) \/ wait_until_ready(s)
               \/ Poll(s) \/ stop_all(s) \/ _terminate(s) \/ _remove_server_pid(s) \/ Raise(s) \/ _signal_handler(s)
        PROVE  HoldersTyped'
    BY <2>1, <2>2 DEF Begin, acquire_lock, Announce, migrate_db, plan_upgrades, cleanup_versions,
       write_installed_state, _wait_for_http, wait_until_ready, Track, Poll, Leave, stop_all, _terminate,
       _remove_server_pid, Raise, _signal_handler, HoldersTyped
  <2>3. ASSUME NEW s \in Servers, \/ start_prefect(s) \/ _track_process(s) \/ start_centrifugo(s)
                                \/ start_api(s) \/ append(s)
        PROVE  HoldersTyped'
    BY <2>1, <2>3 DEF start_prefect, _track_process, start_centrifugo, start_api, append, Popen, Track, HoldersTyped
  <2>4. ASSUME NEW s \in Servers, _release_lock(s) \/ BreaksOff(s) \/ Kill(s)
        PROVE  HoldersTyped'
    BY <2>1, <2>4 DEF _release_lock, BreaksOff, Kill, Released, HoldersTyped
  <2>5. ASSUME NEW s \in Servers,
               \/ \E restart \in BOOLEAN : upgrade_start(s, restart)
               \/ \E u \in Upgrades : _trigger_self_upgrade(s, u)
        PROVE  HoldersTyped'
    BY <2>1, <2>5 DEF upgrade_start, _trigger_self_upgrade, UpgradeSteps, HoldersTyped
  <2>6. ASSUME NEW u \in Upgrades, SelfUpgrade(u)
        PROVE  HoldersTyped'
    BY <2>1, <2>6 DEF SelfUpgrade, _acquire_lock_with_retry, Timeout, _run_pip, InstallFails, Release, Spawn,
       SetDone, Step, UpgradeSteps, HoldersTyped
  <2>7. ASSUME (\E c \in alive : Exit(c)) \/ (\E r \in Releases : pip(r)) \/ UNCHANGED vars
        PROVE  HoldersTyped'
    BY <2>1, <2>7 DEF Exit, pip, vars, HoldersTyped
  <2> QED  BY <2>2, <2>3, <2>4, <2>5, <2>6, <2>7 DEF Next, Main
<1> QED  BY <1>1, <1>2, <1>3 DEF TypeOK, FileTypes, HoldersTyped, UpgradeSteps, Records

LEMMA WantsStep ==
    ASSUME TypeOK, WantsInv, [Next]_vars
    PROVE  WantsInv'
<1> USE DEF At
<1> DEFINE Past == {"cleanup_versions", "write_installed_state", "start_prefect", "_track_process",
                    "wait_for_http", "start_centrifugo"}
<1>1. ASSUME NEW s \in Servers, \A t \in Servers \ {s} : server'[t] = server[t],
             server'[s].pc \in Past => server'[s].wants \in Releases
      PROVE  WantsInv'
  BY <1>1 DEF WantsInv
<1>2. ASSUME NEW s \in Servers, plan_upgrades(s)
      PROVE  WantsInv'
  BY <1>1, <1>2 DEF plan_upgrades, TypeOK
<1>3. ASSUME NEW s \in Servers, NEW pc, Goto(s, pc), pc \in Past => server[s].pc \in Past
      PROVE  WantsInv'
  BY <1>1, <1>3 DEF Goto, TypeOK, WantsInv
<1>4. ASSUME NEW s \in Servers,
             \/ Begin(s) \/ acquire_lock(s) \/ Announce(s) \/ migrate_db(s) \/ cleanup_versions(s)
             \/ write_installed_state(s) \/ start_prefect(s) \/ _track_process(s) \/ _wait_for_http(s)
             \/ start_centrifugo(s) \/ wait_until_ready(s) \/ start_api(s) \/ append(s) \/ stop_all(s)
             \/ _terminate(s) \/ _remove_server_pid(s) \/ Kill(s) \/ \E u \in Upgrades : Spawn(u, s)
      PROVE  \E pc : Goto(s, pc) /\ (pc \in Past => server[s].pc \in Past)
  BY <1>4 DEF Begin, acquire_lock, Announce, migrate_db, cleanup_versions, write_installed_state, start_prefect,
     _track_process, _wait_for_http, start_centrifugo, wait_until_ready, start_api, append, stop_all, _terminate,
     _remove_server_pid, Kill, Spawn, Popen, Track
<1>5. ASSUME NEW s \in Servers, Poll(s) \/ _signal_handler(s) \/ Raise(s) \/ BreaksOff(s) \/ _release_lock(s)
      PROVE  WantsInv'
  <2>1. /\ \A t \in Servers \ {s} : server'[t] = server[t]
        /\ server'[s].pc \in {"stop_all", "over"}
    BY <1>5 DEF Poll, _signal_handler, Raise, Leave, BreaksOff, _release_lock, TypeOK
  <2> QED  BY <1>1, <2>1
<1>6. ASSUME UNCHANGED server
      PROVE  WantsInv'
  BY <1>6 DEF WantsInv
<1>7. ASSUME NEW s \in Servers,
             \/ \E restart \in BOOLEAN : upgrade_start(s, restart)
             \/ \E u \in Upgrades : _trigger_self_upgrade(s, u)
      PROVE  UNCHANGED server
  BY <1>7 DEF upgrade_start, _trigger_self_upgrade
<1>8. ASSUME NEW u \in Upgrades, SelfUpgrade(u), \A s \in Servers : ~Spawn(u, s)
      PROVE  UNCHANGED server
  BY <1>8 DEF SelfUpgrade, _acquire_lock_with_retry, Timeout, _run_pip, InstallFails, Release, SetDone
<1>9. ASSUME (\E c \in alive : Exit(c)) \/ (\E r \in Releases : pip(r)) \/ UNCHANGED vars
      PROVE  UNCHANGED server
  BY <1>9 DEF Exit, pip, vars
<1> HIDE DEF Past
<1> QED
  BY <1>2, <1>3, <1>4, <1>5, <1>6, <1>7, <1>8, <1>9 DEF Next, Main

LEMMA InitSafe ==
    ASSUME Init
    PROVE  TypeOK /\ LockInv /\ ServiceInv /\ WantsInv
<1>1. IsFiniteSet(bin)
  BY FS_EmptySet DEF Init
<1>2. TypeOK
  BY <1>1 DEF Init, TypeOK, Off, Waiting
<1>3. \A s \in Servers : ~Busy(s)
  BY DEF Init, Busy
<1>4. LockInv
  BY <1>3 DEF Init, LockInv, Off, Waiting, Working, Starting
<1>5. ServiceInv
  BY <1>3 DEF Init, ServiceInv, Accounted, Off, Starting
<1>6. WantsInv
  BY DEF Init, WantsInv, Off
<1> QED  BY <1>2, <1>4, <1>5, <1>6

LEMMA TypedHasShape ==
    ASSUME TypeOK
    PROVE  Shape
BY DEF TypeOK, Shape

LEMMA InstallationInvariant == Spec => [](TypeOK /\ LockInv /\ ServiceInv /\ WantsInv)
<1>1. Init => TypeOK /\ LockInv /\ ServiceInv /\ WantsInv
  BY InitSafe
<1>2. TypeOK /\ LockInv /\ ServiceInv /\ WantsInv /\ [Next]_vars => (TypeOK /\ LockInv /\ ServiceInv /\ WantsInv)'
  BY TypeStep, WantsStep, SafetyStep, TypedHasShape DEF Safe
<1> QED  BY <1>1, <1>2, PTL DEF Spec

(* The state keeps its types: a server stops once or twice, and whoever    *)
(* holds the lock is a process.                                            *)
THEOREM Typing == Spec => []TypeOK
BY InstallationInvariant, PTL

(* Services of one server run at a time, and the package is replaced while *)
(* none do: whoever would is named by the lock.                            *)
THEOREM OneRunsAtATime == Spec => []OneAtATime
<1>1. TypeOK /\ LockInv /\ ServiceInv => OneAtATime
  <2> SUFFICES ASSUME LockInv PROVE OneAtATime
    OBVIOUS
  <2> DEFINE Holders == {s \in Servers : Busy(s)} \cup {u \in Upgrades : upgrade[u].pc = "installing"}
  <2>1. Holders \subseteq {lockfile}
    BY DEF LockInv
  <2>2. IsFiniteSet({lockfile}) /\ Cardinality({lockfile}) = 1
    BY FS_Singleton
  <2>3. IsFiniteSet(Holders) /\ Cardinality(Holders) <= 1
    BY <2>1, <2>2, FS_Subset
  <2> QED  BY <2>3 DEF OneAtATime
<1> QED  BY <1>1, InstallationInvariant, PTL

(* A server that ended after a shutdown that got through has left neither  *)
(* its pid nor a service, but the one that was spawned and not yet tracked *)
(* when its start broke off: the shutdown stops every service that is      *)
(* tracked, and each other one was the service to be tracked next.         *)
THEOREM EndsClean == Spec => []NothingLeftBehind
<1>1. TypeOK /\ LockInv /\ ServiceInv => NothingLeftBehind
  <2> SUFFICES ASSUME TypeOK, ServiceInv, NEW s \in Servers, At(s, "over")
               PROVE  /\ server[s].whole => server_pid # s /\ \A c \in Of(s) : c[1] = server[s].lost
                      /\ s \notin killed /\ Runs("prefect", s) => server[s].lost = "prefect"
    BY DEF NothingLeftBehind
  <2>1. Coming(server[s].pc) = "none"
    BY DEF At, Coming
  <2>2. server[s].whole => server_pid # s /\ ~Busy(s)
    BY DEF ServiceInv
  <2>3. ASSUME server[s].whole, NEW c \in Of(s)
        PROVE  c[1] = server[s].lost
    <3>1. c \in alive /\ c[2] = s /\ c[1] \in Services /\ c = <<c[1], s>>
      BY DEF Of, TypeOK
    <3>2. c[1] \in processes[s] \cup {"none", server[s].lost}
      BY <2>1, <2>3, <3>1 DEF ServiceInv, Accounted
    <3>3. c[1] \notin processes[s]
      BY <2>2, <2>3, <3>1 DEF Busy, Abrupt, Runs
    <3> QED  BY <3>1, <3>2, <3>3, NamesOfServices
  <2>4. ASSUME s \notin killed, Runs("prefect", s)
        PROVE  server[s].lost = "prefect"
    <3>1. "prefect" \notin processes[s]
      BY <2>4 DEF ServiceInv, NoPrefect, At
    <3>2. "prefect" \in processes[s] \cup {"none", server[s].lost}
      <4> DEFINE c == <<"prefect", s>>
      <4>1. c \in alive /\ c[1] = "prefect" /\ c[2] = s
        BY <2>4 DEF Runs
      <4> QED  BY <2>1, <2>4, <4>1 DEF ServiceInv, Accounted
    <3> QED  BY <3>1, <3>2
  <2> QED  BY <2>2, <2>3, <2>4
<1> QED  BY <1>1, InstallationInvariant, PTL

-----------------------------------------------------------------------------
(* ----- the versions on the disk ----- *)
Less == {ss \in Nat \X Nat : ss[1] < ss[2]}

LEMMA Least ==
    ASSUME NEW S \in SUBSET Nat, S # {}
    PROVE  \E m \in S : \A n \in S : m <= n
<1>1. IsWellFoundedOn(Less, Nat)
  BY NatLessThanWellFounded DEF OpToRel, Less
<1>2. PICK x \in S : \A y \in S : ~(<<y, x>> \in Less)
  BY <1>1, WFMin
<1>3. ASSUME NEW y \in S PROVE x <= y
  <2>1. ~(<<y, x>> \in Less)
    BY <1>2
  <2>2. x \in Nat /\ y \in Nat /\ <<y, x>> \in Nat \X Nat
    OBVIOUS
  <2> QED  BY <2>1, <2>2 DEF Less
<1> QED  BY <1>3

LEMMA AboveIsSmaller ==
    ASSUME NEW B \in SUBSET Nat, IsFiniteSet(B), NEW x \in Nat
    PROVE  /\ IsFiniteSet(Above(B, x)) /\ Cardinality(Above(B, x)) \in Nat
           /\ \A y \in Above(B, x) : Cardinality(Above(B, y)) < Cardinality(Above(B, x))
<1>1. \A z \in Nat : IsFiniteSet(Above(B, z)) /\ Cardinality(Above(B, z)) \in Nat
  BY FS_Subset, FS_CardinalityType DEF Above
<1>2. ASSUME NEW y \in Above(B, x)
      PROVE  Cardinality(Above(B, y)) < Cardinality(Above(B, x))
  <2>0. y \in Nat /\ y > x
    BY DEF Above
  <2>1. Above(B, y) \subseteq Above(B, x)
    <3> SUFFICES ASSUME NEW v \in Above(B, y) PROVE v \in Above(B, x)
      OBVIOUS
    <3>1. v \in B /\ v \in Nat /\ v > y
      BY DEF Above
    <3> QED  BY <2>0, <3>1 DEF Above
  <2>2. IsFiniteSet(Above(B, x)) /\ y \in Nat
    BY <1>1, <2>0
  <2>3. y \notin Above(B, y)
    BY <2>0 DEF Above
  <2> QED  BY <1>1, <2>1, <2>2, <2>3, FS_Subset
<1> QED  BY <1>1, <1>2

(* Of a set with k elements above x, the elements with fewer than k above  *)
(* themselves are at least k above x: the clean-up leaves enough of what   *)
(* it would have left.                                                     *)
LEMMA NewestAreMany ==
    ASSUME NEW B \in SUBSET Nat, IsFiniteSet(B), NEW k \in Nat, NEW x \in Nat,
           Cardinality(Above(B, x)) >= k
    PROVE  Cardinality(Above({v \in B : Cardinality(Above(B, v)) < k}, x)) >= k
<1> DEFINE Kept == {v \in B : Cardinality(Above(B, v)) < k}
           Old == {v \in Above(B, x) : Cardinality(Above(B, v)) >= k}
           Sizes == {Cardinality(Above(B, v)) : v \in Old}
<1>1. \A y \in Nat : IsFiniteSet(Above(B, y)) /\ Cardinality(Above(B, y)) \in Nat
  BY AboveIsSmaller
<1>2. IsFiniteSet(Above(Kept, x))
  <2>1. Above(Kept, x) \subseteq B
    BY DEF Above
  <2> QED  BY <2>1, FS_Subset
<1>3. CASE Old = {}
  <2>1. Above(B, x) \subseteq Above(Kept, x)
    <3> SUFFICES ASSUME NEW v \in Above(B, x) PROVE v \in Above(Kept, x)
      OBVIOUS
    <3>1. v \in B /\ v > x /\ v \in Nat
      BY DEF Above
    <3>2. v \in Kept
      BY <1>1, <1>3, <3>1
    <3> QED  BY <3>1, <3>2 DEF Above
  <2>2. Cardinality(Above(B, x)) <= Cardinality(Above(Kept, x))
    BY <1>2, <2>1, FS_Subset
  <2>3. Cardinality(Above(Kept, x)) \in Nat /\ Cardinality(Above(B, x)) \in Nat
    BY <1>1, <1>2, FS_CardinalityType
  <2> QED  BY <2>2, <2>3
<1>4. CASE Old # {}
  <2>1. Old \subseteq Nat /\ Old \subseteq B
    BY DEF Above
  <2>2. Sizes \in SUBSET Nat /\ Sizes # {}
    BY <1>1, <1>4, <2>1
  <2>3. PICK m \in Sizes : \A n \in Sizes : m <= n
    BY <2>2, Least
  <2>4. PICK u \in Old : m = Cardinality(Above(B, u))
    BY <2>3
  <2>5. Above(B, u) \subseteq Above(Kept, x)
    <3> SUFFICES ASSUME NEW w \in Above(B, u) PROVE w \in Above(Kept, x)
      OBVIOUS
    <3>1. w \in B /\ w \in Nat /\ u \in Nat /\ w > u /\ u > x
      BY <2>1 DEF Above
    <3>2. w \in Above(B, x)
      BY <3>1 DEF Above
    <3>3. Cardinality(Above(B, w)) < m
      BY <2>4, <3>1, AboveIsSmaller
    <3>4. w \notin Old
      <4>1. CASE w \in Old
        <5>1. Cardinality(Above(B, w)) \in Sizes
          BY <4>1
        <5>2. m <= Cardinality(Above(B, w))
          BY <2>3, <5>1
        <5>3. m \in Nat /\ Cardinality(Above(B, w)) \in Nat
          BY <1>1, <2>2, <2>3, <3>1
        <5> QED  BY <3>3, <5>2, <5>3
      <4> QED  BY <4>1
    <3>5. w \in Kept
      BY <1>1, <3>1, <3>2, <3>4
    <3> QED  BY <3>1, <3>2, <3>5 DEF Above
  <2>6. Cardinality(Above(B, u)) <= Cardinality(Above(Kept, x))
    BY <1>2, <2>5, FS_Subset
  <2>7. Cardinality(Above(Kept, x)) \in Nat /\ Cardinality(Above(B, u)) \in Nat /\ Cardinality(Above(B, u)) >= k
    BY <1>1, <1>2, <2>1, FS_CardinalityType
  <2> QED  BY <2>6, <2>7
<1> QED  BY <1>3, <1>4

LEMMA CoversMore ==
    ASSUME NEW B, NEW C \in SUBSET Nat, B \subseteq C, IsFiniteSet(C), NEW version \in Nat,
           NEW F, NEW G, F \subseteq G, Covers(B, F, version)
    PROVE  Covers(C, G, version)
<1>1. Above(B, version) \subseteq Above(C, version) /\ Above(C, version) \subseteq C
  BY DEF Above
<1>2. IsFiniteSet(Above(C, version))
  BY <1>1, FS_Subset
<1>3. IsFiniteSet(Above(B, version)) /\ Cardinality(Above(B, version)) <= Cardinality(Above(C, version))
  BY <1>1, <1>2, FS_Subset
<1>4. Cardinality(Above(B, version)) \in Nat /\ Cardinality(Above(C, version)) \in Nat
  BY <1>2, <1>3, FS_CardinalityType
<1> QED  BY <1>3, <1>4, SupervisorAssumption DEF Covers

LEMMA CleanupKeeps ==
    ASSUME bin \subseteq Nat, IsFiniteSet(bin), binaries \subseteq bin, bin' = _cleanup_versions,
           binaries' = binaries \cap _cleanup_versions, NEW version \in Nat, Covers(bin, binaries, version)
    PROVE  Covers(bin', binaries', version)
<1>1. bin' = {v \in bin : Cardinality(Above(bin, v)) < keep_versions} /\ binaries' = binaries \cap bin'
  BY DEF _cleanup_versions, Newer, Above
<1>2. Cardinality(Above(bin, version)) \in Nat
  BY AboveIsSmaller
<1>3. CASE version \in binaries' \cup {0}
  BY <1>3 DEF Covers
<1>4. CASE version \notin binaries' \cup {0}
  <2>1. Cardinality(Above(bin, version)) >= keep_versions
    BY <1>1, <1>2, <1>4, SupervisorAssumption DEF Covers
  <2>2. Cardinality(Above(bin', version)) >= keep_versions
    BY <1>1, <2>1, NewestAreMany, SupervisorAssumption
  <2> QED  BY <2>2 DEF Covers
<1> QED  BY <1>3, <1>4

LEMMA TypedWants ==
    /\ TypeOK  => bin \in SUBSET Nat /\ IsFiniteSet(bin) /\ installed \in Nat
                 /\ \A s \in Servers : server[s].wants \in Nat
    /\ TypeOK' => bin' \in SUBSET Nat /\ IsFiniteSet(bin')
<1>1. Releases \subseteq Nat /\ Releases \cup {0} \subseteq Nat
  BY SupervisorAssumption
<1>2. ASSUME TypeOK
      PROVE  \A s \in Servers : server[s].wants \in Releases \cup {0}
  BY <1>2 DEF TypeOK
<1> QED  BY <1>1, <1>2 DEF TypeOK

(* A step that removes no version, and takes nobody to where versions are  *)
(* removed or recorded.                                                    *)
LEMMA DiskGrows ==
    ASSUME TypeOK, TypeOK', DiskInv, bin \subseteq bin', binaries \subseteq binaries', UNCHANGED installed,
           \A s \in Servers :
              /\ server'[s].pc = "cleanup_versions" => server'[s].wants \in binaries'
              /\ server'[s].pc = "write_installed_state" => server'[s] = server[s]
    PROVE  DiskInv'
<1>1. /\ bin' \in SUBSET Nat /\ IsFiniteSet(bin') /\ installed \in Nat
      /\ \A s \in Servers : server[s].wants \in Nat
  BY TypedWants
<1>2. \A v \in Nat : Covers(bin, binaries, v) => Covers(bin', binaries', v)
  BY <1>1, CoversMore
<1> QED  BY <1>1, <1>2 DEF DiskInv

LEMMA DiskStep ==
    ASSUME TypeOK, TypeOK', LockInv, DiskInv, [Next]_vars
    PROVE  DiskInv'
<1> USE DEF At
<1>0. /\ bin \subseteq Nat /\ IsFiniteSet(bin) /\ binaries \subseteq bin
      /\ installed \in Nat /\ \A s \in Servers : server[s].wants \in Nat
  BY TypedWants DEF TypeOK
<1>1. ASSUME NEW s \in Servers, plan_upgrades(s)
      PROVE  DiskInv'
  <2>1. bin \subseteq bin' /\ binaries \subseteq binaries' /\ release \in binaries' /\ UNCHANGED installed
    BY <1>1 DEF plan_upgrades, _is_installed, ensure_centrifugo_binary
  <2>2. \A t \in Servers : IF t = s THEN server'[t].pc = "cleanup_versions" /\ server'[t].wants = release
                                     ELSE server'[t] = server[t]
    BY <1>1 DEF plan_upgrades, TypeOK
  <2>3. \A t \in Servers : server[t].pc = "cleanup_versions" => server[t].wants \in binaries
    BY DEF DiskInv
  <2> QED  BY <2>1, <2>2, <2>3, DiskGrows
<1>2. ASSUME NEW s \in Servers, cleanup_versions(s)
      PROVE  DiskInv'
  <2>1. \A v \in Nat : Covers(bin, binaries, v) => Covers(bin', binaries', v)
    BY <1>0, <1>2, CleanupKeeps DEF cleanup_versions
  <2>2. /\ server'[s].pc = "write_installed_state" /\ server'[s].wants = server[s].wants
        /\ \A t \in Servers \ {s} : server'[t] = server[t]
    BY <1>2 DEF cleanup_versions, Goto, TypeOK
  <2>3. Covers(bin, binaries, server[s].wants)
    BY <1>2 DEF cleanup_versions, DiskInv, Covers
  <2>4. \A t \in Servers \ {s} : server[t].pc \notin {"cleanup_versions", "write_installed_state"}
    BY <1>2 DEF cleanup_versions, LockInv, Working, Starting
  <2>5. UNCHANGED installed
    BY <1>2 DEF cleanup_versions
  <2> QED  BY <1>0, <2>1, <2>2, <2>3, <2>4, <2>5 DEF DiskInv
<1>3. ASSUME NEW s \in Servers, write_installed_state(s)
      PROVE  DiskInv'
  <2>1. installed' = server[s].wants /\ UNCHANGED <<bin, binaries>> /\ Covers(bin, binaries, server[s].wants)
    BY <1>3 DEF write_installed_state, DiskInv
  <2>2. \A t \in Servers : t # s => server'[t] = server[t]
    BY <1>3 DEF write_installed_state, Goto, TypeOK
  <2>3. server'[s].pc = "start_prefect"
    BY <1>3 DEF write_installed_state, Goto, TypeOK
  <2> QED  BY <2>1, <2>2, <2>3 DEF DiskInv
<1>4. ASSUME UNCHANGED installed, bin \subseteq bin', binaries \subseteq binaries', NEW s \in Servers,
             \A t \in Servers \ {s} : server'[t] = server[t],
             server'[s].pc \notin {"cleanup_versions", "write_installed_state"}
      PROVE  DiskInv'
  <2>1. \A t \in Servers : server[t].pc = "cleanup_versions" => server[t].wants \in binaries
    BY DEF DiskInv
  <2> QED  BY <1>4, <2>1, DiskGrows
<1>5. ASSUME NEW s \in Servers,
             \/ Begin(s) \/ acquire_lock(s) \/ Announce(s) \/ migrate_db(s) \/ start_prefect(s)
             \/ _track_process(s) \/ _wait_for_http(s) \/ start_centrifugo(s) \/ wait_until_ready(s)
             \/ start_api(s) \/ append(s) \/ Poll(s) \/ stop_all(s) \/ BreaksOff(s) \/ _terminate(s) \/ _remove_server_pid(s) \/ _release_lock(s) \/ Raise(s)
             \/ _signal_handler(s) \/ Kill(s) \/ \E u \in Upgrades : Spawn(u, s)
      PROVE  DiskInv'
  <2>1. UNCHANGED installed /\ bin \subseteq bin' /\ binaries \subseteq binaries'
    BY <1>5 DEF Begin, acquire_lock, Announce, migrate_db, start_prefect, _track_process, _wait_for_http, start_centrifugo,
       ensure_centrifugo_binary, wait_until_ready, start_api, append, Track, Poll, Leave, stop_all, BreaksOff, _terminate, _remove_server_pid,
       _release_lock, Raise, _signal_handler, Kill, Spawn, files
  <2>2. \A t \in Servers \ {s} : server'[t] = server[t]
    BY <1>5 DEF Begin, acquire_lock, Announce, migrate_db, start_prefect, _track_process, _wait_for_http, start_centrifugo,
       wait_until_ready, start_api, append, Track, Poll, Leave, stop_all, BreaksOff, _terminate, _remove_server_pid,
       _release_lock, Raise, _signal_handler, Kill, Spawn, Popen, Goto, TypeOK
  <2>3. server'[s].pc \notin {"cleanup_versions", "write_installed_state"}
    BY <1>5 DEF Begin, acquire_lock, Announce, migrate_db, start_prefect, _track_process, _wait_for_http, start_centrifugo,
       wait_until_ready, start_api, append, Track, Poll, Leave, stop_all, BreaksOff, _terminate, _remove_server_pid,
       _release_lock, Raise, _signal_handler, Kill, Spawn, Popen, Goto, TypeOK
  <2> QED  BY <1>4, <2>1, <2>2, <2>3
<1>6. ASSUME UNCHANGED <<installed, bin, binaries, server>>
      PROVE  DiskInv'
  BY <1>6 DEF DiskInv
<1>7. ASSUME NEW s \in Servers,
             \/ \E restart \in BOOLEAN : upgrade_start(s, restart)
             \/ \E u \in Upgrades : _trigger_self_upgrade(s, u)
      PROVE  UNCHANGED <<installed, bin, binaries, server>>
  BY <1>7 DEF upgrade_start, _trigger_self_upgrade, files
<1>8. ASSUME NEW u \in Upgrades, SelfUpgrade(u), \A s \in Servers : ~Spawn(u, s)
      PROVE  UNCHANGED <<installed, bin, binaries, server>>
  BY <1>8 DEF SelfUpgrade, _acquire_lock_with_retry, Timeout, _run_pip, InstallFails, Release, SetDone, files
<1>9. ASSUME (\E c \in alive : Exit(c)) \/ (\E r \in Releases : pip(r)) \/ UNCHANGED vars
      PROVE  UNCHANGED <<installed, bin, binaries, server>>
  BY <1>9 DEF Exit, pip, vars, files
<1> QED
  BY <1>1, <1>2, <1>3, <1>5, <1>6, <1>7, <1>8, <1>9 DEF Next, Main

(* The version that installed.json names is on the disk, unless the        *)
(* clean-up has found keep_versions newer ones.                            *)
THEOREM RecordedStaysOnDisk == Spec => []RecordedIsOnDisk
<1>1. Init => DiskInv
  BY DEF Init, DiskInv, Covers, Off
<1>2. DiskInv => RecordedIsOnDisk
  BY DEF DiskInv, Covers, RecordedIsOnDisk, Newer, Above
<1>3. Spec => [](TypeOK /\ LockInv)
  BY InstallationInvariant, PTL
<1>4. TypeOK /\ TypeOK' /\ LockInv /\ DiskInv /\ [Next]_vars => DiskInv'
  BY DiskStep
<1> QED  BY <1>1, <1>2, <1>3, <1>4, PTL DEF Spec

-----------------------------------------------------------------------------
(* ----- Preflight ----- *)
Begun(p) == preflight[p].pc \notin {"off", "over"}

PreflightTypes ==
    /\ preflight \in [Preflights -> [pc : {"off", "check", "backup", "unlink", "upgrade", "record", "unlock", "over"},
                                     engines : Seq(Engines), reset : BOOLEAN, allow : BOOLEAN,
                                     version : Versions \cup {0}]]
    /\ package \in [Engines -> Versions]
    /\ database \in [Engines -> Versions \cup {0}] /\ recorded \in [Engines -> Versions \cup {0}]
    /\ backups \in [Engines -> SUBSET Versions]

(* One preflight at a time; what is to be migrated or deleted has been     *)
(* copied, and what is to be recorded is what the database has.            *)
PreflightInv ==
    /\ \A p \in Preflights : Begun(p) => lockfile = p
    /\ \A p \in Preflights, e \in Engines :
          /\ On(p, e, "unlink") \/ On(p, e, "upgrade") => database[e] = 0 \/ database[e] \in backups[e]
          /\ On(p, e, "record") /\ on_path => database[e] \in {0, preflight[p].version}

LEMMA TheEngines == Engines = {"prefect", "mlflow"} /\ Local \in Seq(Engines)
<1>1. Engines = {"prefect", "mlflow"}
  BY DEF Engines, Local
<1> QED  BY <1>1 DEF Local

(* The engines that are left.                                              *)
LEMMA NextEngineTyped ==
    ASSUME PreflightTypes, NEW p \in Preflights, preflight[p].engines # <<>>, NextEngine(p)
    PROVE  /\ preflight' \in [Preflights -> [pc : {"off", "check", "backup", "unlink", "upgrade", "record", "unlock", "over"},
                                     engines : Seq(Engines), reset : BOOLEAN, allow : BOOLEAN,
                                     version : Versions \cup {0}]]
           /\ preflight'[p].pc \in {"check", "unlock"}
           /\ \A q \in Preflights \ {p} : preflight'[q] = preflight[q]
<1>1. preflight[p].engines \in Seq(Engines)
  BY DEF PreflightTypes
<1>2. Tail(preflight[p].engines) \in Seq(Engines)
  BY <1>1
<1> DEFINE pc == IF Len(preflight[p].engines) = 1 THEN "unlock" ELSE "check"
           left == Tail(preflight[p].engines)
<1>3. preflight' = [preflight EXCEPT ![p].engines = left, ![p].pc = pc]
  BY DEF NextEngine, PreflightTypes
<1>4. pc \in {"check", "unlock"} /\ left \in Seq(Engines)
  BY <1>2
<1> HIDE DEF pc, left
<1> QED  BY <1>3, <1>4 DEF PreflightTypes

LEMMA MovesTyped ==
    ASSUME PreflightTypes, NEW p \in Preflights,
           NEW pc \in {"backup", "unlink", "upgrade", "record", "unlock", "over"}, Moves(p, pc)
    PROVE  /\ preflight' \in [Preflights -> [pc : {"off", "check", "backup", "unlink", "upgrade", "record", "unlock", "over"},
                                     engines : Seq(Engines), reset : BOOLEAN, allow : BOOLEAN,
                                     version : Versions \cup {0}]]
           /\ preflight'[p].pc = pc /\ preflight'[p].engines = preflight[p].engines
           /\ preflight'[p].version = preflight[p].version
           /\ \A q \in Preflights \ {p} : preflight'[q] = preflight[q]
BY DEF Moves, PreflightTypes

LEMMA PreflightStep ==
    ASSUME PreflightTypes, PreflightInv, [PreflightNext]_<<vars, preflight_vars>>
    PROVE  /\ PreflightTypes' /\ PreflightInv'
           /\ \A e \in Engines : database'[e] # database[e] /\ database[e] # 0 => database[e] \in backups[e]
           /\ \A e \in Engines : on_path /\ recorded'[e] # recorded[e] => database[e] \in {0, recorded'[e]}
<1> DEFINE Backed == \A e \in Engines : database'[e] # database[e] /\ database[e] # 0 => database[e] \in backups[e]
           Migrated == \A e \in Engines : on_path /\ recorded'[e] # recorded[e] => database[e] \in {0, recorded'[e]}
           Goal == PreflightTypes' /\ PreflightInv' /\ Backed /\ Migrated
<1>0. 0 \notin Versions /\ None \notin Preflights /\ Versions \subseteq Nat
  BY PreflightAssumption
<1>1. ASSUME NEW p \in Preflights, run_preflight(p)
      PROVE  Goal
  <2>1. \A q \in Preflights : ~Begun(q)
    BY <1>0, <1>1 DEF run_preflight, PreflightInv
  <2>2. /\ PreflightTypes' /\ preflight'[p].pc = "check"
        /\ \A q \in Preflights \ {p} : preflight'[q] = preflight[q]
    <3>1. PICK reset \in BOOLEAN, allow \in BOOLEAN :
             preflight' = [preflight EXCEPT ![p].pc = "check", ![p].reset = reset, ![p].allow = allow]
      BY <1>1 DEF run_preflight
    <3>2. preflight'[p].pc = "check" /\ \A q \in Preflights \ {p} : preflight'[q] = preflight[q]
      BY <3>1 DEF PreflightTypes
    <3>3. preflight' \in [Preflights -> [pc : {"off", "check", "backup", "unlink", "upgrade", "record", "unlock", "over"},
                                     engines : Seq(Engines), reset : BOOLEAN, allow : BOOLEAN,
                                     version : Versions \cup {0}]]
      <4> DEFINE begun == [preflight[p] EXCEPT !.pc = "check", !.reset = reset, !.allow = allow]
      <4>1. preflight' = [preflight EXCEPT ![p] = begun]
        BY <3>1 DEF PreflightTypes
      <4>2. begun \in [pc : {"off", "check", "backup", "unlink", "upgrade", "record", "unlock", "over"},
                      engines : Seq(Engines), reset : BOOLEAN, allow : BOOLEAN, version : Versions \cup {0}]
        BY DEF PreflightTypes
      <4> HIDE DEF begun
      <4> QED  BY <4>1, <4>2 DEF PreflightTypes
    <3>4. UNCHANGED engine_files
      BY <1>1 DEF run_preflight
    <3> QED  BY <3>2, <3>3, <3>4 DEF PreflightTypes, engine_files
  <2>3. lockfile' = p /\ UNCHANGED engine_files
    BY <1>1 DEF run_preflight
  <2>4. PreflightInv'
    BY <2>1, <2>2, <2>3 DEF PreflightInv, Begun, On
  <2> QED  BY <2>2, <2>3, <2>4 DEF engine_files
(* A step of the one that holds the lock, on one engine.                   *)
<1>2. ASSUME NEW p \in Preflights, Begun(p), UNCHANGED lockfile, PreflightTypes',
             \A q \in Preflights \ {p} : preflight'[q] = preflight[q],
             Begun(p)' => /\ \A e \in Engines : On(p, e, "unlink")' \/ On(p, e, "upgrade")'
                                  => database'[e] = 0 \/ database'[e] \in backups'[e]
                          /\ \A e \in Engines : On(p, e, "record")' /\ on_path'
                                  => database'[e] \in {0, preflight'[p].version}
      PROVE  PreflightInv'
  <2>1. \A q \in Preflights \ {p} : ~Begun(q) /\ ~Begun(q)'
    BY <1>2 DEF PreflightInv, Begun
  <2> QED  BY <1>2, <2>1 DEF PreflightInv, On, Begun
<1>3. ASSUME NEW p \in Preflights, NEW e \in Engines, Check(p, e)
      PROVE  Goal
  <2>0. On(p, e, "check") /\ UNCHANGED <<engine_files, lockfile>> /\ preflight[p].engines # <<>> /\ Begun(p)
    BY <1>3 DEF Check, On, Begun
  <2>1. CASE NextEngine(p)
    <3>1. PreflightTypes'
      BY <2>0, <2>1, NextEngineTyped DEF PreflightTypes, engine_files
    <3>2. PreflightInv'
      BY <1>2, <2>0, <2>1, <3>1, NextEngineTyped DEF On
    <3> QED  BY <2>0, <3>1, <3>2 DEF engine_files
  <2>2. CASE preflight' = [preflight EXCEPT ![p].pc = "backup", ![p].version = package[e]]
    <3>1. PreflightTypes' /\ preflight'[p].pc = "backup" /\ \A q \in Preflights \ {p} : preflight'[q] = preflight[q]
      BY <2>0, <2>2 DEF PreflightTypes, engine_files
    <3>2. PreflightInv'
      BY <1>2, <2>0, <3>1 DEF On
    <3> QED  BY <2>0, <3>1, <3>2 DEF engine_files
  <2> QED  BY <1>3, <2>1, <2>2 DEF Check
<1>4. ASSUME NEW p \in Preflights, NEW e \in Engines, Backup(p, e)
      PROVE  Goal
  <2>0. On(p, e, "backup") /\ UNCHANGED <<on_path, package, database, recorded, lockfile>>
        /\ preflight[p].engines # <<>> /\ Begun(p)
    BY <1>4 DEF Backup, On, Begun
  <2>1. CASE NextEngine(p) /\ UNCHANGED backups
    <3>1. PreflightTypes'
      BY <2>0, <2>1, NextEngineTyped DEF PreflightTypes
    <3>2. PreflightInv'
      BY <1>2, <2>0, <2>1, <3>1, NextEngineTyped DEF On
    <3> QED  BY <2>0, <3>1, <3>2
  <2>2. ASSUME backups' = [backups EXCEPT ![e] = @ \cup ({database[e]} \ {0})],
               NEW pc \in {"unlink", "upgrade"}, Moves(p, pc)
        PROVE  Goal
    <3>1. PreflightTypes'
      BY <2>0, <2>2, MovesTyped DEF PreflightTypes
    <3>2. database[e] = 0 \/ database[e] \in backups'[e]
      BY <2>2 DEF PreflightTypes
    <3>3. preflight'[p].pc = pc /\ preflight'[p].engines = preflight[p].engines
      BY <2>2, MovesTyped
    <3>4. \A d \in Engines : On(p, d, "unlink")' \/ On(p, d, "upgrade")' => d = e
      BY <2>0, <3>3 DEF On
    <3>5. PreflightInv'
      BY <1>2, <2>0, <2>2, <3>1, <3>2, <3>3, <3>4, MovesTyped DEF On
    <3> QED  BY <2>0, <3>1, <3>5
  <2> QED  BY <1>4, <2>1, <2>2 DEF Backup
<1>5. ASSUME NEW p \in Preflights, NEW e \in Engines, Unlink(p, e)
      PROVE  Goal
  <2>0. /\ On(p, e, "unlink") /\ Begun(p) /\ Moves(p, "record")
        /\ UNCHANGED <<on_path, package, backups, recorded, lockfile>>
        /\ database' = [database EXCEPT ![e] = 0]
    BY <1>5 DEF Unlink, On, Begun
  <2>1. PreflightTypes'
    BY <2>0, MovesTyped DEF PreflightTypes
  <2>2. preflight'[p].pc = "record" /\ preflight'[p].engines = preflight[p].engines
    BY <2>0, MovesTyped
  <2>3. database'[e] = 0 /\ \A d \in Engines \ {e} : database'[d] = database[d]
    BY <2>0 DEF PreflightTypes
  <2>4. \A d \in Engines : On(p, d, "record")' => d = e
    BY <2>0, <2>2 DEF On
  <2>5. PreflightInv'
    BY <1>2, <2>0, <2>1, <2>2, <2>3, <2>4, MovesTyped DEF On
  <2>6. database[e] = 0 \/ database[e] \in backups[e]
    BY <2>0 DEF PreflightInv
  <2> QED  BY <2>0, <2>1, <2>3, <2>5, <2>6
<1>6. ASSUME NEW p \in Preflights, NEW e \in Engines, Upgrade(p, e)
      PROVE  Goal
  <2>0. /\ On(p, e, "upgrade") /\ Begun(p) /\ preflight[p].engines # <<>>
        /\ UNCHANGED <<on_path, package, backups, recorded, lockfile>>
        /\ UNCHANGED database \/ database' = [database EXCEPT ![e] = preflight[p].version]
    BY <1>6 DEF Upgrade, On, Begun
  <2>1. /\ database' \in [Engines -> Versions \cup {0}]
        /\ \A d \in Engines \ {e} : database'[d] = database[d]
    BY <2>0 DEF PreflightTypes
  <2>2. database[e] = 0 \/ database[e] \in backups[e]
    BY <2>0 DEF PreflightInv
  <2>3. CASE NextEngine(p)
    <3>1. PreflightTypes'
      BY <2>0, <2>1, <2>3, NextEngineTyped DEF PreflightTypes
    <3>2. PreflightInv'
      BY <1>2, <2>0, <2>3, <3>1, NextEngineTyped DEF On
    <3> QED  BY <2>0, <2>1, <2>2, <3>1, <3>2
  <2>4. CASE Moves(p, "record") /\ (on_path => database'[e] = preflight[p].version)
    <3>1. PreflightTypes'
      BY <2>0, <2>1, <2>4, MovesTyped DEF PreflightTypes
    <3>2. /\ preflight'[p].pc = "record" /\ preflight'[p].engines = preflight[p].engines
          /\ preflight'[p].version = preflight[p].version
      BY <2>4, MovesTyped
    <3>3. \A d \in Engines : On(p, d, "record")' => d = e
      BY <2>0, <3>2 DEF On
    <3>4. PreflightInv'
      BY <1>2, <2>0, <2>4, <3>1, <3>2, <3>3, MovesTyped DEF On
    <3> QED  BY <2>0, <2>1, <2>2, <3>1, <3>4
  <2> QED  BY <1>6, <2>3, <2>4 DEF Upgrade, PreflightTypes
<1>7. ASSUME NEW p \in Preflights, NEW e \in Engines, save_engines_state_atomic(p, e)
      PROVE  Goal
  <2>0. /\ On(p, e, "record") /\ Begun(p) /\ preflight[p].engines # <<>> /\ NextEngine(p)
        /\ recorded' = [recorded EXCEPT ![e] = preflight[p].version]
        /\ UNCHANGED <<on_path, package, database, backups, lockfile>>
    BY <1>7 DEF save_engines_state_atomic, On, Begun
  <2>1. PreflightTypes'
    BY <2>0, NextEngineTyped DEF PreflightTypes
  <2>2. PreflightInv'
    BY <1>2, <2>0, <2>1, NextEngineTyped DEF On
  <2>3. recorded'[e] = preflight[p].version /\ \A d \in Engines \ {e} : recorded'[d] = recorded[d]
    BY <2>0 DEF PreflightTypes
  <2>4. on_path => database[e] \in {0, preflight[p].version}
    BY <2>0 DEF PreflightInv
  <2> QED  BY <2>0, <2>1, <2>2, <2>3, <2>4
<1>8. ASSUME NEW p \in Preflights, Begun(p), Moves(p, "over"), lockfile' = None, UNCHANGED engine_files
      PROVE  Goal
  <2>1. PreflightTypes'
    BY <1>8, MovesTyped DEF PreflightTypes, engine_files
  <2>2. \A q \in Preflights : ~Begun(q)'
    BY <1>8, MovesTyped DEF PreflightInv, Begun
  <2>3. PreflightInv'
    BY <2>2 DEF PreflightInv, Begun, On
  <2> QED  BY <1>8, <2>1, <2>3 DEF engine_files
<1>9. ASSUME NEW e \in Engines, NEW v \in Versions, InstallEngine(e, v)
      PROVE  Goal
  BY <1>9 DEF InstallEngine, PreflightTypes, PreflightInv, Begun, On
<1>10. CASE UNCHANGED <<vars, preflight_vars>>
  BY <1>10 DEF vars, preflight_vars, engine_files, PreflightTypes, PreflightInv, Begun, On
<1>11. ASSUME NEW p \in Preflights, migrate_prefect_db(p) \/ migrate_mlflow_db(p)
       PROVE  Goal
  BY <1>3, <1>4, <1>5, <1>6, <1>7, <1>11, TheEngines DEF migrate_prefect_db, migrate_mlflow_db, migrate_db_of
<1>12. ASSUME NEW p \in Preflights, Unlock(p) \/ Crash(p)
       PROVE  Goal
  BY <1>8, <1>12 DEF Unlock, Crash, Begun
<1> QED  BY <1>1, <1>9, <1>10, <1>11, <1>12 DEF PreflightNext

(* Stopped and tried again in any step, a migration loses no data and is   *)
(* not taken for done before it is.                                        *)
THEOREM NoMigrationLosesData == PreflightSpec => MigrationsAreSafe
<1>1. Init /\ PreflightInit => PreflightTypes /\ PreflightInv
  <2> SUFFICES ASSUME Init, PreflightInit PROVE PreflightTypes /\ PreflightInv
    OBVIOUS
  <2>1. PreflightTypes
    BY TheEngines DEF PreflightInit, PreflightTypes
  <2>2. \A p \in Preflights : preflight[p].pc = "off"
    BY DEF PreflightInit
  <2>3. PreflightInv
    BY <2>2 DEF PreflightInv, Begun, On
  <2> QED  BY <2>1, <2>3
<1>2. PreflightTypes /\ PreflightInv /\ [PreflightNext]_<<vars, preflight_vars>> => (PreflightTypes /\ PreflightInv)'
  BY PreflightStep
<1>3. PreflightTypes /\ PreflightInv /\ [PreflightNext]_<<vars, preflight_vars>>
      => [\A e \in Engines :
             database'[e] # database[e] /\ database[e] # 0 => database[e] \in backups[e]]_preflight_vars
  BY PreflightStep
<1>4. PreflightTypes /\ PreflightInv /\ [PreflightNext]_<<vars, preflight_vars>>
      => [\A e \in Engines :
             on_path /\ recorded'[e] # recorded[e] => database[e] \in {0, recorded'[e]}]_preflight_vars
  BY PreflightStep
<1> QED  BY <1>1, <1>2, <1>3, <1>4, PTL DEF PreflightSpec, MigrationsAreSafe, ReplacedIsBackedUp, RecordedWhenMigrated

-----------------------------------------------------------------------------
(* ----- Bootstrap ----- *)
BootTypes ==
    /\ api \in [Apis -> [pc : {"off", "bootstrap", "create", "seed", "plugins", "serving"},
                         parts : SUBSET Parts, defs : SUBSET Definitions]]
    /\ seeded \in [Definitions -> Nat] /\ loaded \subseteq Apis

(* Whoever is to commit has made every part or has found them committed;   *)
(* whoever is to load the plugins has committed.                           *)
Whole == system = Parts /\ \A d \in Definitions : seeded[d] # 0
BootInv ==
    /\ system \in {{}, Parts}
    /\ (\E d \in Definitions : seeded[d] # 0) \/ loaded # {} => Whole
    /\ \A a \in Apis : /\ api[a].pc = "seed" => api[a].parts = Parts \/ system = Parts
                       /\ api[a].pc = "plugins" => Whole

LEMMA BootStep ==
    ASSUME BootTypes, BootInv, [BootNext]_boot_vars
    PROVE  BootTypes' /\ BootInv'
<1> USE DEF Is
(* Most steps commit nothing.                                              *)
<1>1. ASSUME NEW a \in Apis, UNCHANGED <<system, seeded>>, loaded' \subseteq loaded,
             \A b \in Apis \ {a} : api'[b] = api[b], BootTypes',
             api'[a].pc = "seed" => api'[a].parts = Parts \/ system = Parts, api'[a].pc # "plugins"
      PROVE  BootInv'
  BY <1>1 DEF BootInv, Whole
<1>2. ASSUME run_migrations
      PROVE  BootTypes' /\ BootInv'
  BY <1>2 DEF run_migrations, BootTypes, BootInv, Whole
<1>3. ASSUME NEW a \in Apis, ensure_schema_and_migrations(a)
      PROVE  BootTypes' /\ BootInv'
  <2>1. BootTypes' /\ api'[a].pc = "bootstrap" /\ \A b \in Apis \ {a} : api'[b] = api[b]
    BY <1>3 DEF ensure_schema_and_migrations, Proceed, BootTypes
  <2> QED  BY <1>1, <1>3, <2>1 DEF ensure_schema_and_migrations
<1>4. ASSUME NEW a \in Apis, bootstrap_system(a)
      PROVE  BootTypes' /\ BootInv'
  <2>1. /\ BootTypes' /\ api'[a].pc = (IF "tenant" \in system THEN "seed" ELSE "create")
        /\ \A b \in Apis \ {a} : api'[b] = api[b]
    BY <1>4 DEF bootstrap_system, Proceed, BootTypes
  <2>2. "tenant" \in system => system = Parts
    BY DEF BootInv
  <2> QED  BY <1>1, <1>4, <2>1, <2>2 DEF bootstrap_system
<1>5. ASSUME NEW a \in Apis, Create(a)
      PROVE  BootTypes' /\ BootInv'
  <2>1. BootTypes' /\ api'[a].pc = "create" /\ \A b \in Apis \ {a} : api'[b] = api[b]
    BY <1>5 DEF Create, BootTypes
  <2> QED  BY <1>1, <1>5, <2>1 DEF Create
<1>6. ASSUME NEW a \in Apis, Created(a)
      PROVE  BootTypes' /\ BootInv'
  <2>1. /\ BootTypes' /\ api'[a].pc = "seed" /\ api'[a].parts = Parts
        /\ \A b \in Apis \ {a} : api'[b] = api[b]
    BY <1>6 DEF Created, Proceed, BootTypes
  <2> QED  BY <1>1, <1>6, <2>1 DEF Created
<1>7. ASSUME NEW a \in Apis, seed_definitions(a)
      PROVE  BootTypes' /\ BootInv'
  <2>1. /\ BootTypes' /\ api'[a].pc = "seed" /\ api'[a].parts = api[a].parts
        /\ \A b \in Apis \ {a} : api'[b] = api[b]
    BY <1>7 DEF seed_definitions, BootTypes
  <2>2. api[a].parts = Parts \/ system = Parts
    BY <1>7 DEF seed_definitions, BootInv
  <2> QED  BY <1>1, <1>7, <2>1, <2>2 DEF seed_definitions
<1>8. ASSUME NEW a \in Apis, Commit(a)
      PROVE  BootTypes' /\ BootInv'
  <2>1. system' = Parts
    BY <1>8 DEF Commit, BootInv, BootTypes
  <2>2. seeded' \in [Definitions -> Nat] /\ \A d \in Definitions : seeded'[d] # 0
    BY <1>8 DEF Commit, BootTypes
  <2>3. BootTypes'
    BY <1>8, <2>2 DEF Commit, BootTypes, Fresh
  <2> QED  BY <2>1, <2>2, <2>3 DEF BootInv, Whole
<1>9. ASSUME NEW a \in Apis, load_uploaded_plugins(a)
      PROVE  BootTypes' /\ BootInv'
  <2>1. BootTypes' /\ api'[a].pc = "serving" /\ \A b \in Apis \ {a} : api'[b] = api[b]
    BY <1>9 DEF load_uploaded_plugins, Proceed, BootTypes
  <2>2. Whole
    BY <1>9 DEF load_uploaded_plugins, BootInv
  <2> QED  BY <1>9, <2>1, <2>2 DEF load_uploaded_plugins, BootInv, Whole
<1>10. ASSUME NEW a \in Apis, HooksFail(a) \/ StopApi(a)
       PROVE  BootTypes' /\ BootInv'
  <2>1. BootTypes' /\ api'[a].pc \in {"serving", "off"} /\ \A b \in Apis \ {a} : api'[b] = api[b]
    BY <1>10 DEF HooksFail, StopApi, BootTypes, Fresh
  <2>2. UNCHANGED <<system, seeded>> /\ loaded' \subseteq loaded
    BY <1>10 DEF HooksFail, StopApi
  <2> QED  BY <1>1, <2>1, <2>2
<1>11. CASE UNCHANGED boot_vars
  BY <1>11 DEF boot_vars, BootTypes, BootInv, Whole
<1> QED
  BY <1>2, <1>3, <1>4, <1>5, <1>6, <1>7, <1>8, <1>9, <1>10, <1>11 DEF BootNext, run_startup_hooks

(* Whatever is committed of the system is all of it, every definition      *)
(* included, however many processes start and stop on one database.        *)
THEOREM SystemStaysWhole == BootSpec => []SystemIsWhole
<1>1. BootInit => BootTypes /\ BootInv
  BY DEF BootInit, BootTypes, BootInv, Fresh
<1>2. BootTypes /\ BootInv /\ [BootNext]_boot_vars => (BootTypes /\ BootInv)'
  BY BootStep
<1>3. BootInv => SystemIsWhole
  BY DEF BootInv, SystemIsWhole, Whole
<1> QED  BY <1>1, <1>2, <1>3, PTL DEF BootSpec

=============================================================================
