CONSTANTS
    s1 = s1
    s2 = s2
    u1 = u1
    p1 = p1
    p2 = p2
    a1 = a1
    a2 = a2
    d1 = d1
    d2 = d2
    Servers = {s1, s2}
    Upgrades = {u1}
    Releases = {1, 2}
    keep_versions = 1
    MaxKills = 1
    Preflights = {p1, p2}
    Versions = {1, 2}
    Apis = {a1, a2}
    Definitions = {d1, d2}
    None = None
SPECIFICATION Installation
INVARIANTS OneAtATime NothingLeftBehind RecordedIsOnDisk SystemIsWhole
PROPERTIES HandsOver MigrationsAreSafe
CHECK_DEADLOCK FALSE
