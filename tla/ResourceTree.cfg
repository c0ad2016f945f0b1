\* The root, two projects, room for two more rows.
SPECIFICATION Spec
CONSTANTS
    c1 = c1
    c2 = c2
    None = None
    Resource = {1, 2, 3, 4, 5}
    Root = 1
    Planted = {1, 2, 3}
    Beginnings <- MCBeginnings
    Principal = {ann, bob}
    Role = {"owner", "operator"}
    Permission <- MCPermission
    TypeOf <- MCTypeOf
    RolePermission <- MCRolePermission
    MaxHierarchy = 2
    Client = {c1, c2}
    Settings <- MCSettings
    Limit = 1
    MaxChanges = 2
    MaxBindings = 2
SYMMETRY Symmetry
CHECK_DEADLOCK FALSE
INVARIANTS DecisionsFollowPaths TreeKept ListingComplete
