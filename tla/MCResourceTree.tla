--------------------------- MODULE MCResourceTree ---------------------------
(***************************************************************************)
(* Instance of ResourceTree for TLC: the root, two projects and room for   *)
(* two more resources; an owner and another principal.                     *)
(***************************************************************************)
EXTENDS ResourceTree

CONSTANTS c1, c2

MCPermission == {"RESOURCE_READ", "RESOURCE_CREATE_CHILD", "RESOURCE_UPDATE",
                 "RESOURCE_DELETE", "RBAC_GRANT", "RBAC_REVOKE", "PROMOTE_EXECUTE"}
MCBeginnings == {<<None, 1, d>> : d \in {1, 2}}
MCTypeOf == [r \in Resource |-> IF r = Root THEN "Space" ELSE "Project"]

(* The owner may do all, the operator of a project may change it.          *)
MCRolePermission ==
    {<<"owner", "*", perm>> : perm \in MCPermission}
        \cup {<<"operator", "Project", perm>> : perm \in {"RESOURCE_READ", "RESOURCE_UPDATE"}}

Promotion(r, to, mode) == [moving |-> r, to |-> to, mode |-> mode]
Crossing == {Promotion(2, 3, "move"), Promotion(3, 2, "move")}
Setting(handlers, uses, promotions) ==
    [handlers |-> handlers, uses |-> uses, promotions |-> promotions]
MCSettings ==
    {Setting({c1}, {"rows", "promotions"}, Crossing \cup {Promotion(2, 1, "copy")}),
     Setting({c1}, {"rows", "roles"}, {}),
     Setting({c1}, {"copy", "roles", "move"}, {}),
     Setting({c1}, {"rows", "move", "listing"}, {}),
     Setting({c1, c2}, {"promotions"}, Crossing)}

Symmetry == Permutations(Principal)
=============================================================================
