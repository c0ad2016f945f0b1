---------------------------- MODULE Permissions ----------------------------
(***************************************************************************)
(* The permission engine (libs/core/rbac_casbin): who may do what where.   *)
(* It loads the scopes above a resource by walking up the parents, the     *)
(* bindings of the actor on them and the permissions of their roles, and   *)
(* asks a casbin enforcer that knows only these.                           *)
(***************************************************************************)
EXTENDS Naturals, Sequences, FiniteSets

CONSTANTS
    Resource, Principal, Role, Permission,
    TypeOf,             \* Resource.type
    RolePermission,     \* <<role_name, resource_type, perm_name>>, "*" for any type
    MaxHierarchy,       \* casbin follows this many links of a chain, 10 by default
    None

ASSUME EngineAssumption == MaxHierarchy \in Nat /\ None \notin Resource

VARIABLES
    parent,     \* Resource.parent_id, None for the root of the tenant
    breaks,     \* resources whose metadata say inherit_break
    binding     \* role_bindings in the order of insertion

Active(b) == ~b.revoked

(* The walk up: it includes the resource that breaks inheritance and stops *)
(* there.  It takes a resource more than once only if the parents form a   *)
(* cycle, and then it does not end.                                        *)
PastBreak(r) == parent[r] = None                    (* Bug: breaks are not looked at *)
Stops(r) == r \in breaks \/ parent[r] = None

Chain(r) ==
    LET n == Cardinality(Resource)
        up[k \in 0..n] ==
            IF k = 0 THEN <<r>>
            ELSE LET below == up[k - 1]
                     top == below[Len(below)]
                 IN  IF Stops(top) THEN below ELSE Append(below, parent[top])
    IN  up[n]
WalkEnds(r) == Len(Chain(r)) <= Cardinality(Resource)

(* The type that counts is that of the scope the role is bound on.         *)
RoleAllows(role, scope, perm) ==
    \E t \in {TypeOf[scope], "*"} : <<role, t, perm>> \in RolePermission

(* casbin's g2 finds a scope at most MaxHierarchy links up the chain.      *)
WithinReach(chain, scope) ==
    \E i \in DOMAIN chain : chain[i] = scope /\ i <= MaxHierarchy + 1

BindingsOn(p, scopes) ==
    {i \in DOMAIN binding :
        Active(binding[i]) /\ binding[i].principal = p /\ binding[i].scope \in scopes}

Authorized(p, r, perm) ==
    LET chain == Chain(r)
    IN  \E i \in BindingsOn(p, {chain[k] : k \in DOMAIN chain}) :
            /\ RoleAllows(binding[i].role, binding[i].scope, perm)
            /\ WithinReach(chain, binding[i].scope)

(* A handler goes on only when the engine answers, and answers yes.        *)
AuthorizeOr403(p, r, perm) == WalkEnds(r) /\ Authorized(p, r, perm)
=============================================================================
