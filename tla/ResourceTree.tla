---------------------------- MODULE ResourceTree ----------------------------
(***************************************************************************)
(* The tree of resources and the requests that change it: the routers      *)
(* resources.py and rbac.py, and the execution of promotions, which moves  *)
(* or copies subtrees.  Every handler asks the permission engine, rolls    *)
(* back what it has read (reset_session) and writes in a new transaction,  *)
(* so two handlers may both decide on a tree that the other is changing.   *)
(* A client lists the children of a resource page by page meanwhile.       *)
(*                                                                         *)
(* Resources are numbered in the order (created_at, id) of the listings.   *)
(* setting never changes: the handlers that work at the same time, the     *)
(* requests they get and the promotions that are approved.                 *)
(***************************************************************************)
EXTENDS Permissions, SequencesExt

CONSTANTS
    Root,           \* the resource of the tenant
    Planted,        \* resources that exist at the beginning
    Beginnings,     \* the trees that they may form then: the parent of each
    Client, Settings,
    Limit,          \* resources on a page
    MaxChanges,     \* bound: committed changes
    MaxBindings     \* bound: role bindings ever granted

(* The parts of the interface that a setting exercises.                    *)
Request == {"rows", "roles", "copy", "move", "promotions", "listing"}

ASSUME TreeAssumption ==
    /\ Resource \subseteq Nat \ {0} /\ IsFiniteSet(Resource) /\ Limit \in Nat \ {0}
    /\ Planted \subseteq Resource /\ Root \in Planted /\ "owner" \in Role
    /\ Settings \subseteq [handlers : SUBSET Client, uses : SUBSET Request,
                           promotions : SUBSET [moving : Planted, to : Planted,
                                                mode : {"move", "copy"}]]
    /\ Beginnings \subseteq [Planted -> Planted \cup {None}]

(* Bootstrap makes the root, and every row is put under one that exists.   *)
ASSUME BeginningAssumption ==
    \A t \in Beginnings, S \in SUBSET Planted :
        Root \in S /\ (\A r \in Planted : t[r] \in S => r \in S) => S = Planted

VARIABLES
    standing,       \* Resource.status, "absent" before the row exists
    approved,       \* the promotions that are not executed
    changes,        \* how many changes were committed
    listing,        \* what the client has seen of its listing
    job, setting

tree == <<parent, standing, breaks>>
vars == <<tree, binding, approved, changes, listing, job, setting>>

Exists(r) == standing[r] # "absent"
Existing == {r \in Resource : Exists(r)}
Children(r) == {s \in Existing : parent[s] = r}
Idle == [op |-> "idle"]
Uses(request) == request \in setting.uses
Serial == \A c, d \in setting.handlers : c = d

Begin(c, work) ==
    /\ c \in setting.handlers /\ job[c] = Idle
    /\ changes < MaxChanges
    /\ job' = [job EXCEPT ![c] = work]
    /\ UNCHANGED <<tree, binding, approved, changes>>

Commit(c) == job' = [job EXCEPT ![c] = Idle] /\ changes' = changes + 1

(* The caller goes away or the commit fails: nothing of it is kept.        *)
Abort(c) ==
    /\ job[c] # Idle
    /\ job' = [job EXCEPT ![c] = Idle]
    /\ UNCHANGED <<tree, binding, approved, changes>>
-----------------------------------------------------------------------------
(* resources.py.  No handler looks at the status, so that a resource that  *)
(* was deleted can be changed, moved and given children.                   *)
Plant(new, under, broken) ==
    /\ parent' = [r \in Resource |-> IF r \in DOMAIN new THEN under[r] ELSE parent[r]]
    /\ standing' = [r \in Resource |-> IF r \in DOMAIN new THEN new[r] ELSE standing[r]]
    /\ breaks' = breaks \cup broken

ReadForCreate(c, p, under) ==
    /\ Exists(under) /\ AuthorizeOr403(p, under, "RESOURCE_CREATE_CHILD")
    /\ Begin(c, [op |-> "create", under |-> under])

Create(c, r) ==
    /\ job[c].op = "create" /\ ~Exists(r)
    /\ Plant([x \in {r} |-> "active"], [x \in {r} |-> job[c].under], {})
    /\ Commit(c)
    /\ UNCHANGED <<binding, approved>>

ReadForCopy(c, p, r, under) ==
    /\ Exists(r) /\ AuthorizeOr403(p, r, "RESOURCE_READ")
    /\ Exists(under) /\ AuthorizeOr403(p, under, "RESOURCE_CREATE_CHILD")
    /\ Begin(c, [op |-> "copyOne", under |-> under, broken |-> r \in breaks])

CopyOne(c, r) ==
    /\ job[c].op = "copyOne" /\ ~Exists(r)
    /\ Plant([x \in {r} |-> "active"], [x \in {r} |-> job[c].under],
             IF job[c].broken THEN {r} ELSE {})
    /\ Commit(c)
    /\ UNCHANGED <<binding, approved>>

ReadForUpdate(c, p, r, status, broken) ==
    /\ Exists(r) /\ AuthorizeOr403(p, r, "RESOURCE_UPDATE")
    /\ (status # None /\ status # standing[r]) \/ (broken # None /\ broken # (r \in breaks))
    /\ Begin(c, [op |-> "update", resource |-> r, status |-> status, broken |-> broken])

Update(c) ==
    /\ job[c].op = "update"
    /\ LET j == job[c]
           r == j.resource
       IN  /\ standing' = IF j.status = None THEN standing
                          ELSE [standing EXCEPT ![r] = j.status]
           /\ breaks' = IF j.broken = None THEN breaks
                        ELSE IF j.broken THEN breaks \cup {r} ELSE breaks \ {r}
    /\ Commit(c)
    /\ UNCHANGED <<parent, binding, approved>>

ReadForDelete(c, p, r) ==
    /\ Exists(r) /\ AuthorizeOr403(p, r, "RESOURCE_DELETE")
    /\ Begin(c, [op |-> "delete", resource |-> r])

Delete(c) ==
    /\ job[c].op = "delete"
    /\ standing' = [standing EXCEPT ![job[c].resource] = "deleted"]
    /\ Commit(c)
    /\ UNCHANGED <<parent, breaks, binding, approved>>

(* Nothing keeps the new parent out of the subtree that moves.             *)
ReadForMove(c, p, r, to) ==
    /\ Exists(r) /\ Exists(to)
    /\ AuthorizeOr403(p, r, "RESOURCE_UPDATE")
    /\ AuthorizeOr403(p, to, "RESOURCE_CREATE_CHILD")
    /\ Begin(c, [op |-> "move", resource |-> r, to |-> to])

Move(c) ==
    /\ job[c].op = "move"
    /\ parent' = [parent EXCEPT ![job[c].resource] = job[c].to]
    /\ Commit(c)
    /\ UNCHANGED <<standing, breaks, binding, approved>>
-----------------------------------------------------------------------------
(* rbac.py.  The same role can be granted twice; revoking takes one row.   *)
ReadForGrant(c, p, to, role, scope) ==
    /\ Exists(scope) /\ AuthorizeOr403(p, scope, "RBAC_GRANT")
    /\ Len(binding) < MaxBindings
    /\ Begin(c, [op |-> "grant",
                 row |-> [principal |-> to, role |-> role, scope |-> scope, revoked |-> FALSE]])

Grant(c) ==
    /\ job[c].op = "grant"
    /\ binding' = Append(binding, job[c].row)
    /\ Commit(c)
    /\ UNCHANGED <<tree, approved>>

ReadForRevoke(c, p, i) ==
    /\ AuthorizeOr403(p, binding[i].scope, "RBAC_REVOKE")
    /\ Begin(c, [op |-> "revoke", row |-> i])

Revoke(c) ==
    /\ job[c].op = "revoke"
    /\ binding' = [binding EXCEPT ![job[c].row].revoked = TRUE]
    /\ Commit(c)
    /\ UNCHANGED <<tree, approved>>
-----------------------------------------------------------------------------
(* promotions.py, execution.  The subtree is loaded level by level, which  *)
(* gives the least set with r and the children of its members.             *)
Subtree(r) ==
    LET closed == {S \in SUBSET Resource : r \in S /\ \A s \in S : Children(s) \subseteq S}
    IN  {s \in Resource : \A S \in closed : s \in S}

OnlyItself(q) == q.mode = "move" => q.to # q.moving   (* Bug: descendants are forgotten *)
DestinationFits(q) == q.mode = "move" => q.to \notin Subtree(q.moving)

ReadForExecute(c, p, q) ==
    /\ q \in approved
    /\ AuthorizeOr403(p, q.to, "PROMOTE_EXECUTE")
    /\ Begin(c, [op |-> "execute", promotion |-> q])

(* In a subtree with a cycle the levels never end and nor does the handler. *)
LoadSubtree(c) ==
    /\ job[c].op = "execute"
    /\ LET q == job[c].promotion
           subtree == Subtree(q.moving)
       IN  /\ parent[q.moving] \notin subtree
           /\ job' = [job EXCEPT ![c] =
                IF DestinationFits(q)
                THEN [op |-> "place", promotion |-> q,
                      under |-> [r \in subtree |-> parent[r]],
                      status |-> [r \in subtree |-> standing[r]],
                      broken |-> subtree \cap breaks]
                ELSE Idle]
    /\ UNCHANGED <<tree, binding, approved, changes>>

ExecuteMove(c) ==
    /\ job[c].op = "place" /\ job[c].promotion.mode = "move"
    /\ LET q == job[c].promotion
       IN  /\ parent' = [parent EXCEPT ![q.moving] = q.to]
           /\ approved' = approved \ {q}
    /\ Commit(c)
    /\ UNCHANGED <<standing, breaks, binding>>

(* Every resource of the subtree is copied to a row of its own, f[r].      *)
ExecuteCopy(c, f) ==
    /\ job[c].op = "place" /\ job[c].promotion.mode = "copy"
    /\ LET j == job[c]
           q == j.promotion
           original == [n \in {f[r] : r \in DOMAIN f} |-> CHOOSE r \in DOMAIN f : f[r] = n]
       IN  /\ Plant([n \in DOMAIN original |-> j.status[original[n]]],
                    [n \in DOMAIN original |-> IF original[n] = q.moving THEN q.to
                                               ELSE f[j.under[original[n]]]],
                    {n \in DOMAIN original : original[n] \in j.broken})
           /\ approved' = approved \ {q}
    /\ Commit(c)
    /\ UNCHANGED binding

NewRows(c) ==
    IF job[c].op # "place" THEN {}
    ELSE {f \in [DOMAIN job[c].under -> Resource \ Existing] :
            \A r, s \in DOMAIN f : f[r] = f[s] => r = s}
-----------------------------------------------------------------------------
(* A client lists the children of a resource.  The cursor that a page ends *)
(* with is the last resource on it, and none when no row is left.  stayed  *)
(* are the children that were never elsewhere since the first page.        *)
LastRow(page, rows) == Max(page)
RowAfter(page, rows) ==                 (* Bug: the row that tells there are more *)
    Min({r \in rows : r \notin page})
Cursor(page, rows) == LastRow(page, rows)

PageOf(rows) == {r \in rows : Cardinality({s \in rows : s <= r}) <= Limit}

ListChildren(p, r) ==
    /\ ~listing.done
    /\ listing.of \in {None, r} /\ Exists(r)
    /\ AuthorizeOr403(p, r, "RESOURCE_READ")
    /\ LET rows == {s \in Children(r) : s > listing.after}
           page == PageOf(rows)
       IN  listing' = [of |-> r,
                       shown |-> Append(listing.shown, page),
                       done |-> page = rows,
                       after |-> IF page = rows THEN listing.after ELSE Cursor(page, rows),
                       stayed |-> IF listing.of = None THEN Children(r) ELSE listing.stayed]
    /\ UNCHANGED <<tree, binding, approved, changes, job>>

Watched == listing' = [listing EXCEPT !.stayed =
                          IF listing.of = None THEN @
                          ELSE {r \in @ : parent'[r] = listing.of}]
-----------------------------------------------------------------------------
Init ==
    /\ \E t \in Beginnings :
          parent = [r \in Resource |-> IF r \in Planted THEN t[r] ELSE None]
    /\ standing = [r \in Resource |-> IF r \in Planted THEN "active" ELSE "absent"]
    /\ breaks = {}
    /\ \E p \in Principal :
          binding = <<[principal |-> p, role |-> "owner", scope |-> Root, revoked |-> FALSE]>>
    /\ changes = 0
    /\ listing = [of |-> None, shown |-> <<>>, done |-> FALSE, after |-> 0, stayed |-> {}]
    /\ job = [c \in Client |-> Idle]
    /\ setting \in Settings
    /\ approved = setting.promotions

Read(c, p) ==
    \/ /\ Uses("rows")
       /\ \/ \E r \in Existing : ReadForCreate(c, p, r) \/ ReadForDelete(c, p, r)
          \/ \E r \in Existing, s \in {None, "active", "deleted"}, b \in {None, TRUE, FALSE} :
                ReadForUpdate(c, p, r, s, b)
    \/ Uses("copy") /\ \E r, under \in Existing : ReadForCopy(c, p, r, under)
    \/ Uses("move") /\ \E r, to \in Existing : ReadForMove(c, p, r, to)
    \/ /\ Uses("roles")
       /\ \/ \E r \in Existing, q \in Principal, role \in Role : ReadForGrant(c, p, q, role, r)
          \/ \E i \in DOMAIN binding : ReadForRevoke(c, p, i)
    \/ Uses("promotions") /\ \E q \in approved : ReadForExecute(c, p, q)

Write(c) ==
    \/ \E r \in Resource : Create(c, r) \/ CopyOne(c, r)
    \/ Update(c) \/ Delete(c) \/ Move(c) \/ Grant(c) \/ Revoke(c)
    \/ LoadSubtree(c) \/ ExecuteMove(c)
    \/ \E f \in NewRows(c) : ExecuteCopy(c, f)
    \/ Abort(c)

Handle(c) == (Write(c) \/ \E p \in Principal : Read(c, p)) /\ Watched

Next ==
    /\ \/ \E c \in Client : Handle(c)
       \/ Uses("listing") /\ \E p \in Principal, r \in Existing : ListChildren(p, r)
    /\ UNCHANGED setting

Spec == Init /\ [][Next]_vars
-----------------------------------------------------------------------------
TypeOK ==
    /\ parent \in [Resource -> Resource \cup {None}]
    /\ standing \in [Resource -> {"absent", "active", "deleted"}]
    /\ breaks \subseteq Resource
    /\ binding \in Seq([principal : Principal, role : Role, scope : Resource, revoked : BOOLEAN])

(* What the engine decides by walking, filtering and asking casbin is that *)
(* an active binding with the permission lies at the end of a path of      *)
(* parents, of at most MaxHierarchy links, none of which leaves a resource *)
(* that breaks inheritance (engine.py, adapter.py, model.conf).            *)
Route == UNION {[1..n -> Resource] : n \in 1..MaxHierarchy + 1}
Path(s) == \A i \in 1..Len(s) - 1 : s[i] \notin breaks /\ s[i + 1] = parent[s[i]]
DecisionsFollowPaths ==
    LET paths == {s \in Route : Path(s)}
        Grants(r, p, perm) ==
            \E s \in paths, i \in DOMAIN binding :
                LET b == binding[i]
                IN  /\ s[1] = r /\ s[Len(s)] = b.scope
                    /\ b.principal = p /\ ~b.revoked
                    /\ \E t \in {"*", TypeOf[b.scope]} : <<b.role, t, perm>> \in RolePermission
    IN  \A r \in Existing, p \in Principal, perm \in Permission :
            WalkEnds(r) => (Authorized(p, r, perm) <=> Grants(r, p, perm))

(* Without the move of resources.py, and with one handler at a time, the   *)
(* parents stay a tree: every walk up ends and every subtree can be        *)
(* loaded (promotions.py "Destination scope cannot be within subtree").    *)
TreeKept == Serial /\ ~Uses("move") => Subtree(Root) = Existing

(* A listing that came to its end has shown every child that was there all *)
(* the time, and none twice, whatever was created, moved or removed while  *)
(* the pages were fetched (resources.py, list_children).                   *)
ListingComplete ==
    /\ listing.done => listing.stayed \subseteq UNION ToSet(listing.shown)
    /\ \A i, j \in DOMAIN listing.shown : i # j => listing.shown[i] \cap listing.shown[j] = {}
=============================================================================
