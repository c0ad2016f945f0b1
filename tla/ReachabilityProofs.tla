------------------------- MODULE ReachabilityProofs -------------------------
(***************************************************************************)
(* What is reached from where: the tree of resources, the walks up in it   *)
(* that the permission engine takes and the listings of its children, and  *)
(* the lineage of datasets with those that read it.                        *)
(*                                                                         *)
(* Induction is taken on sets: a set of naturals has a least member, and   *)
(* a subtree, or what is upstream, is the least set that is closed.        *)
(***************************************************************************)
EXTENDS ResourceTree, Lineage, FiniteSetTheorems, WellFoundedInduction, TLAPS

(* ----- numbers and finite sets ----- *)
Less == {pair \in Nat \X Nat : pair[1] < pair[2]}
LEMMA Least ==
    ASSUME NEW S \in SUBSET Nat, S # {}
    PROVE  \E m \in S : \A n \in S : m <= n
<1>1. IsWellFoundedOn(Less, Nat)
  BY NatLessThanWellFounded DEF OpToRel, Less
<1>2. PICK x \in S : \A y \in S : ~(<<y, x>> \in Less)
  BY <1>1, WFMin
<1>3. ASSUME NEW y \in S PROVE x <= y
  <2>1. ~(<<y, x>> \in Less)
    BY <1>2
  <2>2. x \in Nat /\ y \in Nat /\ <<y, x>> \in Nat \X Nat
    OBVIOUS
  <2> QED  BY <2>1, <2>2 DEF Less
<1> QED  BY <1>3

-----------------------------------------------------------------------------
(* The tree of resources                                                   *)
Rows == [principal : Principal, role : Role, scope : Resource, revoked : BOOLEAN]
TreeTypes ==
    /\ parent \in [Resource -> Resource \cup {None}]
    /\ standing \in [Resource -> {"absent", "active", "deleted"}]
    /\ breaks \in SUBSET Resource
    /\ binding \in Seq(Rows)
    /\ setting \in Settings /\ approved \in SUBSET setting.promotions
    /\ Planted \subseteq Existing
    /\ job = [c \in Client |-> job[c]]

(* What a handler has read is still there when it writes, and with one at  *)
(* a time the subtree that it moves is still what it was.                  *)
Loaded(c) ==
    LET q == job[c].promotion
    IN  /\ job[c].under = [r \in Subtree(q.moving) |-> parent[r]]
        /\ parent[q.moving] \notin Subtree(q.moving)
        /\ q.mode = "move" => q.to \notin Subtree(q.moving)
WorkOK(c) ==
    LET j == job[c]
    IN  /\ j.op \in {"create", "copyOne"} => j.under \in Existing
        /\ j.op = "update" => j.resource \in Existing /\ j.status \in {None, "active", "deleted"}
        /\ j.op = "delete" => j.resource \in Existing
        /\ j.op = "move" => Uses("move") /\ j.resource \in Existing /\ j.to \in Existing
        /\ j.op = "grant" => j.row \in Rows
        /\ j.op = "revoke" => j.row \in DOMAIN binding
        /\ j.op \in {"execute", "place"} => j.promotion \in setting.promotions
        /\ j.op = "place" =>
              /\ \A r \in DOMAIN j.under :
                    /\ r \in Resource /\ j.under[r] \in Resource \cup {None}
                    /\ j.status[r] \in {"active", "deleted"}
                    /\ r # j.promotion.moving => j.under[r] \in DOMAIN j.under
              /\ Serial => Loaded(c)
JobInv == \A c \in Client : (c \notin setting.handlers => job[c] = Idle) /\ WorkOK(c)

(* What is closed under children and holds the root is all.                *)
Closed(S) == \A s \in S : Children(s) \subseteq S
TreeInv ==
    Serial /\ ~Uses("move") => \A S \in SUBSET Resource : Root \in S /\ Closed(S) => Existing \subseteq S

(* ----- subtrees ----- *)
LEMMA SubtreeFacts ==
    ASSUME NEW r \in Resource
    PROVE  /\ Subtree(r) \subseteq Resource /\ r \in Subtree(r) /\ Closed(Subtree(r))
           /\ \A S \in SUBSET Resource : r \in S /\ Closed(S) => Subtree(r) \subseteq S
<1>1. Subtree(r) \subseteq Resource /\ r \in Subtree(r)
  BY DEF Subtree
<1>2. ASSUME NEW s \in Subtree(r), NEW x \in Children(s) PROVE x \in Subtree(r)
  BY DEF Subtree, Children, Existing
<1>3. ASSUME NEW S \in SUBSET Resource, r \in S, Closed(S) PROVE Subtree(r) \subseteq S
  BY <1>3 DEF Subtree, Closed
<1> QED  BY <1>1, <1>2, <1>3 DEF Closed

LEMMA ChildFacts ==
    ASSUME NEW s, NEW x
    PROVE  x \in Children(s) <=> x \in Existing /\ parent[x] = s
BY DEF Children

LEMMA WholeTree == TreeTypes /\ TreeInv => TreeKept
<1> SUFFICES ASSUME TreeTypes, TreeInv, Serial, ~Uses("move") PROVE Subtree(Root) = Existing
  BY DEF TreeKept
<1>1. Root \in Resource /\ Closed(Existing) /\ Existing \in SUBSET Resource
  BY TreeAssumption DEF Existing, Closed, Children
<1>2. Existing \subseteq Subtree(Root)
  BY <1>1, SubtreeFacts DEF TreeInv
<1>3. Root \in Existing
  BY TreeAssumption DEF TreeTypes
<1> QED  BY <1>1, <1>2, <1>3, SubtreeFacts

(* ----- what a step of a handler leaves as it is ----- *)
LEMMA SettingFacts ==
    ASSUME TreeTypes
    PROVE  /\ setting.handlers \subseteq Client
           /\ \A q \in setting.promotions :
                 q.moving \in Planted /\ q.to \in Planted /\ q.mode \in {"move", "copy"}
BY TreeAssumption DEF TreeTypes

LEMMA JobsKeep ==
    ASSUME TreeTypes, JobInv, NEW c \in setting.handlers, UNCHANGED setting,
           job' = [job EXCEPT ![c] = job'[c]], WorkOK(c)',
           Existing \subseteq Existing', DOMAIN binding \subseteq DOMAIN binding'
    PROVE  JobInv'
<1> SUFFICES ASSUME NEW d \in Client, d # c PROVE (d \notin setting.handlers => job'[d] = Idle) /\ WorkOK(d)'
  <2>1. c \in Client
    BY SettingFacts
  <2> QED  BY <2>1 DEF JobInv
<1>1. job'[d] = job[d]
  BY DEF TreeTypes
<1>2. (d \notin setting.handlers => job[d] = Idle) /\ WorkOK(d)
  BY DEF JobInv
<1>3. Serial => job[d] = Idle
  BY <1>2 DEF Serial
<1>4. CASE job[d] = Idle
  BY <1>1, <1>4 DEF WorkOK, Idle
<1>5. CASE ~Serial
  BY <1>1, <1>2, <1>5 DEF WorkOK, Serial, Uses
<1> QED  BY <1>1, <1>2, <1>3, <1>4, <1>5

LEMMA TreeSame ==
    ASSUME TreeInv, UNCHANGED <<parent, setting>>, Existing' = Existing
    PROVE  TreeInv'
BY DEF TreeInv, Closed, Children, Serial, Uses

LEMMA TreeGrows ==
    ASSUME TreeTypes, TreeInv, UNCHANGED setting,
           NEW N \in SUBSET Resource, Existing' = Existing \cup N, 
           \A r \in Existing : parent'[r] = parent[r],
           Serial => \A S \in SUBSET Resource : Existing \subseteq S /\ Closed(S)' => N \subseteq S
    PROVE  TreeInv'
<1> SUFFICES ASSUME Serial, ~Uses("move"), NEW S \in SUBSET Resource, Root \in S, Closed(S)'
             PROVE  Existing' \subseteq S
  BY DEF TreeInv, Serial, Uses
<1>1. Closed(S)
  BY DEF Closed, Children
<1>2. Existing \subseteq S
  BY <1>1 DEF TreeInv
<1> QED  BY <1>2

(* A subtree put under what is outside of it: what its old place reaches   *)
(* is reached with the new one.                                            *)
LEMMA TreeMoves ==
    ASSUME TreeTypes, TreeInv, UNCHANGED <<setting, standing>>, Serial,
           NEW r \in Existing, NEW to \in Existing, to \notin Subtree(r),
           parent' = [parent EXCEPT ![r] = to]
    PROVE  TreeInv'
<1> SUFFICES ASSUME ~Uses("move"), NEW S \in SUBSET Resource, Root \in S, Closed(S)'
             PROVE  Existing \subseteq S
  BY DEF TreeInv, Serial, Uses, Existing, Exists
<1> DEFINE T == S \cup Subtree(r)
<1>1. r \in Resource /\ Existing' = Existing
  BY DEF Existing, Exists
<1>2. Closed(T)
  <2> SUFFICES ASSUME NEW s \in T, NEW x \in Children(s) PROVE x \in T
    BY DEF Closed
  <2>1. CASE s \in Subtree(r)
    BY <2>1, <1>1, SubtreeFacts DEF Closed
  <2>2. CASE s \in S /\ x # r
    <3>1. x \in Children(s)'
      BY <2>2, <1>1 DEF TreeTypes, Children
    <3> QED  BY <3>1, <2>2 DEF Closed
  <2>3. CASE x = r
    BY <2>3, <1>1, SubtreeFacts
  <2> QED  BY <2>1, <2>2, <2>3
<1>3. Existing \subseteq T
  BY <1>1, <1>2, SubtreeFacts DEF TreeInv
<1>4. to \in S
  BY <1>3
<1>5. r \in Children(to)'
  BY <1>1 DEF Children, TreeTypes
<1>6. r \in S
  BY <1>4, <1>5 DEF Closed
<1>7. Closed(S)
  <2> SUFFICES ASSUME NEW s \in S, NEW x \in Children(s) PROVE x \in S
    BY DEF Closed
  <2>1. CASE x = r
    BY <2>1, <1>6
  <2>2. CASE x # r
    <3>1. x \in Children(s)'
      BY <2>2, <1>1 DEF TreeTypes, Children
    <3> QED  BY <3>1, <2>2 DEF Closed
  <2> QED  BY <2>1, <2>2
<1> QED  BY <1>7 DEF TreeInv

(* ----- the handlers read ----- *)
LEMMA JobFunction ==
    ASSUME TreeTypes, NEW c \in Client, NEW w, job' = [job EXCEPT ![c] = w]
    PROVE  /\ job'[c] = w /\ job' = [job EXCEPT ![c] = job'[c]]
           /\ job' = [d \in Client |-> job'[d]]
BY DEF TreeTypes

LEMMA ReadKeeps ==
    ASSUME TreeTypes, JobInv, TreeInv, UNCHANGED <<tree, binding, setting, approved>>,
           NEW c \in setting.handlers, NEW w, job' = [job EXCEPT ![c] = w], WorkOK(c)'
    PROVE  TreeTypes' /\ JobInv' /\ TreeInv' /\ Existing \subseteq Existing'
<1>1. c \in Client
  BY SettingFacts
<1>2. Existing' = Existing /\ UNCHANGED <<parent, standing, breaks, binding, setting, approved>>
  BY DEF tree, Existing, Exists
<1>3. TreeTypes'
  BY <1>1, <1>2, JobFunction DEF TreeTypes
<1>4. JobInv'
  BY <1>1, <1>2, JobFunction, JobsKeep
<1>5. TreeInv'
  BY <1>2, TreeSame
<1> QED  BY <1>2, <1>3, <1>4, <1>5

LEMMA RequestStep ==
    ASSUME TreeTypes, JobInv, TreeInv, UNCHANGED setting, NEW c \in Client, NEW p \in Principal, Read(c, p)
    PROVE  TreeTypes' /\ JobInv' /\ TreeInv' /\ Existing \subseteq Existing'
<1>1. ASSUME NEW w, Begin(c, w), WorkOK(c)'
      PROVE  TreeTypes' /\ JobInv' /\ TreeInv' /\ Existing \subseteq Existing'
  BY <1>1, ReadKeeps DEF Begin
<1>2. ASSUME NEW w, Begin(c, w) PROVE job'[c] = w /\ Existing' = Existing /\ UNCHANGED binding
  BY <1>2 DEF Begin, TreeTypes, tree, Existing, Exists
<1>3. ASSUME NEW r \in Existing, ReadForCreate(c, p, r)
      PROVE  TreeTypes' /\ JobInv' /\ TreeInv' /\ Existing \subseteq Existing'
  <2> DEFINE w == [op |-> "create", under |-> r]
  <2>1. Begin(c, w)
    BY <1>3 DEF ReadForCreate
  <2>2. job'[c] = w /\ Existing' = Existing
    BY <2>1, <1>2
  <2>3. WorkOK(c)'
    BY <2>2 DEF WorkOK
  <2> QED  BY <2>1, <2>3, <1>1
<1>4. ASSUME NEW r \in Existing, ReadForDelete(c, p, r)
      PROVE  TreeTypes' /\ JobInv' /\ TreeInv' /\ Existing \subseteq Existing'
  <2> DEFINE w == [op |-> "delete", resource |-> r]
  <2>1. Begin(c, w)
    BY <1>4 DEF ReadForDelete
  <2>2. job'[c] = w /\ Existing' = Existing
    BY <2>1, <1>2
  <2>3. WorkOK(c)'
    BY <2>2 DEF WorkOK
  <2> QED  BY <2>1, <2>3, <1>1
<1>5. ASSUME NEW r \in Existing, NEW s \in {None, "active", "deleted"}, NEW b \in {None, TRUE, FALSE},
             ReadForUpdate(c, p, r, s, b)
      PROVE  TreeTypes' /\ JobInv' /\ TreeInv' /\ Existing \subseteq Existing'
  <2> DEFINE w == [op |-> "update", resource |-> r, status |-> s, broken |-> b]
  <2>1. Begin(c, w)
    BY <1>5 DEF ReadForUpdate
  <2>2. job'[c] = w /\ Existing' = Existing
    BY <2>1, <1>2
  <2>3. WorkOK(c)'
    BY <2>2 DEF WorkOK
  <2> QED  BY <2>1, <2>3, <1>1
<1>6. ASSUME NEW r \in Existing, NEW under \in Existing, ReadForCopy(c, p, r, under)
      PROVE  TreeTypes' /\ JobInv' /\ TreeInv' /\ Existing \subseteq Existing'
  <2> DEFINE w == [op |-> "copyOne", under |-> under, broken |-> r \in breaks]
  <2>1. Begin(c, w)
    BY <1>6 DEF ReadForCopy
  <2>2. job'[c] = w /\ Existing' = Existing
    BY <2>1, <1>2
  <2>3. WorkOK(c)'
    BY <2>2 DEF WorkOK
  <2> QED  BY <2>1, <2>3, <1>1
<1>7. ASSUME NEW r \in Existing, NEW to \in Existing, Uses("move"), ReadForMove(c, p, r, to)
      PROVE  TreeTypes' /\ JobInv' /\ TreeInv' /\ Existing \subseteq Existing'
  <2> DEFINE w == [op |-> "move", resource |-> r, to |-> to]
  <2>1. Begin(c, w)
    BY <1>7 DEF ReadForMove
  <2>2. job'[c] = w /\ Existing' = Existing
    BY <2>1, <1>2
  <2>3. WorkOK(c)'
    BY <2>2, <1>7 DEF WorkOK, Uses
  <2> QED  BY <2>1, <2>3, <1>1
<1>8. ASSUME NEW r \in Existing, NEW q \in Principal, NEW role \in Role, ReadForGrant(c, p, q, role, r)
      PROVE  TreeTypes' /\ JobInv' /\ TreeInv' /\ Existing \subseteq Existing'
  <2> DEFINE row == [principal |-> q, role |-> role, scope |-> r, revoked |-> FALSE]
             w == [op |-> "grant", row |-> row]
  <2>1. Begin(c, w)
    BY <1>8 DEF ReadForGrant
  <2>2. row \in Rows
    BY DEF Rows, Existing
  <2> HIDE DEF row
  <2>3. job'[c] = w
    BY <2>1, <1>2
  <2>4. WorkOK(c)'
    BY <2>2, <2>3 DEF WorkOK
  <2> QED  BY <2>1, <2>4, <1>1
<1>9. ASSUME NEW i \in DOMAIN binding, ReadForRevoke(c, p, i)
      PROVE  TreeTypes' /\ JobInv' /\ TreeInv' /\ Existing \subseteq Existing'
  <2> DEFINE w == [op |-> "revoke", row |-> i]
  <2>1. Begin(c, w)
    BY <1>9 DEF ReadForRevoke
  <2>2. job'[c] = w /\ UNCHANGED binding
    BY <2>1, <1>2
  <2>3. WorkOK(c)'
    BY <2>2 DEF WorkOK
  <2> QED  BY <2>1, <2>3, <1>1
<1>10. ASSUME NEW q \in approved, ReadForExecute(c, p, q)
       PROVE  TreeTypes' /\ JobInv' /\ TreeInv' /\ Existing \subseteq Existing'
  <2> DEFINE w == [op |-> "execute", promotion |-> q]
  <2>1. Begin(c, w)
    BY <1>10 DEF ReadForExecute
  <2>2. job'[c] = w /\ UNCHANGED setting
    BY <2>1, <1>2
  <2>3. WorkOK(c)'
    BY <2>2 DEF WorkOK, TreeTypes
  <2> QED  BY <2>1, <2>3, <1>1
<1> QED  BY <1>3, <1>4, <1>5, <1>6, <1>7, <1>8, <1>9, <1>10 DEF Read

(* ----- the handlers write ----- *)
LEMMA AtWork ==
    ASSUME TreeTypes, JobInv, NEW c \in Client, job[c].op # "idle"
    PROVE  c \in setting.handlers /\ WorkOK(c)
BY DEF JobInv, Idle

LEMMA WriteKeeps ==
    ASSUME TreeTypes, JobInv, NEW c \in Client, job[c].op # "idle", UNCHANGED setting,
           Commit(c) \/ job' = [job EXCEPT ![c] = Idle],
           Existing \subseteq Existing', DOMAIN binding \subseteq DOMAIN binding'
    PROVE  JobInv' /\ job' = [d \in Client |-> job'[d]]
<1>1. c \in setting.handlers
  BY AtWork
<1>2. job' = [job EXCEPT ![c] = Idle]
  BY DEF Commit
<1>3. job'[c] = Idle /\ job' = [job EXCEPT ![c] = job'[c]] /\ job' = [d \in Client |-> job'[d]]
  BY <1>2, JobFunction
<1>4. WorkOK(c)'
  BY <1>3 DEF WorkOK, Idle
<1> QED  BY <1>1, <1>3, <1>4, JobsKeep

(* One new row under one that exists.                                      *)
LEMMA PlantOne ==
    ASSUME TreeTypes, JobInv, TreeInv, UNCHANGED <<setting, binding, approved>>, NEW c \in Client,
           NEW r \in Resource, ~Exists(r), NEW under \in Existing, NEW broken \in SUBSET {r},
           Plant([x \in {r} |-> "active"], [x \in {r} |-> under], broken),
           job[c].op # "idle", Commit(c)
    PROVE  TreeTypes' /\ JobInv' /\ TreeInv' /\ Existing \subseteq Existing'
<1>1. /\ parent' = [parent EXCEPT ![r] = under] /\ standing' = [standing EXCEPT ![r] = "active"]
      /\ breaks' \in SUBSET Resource
  BY DEF Plant, TreeTypes
<1>2. Existing' = Existing \cup {r} /\ r \notin Existing /\ under \in Resource
  BY <1>1 DEF Existing, Exists, TreeTypes
<1>3. JobInv' /\ job' = [d \in Client |-> job'[d]]
  BY <1>2, WriteKeeps
<1>4. TreeTypes'
  BY <1>1, <1>2, <1>3 DEF TreeTypes
<1>5. TreeInv'
  <2>1. \A s \in Existing : parent'[s] = parent[s]
    BY <1>1, <1>2 DEF TreeTypes
  <2>2. r \in Children(under)'
    BY <1>1, <1>2 DEF Children, TreeTypes
  <2>3. \A S \in SUBSET Resource : Existing \subseteq S /\ Closed(S)' => {r} \subseteq S
    BY <2>2 DEF Closed
  <2> QED  BY <1>2, <2>1, <2>3, TreeGrows
<1> QED  BY <1>2, <1>3, <1>4, <1>5

(* Nothing moves and nothing is new.                                       *)
LEMMA StandStill ==
    ASSUME TreeTypes, JobInv, TreeInv, UNCHANGED <<setting, parent>>, NEW c \in Client,
           standing' \in [Resource -> {"absent", "active", "deleted"}], Existing' = Existing,
           breaks' \in SUBSET Resource, binding' \in Seq(Rows), DOMAIN binding \subseteq DOMAIN binding',
           approved' \subseteq approved, job[c].op # "idle", Commit(c) \/ job' = [job EXCEPT ![c] = Idle]
    PROVE  TreeTypes' /\ JobInv' /\ TreeInv' /\ Existing \subseteq Existing'
<1>1. JobInv' /\ job' = [d \in Client |-> job'[d]]
  BY WriteKeeps
<1>2. TreeTypes'
  BY <1>1 DEF TreeTypes
<1> QED  BY <1>1, <1>2, TreeSame

LEMMA RowStep ==
    ASSUME TreeTypes, JobInv, TreeInv, UNCHANGED setting, NEW c \in Client,
           (\E r \in Resource : Create(c, r) \/ CopyOne(c, r)) \/ Update(c) \/ Delete(c)
               \/ Grant(c) \/ Revoke(c) \/ Abort(c)
    PROVE  TreeTypes' /\ JobInv' /\ TreeInv' /\ Existing \subseteq Existing'
<1>1. ASSUME NEW r \in Resource, Create(c, r)
      PROVE  TreeTypes' /\ JobInv' /\ TreeInv' /\ Existing \subseteq Existing'
  <2>1. job[c].op = "create" /\ ~Exists(r) /\ Commit(c) /\ UNCHANGED <<binding, approved>>
        /\ Plant([x \in {r} |-> "active"], [x \in {r} |-> job[c].under], {})
    BY <1>1 DEF Create
  <2>2. job[c].under \in Existing
    BY <2>1, AtWork DEF WorkOK
  <2>3. {} \in SUBSET {r}
    OBVIOUS
  <2> QED  BY <2>1, <2>2, <2>3, PlantOne
<1>2. ASSUME NEW r \in Resource, CopyOne(c, r)
      PROVE  TreeTypes' /\ JobInv' /\ TreeInv' /\ Existing \subseteq Existing'
  <2> DEFINE broken == IF job[c].broken THEN {r} ELSE {}
  <2>1. job[c].op = "copyOne" /\ ~Exists(r) /\ Commit(c) /\ UNCHANGED <<binding, approved>>
        /\ Plant([x \in {r} |-> "active"], [x \in {r} |-> job[c].under], broken)
    BY <1>2 DEF CopyOne
  <2>2. job[c].under \in Existing /\ broken \in SUBSET {r}
    BY <2>1, AtWork DEF WorkOK
  <2> HIDE DEF broken
  <2> QED  BY <2>1, <2>2, PlantOne
<1>3. CASE Update(c)
  <2>1. /\ job[c].op = "update" /\ Commit(c) /\ UNCHANGED <<parent, binding, approved>>
        /\ standing' = IF job[c].status = None THEN standing
                       ELSE [standing EXCEPT ![job[c].resource] = job[c].status]
        /\ breaks' \subseteq breaks \cup {job[c].resource}
    BY <1>3 DEF Update
  <2>2. job[c].resource \in Existing /\ job[c].status \in {None, "active", "deleted"}
    BY <2>1, AtWork DEF WorkOK
  <2>3. standing' \in [Resource -> {"absent", "active", "deleted"}] /\ Existing' = Existing
        /\ breaks' \in SUBSET Resource
    BY <2>1, <2>2 DEF TreeTypes, Existing, Exists
  <2> QED  BY <2>1, <2>3, StandStill DEF TreeTypes
<1>4. CASE Delete(c)
  <2>1. job[c].op = "delete" /\ Commit(c) /\ UNCHANGED <<parent, breaks, binding, approved>>
        /\ standing' = [standing EXCEPT ![job[c].resource] = "deleted"]
    BY <1>4 DEF Delete
  <2>2. job[c].resource \in Existing
    BY <2>1, AtWork DEF WorkOK
  <2>3. standing' \in [Resource -> {"absent", "active", "deleted"}] /\ Existing' = Existing
    BY <2>1, <2>2 DEF TreeTypes, Existing, Exists
  <2> QED  BY <2>1, <2>3, StandStill DEF TreeTypes
<1>5. CASE Grant(c)
  <2>1. job[c].op = "grant" /\ Commit(c) /\ UNCHANGED <<parent, standing, breaks, approved>>
        /\ binding' = Append(binding, job[c].row)
    BY <1>5 DEF Grant, tree
  <2>2. job[c].row \in Rows
    BY <2>1, AtWork DEF WorkOK
  <2>3. binding' \in Seq(Rows) /\ DOMAIN binding \subseteq DOMAIN binding'
    BY <2>1, <2>2 DEF TreeTypes
  <2> QED  BY <2>1, <2>3, StandStill DEF TreeTypes, Existing, Exists
<1>6. CASE Revoke(c)
  <2>1. job[c].op = "revoke" /\ Commit(c) /\ UNCHANGED <<parent, standing, breaks, approved>>
        /\ binding' = [binding EXCEPT ![job[c].row].revoked = TRUE]
    BY <1>6 DEF Revoke, tree
  <2>2. job[c].row \in DOMAIN binding /\ binding \in Seq(Rows)
    BY <2>1, AtWork DEF WorkOK, TreeTypes
  <2>3. binding[job[c].row] \in Rows
    BY <2>2
  <2>4. [binding[job[c].row] EXCEPT !.revoked = TRUE] \in Rows
    BY <2>3 DEF Rows
  <2>5. binding' \in Seq(Rows) /\ DOMAIN binding \subseteq DOMAIN binding'
    BY <2>1, <2>2, <2>4
  <2> QED  BY <2>1, <2>5, StandStill DEF TreeTypes, Existing, Exists
<1>7. CASE Abort(c)
  <2>1. job' = [job EXCEPT ![c] = Idle] /\ UNCHANGED <<parent, standing, breaks, binding, approved>>
        /\ job[c] # Idle
    BY <1>7 DEF Abort, tree
  <2>2. c \in setting.handlers
    BY <2>1 DEF JobInv
  <2>3. job'[c] = Idle
    BY <2>1, JobFunction
  <2>4. WorkOK(c)'
    BY <2>3 DEF WorkOK, Idle
  <2> QED  BY <2>1, <2>2, <2>4, ReadKeeps DEF tree
<1> QED  BY <1>1, <1>2, <1>3, <1>4, <1>5, <1>6, <1>7

LEMMA MoveStep ==
    ASSUME TreeTypes, JobInv, TreeInv, UNCHANGED setting, NEW c \in Client, Move(c) \/ ExecuteMove(c)
    PROVE  TreeTypes' /\ JobInv' /\ TreeInv' /\ Existing \subseteq Existing'
<1> SUFFICES ASSUME NEW r \in Existing, NEW to \in Existing, parent' = [parent EXCEPT ![r] = to],
                    Serial => Uses("move") \/ to \notin Subtree(r),
                    UNCHANGED <<standing, breaks, binding>>, approved' \subseteq approved,
                    job[c].op # "idle", Commit(c)
             PROVE  TreeTypes' /\ JobInv' /\ TreeInv'
  <2>1. ASSUME Move(c)
        PROVE  /\ job[c].op = "move" /\ job[c].resource \in Existing /\ job[c].to \in Existing
               /\ parent' = [parent EXCEPT ![job[c].resource] = job[c].to] /\ Uses("move")
               /\ UNCHANGED <<standing, breaks, binding, approved>> /\ Commit(c)
    BY <2>1, AtWork DEF Move, WorkOK
  <2>2. ASSUME ExecuteMove(c)
        PROVE  LET q == job[c].promotion
               IN  /\ job[c].op = "place" /\ q.moving \in Existing /\ q.to \in Existing
                   /\ parent' = [parent EXCEPT ![q.moving] = q.to]
                   /\ Serial => q.to \notin Subtree(q.moving)
                   /\ UNCHANGED <<standing, breaks, binding>> /\ approved' \subseteq approved /\ Commit(c)
    <3>1. job[c].op = "place" /\ job[c].promotion.mode = "move" /\ WorkOK(c)
      BY <2>2, AtWork DEF ExecuteMove
    <3>2. job[c].promotion \in setting.promotions /\ (Serial => Loaded(c))
      BY <3>1 DEF WorkOK
    <3>3. job[c].promotion.moving \in Existing /\ job[c].promotion.to \in Existing
      BY <3>2, SettingFacts DEF TreeTypes
    <3> QED  BY <2>2, <3>1, <3>2, <3>3 DEF ExecuteMove, Loaded
  <2>3. Existing' = Existing
    BY <2>1, <2>2 DEF Existing, Exists, Move, ExecuteMove
  <2> QED  BY <2>1, <2>2, <2>3
<1>1. Existing' = Existing /\ r \in Resource /\ to \in Resource
  BY DEF Existing, Exists
<1>2. JobInv' /\ job' = [d \in Client |-> job'[d]]
  BY <1>1, WriteKeeps
<1>3. TreeTypes'
  BY <1>1, <1>2 DEF TreeTypes
<1>4. TreeInv'
  <2>1. CASE ~Serial \/ Uses("move")
    BY <2>1 DEF TreeInv, Serial, Uses
  <2>2. CASE Serial /\ ~Uses("move")
    BY <2>2, TreeMoves
  <2> QED  BY <2>1, <2>2
<1> QED  BY <1>2, <1>3, <1>4

LEMMA SubtreeParents ==
    ASSUME NEW r \in Resource, NEW s \in Subtree(r), s # r
    PROVE  parent[s] \in Subtree(r)
<1> SUFFICES ASSUME parent[s] \notin Subtree(r) PROVE FALSE
  OBVIOUS
<1>1. Closed(Subtree(r) \ {s})
  BY SubtreeFacts, ChildFacts DEF Closed
<1>2. (Subtree(r) \ {s}) \in SUBSET Resource /\ r \in Subtree(r) \ {s}
  BY SubtreeFacts
<1>3. Subtree(r) \subseteq Subtree(r) \ {s}
  BY <1>1, <1>2, SubtreeFacts
<1> QED  BY <1>3

LEMMA LoadStep ==
    ASSUME TreeTypes, JobInv, TreeInv, UNCHANGED setting, NEW c \in Client, LoadSubtree(c)
    PROVE  TreeTypes' /\ JobInv' /\ TreeInv' /\ Existing \subseteq Existing'
<1> DEFINE q == job[c].promotion
           w == [op |-> "place", promotion |-> q,
                 under |-> [r \in Subtree(q.moving) |-> parent[r]],
                 status |-> [r \in Subtree(q.moving) |-> standing[r]],
                 broken |-> Subtree(q.moving) \cap breaks]
<1>1. /\ job[c].op = "execute" /\ UNCHANGED <<parent, standing, breaks, binding, approved>>
      /\ parent[q.moving] \notin Subtree(q.moving)
      /\ job' = [job EXCEPT ![c] = IF DestinationFits(q) THEN w ELSE Idle]
  BY DEF LoadSubtree, tree
<1>2. c \in setting.handlers /\ q \in setting.promotions /\ q.moving \in Existing /\ q.moving \in Resource
  BY <1>1, AtWork, SettingFacts, TreeAssumption DEF WorkOK, TreeTypes
<1>3. job'[c] = IF DestinationFits(q) THEN w ELSE Idle
  BY <1>1, JobFunction
<1>4. Existing' = Existing /\ Subtree(q.moving)' = Subtree(q'.moving) /\ \A r : Subtree(r)' = Subtree(r)
  BY <1>1 DEF Subtree, Children, Existing, Exists
<1>5. CASE ~DestinationFits(q)
  <2>1. WorkOK(c)'
    BY <1>3, <1>5 DEF WorkOK, Idle
  <2> QED  BY <1>1, <1>2, <2>1, ReadKeeps DEF tree
<1>6. CASE DestinationFits(q)
  <2>1. Subtree(q.moving) \subseteq Existing /\ Existing \subseteq Resource
    <3>1. Closed(Existing) /\ Existing \in SUBSET Resource
      BY DEF Closed, Children, Existing
    <3> QED  BY <1>2, <3>1, SubtreeFacts
  <2>2. \A r \in Subtree(q.moving) :
           /\ r \in Resource /\ parent[r] \in Resource \cup {None} /\ standing[r] \in {"active", "deleted"}
           /\ r # q.moving => parent[r] \in Subtree(q.moving)
    BY <2>1, <1>2, SubtreeParents DEF TreeTypes, Existing, Exists
  <2>3. /\ job'[c].op = "place" /\ job'[c].promotion = q
        /\ job'[c].under = [r \in Subtree(q.moving) |-> parent[r]]
        /\ job'[c].status = [r \in Subtree(q.moving) |-> standing[r]]
    BY <1>3, <1>6
  <2>4. q.mode = "move" => q.to \notin Subtree(q.moving)
    BY <1>6 DEF DestinationFits
  <2> HIDE DEF q
  <2>5. Loaded(c)'
    BY <1>1, <1>4, <2>3, <2>4 DEF Loaded
  <2>6. WorkOK(c)'
    BY <1>2, <2>2, <2>3, <2>5 DEF WorkOK, Serial
  <2> HIDE DEF w
  <2> QED  BY <1>1, <1>2, <2>6, ReadKeeps DEF tree
<1> QED  BY <1>5, <1>6

LEMMA CopyStep ==
    ASSUME TreeTypes, JobInv, TreeInv, UNCHANGED setting, NEW c \in Client,
           NEW f \in NewRows(c), ExecuteCopy(c, f)
    PROVE  TreeTypes' /\ JobInv' /\ TreeInv' /\ Existing \subseteq Existing'
<1> DEFINE q == job[c].promotion
           U == job[c].under
           N == {f[r] : r \in DOMAIN f}
           original == [n \in N |-> CHOOSE r \in DOMAIN f : f[r] = n]
           put(n) == IF original[n] = q.moving THEN q.to ELSE f[U[original[n]]]
<1>1. /\ job[c].op = "place" /\ Commit(c) /\ binding' = binding /\ approved' \subseteq approved
      /\ Plant([n \in DOMAIN original |-> job[c].status[original[n]]],
               [n \in DOMAIN original |-> put(n)], {n \in DOMAIN original : original[n] \in job[c].broken})
  BY DEF ExecuteCopy
<1>2. WorkOK(c)
  BY <1>1, AtWork
<1>3. f \in [DOMAIN U -> Resource \ Existing] /\ \A r, s \in DOMAIN f : f[r] = f[s] => r = s
  BY <1>1 DEF NewRows
<1>4. /\ q \in setting.promotions /\ q.to \in Existing /\ q.to \in Resource /\ q.moving \in Resource
      /\ \A r \in DOMAIN U : /\ r \in Resource /\ job[c].status[r] \in {"active", "deleted"}
                             /\ r # q.moving => U[r] \in DOMAIN U
      /\ Serial => Loaded(c)
  BY <1>1, <1>2, SettingFacts, TreeAssumption DEF WorkOK, TreeTypes
<1>5. /\ N \subseteq Resource \ Existing /\ DOMAIN original = N
      /\ \A n \in N : original[n] \in DOMAIN U /\ f[original[n]] = n
      /\ \A r \in DOMAIN U : f[r] \in N /\ original[f[r]] = r
  BY <1>3
<1>6. \A n \in N : put(n) \in Resource
  BY <1>3, <1>4, <1>5
<1> HIDE DEF put
<1>7. /\ parent' = [r \in Resource |-> IF r \in N THEN put(r) ELSE parent[r]]
      /\ standing' = [r \in Resource |-> IF r \in N THEN job[c].status[original[r]] ELSE standing[r]]
      /\ breaks' \in SUBSET Resource
  BY <1>1, <1>5 DEF Plant, TreeTypes
<1> HIDE DEF original, N
<1>8. parent' \in [Resource -> Resource \cup {None}]
      /\ standing' \in [Resource -> {"absent", "active", "deleted"}]
  BY <1>4, <1>5, <1>6, <1>7 DEF TreeTypes
<1>9. Existing' = Existing \cup N
  BY <1>4, <1>5, <1>7 DEF Existing, Exists
<1>10. JobInv' /\ job' = [d \in Client |-> job'[d]]
  BY <1>1, <1>9, WriteKeeps
<1>11. TreeTypes'
  BY <1>1, <1>7, <1>8, <1>9, <1>10 DEF TreeTypes
<1>12. ASSUME Serial, NEW S \in SUBSET Resource, Existing \subseteq S, Closed(S)' PROVE N \subseteq S
  <2> DEFINE T == {r \in Subtree(q.moving) : f[r] \in S}
  <2>1. U = [r \in Subtree(q.moving) |-> parent[r]]
    BY <1>4, <1>12 DEF Loaded
  <2>2. DOMAIN U = Subtree(q.moving) /\ \A r \in Subtree(q.moving) : U[r] = parent[r]
    BY <2>1
  <2>3. \A r \in DOMAIN U : f[r] \in Existing' /\ parent'[f[r]] = put(f[r])
    BY <1>5, <1>7, <1>9
  <2>4. \A r \in DOMAIN U : put(f[r]) = IF r = q.moving THEN q.to ELSE f[U[r]]
    BY <1>5 DEF put
  <2>5. \A x \in Existing' : parent'[x] \in S => x \in S
    BY <1>12 DEF Closed, Children
  <2>6. q.moving \in T
    <3>1. q.moving \in Subtree(q.moving)
      BY <1>4, SubtreeFacts
    <3>2. f[q.moving] \in Existing' /\ parent'[f[q.moving]] = q.to
      BY <3>1, <2>2, <2>3, <2>4
    <3> QED  BY <3>1, <3>2, <2>5, <1>4, <1>12
  <2>7. Closed(T)
    <3> SUFFICES ASSUME NEW s \in T, NEW x \in Children(s), x # q.moving PROVE x \in T
      BY <2>6 DEF Closed
    <3>1. x \in Subtree(q.moving) /\ parent[x] = s
      BY <1>4, SubtreeFacts, ChildFacts DEF Closed
    <3>2. f[x] \in Existing' /\ parent'[f[x]] = f[s]
      BY <3>1, <2>2, <2>3, <2>4
    <3> QED  BY <3>1, <3>2, <2>5
  <2>8. Subtree(q.moving) \subseteq T
    BY <1>4, <2>6, <2>7, SubtreeFacts
  <2> QED  BY <2>2, <2>8, <1>5
<1>13. TreeInv'
  <2>1. \A r \in Existing : parent'[r] = parent[r]
    BY <1>5, <1>7 DEF Existing
  <2>2. N \in SUBSET Resource
    BY <1>5
  <2> QED  BY <1>9, <1>12, <2>1, <2>2, TreeGrows
<1> QED  BY <1>9, <1>10, <1>11, <1>13

LEMMA WriteStep ==
    ASSUME TreeTypes, JobInv, TreeInv, UNCHANGED setting, NEW c \in Client, Write(c)
    PROVE  TreeTypes' /\ JobInv' /\ TreeInv' /\ Existing \subseteq Existing'
BY RowStep, MoveStep, LoadStep, CopyStep DEF Write

LEMMA HandlerStep ==
    ASSUME TreeTypes, JobInv, TreeInv, UNCHANGED setting, NEW c \in Client, Handle(c)
    PROVE  TreeTypes' /\ JobInv' /\ TreeInv' /\ Existing \subseteq Existing'
BY WriteStep, RequestStep DEF Handle

LEMMA IdleStep ==
    ASSUME TreeTypes, JobInv, TreeInv, UNCHANGED <<tree, binding, approved, job, setting>>
    PROVE  TreeTypes' /\ JobInv' /\ TreeInv' /\ Existing' = Existing
<1>1. UNCHANGED <<parent, standing, breaks>> /\ Existing' = Existing
  BY DEF tree, Existing, Exists
<1>2. \A r : Subtree(r)' = Subtree(r)
  BY <1>1 DEF Subtree, Children
<1>3. TreeTypes'
  BY <1>1 DEF TreeTypes
<1>4. JobInv'
  <2> SUFFICES ASSUME NEW c \in Client PROVE (c \notin setting.handlers => job[c] = Idle) /\ WorkOK(c)'
    BY DEF JobInv
  <2>1. (c \notin setting.handlers => job[c] = Idle) /\ WorkOK(c)
    BY DEF JobInv
  <2>2. Loaded(c)' = Loaded(c)
    BY <1>1, <1>2 DEF Loaded
  <2> QED  BY <1>1, <2>1, <2>2 DEF WorkOK, Serial, Uses
<1> QED  BY <1>1, <1>3, <1>4, TreeSame

TreeStrong == TreeTypes /\ JobInv /\ TreeInv
LEMMA TreeStep == TreeStrong /\ [Next]_vars => TreeStrong' /\ Existing \subseteq Existing'
<1> SUFFICES ASSUME TreeTypes, JobInv, TreeInv, [Next]_vars
             PROVE  TreeTypes' /\ JobInv' /\ TreeInv' /\ Existing \subseteq Existing'
  BY DEF TreeStrong
<1>1. CASE \E c \in Client : Handle(c) /\ UNCHANGED setting
  BY <1>1, HandlerStep
<1>2. CASE \E p \in Principal, r \in Existing : ListChildren(p, r) /\ UNCHANGED setting
  BY <1>2, IdleStep DEF ListChildren
<1>3. CASE UNCHANGED vars
  BY <1>3, IdleStep DEF vars
<1> QED  BY <1>1, <1>2, <1>3 DEF Next

LEMMA TreeBegins == Init => TreeStrong
<1> SUFFICES ASSUME Init PROVE TreeStrong
  OBVIOUS
<1>1. PICK t \in Beginnings : parent = [r \in Resource |-> IF r \in Planted THEN t[r] ELSE None]
  BY DEF Init
<1>2. t \in [Planted -> Planted \cup {None}] /\ Planted \subseteq Resource /\ Root \in Planted
  BY TreeAssumption
<1>3. /\ standing = [r \in Resource |-> IF r \in Planted THEN "active" ELSE "absent"]
      /\ breaks = {} /\ job = [c \in Client |-> Idle] /\ setting \in Settings
      /\ approved = setting.promotions
  BY DEF Init
<1>4. Existing = Planted
  BY <1>2, <1>3 DEF Existing, Exists
<1>5. binding \in Seq(Rows)
  <2>1. PICK p \in Principal :
           binding = <<[principal |-> p, role |-> "owner", scope |-> Root, revoked |-> FALSE]>>
    BY DEF Init
  <2>2. [principal |-> p, role |-> "owner", scope |-> Root, revoked |-> FALSE] \in Rows
    BY TreeAssumption DEF Rows
  <2> QED  BY <2>1, <2>2
<1>6. TreeTypes
  <2>1. parent \in [Resource -> Resource \cup {None}]
    BY <1>1, <1>2
  <2> QED  BY <1>3, <1>4, <1>5, <2>1 DEF TreeTypes
<1>7. JobInv
  BY <1>3 DEF JobInv, WorkOK, Idle
<1>8. TreeInv
  <2> SUFFICES ASSUME NEW S \in SUBSET Resource, Root \in S, Closed(S) PROVE Planted \subseteq S
    BY <1>4 DEF TreeInv
  <2> DEFINE T == S \cap Planted
  <2>1. \A r \in Planted : t[r] \in T => r \in T
    BY <1>1, <1>2, <1>4 DEF Closed, Children
  <2>2. T = Planted
    BY <1>2, <2>1, BeginningAssumption
  <2> QED  BY <2>2
<1> QED  BY <1>6, <1>7, <1>8 DEF TreeStrong

LEMMA TreeIsStrong == Spec => []TreeStrong
<1>1. TreeStrong /\ [Next]_vars => TreeStrong'
  BY TreeStep
<1> QED  BY <1>1, TreeBegins, PTL DEF Spec

(* With one handler at a time and without the move of resources.py the     *)
(* tree stays a tree, for any number of resources, requests and            *)
(* promotions: every resource is below the root (resources.py,             *)
(* promotions.py).                                                         *)
THEOREM TheTreeStaysWhole == Spec => []TreeKept
<1>1. TreeStrong => TreeKept
  BY WholeTree DEF TreeStrong
<1> QED  BY <1>1, TreeIsStrong, PTL

-----------------------------------------------------------------------------
(* Pages of a listing                                                      *)
Shown == UNION ToSet(listing.shown)
PageTypes ==
    /\ listing = [of |-> listing.of, shown |-> listing.shown, done |-> listing.done,
                  after |-> listing.after, stayed |-> listing.stayed]
    /\ listing.of \in Resource \cup {None} /\ listing.shown \in Seq(SUBSET Resource)
    /\ listing.after \in Nat /\ listing.stayed \subseteq Existing

(* What has been shown lies up to the cursor, and all that stayed and lies *)
(* there has been shown.                                                   *)
PageInv ==
    /\ listing.of = None => listing.shown = <<>> /\ listing.after = 0 /\ listing.stayed = {}
    /\ listing.of # None => \A r \in listing.stayed : parent[r] = listing.of
    /\ ~listing.done => /\ \A r \in Shown : r <= listing.after
                        /\ \A r \in listing.stayed : r <= listing.after => r \in Shown
    /\ listing.done => listing.stayed \subseteq Shown
    /\ \A i, j \in DOMAIN listing.shown : i # j => listing.shown[i] \cap listing.shown[j] = {}

LEMMA ShownFacts ==
    ASSUME NEW s \in Seq(SUBSET Resource), NEW page \in SUBSET Resource
    PROVE  /\ Append(s, page) \in Seq(SUBSET Resource)
           /\ UNION ToSet(Append(s, page)) = page \cup UNION ToSet(s)
           /\ (\A i, j \in DOMAIN s : i # j => s[i] \cap s[j] = {}) /\ page \cap UNION ToSet(s) = {} =>
                 \A i, j \in DOMAIN Append(s, page) : i # j => Append(s, page)[i] \cap Append(s, page)[j] = {}
<1> DEFINE t == Append(s, page)
<1>1. /\ t \in Seq(SUBSET Resource) /\ Len(s) \in Nat /\ DOMAIN s = 1..Len(s)
      /\ DOMAIN t = 1..Len(s) + 1 /\ t[Len(s) + 1] = page /\ \A k \in 1..Len(s) : t[k] = s[k]
  OBVIOUS
<1> HIDE DEF t
<1>2. \A k \in DOMAIN t : k = Len(s) + 1 \/ k \in DOMAIN s
  BY <1>1
<1>3. UNION ToSet(t) = page \cup UNION ToSet(s)
  <2>1. \A x : x \in UNION ToSet(t) <=> \E k \in DOMAIN t : x \in t[k]
    BY DEF ToSet
  <2>2. \A x : x \in UNION ToSet(s) <=> \E k \in DOMAIN s : x \in s[k]
    BY DEF ToSet
  <2>3. Len(s) + 1 \in DOMAIN t /\ DOMAIN s \subseteq DOMAIN t /\ \A k \in DOMAIN s : t[k] = s[k]
    BY <1>1
  <2>4. ASSUME NEW x PROVE x \in UNION ToSet(t) <=> x \in UNION ToSet(s) \/ x \in page
    <3>1. ASSUME NEW k \in DOMAIN t, x \in t[k] PROVE x \in UNION ToSet(s) \/ x \in page
      BY <1>1, <1>2, <2>2, <2>3, <3>1
    <3>2. ASSUME NEW k \in DOMAIN s, x \in s[k] PROVE x \in UNION ToSet(t)
      BY <2>1, <2>3, <3>2
    <3>3. x \in page => x \in UNION ToSet(t)
      BY <1>1, <2>1, <2>3
    <3>4. x \in UNION ToSet(t) => x \in UNION ToSet(s) \/ x \in page
      BY <2>1, <3>1
    <3>5. x \in UNION ToSet(s) => x \in UNION ToSet(t)
      BY <2>2, <3>2
    <3> QED  BY <3>3, <3>4, <3>5
  <2> QED  BY <2>4
<1>4. ASSUME \A i, j \in DOMAIN s : i # j => s[i] \cap s[j] = {}, page \cap UNION ToSet(s) = {},
             NEW i \in DOMAIN t, NEW j \in DOMAIN t, i # j
      PROVE  t[i] \cap t[j] = {}
  <2>1. \A k \in DOMAIN s : s[k] \cap page = {}
    BY <1>4 DEF ToSet
  <2> QED  BY <1>1, <1>2, <1>4, <2>1
<1>5. t = Append(s, page)
  BY DEF t
<1> QED  BY <1>1, <1>3, <1>4, <1>5

(* A page is what lies up to its last row.                                 *)
LEMMA PageFacts ==
    ASSUME NEW rows \in SUBSET Resource, PageOf(rows) # rows
    PROVE  LET last == LastRow(PageOf(rows), rows)
           IN  last \in Nat /\ last \in PageOf(rows) /\ PageOf(rows) = {r \in rows : r <= last}
<1> DEFINE page == PageOf(rows)
           UpTo(r) == {s \in rows : s <= r}
           Bounds == {n \in Nat : \A r \in page : r <= n}
<1>1. /\ \A r \in rows : r \in Nat /\ r > 0
      /\ rows \in SUBSET Nat /\ IsFiniteSet(rows) /\ Limit \in Nat /\ Limit > 0
  <2>1. Resource \subseteq Nat \ {0} /\ IsFiniteSet(Resource) /\ Limit \in Nat \ {0}
    BY TreeAssumption
  <2>2. \A n \in Nat \ {0} : n \in Nat /\ n > 0
    OBVIOUS
  <2>3. \A r \in rows : r \in Nat \ {0}
    BY <2>1
  <2> QED  BY <2>1, <2>2, <2>3, FS_Subset
<1>2. \A r : IsFiniteSet(UpTo(r)) /\ Cardinality(UpTo(r)) \in Nat
  BY <1>1, FS_Subset, FS_CardinalityType
<1>3. page = {r \in rows : Cardinality(UpTo(r)) <= Limit}
  BY DEF PageOf
<1> HIDE DEF UpTo, page
<1>4. \A r, s \in rows : s <= r => Cardinality(UpTo(s)) <= Cardinality(UpTo(r))
  <2> SUFFICES ASSUME NEW r \in rows, NEW s \in rows, s <= r PROVE UpTo(s) \subseteq UpTo(r)
    BY <1>2, FS_Subset
  <2>1. ASSUME NEW z \in rows, z <= s PROVE z <= r
    <3>1. z \in Nat /\ s \in Nat /\ r \in Nat
      BY <1>1
    <3> QED  BY <2>1, <3>1
  <2> QED  BY <2>1 DEF UpTo
<1>5. page \subseteq rows /\ \A r \in rows \ page, s \in page : s < r
  BY <1>1, <1>2, <1>3, <1>4
<1>6. PICK beyond \in rows : beyond \notin page
  BY <1>3 DEF page
<1>7. page # {}
  <2>1. PICK first \in rows : \A s \in rows : first <= s
    BY <1>1, <1>6, Least
  <2>2. UpTo(first) = {first}
    <3>1. ASSUME NEW z \in rows, z <= first PROVE z = first
      <4>1. z \in Nat /\ first \in Nat /\ first <= z
        BY <1>1, <2>1
      <4> QED  BY <3>1, <4>1
    <3>2. first <= first
      BY <1>1
    <3> QED  BY <3>1, <3>2 DEF UpTo
  <2>3. Cardinality(UpTo(first)) = 1
    BY <2>2, FS_Singleton
  <2> QED  BY <1>1, <1>3, <2>3
<1>8. beyond \in Bounds
  BY <1>1, <1>3, <1>5, <1>6
<1>9. PICK m \in Bounds : \A n \in Bounds : m <= n
  BY <1>8, Least
<1>10. m \in page
  <2> SUFFICES ASSUME m \notin page PROVE FALSE
    OBVIOUS
  <2>1. m \in Nat /\ \A r \in page : r \in Nat /\ r < m
    <3>1. \A r \in page : r \in Nat /\ r <= m /\ r # m
      BY <1>1, <1>5, <1>9
    <3> QED  BY <1>9, <3>1
  <2>2. m > 0
    <3>1. PICK r \in page : TRUE
      BY <1>7
    <3> QED  BY <2>1, <3>1
  <2>3. (m - 1) \in Bounds
    BY <2>1, <2>2
  <2> QED  BY <1>9, <2>1, <2>3
<1>11. LastRow(page, rows) \in page /\ \A r \in page : LastRow(page, rows) >= r
  BY <1>9, <1>10 DEF LastRow, Max
<1> HIDE DEF Bounds
<1>12. ASSUME NEW r \in rows PROVE r \in page <=> r <= LastRow(page, rows)
  <2>1. r \in Nat /\ LastRow(page, rows) \in Nat
    BY <1>1, <1>5, <1>11
  <2>2. r \notin page => LastRow(page, rows) < r
    BY <1>5, <1>11
  <2> QED  BY <1>11, <2>1, <2>2
<1>13. LastRow(page, rows) \in Nat /\ page = {r \in rows : r <= LastRow(page, rows)}
  BY <1>1, <1>3, <1>11, <1>12
<1> QED  BY <1>11, <1>13 DEF page

LEMMA PageStep ==
    ASSUME TreeTypes, PageTypes, PageInv, NEW p, NEW r \in Existing, ListChildren(p, r)
    PROVE  PageTypes' /\ PageInv'
<1> DEFINE rows == {s \in Children(r) : s > listing.after}
           page == PageOf(rows)
<1>1. /\ ~listing.done /\ listing.of \in {None, r} /\ Exists(r) /\ UNCHANGED tree
      /\ listing' = [of |-> r, shown |-> Append(listing.shown, page), done |-> page = rows,
                     after |-> IF page = rows THEN listing.after ELSE Cursor(page, rows),
                     stayed |-> IF listing.of = None THEN Children(r) ELSE listing.stayed]
  BY DEF ListChildren
<1>2. /\ rows \in SUBSET Resource /\ page \subseteq rows /\ Children(r) \subseteq Existing /\ Existing \subseteq Resource
      /\ \A s \in Resource : s \in Nat
  BY TreeAssumption DEF PageOf, Children, Existing
<1>3. page # rows => Cursor(page, rows) \in Nat /\ Cursor(page, rows) \in page /\ page = {s \in rows : s <= Cursor(page, rows)}
  BY <1>2, PageFacts DEF Cursor
<1>4. r \in Resource /\ r # None
  <2>1. r \in Resource
    BY <1>2
  <2> QED  BY <2>1, EngineAssumption
<1>5. Existing' = Existing /\ parent' = parent
  BY <1>1 DEF tree, Existing, Exists
<1>6. \A s \in rows : s \notin Shown /\ s > listing.after
  BY <1>1, <1>2 DEF PageInv, PageTypes
<1> DEFINE next == listing'
<1>7. /\ next.of = r /\ next.shown = Append(listing.shown, page) /\ next.done = (page = rows)
      /\ next.after = IF page = rows THEN listing.after ELSE Cursor(page, rows)
      /\ next.stayed = IF listing.of = None THEN Children(r) ELSE listing.stayed
  BY <1>1
<1>8. /\ next.shown \in Seq(SUBSET Resource) /\ Shown' = page \cup Shown
      /\ \A i, j \in DOMAIN next.shown : i # j => next.shown[i] \cap next.shown[j] = {}
  <2>1. listing.shown \in Seq(SUBSET Resource) /\ page \in SUBSET Resource /\ page \cap Shown = {}
    BY <1>2, <1>6 DEF PageTypes
  <2>2. \A i, j \in DOMAIN listing.shown : i # j => listing.shown[i] \cap listing.shown[j] = {}
    BY DEF PageInv
  <2>3. /\ Append(listing.shown, page) \in Seq(SUBSET Resource)
        /\ UNION ToSet(Append(listing.shown, page)) = page \cup Shown
    BY <2>1, ShownFacts DEF Shown
  <2>4. \A i, j \in DOMAIN Append(listing.shown, page) :
           i # j => Append(listing.shown, page)[i] \cap Append(listing.shown, page)[j] = {}
    BY <2>1, <2>2, ShownFacts DEF Shown
  <2> QED  BY <1>7, <2>3, <2>4 DEF Shown
<1>9. ASSUME NEW s \in next.stayed
      PROVE  s \in Children(r) /\ (s <= listing.after => s \in Shown) /\ s \in Nat
  <2>1. s \in Children(r)
    BY <1>1, <1>7, <1>9 DEF PageInv, PageTypes, Children
  <2>2. s \in Nat /\ s > 0
    <3>1. s \in Nat \ {0}
      BY <1>2, <2>1, TreeAssumption
    <3> QED  BY <3>1
  <2>3. s <= listing.after => s \in Shown
    BY <1>1, <1>7, <1>9, <2>2 DEF PageInv
  <2> QED  BY <2>1, <2>2, <2>3
<1>10. \A s \in Children(r) : s <= listing.after \/ s \in rows
  BY <1>2 DEF PageTypes
<1>11. listing.after \in Nat /\ next.after \in Nat /\ listing.after <= next.after
  BY <1>2, <1>3, <1>6, <1>7 DEF PageTypes
<1> HIDE DEF rows, page
<1>12. PageTypes'
  <2>1. listing' = [of |-> next.of, shown |-> next.shown, done |-> next.done,
                    after |-> next.after, stayed |-> next.stayed]
    BY <1>1, <1>7
  <2>2. next.stayed \subseteq Existing'
    BY <1>2, <1>5, <1>9
  <2> QED  BY <1>4, <1>7, <1>8, <1>11, <2>1, <2>2 DEF PageTypes
<1>13. page # rows => (\A s \in Shown' : s <= next.after) /\ \A s \in next.stayed : s <= next.after => s \in Shown'
  <2> SUFFICES ASSUME page # rows
               PROVE  (\A s \in Shown' : s <= next.after) /\ \A s \in next.stayed : s <= next.after => s \in Shown'
    OBVIOUS
  <2>1. next.after = Cursor(page, rows) /\ \A s : s \in page <=> s \in rows /\ s <= next.after
    BY <1>3, <1>7
  <2>2. ASSUME NEW s \in Shown PROVE s <= next.after
    <3>1. s <= listing.after /\ s \in Nat
      BY <1>1, <1>2 DEF PageInv, PageTypes, Shown, ToSet
    <3> QED  BY <3>1, <1>11
  <2>3. ASSUME NEW s \in next.stayed, s <= next.after PROVE s \in Shown'
    BY <1>8, <1>9, <1>10, <2>1, <2>3
  <2> QED  BY <1>8, <2>1, <2>2, <2>3
<1>14. page = rows => next.stayed \subseteq Shown'
  BY <1>8, <1>9, <1>10
<1>15. \A s \in next.stayed : parent'[s] = next.of
  BY <1>5, <1>7, <1>9 DEF Children
<1>16. PageInv'
  BY <1>4, <1>7, <1>8, <1>13, <1>14, <1>15 DEF PageInv
<1> QED  BY <1>12, <1>16

LEMMA WatchedStep ==
    ASSUME PageTypes, PageInv, Watched, Existing \subseteq Existing'
    PROVE  PageTypes' /\ PageInv'
<1>1. /\ listing'.of = listing.of /\ listing'.shown = listing.shown /\ listing'.done = listing.done
      /\ listing'.after = listing.after
      /\ listing'.stayed = IF listing.of = None THEN listing.stayed
                           ELSE {r \in listing.stayed : parent'[r] = listing.of}
      /\ listing' = [of |-> listing'.of, shown |-> listing'.shown, done |-> listing'.done,
                     after |-> listing'.after, stayed |-> listing'.stayed]
  BY DEF Watched, PageTypes
<1>2. Shown' = Shown
  BY <1>1 DEF Shown
<1>3. PageTypes'
  BY <1>1 DEF PageTypes
<1>4. PageInv'
  BY <1>1, <1>2 DEF PageInv
<1> QED  BY <1>3, <1>4

(* Whatever is created, copied, moved and removed between two pages, a     *)
(* listing of any length and page size shows every child that stayed and   *)
(* none twice (resources.py, list_children).                               *)
THEOREM ListingsAreComplete == Spec => []ListingComplete
<1> DEFINE Strong == TreeStrong /\ PageTypes /\ PageInv
<1>1. Init => Strong
  <2> SUFFICES ASSUME Init PROVE PageTypes /\ PageInv
    BY TreeBegins
  <2>1. listing = [of |-> None, shown |-> <<>>, done |-> FALSE, after |-> 0, stayed |-> {}]
    BY DEF Init
  <2>2. Shown = {} /\ DOMAIN listing.shown = {} /\ listing.shown \in Seq(SUBSET Resource)
    BY <2>1 DEF Shown, ToSet
  <2> QED  BY <2>1, <2>2 DEF PageTypes, PageInv
<1>2. Strong /\ [Next]_vars => Strong'
  <2> SUFFICES ASSUME TreeStrong, PageTypes, PageInv, [Next]_vars PROVE PageTypes' /\ PageInv'
    BY TreeStep
  <2>1. CASE \E c \in Client : Handle(c) /\ UNCHANGED setting
    <3>1. Watched /\ Existing \subseteq Existing'
      BY <2>1, TreeStep DEF Handle
    <3> QED  BY <3>1, WatchedStep
  <2>2. CASE \E p \in Principal, r \in Existing : ListChildren(p, r)
    BY <2>2, PageStep DEF TreeStrong
  <2>3. CASE UNCHANGED vars
    BY <2>3 DEF vars, tree, PageTypes, PageInv, Shown, Existing, Exists
  <2> QED  BY <2>1, <2>2, <2>3 DEF Next
<1>3. Strong => ListingComplete
  BY DEF PageInv, Shown, ListingComplete
<1> HIDE DEF Strong
<1> QED  BY <1>1, <1>2, <1>3, PTL DEF Spec

-----------------------------------------------------------------------------
(* The decisions of the engine                                             *)
Above(below) ==
    IF Stops(below[Len(below)]) THEN below ELSE Append(below, parent[below[Len(below)]])

(* The walk is defined by recursion on its length: there is such a         *)
(* function, because a least length without one has a predecessor.         *)
LEMMA ClimbExists ==
    ASSUME NEW r, NEW n \in Nat
    PROVE  \E up : up = [k \in 0..n |-> IF k = 0 THEN <<r>> ELSE Above(up[k - 1])]
<1> DEFINE Climbs(up, m) == up = [k \in 0..m |-> IF k = 0 THEN <<r>> ELSE Above(up[k - 1])]
           Bad == {m \in Nat : ~\E up : Climbs(up, m)}
<1>1. SUFFICES ASSUME Bad # {} PROVE FALSE
  BY <1>1
<1>2. PICK m \in Bad : \A k \in Bad : m <= k
  BY <1>1, Least
<1>3. CASE m = 0
  <2> DEFINE up == [k \in 0..0 |-> <<r>>]
  <2>1. Climbs(up, 0)
    OBVIOUS
  <2> QED  BY <1>2, <1>3, <2>1
<1>4. CASE m # 0
  <2>1. m \in Nat /\ (m - 1) \in Nat /\ (m - 1) \notin Bad
    BY <1>2, <1>4
  <2>2. PICK f : Climbs(f, m - 1)
    BY <2>1
  <2> DEFINE up == [k \in 0..m |-> IF k = m THEN Above(f[m - 1]) ELSE f[k]]
  <2>3. \A k \in 0..(m - 1) : f[k] = IF k = 0 THEN <<r>> ELSE Above(f[k - 1])
    BY <2>2
  <2>4. ASSUME NEW k \in 0..m PROVE up[k] = IF k = 0 THEN <<r>> ELSE Above(up[k - 1])
    <3>1. CASE k = m
      <4>1. (m - 1) \in 0..m /\ m - 1 # m /\ up[m - 1] = f[m - 1] /\ up[m] = Above(f[m - 1])
        BY <2>1
      <4> QED  BY <1>4, <3>1, <4>1
    <3>2. CASE k # m /\ k # 0
      <4>1. k \in 0..(m - 1) /\ (k - 1) \in 0..m /\ k - 1 # m /\ up[k] = f[k] /\ up[k - 1] = f[k - 1]
        BY <2>1, <3>2
      <4> QED  BY <2>3, <3>2, <4>1
    <3>3. CASE k = 0
      <4>1. k \in 0..(m - 1) /\ up[k] = f[k]
        BY <1>4, <2>1, <3>3
      <4> QED  BY <2>3, <3>3, <4>1
    <3> QED  BY <3>1, <3>2, <3>3
  <2>5. up = [k \in 0..m |-> up[k]]
    OBVIOUS
  <2> HIDE DEF up
  <2>6. Climbs(up, m)
    BY <2>4, <2>5
  <2> QED  BY <1>2, <2>6
<1> QED  BY <1>3, <1>4

Climbed(b, r) ==
    /\ b \in Seq(Resource) /\ Len(b) >= 1 /\ b[1] = r
    /\ \A i \in 1..Len(b) - 1 : ~Stops(b[i]) /\ b[i + 1] = parent[b[i]]

(* A walk that ends is a path of parents up to where it stops.             *)
LEMMA ChainFacts ==
    ASSUME TreeTypes, NEW r \in Resource, WalkEnds(r)
    PROVE  Climbed(Chain(r), r) /\ Stops(Chain(r)[Len(Chain(r))])
<1> DEFINE N == Cardinality(Resource)
<1>1. N \in Nat
  BY TreeAssumption, FS_CardinalityType
<1>2. \E up : up = [k \in 0..N |-> IF k = 0 THEN <<r>> ELSE Above(up[k - 1])]
  BY <1>1, ClimbExists
<1>3. PICK up : Chain(r) = up[N] /\ up = [k \in 0..N |-> IF k = 0 THEN <<r>> ELSE Above(up[k - 1])]
  <2> DEFINE up == CHOOSE f : f = [k \in 0..N |-> IF k = 0 THEN <<r>> ELSE Above(f[k - 1])]
  <2>1. up = [k \in 0..N |-> IF k = 0 THEN <<r>> ELSE Above(up[k - 1])]
    BY <1>2
  <2>2. Chain(r) = up[N]
    BY DEF Chain, Above
  <2> QED  BY <2>1, <2>2
<1> DEFINE Good(k) == /\ Climbed(up[k], r) /\ Len(up[k]) <= k + 1
                      /\ Len(up[k]) = k + 1 \/ Stops(up[k][Len(up[k])])
           Bad == {k \in 0..N : ~Good(k)}
<1>4. \A k \in 0..N : up[k] = IF k = 0 THEN <<r>> ELSE Above(up[k - 1])
  BY <1>3
<1>5. Bad = {}
  <2> SUFFICES ASSUME Bad # {} PROVE FALSE
    OBVIOUS
  <2>1. PICK m \in Bad : \A k \in Bad : m <= k
    <3>1. Bad \in SUBSET Nat
      BY <1>1
    <3> QED  BY <3>1, Least
  <2>2. m \in 0..N /\ ~Good(m)
    BY <2>1
  <2>3. CASE m = 0
    <3>1. up[0] = <<r>>
      BY <1>4, <2>2, <2>3
    <3>2. <<r>> \in Seq(Resource) /\ Len(<<r>>) = 1 /\ <<r>>[1] = r /\ 1..1 - 1 = {}
      OBVIOUS
    <3>3. Climbed(<<r>>, r)
      BY <3>2 DEF Climbed
    <3> QED  BY <2>2, <2>3, <3>1, <3>2, <3>3
  <2>4. CASE m # 0
    <3>1. (m - 1) \in 0..N /\ (m - 1) \notin Bad
      BY <1>1, <2>1, <2>2, <2>4
    <3> DEFINE b == up[m - 1]
               top == b[Len(b)]
    <3>2. Good(m - 1)
      BY <3>1
    <3>3. up[m] = IF Stops(top) THEN b ELSE Append(b, parent[top])
      BY <1>4, <2>2, <2>4 DEF Above
    <3>4. /\ b \in Seq(Resource) /\ Len(b) \in Nat /\ Len(b) >= 1 /\ Len(b) <= m /\ b[1] = r
          /\ top \in Resource /\ m \in Nat /\ Climbed(b, r)
          /\ \A i \in 1..Len(b) - 1 : ~Stops(b[i]) /\ b[i + 1] = parent[b[i]]
      BY <2>2, <3>2 DEF Climbed
    <3> HIDE DEF b
    <3>5. CASE Stops(top)
      BY <2>2, <3>3, <3>4, <3>5
    <3>6. CASE ~Stops(top)
      <4> DEFINE c == Append(b, parent[top])
      <4>1. parent[top] \in Resource
        BY <3>4, <3>6 DEF Stops, TreeTypes
      <4>2. /\ c \in Seq(Resource) /\ Len(c) = Len(b) + 1 /\ c[Len(b) + 1] = parent[top]
            /\ \A i \in 1..Len(b) : c[i] = b[i]
        BY <3>4, <4>1
      <4> HIDE DEF c
      <4>3. ASSUME NEW i \in 1..Len(c) - 1 PROVE ~Stops(c[i]) /\ c[i + 1] = parent[c[i]]
        <5>1. CASE i = Len(b)
          BY <3>4, <3>6, <4>2, <5>1
        <5>2. CASE i # Len(b)
          <6>1. i \in 1..Len(b) - 1 /\ i \in 1..Len(b) /\ (i + 1) \in 1..Len(b)
            BY <3>4, <4>2, <5>2
          <6> QED  BY <3>4, <4>2, <6>1
        <5> QED  BY <5>1, <5>2
      <4>4. Climbed(c, r)
        BY <3>4, <4>2, <4>3 DEF Climbed
      <4>5. up[m] = c
        BY <3>3, <3>6 DEF c
      <4>6. Len(b) = m
        BY <3>2, <3>4, <3>6 DEF b
      <4> QED  BY <2>2, <3>4, <4>2, <4>4, <4>5, <4>6
    <3> QED  BY <3>5, <3>6
  <2> QED  BY <2>3, <2>4
<1>6. Good(N) /\ Len(up[N]) <= N
  <2>1. N \in 0..N
    BY <1>1
  <2>2. Good(N)
    BY <1>5, <2>1
  <2>3. Len(up[N]) <= N
    BY <1>3 DEF WalkEnds
  <2> QED  BY <2>2, <2>3
<1> HIDE DEF N
<1>7. Len(up[N]) # N + 1
  BY <1>1, <1>6 DEF Climbed
<1> QED  BY <1>3, <1>6, <1>7

LEMMA PathOfChain ==
    ASSUME TreeTypes, NEW r \in Resource, WalkEnds(r), NEW k \in 1..Len(Chain(r)), k <= MaxHierarchy + 1
    PROVE  \E s \in Route : Path(s) /\ s[1] = r /\ s[Len(s)] = Chain(r)[k]
<1> DEFINE b == Chain(r)
           s == [i \in 1..k |-> b[i]]
<1>1. /\ b \in Seq(Resource) /\ Len(b) \in Nat /\ b[1] = r /\ k \in Nat /\ k >= 1 /\ k <= Len(b)
      /\ \A i \in 1..Len(b) - 1 : b[i] \notin breaks /\ b[i + 1] = parent[b[i]]
  BY ChainFacts DEF Climbed, Stops
<1> HIDE DEF b
<1>2. s \in [1..k -> Resource] /\ Len(s) = k /\ \A i \in 1..k : s[i] = b[i]
  BY <1>1
<1>3. s \in Route
  <2>1. k \in 1..MaxHierarchy + 1
    BY <1>1, EngineAssumption
  <2> QED  BY <1>2, <2>1 DEF Route
<1> HIDE DEF s
<1>4. Path(s)
  <2> SUFFICES ASSUME NEW i \in 1..Len(s) - 1 PROVE s[i] \notin breaks /\ s[i + 1] = parent[s[i]]
    BY DEF Path
  <2>1. i \in 1..Len(b) - 1 /\ i \in 1..k /\ (i + 1) \in 1..k
    BY <1>1, <1>2
  <2> QED  BY <1>1, <1>2, <2>1
<1>5. s[1] = r /\ s[Len(s)] = b[k]
  BY <1>1, <1>2
<1> QED  BY <1>3, <1>4, <1>5 DEF b

(* There is one way up, and the walk takes it.                             *)
LEMMA ChainOfPath ==
    ASSUME TreeTypes, NEW r \in Resource, WalkEnds(r), NEW s \in Route, Path(s), s[1] = r
    PROVE  /\ Len(s) \in 1..Len(Chain(r)) /\ Len(s) <= MaxHierarchy + 1
           /\ s[Len(s)] = Chain(r)[Len(s)]
<1> DEFINE b == Chain(r)
           Bad == {k \in 1..Len(s) : ~(k <= Len(b) /\ s[k] = b[k])}
<1>1. /\ b \in Seq(Resource) /\ Len(b) \in Nat /\ Len(b) >= 1 /\ b[1] = r /\ Stops(b[Len(b)])
      /\ \A i \in 1..Len(b) - 1 : b[i + 1] = parent[b[i]]
  BY ChainFacts DEF Climbed
<1> HIDE DEF b
<1>2. PICK n \in 1..MaxHierarchy + 1 : s \in [1..n -> Resource]
  BY DEF Route
<1>3. Len(s) = n /\ n \in Nat /\ n >= 1 /\ n <= MaxHierarchy + 1 /\ \A i \in 1..n : s[i] \in Resource
  BY <1>2, EngineAssumption
<1>4. \A i \in 1..n - 1 : s[i] \notin breaks /\ s[i + 1] = parent[s[i]]
  BY <1>3 DEF Path
<1>5. Bad = {}
  <2> SUFFICES ASSUME Bad # {} PROVE FALSE
    OBVIOUS
  <2>1. PICK m \in Bad : \A k \in Bad : m <= k
    <3>1. Bad \in SUBSET Nat
      BY <1>3
    <3> QED  BY <3>1, Least
  <2>2. m \in 1..n /\ ~(m <= Len(b) /\ s[m] = b[m])
    BY <1>3, <2>1
  <2>3. m # 1
    BY <1>1, <2>2
  <2>4. (m - 1) \in 1..n /\ (m - 1) \in 1..n - 1 /\ (m - 1) \notin Bad /\ m - 1 + 1 = m
    BY <1>3, <2>1, <2>2, <2>3
  <2>5. m - 1 <= Len(b) /\ s[m - 1] = b[m - 1]
    BY <1>3, <2>4
  <2>6. s[m - 1] \notin breaks /\ s[m] = parent[s[m - 1]] /\ s[m] \in Resource
    BY <1>3, <1>4, <2>2, <2>4
  <2>7. ~Stops(b[m - 1])
    BY <2>5, <2>6, EngineAssumption DEF Stops
  <2>8. (m - 1) \in 1..Len(b) - 1
    BY <1>1, <2>4, <2>5, <2>7
  <2>9. b[m] = parent[b[m - 1]] /\ m <= Len(b)
    BY <1>1, <2>4, <2>8
  <2> QED  BY <2>2, <2>5, <2>6, <2>9
<1>6. Len(s) \notin Bad /\ Len(s) \in 1..Len(s)
  BY <1>3, <1>5
<1>7. Len(s) <= Len(b) /\ s[Len(s)] = b[Len(s)]
  BY <1>6
<1> HIDE DEF Bad
<1>8. Len(s) \in 1..Len(b)
  BY <1>1, <1>3, <1>7
<1> QED  BY <1>3, <1>7, <1>8 DEF b

(* The engine allows exactly what an active binding at the end of a path   *)
(* of parents grants, whatever the tree, the bindings and the roles are,   *)
(* also while requests change them (engine.py, adapter.py).                *)
THEOREM DecisionsAreJustified == Spec => []DecisionsFollowPaths
<1>1. TreeTypes => DecisionsFollowPaths
  <2> SUFFICES ASSUME TreeTypes, NEW r \in Existing, NEW p \in Principal, NEW perm \in Permission, WalkEnds(r)
               PROVE  Authorized(p, r, perm) <=>
                         \E s \in {x \in Route : Path(x)}, i \in DOMAIN binding :
                            LET b == binding[i]
                            IN  /\ s[1] = r /\ s[Len(s)] = b.scope
                                /\ b.principal = p /\ ~b.revoked
                                /\ \E t \in {"*", TypeOf[b.scope]} : <<b.role, t, perm>> \in RolePermission
    BY DEF DecisionsFollowPaths
  <2>1. r \in Resource /\ DOMAIN Chain(r) = 1..Len(Chain(r))
    <3>1. r \in Resource
      BY DEF Existing
    <3>2. Chain(r) \in Seq(Resource)
      BY <3>1, ChainFacts DEF Climbed
    <3> QED  BY <3>1, <3>2
  <2>2. ASSUME Authorized(p, r, perm)
        PROVE  \E s \in {x \in Route : Path(x)}, i \in DOMAIN binding :
                  LET b == binding[i]
                  IN  /\ s[1] = r /\ s[Len(s)] = b.scope
                      /\ b.principal = p /\ ~b.revoked
                      /\ \E t \in {"*", TypeOf[b.scope]} : <<b.role, t, perm>> \in RolePermission
    <3>1. PICK i \in DOMAIN binding :
             /\ ~binding[i].revoked /\ binding[i].principal = p
             /\ RoleAllows(binding[i].role, binding[i].scope, perm)
             /\ WithinReach(Chain(r), binding[i].scope)
      BY <2>2 DEF Authorized, BindingsOn, Active
    <3>2. PICK k \in 1..Len(Chain(r)) : Chain(r)[k] = binding[i].scope /\ k <= MaxHierarchy + 1
      BY <2>1, <3>1 DEF WithinReach
    <3>3. PICK s \in Route : Path(s) /\ s[1] = r /\ s[Len(s)] = binding[i].scope
      BY <2>1, <3>2, PathOfChain
    <3> QED  BY <3>1, <3>3 DEF RoleAllows
  <2>3. ASSUME NEW s \in Route, Path(s), NEW i \in DOMAIN binding, s[1] = r, s[Len(s)] = binding[i].scope,
               binding[i].principal = p, ~binding[i].revoked,
               \E t \in {"*", TypeOf[binding[i].scope]} : <<binding[i].role, t, perm>> \in RolePermission
        PROVE  Authorized(p, r, perm)
    <3>1. Len(s) \in DOMAIN Chain(r) /\ Len(s) <= MaxHierarchy + 1 /\ Chain(r)[Len(s)] = binding[i].scope
      BY <2>1, <2>3, ChainOfPath
    <3>2. RoleAllows(binding[i].role, binding[i].scope, perm) /\ WithinReach(Chain(r), binding[i].scope)
      BY <2>3, <3>1 DEF RoleAllows, WithinReach
    <3>3. i \in BindingsOn(p, {Chain(r)[k] : k \in DOMAIN Chain(r)})
      BY <2>3, <3>1 DEF BindingsOn, Active
    <3> QED  BY <3>2, <3>3 DEF Authorized
  <2> QED  BY <2>2, <2>3
<1>2. TreeStrong => DecisionsFollowPaths
  BY <1>1 DEF TreeStrong
<1> QED  BY <1>2, TreeIsStrong, PTL

-----------------------------------------------------------------------------
(* The readers of the lineage                                              *)
Edges == Linked \X Linked
Frames == [at : Linked, rest : SUBSET Linked]
Readers == [kind : Kinds, root : Asked, pc : {"up", "down", "crawl", "sort", "done", "refused"},
            queue : SUBSET Linked, visited : SUBSET Linked, nodes : SUBSET Linked,
            stack : Seq(Frames), edges : SUBSET Edges, batches : Seq(SUBSET Linked)]

LineageTypes ==
    /\ lineage \subseteq Edges /\ elsewhere \subseteq Linked \ Asked
    /\ reader = Unread \/ reader \in Readers
    /\ reader # Unread => stood \subseteq lineage /\ lineage \subseteq ever /\ ever \subseteq Edges

(* Breadth first: what was found comes from the root, and what is upstream *)
(* of a dataset that was visited was found.                                *)
Turned(edges) == IF reader.pc = "down" THEN Converse(edges) ELSE edges
Reached == reader.visited \cup reader.queue
WalkInv ==
    reader.pc \in {"up", "down"} =>
        /\ reader.kind \in IF reader.pc = "up" THEN {"order", "upstream", "both"} ELSE {"downstream", "both"}
        /\ reader.batches = <<>>
        /\ reader.root \in Reached /\ Reached \subseteq Nodes
        /\ reader.pc = "up" => Nodes \subseteq Reached
        /\ Reached \subseteq Origins(Turned(ever), reader.root)
        /\ \A e \in Turned(stood) : e[2] \in reader.visited => e[1] \in Reached
        /\ Nodes \subseteq Lineal(ever)
        /\ reader.kind = "both" /\ reader.pc = "down" => Origins(stood, reader.root) \subseteq Nodes

(* Depth first: the stack is a path from the root, and an edge into what   *)
(* was visited was added or is still to be looked at, unless the path was  *)
(* cut.                                                                    *)
StackInv ==
    /\ \A k \in 1..Len(reader.stack) :
          /\ reader.stack[k].at \in reader.visited
          /\ \A u \in reader.stack[k].rest : <<u, reader.stack[k].at>> \in ever
          /\ k = 1 => reader.stack[k].at = reader.root
          /\ k > 1 => <<reader.stack[k].at, reader.stack[k - 1].at>> \in ever
Pending(e) == \E k \in 1..Len(reader.stack) : reader.stack[k].at = e[2] /\ e[1] \in reader.stack[k].rest
CrawlInv ==
    reader.pc = "crawl" =>
        /\ reader.kind = "graph" /\ reader.batches = <<>> /\ reader.nodes = reader.visited
        /\ reader.visited = {} => reader.edges = {} /\ reader.stack = <<>>
        /\ reader.visited # {} => reader.root \in reader.visited
        /\ reader.visited \subseteq Origins(ever, reader.root)
        /\ \A e \in reader.edges : e \in ever /\ e[1] \in reader.visited /\ e[2] \in reader.visited
        /\ StackInv
        /\ Shallow => \A e \in stood : e[2] \in reader.visited => e \in reader.edges \/ Pending(e)

(* Each dataset is placed once, after all that it needs.                   *)
Placing ==
    LET batches == reader.batches
    IN  /\ \A n \in 1..Len(batches) : batches[n] \subseteq reader.nodes
        /\ \A n, k \in 1..Len(batches) : n # k => batches[n] \cap batches[k] = {}
        /\ \A n \in 1..Len(batches), e \in reader.edges :
              e[2] \in batches[n] => \E k \in 1..(n - 1) : e[1] \in batches[k]
SortInv ==
    reader.pc = "sort" =>
        /\ reader.kind \in {"order", "graph"}
        /\ reader.root \in reader.nodes /\ reader.nodes \subseteq Origins(ever, reader.root)
        /\ reader.edges \subseteq ever
        /\ Shallow => \A e \in stood : e[2] \in reader.nodes => e \in reader.edges /\ e[1] \in reader.nodes
        /\ reader.kind = "graph" \/ stood = ever => \A e \in reader.edges : e[1] \in reader.nodes
        /\ Placing

ReadInv == WalkInv /\ CrawlInv /\ SortInv /\ LineageIsSound

(* ----- what is upstream ----- *)
LEMMA RootIsOrigin ==
    ASSUME NEW edges, NEW root \in Linked
    PROVE  root \in Origins(edges, root)
BY DEF Origins

LEMMA OriginsClosed ==
    ASSUME NEW edges, NEW root, NEW u \in Linked, NEW d \in Origins(edges, root), <<u, d>> \in edges
    PROVE  u \in Origins(edges, root)
<1> SUFFICES ASSUME NEW S \in SUBSET Linked, root \in S, \A e \in edges : e[2] \in S => e[1] \in S
             PROVE  u \in S
  BY DEF Origins
<1>1. d \in S
  BY DEF Origins
<1> QED  BY <1>1

LEMMA OriginsWithin ==
    ASSUME NEW edges, NEW root, NEW S \in SUBSET Linked, root \in S,
           \A e \in edges : e[2] \in S => e[1] \in S
    PROVE  Origins(edges, root) \subseteq S
BY DEF Origins

LEMMA OriginsGrow ==
    ASSUME NEW more, NEW fewer \in SUBSET more, NEW root
    PROVE  Origins(fewer, root) \subseteq Origins(more, root)
BY DEF Origins

LEMMA ConverseFacts ==
    ASSUME NEW edges \in SUBSET Edges
    PROVE  /\ Converse(edges) \subseteq Edges
           /\ \A u, d : <<u, d>> \in Converse(edges) <=> <<d, u>> \in edges
           /\ \A fewer \in SUBSET edges : Converse(fewer) \subseteq Converse(edges)
<1>1. \A e \in edges : e = <<e[1], e[2]>> /\ e[1] \in Linked /\ e[2] \in Linked
  BY DEF Edges
<1>2. ASSUME NEW u, NEW d PROVE <<u, d>> \in Converse(edges) <=> <<d, u>> \in edges
  BY <1>1 DEF Converse
<1> QED  BY <1>1, <1>2 DEF Converse, Edges

(* Where each dataset of a set needs another one of it there is a cycle:   *)
(* take the smallest such set, and what leads to one of its members.       *)
LEMMA NeedsCycle ==
    ASSUME NEW edges \in SUBSET Edges, NEW R \in SUBSET Linked, R # {},
           \A d \in R : \E u \in R : <<u, d>> \in edges
    PROVE  \E d \in R : d \in Ancestors(edges, d)
<1> DEFINE Knots == {S \in SUBSET R : S # {} /\ \A d \in S : \E u \in S : <<u, d>> \in edges}
           Sizes == {Cardinality(S) : S \in Knots}
<1>1. \A S \in Knots : IsFiniteSet(S) /\ Cardinality(S) \in Nat
  BY LinkedAssumption, FS_Subset, FS_CardinalityType
<1>2. Sizes \in SUBSET Nat /\ Sizes # {}
  <2>1. R \in Knots
    OBVIOUS
  <2> QED  BY <1>1, <2>1
<1>3. PICK m \in Sizes : \A n \in Sizes : m <= n
  BY <1>2, Least
<1>4. PICK S \in Knots : m = Cardinality(S)
  BY <1>3
<1>5. PICK d \in S : TRUE
  BY <1>4
<1> DEFINE T == S \cap Ancestors(edges, d)
<1>6. \A u \in S, x \in S : x \in T \cup {d} /\ <<u, x>> \in edges => u \in T
  <2> SUFFICES ASSUME NEW u \in S, NEW x \in S, x \in T \cup {d}, <<u, x>> \in edges,
                      NEW Q \in SUBSET Linked, \A e \in edges : e[2] \in Q \cup {d} => e[1] \in Q
               PROVE  u \in Q
    BY <1>4 DEF Ancestors
  <2>1. x \in Q \cup {d}
    BY DEF Ancestors
  <2> QED  BY <2>1
<1>7. T \in Knots
  <2>1. T \subseteq R /\ \A x \in T : \E u \in T : <<u, x>> \in edges
    BY <1>4, <1>6
  <2>2. T # {}
    BY <1>4, <1>5, <1>6
  <2> QED  BY <2>1, <2>2
<1>8. T = S
  <2>1. IsFiniteSet(S) /\ T \subseteq S /\ Cardinality(S) <= Cardinality(T)
    BY <1>1, <1>3, <1>4, <1>7
  <2>2. Cardinality(T) <= Cardinality(S) /\ Cardinality(T) \in Nat /\ Cardinality(S) \in Nat
    BY <2>1, <1>1, <1>4, <1>7, FS_Subset
  <2> QED  BY <2>1, <2>2, FS_Subset
<1> QED  BY <1>4, <1>5, <1>8

(* ----- the steps of a reader ----- *)
LEMMA AppendFacts ==
    ASSUME NEW S, NEW s \in Seq(S), NEW x \in S
    PROVE  /\ Append(s, x) \in Seq(S) /\ Len(s) \in Nat /\ Len(Append(s, x)) = Len(s) + 1
           /\ Append(s, x)[Len(s) + 1] = x /\ \A k \in 1..Len(s) : Append(s, x)[k] = s[k]
  OBVIOUS

LEMMA LineageTypeStep == LineageTypes /\ [LineageNext]_lineage_vars => LineageTypes'
<1> SUFFICES ASSUME LineageTypes, [LineageNext]_lineage_vars PROVE LineageTypes'
  OBVIOUS
<1>0. /\ Unread.pc = "idle" /\ \A x \in Readers : x.pc # "idle"
      /\ reader # Unread => reader \in Readers /\ stood \subseteq lineage /\ lineage \subseteq ever /\ ever \subseteq Edges
  BY DEF Unread, Readers, LineageTypes
<1>1. ASSUME Edited, lineage' \subseteq Edges PROVE LineageTypes'
  <2>1. reader \in Readers /\ stood \subseteq lineage /\ lineage \subseteq ever /\ ever \subseteq Edges
    BY <1>0, <1>1 DEF Edited, Querying
  <2> QED  BY <1>1, <2>1 DEF Edited, LineageTypes
<1>2. ASSUME NEW u \in Linked, NEW d \in Linked, add_lineage_edge(u, d) \/ remove_lineage_edge(u, d)
      PROVE  LineageTypes'
  <2>1. lineage' \subseteq Edges
    BY <1>2 DEF add_lineage_edge, remove_lineage_edge, LineageTypes, Edges
  <2> QED  BY <1>1, <1>2, <2>1 DEF add_lineage_edge, remove_lineage_edge
<1>3. ASSUME NEW kind \in Kinds, NEW root \in Asked, Start(kind, root) PROVE LineageTypes'
  <2>1. Reading(kind, root) \in Readers
    BY LinkedAssumption DEF Reading, Readers, Kinds
  <2> QED  BY <1>3, <2>1 DEF Start, LineageTypes
<1>4. ASSUME reader.pc # "idle", NEW next \in Readers, Reads(next) PROVE LineageTypes'
  BY <1>4, <1>0 DEF Reads, LineageTypes
<1>5. ASSUME NEW d \in Linked, resolve_upstream_dependencies(d) \/ resolve_downstream_dependencies(d)
      PROVE  LineageTypes'
  <2>1. PICK found \in SUBSET Linked : reader.pc \in {"up", "down"} /\ d \in reader.queue /\ Follow(d, found)
    BY <1>5 DEF resolve_upstream_dependencies, resolve_downstream_dependencies, Upstreams, Downstreams
  <2>2. reader \in Readers
    BY <2>1, <1>0
  <2>3. [reader EXCEPT !.visited = @ \cup {d}, !.queue = (@ \cup (found \ (reader.visited \cup {d}))) \ {d},
                       !.nodes = @ \cup (found \ (reader.visited \cup {d}))] \in Readers
    BY <2>2 DEF Readers
  <2> QED  BY <2>1, <2>3, <1>4 DEF Follow
<1>6. CASE ThenDownstream
  <2>1. reader \in Readers
    BY <1>6, <1>0 DEF ThenDownstream, Resolved
  <2>2. [reader EXCEPT !.pc = "down", !.queue = {reader.root}, !.visited = {}] \in Readers
    BY <2>1, LinkedAssumption DEF Readers
  <2> QED  BY <1>6, <2>2, <1>4 DEF ThenDownstream, Resolved
<1>7. CASE get_lineage_graph \/ resolver_get_execution_order
  <2>1. reader \in Readers
    BY <1>7, <1>0 DEF get_lineage_graph, resolver_get_execution_order, Resolved
  <2>2. Nodes \in SUBSET Linked /\ lineage \subseteq Edges
    BY <2>1, LinkedAssumption DEF Readers, Nodes, LineageTypes
  <2>3. \A edges \in SUBSET Edges, pc \in {"done", "sort"} :
           [reader EXCEPT !.pc = pc, !.nodes = Nodes, !.edges = edges] \in Readers
    BY <2>1, <2>2 DEF Readers
  <2>4. PICK edges \in SUBSET Edges, pc \in {"done", "sort"} :
           Reads([reader EXCEPT !.pc = pc, !.nodes = Nodes, !.edges = edges])
    BY <1>7, <2>2 DEF get_lineage_graph, resolver_get_execution_order
  <2>5. [reader EXCEPT !.pc = pc, !.nodes = Nodes, !.edges = edges] \in Readers
    BY <2>3
  <2> QED  BY <2>1, <2>4, <2>5, <1>0, <1>4
<1>8. ASSUME NEW kind, NextBatch(kind) PROVE LineageTypes'
  <2> DEFINE batch == {d \in reader.nodes \ Placed : Ready(Needed(d), Placed)}
  <2>1. reader \in Readers
    BY <1>8, <1>0 DEF NextBatch
  <2>2. batch \in SUBSET Linked
    BY <2>1 DEF Readers
  <2>3. /\ [reader EXCEPT !.pc = "done"] \in Readers /\ [reader EXCEPT !.pc = "refused"] \in Readers
        /\ [reader EXCEPT !.batches = Append(@, batch)] \in Readers
    <3> HIDE DEF batch
    <3>1. reader.batches \in Seq(SUBSET Linked)
      BY <2>1 DEF Readers
    <3>2. Append(reader.batches, batch) \in Seq(SUBSET Linked)
      BY <2>2, <3>1, AppendFacts
    <3> QED  BY <2>1, <3>2 DEF Readers
  <2>4. PICK next \in Readers : Reads(next)
    BY <1>8, <2>3 DEF NextBatch
  <2> QED  BY <2>4, <1>4, <1>0, <2>1
<1>9. CASE crawl_root
  <2>1. reader \in Readers
    BY <1>9, <1>0 DEF crawl_root
  <2>2. Frame(reader.root) \in Frames /\ reader.root \in Linked
    BY <2>1, LinkedAssumption DEF Readers, Frame, Frames, Upstreams
  <2>3. [reader EXCEPT !.visited = {reader.root}, !.nodes = {reader.root}, !.stack = <<Frame(reader.root)>>] \in Readers
    <3> DEFINE stack == <<Frame(reader.root)>>
    <3>1. stack \in Seq(Frames)
      BY <2>2
    <3> HIDE DEF stack
    <3>2. [reader EXCEPT !.visited = {reader.root}, !.nodes = {reader.root}, !.stack = stack] \in Readers
      BY <2>1, <2>2, <3>1 DEF Readers
    <3> QED  BY <3>2 DEF stack
  <2> QED  BY <1>9, <2>3, <1>4 DEF crawl_root
<1>10. ASSUME NEW u \in Linked, crawl(u) PROVE LineageTypes'
  <2>1. reader \in Readers
    BY <1>10, <1>0 DEF crawl
  <2>2. Frame(u) \in Frames
    BY DEF Frame, Frames, Upstreams
  <2>3. /\ [reader EXCEPT !.pc = "refused"] \in Readers
        /\ [reader EXCEPT !.visited = @ \cup {u}, !.nodes = @ \cup {u}, !.stack = Append(@, Frame(u))] \in Readers
    <3>1. reader.stack \in Seq(Frames)
      BY <2>1 DEF Readers
    <3>2. Append(reader.stack, Frame(u)) \in Seq(Frames)
      BY <2>2, <3>1, AppendFacts
    <3> QED  BY <2>1, <3>2 DEF Readers
  <2> QED  BY <1>10, <2>3, <1>4 DEF crawl
<1>11. ASSUME reader \in Readers, reader.stack # <<>>
       PROVE  Top \in Frames /\ Below \in Seq(Frames) /\ Len(reader.stack) \in Nat \ {0}
              /\ Len(Below) = Len(reader.stack) - 1
              /\ \A k \in 1..Len(reader.stack) - 1 : Below[k] = reader.stack[k]
  <2>1. reader.stack \in Seq(Frames)
    BY <1>11 DEF Readers
  <2> QED  BY <2>1, <1>11 DEF Top, Below
<1>12. ASSUME NEW u \in Linked, skip_crawl(u) PROVE LineageTypes'
  <2> DEFINE frame == [Top EXCEPT !.rest = @ \ {u}]
             edges == IF u \in reader.visited THEN reader.edges \cup {<<u, Top.at>>} ELSE reader.edges
  <2>1. reader \in Readers /\ Top \in Frames /\ Below \in Seq(Frames)
    BY <1>12, <1>0, <1>11 DEF skip_crawl
  <2>2. frame \in Frames /\ edges \in SUBSET Edges
    BY <2>1 DEF Frames, Readers, Edges
  <2>3. [reader EXCEPT !.stack = Append(Below, frame), !.edges = edges] \in Readers
    <3> HIDE DEF frame, edges
    <3>1. Append(Below, frame) \in Seq(Frames)
      BY <2>1, <2>2, AppendFacts
    <3> QED  BY <2>1, <2>2, <3>1 DEF Readers
  <2>4. Reads([reader EXCEPT !.stack = Append(Below, frame), !.edges = edges])
    BY <1>12 DEF skip_crawl
  <2> HIDE DEF frame, edges
  <2> QED  BY <2>1, <2>3, <2>4, <1>4, <1>0
<1>13. CASE crawl_returns
  <2>1. reader \in Readers /\ Below \in Seq(Frames)
    BY <1>13, <1>0, <1>11 DEF crawl_returns
  <2>2. [reader EXCEPT !.stack = Below, !.pc = IF Below = <<>> THEN "sort" ELSE @] \in Readers
    BY <2>1 DEF Readers
  <2> QED  BY <1>13, <2>2, <1>4 DEF crawl_returns
<1>14. CASE UNCHANGED lineage_vars
  BY <1>14 DEF lineage_vars, LineageTypes
<1> QED
  BY <1>2, <1>3, <1>5, <1>6, <1>7, <1>8, <1>9, <1>10, <1>12, <1>13, <1>14
     DEF LineageNext, resolver_batch, graph_get_execution_order

LEMMA NotEnded == reader.pc \notin {"done", "refused"} => LineageIsSound
BY DEF LineageIsSound, GraphIsWhole, OrderIsSound

LEMMA LinealGrows ==
    ASSUME NEW more \in SUBSET Edges, NEW fewer \in SUBSET more
    PROVE  Lineal(fewer) \subseteq Lineal(more)
<1>1. Converse(fewer) \subseteq Converse(more)
  BY ConverseFacts
<1> QED  BY <1>1, OriginsGrow DEF Lineal

LEMMA TurnedIsLineal ==
    ASSUME reader.kind \in IF reader.pc = "up" THEN {"order", "upstream", "both"} ELSE {"downstream", "both"},
           reader.pc \in {"up", "down"}, NEW edges
    PROVE  Origins(Turned(edges), reader.root) \subseteq Lineal(edges)
BY DEF Turned, Lineal

LEMMA TurnedFacts ==
    ASSUME NEW more \in SUBSET Edges, NEW fewer \in SUBSET more
    PROVE  Turned(fewer) \subseteq Turned(more) /\ Turned(more) \subseteq Edges
BY ConverseFacts DEF Turned

LEMMA EdgeFacts ==
    ASSUME NEW edges \in SUBSET Edges, NEW e \in edges
    PROVE  e = <<e[1], e[2]>> /\ e[1] \in Linked /\ e[2] \in Linked
BY DEF Edges

(* What a reader has found stays right when an edge comes or goes.         *)
LEMMA EditStep ==
    ASSUME LineageTypes, ReadInv, Edited, lineage' \subseteq Edges
    PROVE  ReadInv'
<1>1. /\ reader' = reader /\ reader.pc \in {"up", "down", "crawl"} /\ reader \in Readers
      /\ stood' \subseteq stood /\ ever \subseteq ever' /\ ever' \subseteq Edges /\ stood \subseteq Edges
  BY DEF Edited, Querying, LineageTypes, Unread
<1>2. Lineal(ever)' = Lineal(ever') /\ Turned(ever)' = Turned(ever') /\ Turned(stood)' = Turned(stood')
      /\ Reached' = Reached /\ Nodes' = Nodes
  BY <1>1 DEF Lineal, Turned, Reached, Nodes
<1>3. Lineal(ever) \subseteq Lineal(ever)'
  BY <1>1, <1>2, LinealGrows
<1>4. Turned(ever) \subseteq Turned(ever)' /\ Turned(stood)' \subseteq Turned(stood)
  BY <1>1, <1>2, TurnedFacts
<1>5. Origins(Turned(ever), reader.root) \subseteq Origins(Turned(ever)', reader.root)
  BY <1>4, OriginsGrow
<1>6. Origins(stood', reader.root) \subseteq Origins(stood, reader.root)
  BY <1>1, OriginsGrow
<1>7. WalkInv'
  <2> SUFFICES ASSUME reader.pc \in {"up", "down"} PROVE WalkInv'
    BY <1>1 DEF WalkInv
  <2> HIDE DEF Turned, Lineal, Origins, Reached, Nodes
  <2>1. WalkInv /\ reader.pc \in {"up", "down"}
    BY DEF ReadInv
  <2> QED  BY <1>1, <1>2, <1>3, <1>4, <1>5, <1>6, <2>1 DEF WalkInv
<1>8. Origins(ever, reader.root) \subseteq Origins(ever', reader.root)
  BY <1>1, OriginsGrow
<1>9. Shallow' => Shallow
  BY <1>1 DEF Shallow, IsPath
<1>10. CrawlInv'
  <2>1. CrawlInv
    BY DEF ReadInv
  <2>2. StackInv => StackInv'
    BY <1>1 DEF StackInv
  <2>3. \A e : Pending(e)' <=> Pending(e)
    BY <1>1 DEF Pending
  <2> QED  BY <1>1, <1>8, <1>9, <2>1, <2>2, <2>3 DEF CrawlInv
<1>11. SortInv'
  BY <1>1 DEF SortInv
<1> QED  BY <1>1, <1>7, <1>10, <1>11, NotEnded DEF ReadInv, LineageIsSound, GraphIsWhole, OrderIsSound

LEMMA StartStep ==
    ASSUME LineageTypes, NEW kind \in Kinds, NEW root \in Asked, Start(kind, root)
    PROVE  ReadInv'
<1>1. /\ reader'.pc = (IF kind = "downstream" THEN "down" ELSE IF kind = "graph" THEN "crawl" ELSE "up")
      /\ reader'.kind = kind /\ reader'.root = root /\ reader'.queue = {root} /\ reader'.visited = {}
      /\ reader'.stack = <<>> /\ reader'.nodes = {} /\ reader'.edges = {} /\ reader'.batches = <<>>
      /\ root \in Linked
  BY LinkedAssumption DEF Start, Reading
<1>2. Reached' = {root} /\ Nodes' = {root}
  BY <1>1 DEF Reached, Nodes
<1>3. \A edges : root \in Origins(edges, root)
  BY <1>1, RootIsOrigin
<1>4. root \in Lineal(ever)'
  BY <1>1, <1>3 DEF Lineal, Kinds
<1>5. WalkInv'
  <2>1. reader'.pc = "down" => kind # "both"
    BY <1>1
  <2>2. reader'.pc \in {"up", "down"} =>
           kind \in IF reader'.pc = "up" THEN {"order", "upstream", "both"} ELSE {"downstream", "both"}
    BY <1>1 DEF Kinds
  <2> QED  BY <1>1, <1>2, <1>3, <1>4, <2>1, <2>2 DEF WalkInv
<1>6. CrawlInv'
  <2>1. reader'.pc = "crawl" => kind = "graph"
    BY <1>1
  <2>2. StackInv'
    BY <1>1 DEF StackInv
  <2> QED  BY <1>1, <2>1, <2>2 DEF CrawlInv
<1>7. reader'.pc \notin {"sort", "done", "refused"}
  BY <1>1
<1> QED  BY <1>5, <1>6, <1>7 DEF ReadInv, SortInv, LineageIsSound, GraphIsWhole, OrderIsSound

LEMMA FollowStep ==
    ASSUME LineageTypes, ReadInv, NEW d \in Linked, NEW found \in SUBSET Linked,
           reader.pc \in {"up", "down"}, d \in reader.queue, Follow(d, found),
           \A u \in Linked : u \in found <=> <<u, d>> \in Turned(lineage)
    PROVE  ReadInv'
<1> DEFINE new == found \ (reader.visited \cup {d})
           root == reader.root
<1>1. /\ reader \in Readers /\ stood \subseteq lineage /\ lineage \subseteq ever /\ ever \subseteq Edges
      /\ UNCHANGED <<lineage, stood, ever>>
  BY DEF LineageTypes, Follow, Reads, Unread
<1>2. /\ reader'.pc = reader.pc /\ reader'.kind = reader.kind /\ reader'.root = root
      /\ reader'.batches = reader.batches
      /\ reader'.visited = reader.visited \cup {d} /\ reader'.queue = (reader.queue \cup new) \ {d}
      /\ reader'.nodes = reader.nodes \cup new
  BY <1>1 DEF Follow, Reads, Readers
<1> HIDE DEF new, root
<1>3. WalkInv
  BY DEF ReadInv
<1>4. Reached' = Reached \cup new /\ Nodes' = Nodes \cup new
  <2>1. Reached' = (reader.visited \cup {d}) \cup ((reader.queue \cup new) \ {d})
    BY <1>2 DEF Reached
  <2>2. d \in Reached
    BY DEF Reached
  <2>3. Reached' = Reached \cup new
    BY <2>1, <2>2 DEF Reached
  <2> QED  BY <2>3, <1>2 DEF Nodes, root
<1>6. new \subseteq Origins(Turned(ever), root)
  <2>1. d \in Origins(Turned(ever), root)
    BY <1>3 DEF WalkInv, Reached, root
  <2>2. Turned(lineage) \subseteq Turned(ever)
    BY <1>1, TurnedFacts
  <2> QED  BY <2>1, <2>2, OriginsClosed DEF new
<1>7. new \subseteq Lineal(ever)
  <2>1. Origins(Turned(ever), reader.root) \subseteq Lineal(ever)
    BY <1>3, TurnedIsLineal DEF WalkInv
  <2> QED  BY <1>6, <2>1 DEF root
<1>8. ASSUME NEW e \in Turned(stood), e[2] \in reader.visited \cup {d}
      PROVE  e[1] \in Reached \cup new
  <2>1. e = <<e[1], e[2]>> /\ e[1] \in Linked /\ e \in Turned(lineage)
    <3>1. Turned(stood) \subseteq Turned(lineage) /\ Turned(lineage) \subseteq Edges
      BY <1>1, TurnedFacts
    <3> QED  BY <3>1, EdgeFacts
  <2>2. CASE e[2] = d
    BY <2>1, <2>2 DEF Reached, new
  <2>3. CASE e[2] # d
    BY <2>3, <1>3, <1>8 DEF WalkInv
  <2> QED  BY <2>2, <2>3
<1>9. WalkInv'
  <2>1. Turned(ever)' = Turned(ever) /\ Turned(stood)' = Turned(stood) /\ Lineal(ever)' = Lineal(ever)
    BY <1>1, <1>2 DEF Turned, Lineal, root
  <2> QED  BY <1>1, <1>2, <1>3, <1>4, <1>6, <1>7, <1>8, <2>1 DEF WalkInv, root
<1> QED  BY <1>2, <1>9 DEF ReadInv, CrawlInv, SortInv, LineageIsSound, GraphIsWhole, OrderIsSound

LEMMA WalkIsWhole ==
    ASSUME LineageTypes, WalkInv, reader.pc \in {"up", "down"}, reader.queue = {}
    PROVE  /\ Origins(Turned(stood), reader.root) \subseteq Reached
           /\ \A e \in Turned(stood) : e[2] \in Reached => e[1] \in Reached
<1>1. reader \in Readers
  BY DEF LineageTypes, Unread
<1>2. Reached = reader.visited /\ Reached \in SUBSET Linked
  BY <1>1 DEF Reached, Readers
<1>3. reader.root \in Reached /\ \A e \in Turned(stood) : e[2] \in Reached => e[1] \in Reached
  BY <1>2 DEF WalkInv
<1> QED  BY <1>2, <1>3, OriginsWithin

LEMMA ThenDownstreamStep ==
    ASSUME LineageTypes, ReadInv, ThenDownstream
    PROVE  ReadInv'
<1>1. /\ reader \in Readers /\ stood \subseteq lineage /\ lineage \subseteq ever /\ ever \subseteq Edges
      /\ UNCHANGED <<lineage, stood, ever>>
  BY DEF LineageTypes, ThenDownstream, Resolved, Reads, Unread
<1>2. /\ reader.pc = "up" /\ reader.kind = "both" /\ reader.queue = {}
      /\ reader'.pc = "down" /\ reader'.kind = "both" /\ reader'.root = reader.root
      /\ reader'.batches = reader.batches /\ reader'.visited = {} /\ reader'.queue = {reader.root}
      /\ reader'.nodes = reader.nodes
  BY <1>1 DEF ThenDownstream, Resolved, Reads, Readers
<1>3. WalkInv
  BY DEF ReadInv
<1>4. Origins(stood, reader.root) \subseteq Nodes
  BY <1>2, <1>3, WalkIsWhole DEF WalkInv, Turned
<1>5. Reached' = {reader.root} /\ Nodes' = Nodes /\ reader.root \in Nodes
  BY <1>2 DEF Reached, Nodes
<1>6. reader.root \in Origins(Turned(ever)', reader.root)
  BY <1>1, RootIsOrigin, LinkedAssumption DEF Readers
<1>7. Lineal(ever)' = Lineal(ever)
  BY <1>1, <1>2 DEF Lineal
<1>8. WalkInv'
  BY <1>1, <1>2, <1>3, <1>4, <1>5, <1>6, <1>7 DEF WalkInv
<1> QED  BY <1>2, <1>8 DEF ReadInv, CrawlInv, SortInv, LineageIsSound, GraphIsWhole, OrderIsSound

LEMMA GraphStep ==
    ASSUME LineageTypes, ReadInv, get_lineage_graph
    PROVE  ReadInv'
<1>1. /\ reader \in Readers /\ stood \subseteq lineage /\ lineage \subseteq ever /\ ever \subseteq Edges
      /\ UNCHANGED <<lineage, stood, ever>>
  BY DEF LineageTypes, get_lineage_graph, Resolved, Reads, Unread
<1>2. /\ reader.queue = {} /\ reader'.pc = "done" /\ reader'.kind = reader.kind /\ reader'.root = reader.root
      /\ reader'.nodes = Nodes /\ reader'.edges = {e \in lineage : e[1] \in Nodes /\ e[2] \in Nodes}
      /\ reader.pc \in {"up", "down"} /\ (reader.pc = "up" => reader.kind = "upstream")
  BY <1>1 DEF get_lineage_graph, Resolved, Reads, Readers
<1>3. WalkInv /\ reader.pc \in {"up", "down"}
  BY <1>2 DEF ReadInv
<1>4. reader.kind \in {"upstream", "downstream", "both"}
  BY <1>2, <1>3 DEF WalkInv
<1>5. Nodes \subseteq Lineal(ever) /\ Origins(Turned(stood), reader.root) \subseteq Nodes
  BY <1>2, <1>3, WalkIsWhole DEF WalkInv
<1>6. Lineal(stood) \subseteq Nodes
  <2>1. CASE reader.pc = "up"
    BY <2>1, <1>2, <1>5 DEF Lineal, Turned
  <2>2. CASE reader.pc = "down"
    <3>1. reader.kind \in {"downstream", "both"} /\ reader.root \in Nodes
          /\ (reader.kind = "both" => Origins(stood, reader.root) \subseteq Nodes)
      BY <2>2, <1>3 DEF WalkInv, Nodes
    <3>2. Origins(Converse(stood), reader.root) \subseteq Nodes
      BY <2>2, <1>5 DEF Turned
    <3> QED  BY <3>1, <3>2 DEF Lineal
  <2> QED  BY <2>1, <2>2, <1>3
<1>7. Lineal(stood)' = Lineal(stood) /\ Lineal(ever)' = Lineal(ever)
  BY <1>1, <1>2 DEF Lineal
<1>8. {e \in stood : {e[1], e[2]} \subseteq reader'.nodes} \subseteq reader'.edges /\ reader'.edges \subseteq ever
  BY <1>1, <1>2
<1>9. GraphIsWhole'
  BY <1>1, <1>2, <1>5, <1>6, <1>7, <1>8 DEF GraphIsWhole
<1>10. OrderIsSound'
  BY <1>2, <1>4 DEF OrderIsSound
<1> QED  BY <1>2, <1>9, <1>10 DEF ReadInv, WalkInv, CrawlInv, SortInv, LineageIsSound

LEMMA OrderStep ==
    ASSUME LineageTypes, ReadInv, resolver_get_execution_order
    PROVE  ReadInv'
<1>1. /\ reader \in Readers /\ stood \subseteq lineage /\ lineage \subseteq ever /\ ever \subseteq Edges
      /\ UNCHANGED <<lineage, stood, ever>>
  BY DEF LineageTypes, resolver_get_execution_order, Resolved, Reads, Unread
<1>2. /\ reader.queue = {} /\ reader.pc = "up" /\ reader.kind = "order"
      /\ reader'.pc = "sort" /\ reader'.kind = "order" /\ reader'.root = reader.root
      /\ reader'.nodes = Nodes /\ reader'.edges = {e \in lineage : e[2] \in Nodes}
      /\ reader'.batches = reader.batches
  BY <1>1 DEF resolver_get_execution_order, Resolved, Reads, Readers
<1>3. WalkInv
  BY DEF ReadInv
<1>4. Nodes = Reached /\ reader.root \in Nodes /\ reader.batches = <<>> /\ Nodes \subseteq Lineal(ever)
  BY <1>2, <1>3 DEF WalkInv
<1>5. \A e \in stood : e[2] \in Nodes => e[1] \in Nodes
  BY <1>2, <1>3, <1>4, WalkIsWhole DEF Turned
<1>6. Nodes \subseteq Origins(ever, reader.root)
  BY <1>2, <1>4 DEF Lineal
<1>7. SortInv'
  <2>1. Placing'
    BY <1>2, <1>4 DEF Placing
  <2> QED  BY <1>1, <1>2, <1>4, <1>5, <1>6, <2>1 DEF SortInv
<1> QED  BY <1>2, <1>7 DEF ReadInv, WalkInv, CrawlInv, LineageIsSound, GraphIsWhole, OrderIsSound

(* ----- batch after batch ----- *)
LEMMA PlacedFacts ==
    ASSUME reader \in Readers
    PROVE  /\ Len(reader.batches) \in Nat /\ DOMAIN reader.batches = 1..Len(reader.batches)
           /\ \A d : d \in Placed <=> \E n \in 1..Len(reader.batches) : d \in reader.batches[n]
<1>1. reader.batches \in Seq(SUBSET Linked)
  BY DEF Readers
<1> QED  BY <1>1 DEF Placed

LEMMA SortEnds ==
    ASSUME reader \in Readers, SortInv, reader.pc = "sort", Placed = reader.nodes,
           reader' = [reader EXCEPT !.pc = "done"], UNCHANGED <<lineage, stood, ever>>,
           stood \subseteq ever, ever \subseteq Edges
    PROVE  LineageIsSound'
<1>1. /\ reader'.pc = "done" /\ reader'.kind = reader.kind /\ reader'.root = reader.root
      /\ reader'.nodes = reader.nodes /\ reader'.edges = reader.edges /\ reader'.batches = reader.batches
  BY DEF Readers
<1>2. /\ reader.kind \in {"order", "graph"} /\ reader.root \in reader.nodes /\ reader.nodes \in SUBSET Linked
      /\ reader.nodes \subseteq Origins(ever, reader.root) /\ reader.edges \subseteq ever /\ Placing
      /\ Shallow => \A e \in stood : e[2] \in reader.nodes => e \in reader.edges /\ e[1] \in reader.nodes
  BY DEF SortInv, Readers
<1>3. Shallow' = Shallow /\ Lineal(stood)' = Origins(stood, reader.root) /\ Lineal(ever)' = Origins(ever, reader.root)
  BY <1>1, <1>2 DEF Shallow, IsPath, Lineal
<1>4. Shallow => Origins(stood, reader.root) \subseteq reader.nodes
  BY <1>2, OriginsWithin
<1>5. GraphIsWhole'
  BY <1>1, <1>2, <1>3, <1>4 DEF GraphIsWhole
<1>6. ASSUME NEW d \in reader.nodes
      PROVE  Cardinality({n \in DOMAIN reader.batches : d \in reader.batches[n]}) = 1
  <2>1. PICK k \in 1..Len(reader.batches) : d \in reader.batches[k]
    BY PlacedFacts
  <2>2. {n \in DOMAIN reader.batches : d \in reader.batches[n]} = {k}
    BY <2>1, <1>2, PlacedFacts DEF Placing
  <2> QED  BY <2>2, FS_Singleton
<1>7. ASSUME Shallow, NEW e \in stood, NEW n \in DOMAIN reader.batches, e[2] \in reader.batches[n]
      PROVE  \E k \in 1..(n - 1) : e[1] \in reader.batches[k]
  <2>1. n \in 1..Len(reader.batches) /\ e[2] \in reader.nodes
    BY <1>7, <1>2, PlacedFacts DEF Placing
  <2>2. e \in reader.edges
    BY <1>7, <1>2, <2>1
  <2> QED  BY <1>7, <1>2, <2>1, <2>2 DEF Placing
<1>8. OrderIsSound'
  BY <1>1, <1>3, <1>6, <1>7 DEF OrderIsSound
<1> QED  BY <1>5, <1>8 DEF LineageIsSound

LEMMA SortRefuses ==
    ASSUME reader \in Readers, SortInv, reader.pc = "sort", Placed # reader.nodes,
           {d \in reader.nodes \ Placed : Ready(Needed(d), Placed)} = {},
           reader' = [reader EXCEPT !.pc = "refused"], UNCHANGED <<lineage, stood, ever>>,
           stood \subseteq ever, ever \subseteq Edges
    PROVE  LineageIsSound'
<1> DEFINE R == reader.nodes \ Placed
<1>1. reader'.pc = "refused" /\ reader'.kind = reader.kind /\ reader'.root = reader.root
  BY DEF Readers
<1>2. /\ reader.kind \in {"order", "graph"} /\ reader.nodes \in SUBSET Linked
      /\ reader.nodes \subseteq Origins(ever, reader.root) /\ reader.edges \subseteq ever /\ Placing
      /\ reader.kind = "graph" \/ stood = ever => \A e \in reader.edges : e[1] \in reader.nodes
  BY DEF SortInv, Readers
<1>3. R \in SUBSET Linked /\ R # {}
  <2>1. Placed \subseteq reader.nodes
    BY <1>2, PlacedFacts DEF Placing
  <2> QED  BY <1>2, <2>1
<1>4. \A d \in R : \E e \in reader.edges : e[2] = d /\ e[1] \notin Placed
  BY DEF Ready, AllEarlier, Needed
<1>5. CASE reader.kind = "graph" \/ stood = ever
  <2>1. \A d \in R : \E u \in R : <<u, d>> \in ever
    <3> SUFFICES ASSUME NEW d \in R PROVE \E u \in R : <<u, d>> \in ever
      OBVIOUS
    <3>1. PICK e \in reader.edges : e[2] = d /\ e[1] \notin Placed
      BY <1>4
    <3>2. e = <<e[1], d>> /\ e \in ever /\ e[1] \in R
      BY <3>1, <1>2, <1>5, EdgeFacts
    <3> QED  BY <3>2
  <2>2. \E d \in R : d \in Ancestors(ever, d)
    BY <1>3, <2>1, NeedsCycle
  <2> QED  BY <2>2, <1>1, <1>2 DEF LineageIsSound, GraphIsWhole, OrderIsSound
<1>6. CASE reader.kind = "order" /\ stood # ever
  BY <1>6, <1>1 DEF LineageIsSound, GraphIsWhole, OrderIsSound
<1> QED  BY <1>2, <1>5, <1>6

LEMMA PlacingGrows ==
    ASSUME reader \in Readers, Placing, NEW batch, batch = {d \in reader.nodes \ Placed : Ready(Needed(d), Placed)},
           reader' = [reader EXCEPT !.batches = Append(@, batch)]
    PROVE  Placing'
<1> DEFINE L == Len(reader.batches)
<1>1. reader.batches \in Seq(SUBSET Linked) /\ batch \in SUBSET Linked
  BY DEF Readers
<1>2. reader'.batches = Append(reader.batches, batch) /\ reader'.nodes = reader.nodes /\ reader'.edges = reader.edges
  BY DEF Readers
<1>3. /\ L \in Nat /\ Len(reader'.batches) = L + 1 /\ reader'.batches[L + 1] = batch
      /\ \A n \in 1..L : reader'.batches[n] = reader.batches[n]
  BY <1>1, <1>2, AppendFacts
<1>4. \A n \in 1..L : batch \cap reader.batches[n] = {}
  BY PlacedFacts
<1>5. batch \subseteq reader.nodes
  OBVIOUS
<1>6. ASSUME NEW e \in reader.edges, e[2] \in batch PROVE \E k \in 1..L : e[1] \in reader.batches[k]
  <2>1. e[1] \in Needed(e[2]) /\ Needed(e[2]) \subseteq Placed
    BY <1>6 DEF Needed, Ready, AllEarlier
  <2> QED  BY <2>1, PlacedFacts
<1> HIDE DEF L
<1>7. \A n \in 1..(L + 1) : reader'.batches[n] \subseteq reader'.nodes
  <2> SUFFICES ASSUME NEW n \in 1..(L + 1) PROVE reader'.batches[n] \subseteq reader'.nodes
    OBVIOUS
  <2>1. CASE n = L + 1
    BY <2>1, <1>2, <1>3, <1>5
  <2>2. CASE n \in 1..L
    BY <2>2, <1>2, <1>3 DEF Placing, L
  <2> QED  BY <2>1, <2>2, <1>3
<1>8. \A n, k \in 1..(L + 1) : n # k => reader'.batches[n] \cap reader'.batches[k] = {}
  <2> SUFFICES ASSUME NEW n \in 1..(L + 1), NEW k \in 1..(L + 1), n # k
               PROVE  reader'.batches[n] \cap reader'.batches[k] = {}
    OBVIOUS
  <2>1. CASE n \in 1..L /\ k \in 1..L
    BY <2>1, <1>3 DEF Placing, L
  <2>2. CASE n = L + 1 /\ k \in 1..L
    BY <2>2, <1>3, <1>4
  <2>3. CASE n \in 1..L /\ k = L + 1
    BY <2>3, <1>3, <1>4
  <2> QED  BY <2>1, <2>2, <2>3, <1>3
<1>9. \A n \in 1..(L + 1), e \in reader.edges :
         e[2] \in reader'.batches[n] => \E k \in 1..(n - 1) : e[1] \in reader'.batches[k]
  <2> SUFFICES ASSUME NEW n \in 1..(L + 1), NEW e \in reader.edges, e[2] \in reader'.batches[n]
               PROVE  \E k \in 1..(n - 1) : e[1] \in reader'.batches[k]
    OBVIOUS
  <2>1. CASE n = L + 1
    <3>1. PICK k \in 1..L : e[1] \in reader.batches[k]
      BY <2>1, <1>3, <1>6
    <3> QED  BY <3>1, <2>1, <1>3
  <2>2. CASE n \in 1..L
    <3>1. PICK k \in 1..(n - 1) : e[1] \in reader.batches[k]
      BY <2>2, <1>3 DEF Placing, L
    <3>2. k \in 1..L
      BY <2>2, <1>3
    <3>3. e[1] \in reader'.batches[k]
      BY <3>1, <3>2, <1>3
    <3> QED  BY <3>1, <3>3
  <2>3. n = L + 1 \/ n \in 1..L
    BY <1>3
  <2> QED  BY <2>1, <2>2, <2>3
<1>10. Len(reader'.batches) = L + 1 /\ reader'.edges = reader.edges
  BY <1>2, <1>3
<1> QED  BY <1>7, <1>8, <1>9, <1>10 DEF Placing

LEMMA BatchStep ==
    ASSUME LineageTypes, ReadInv, NEW kind, NextBatch(kind)
    PROVE  ReadInv'
<1> DEFINE batch == {d \in reader.nodes \ Placed : Ready(Needed(d), Placed)}
<1>1. /\ reader \in Readers /\ stood \subseteq ever /\ ever \subseteq Edges /\ reader.pc = "sort"
      /\ UNCHANGED <<lineage, stood, ever>>
  BY DEF LineageTypes, NextBatch, Reads, Unread
<1>2. SortInv
  BY DEF ReadInv
<1>3. CASE Placed = reader.nodes
  <2>1. reader' = [reader EXCEPT !.pc = "done"]
    BY <1>3 DEF NextBatch, Reads
  <2>2. reader'.pc = "done"
    BY <2>1, <1>1 DEF Readers
  <2>3. LineageIsSound'
    BY <1>1, <1>2, <1>3, <2>1, SortEnds
  <2> QED  BY <2>2, <2>3 DEF ReadInv, WalkInv, CrawlInv, SortInv
<1>4. CASE Placed # reader.nodes /\ batch = {}
  <2>1. reader' = [reader EXCEPT !.pc = "refused"]
    BY <1>4 DEF NextBatch, Reads
  <2>2. reader'.pc = "refused"
    BY <2>1, <1>1 DEF Readers
  <2>3. LineageIsSound'
    BY <1>1, <1>2, <1>4, <2>1, SortRefuses
  <2> QED  BY <2>2, <2>3 DEF ReadInv, WalkInv, CrawlInv, SortInv
<1>5. CASE Placed # reader.nodes /\ batch # {}
  <2>1. reader' = [reader EXCEPT !.batches = Append(@, batch)]
    BY <1>5 DEF NextBatch, Reads
  <2>2. Placing'
    BY <1>1, <1>2, <2>1, PlacingGrows DEF SortInv
  <2> HIDE DEF batch
  <2>3. /\ reader'.pc = "sort" /\ reader'.kind = reader.kind /\ reader'.root = reader.root
        /\ reader'.nodes = reader.nodes /\ reader'.edges = reader.edges
    BY <2>1, <1>1 DEF Readers
  <2>4. Shallow' = Shallow
    BY <2>3, <1>1 DEF Shallow, IsPath
  <2>5. SortInv'
    BY <1>1, <1>2, <2>2, <2>3, <2>4 DEF SortInv
  <2> QED  BY <2>3, <2>5 DEF ReadInv, WalkInv, CrawlInv, LineageIsSound, GraphIsWhole, OrderIsSound
<1> QED  BY <1>3, <1>4, <1>5

(* ----- the crawl ----- *)
(* A dataset is too deep only at the end of a path that is too long.       *)
LEMMA DeepPath ==
    ASSUME reader \in Readers, StackInv, reader.stack # <<>>, NEW u \in Top.rest, u \in Linked,
           TooDeep(Len(reader.stack)), reader.kind = "graph"
    PROVE  ~Shallow
<1> DEFINE L == Len(reader.stack)
           n == max_depth + 1
           path == [k \in 0..n |-> IF k < L THEN reader.stack[k + 1].at ELSE u]
<1>1. /\ L \in Nat \ {0} /\ n \in Nat \ {0} /\ n <= L /\ reader.stack \in Seq(Frames)
      /\ \A k \in 1..L : reader.stack[k] \in Frames
  BY LinkedAssumption DEF TooDeep, Readers
<1>2. path \in [0..n -> Linked]
  <2> SUFFICES ASSUME NEW k \in 0..n PROVE path[k] \in Linked
    OBVIOUS
  <2>1. CASE k < L
    <3>1. k + 1 \in 1..L
      BY <2>1, <1>1
    <3> QED  BY <3>1, <2>1, <1>1 DEF Frames
  <2>2. CASE ~(k < L)
    BY <2>2
  <2> QED  BY <2>1, <2>2
<1>3. path[0] = reader.root
  <2>1. 0 \in 0..n /\ 0 < L /\ 0 + 1 = 1 /\ 1 \in 1..L
    BY <1>1
  <2>2. path[0] = reader.stack[1].at
    BY <2>1
  <2> QED  BY <2>1, <2>2 DEF StackInv
<1>4. ASSUME NEW k \in 1..n PROVE <<path[k], path[k - 1]>> \in ever
  <2>0. k - 1 \in 0..n /\ k \in 0..n /\ k - 1 < L /\ path[k - 1] = reader.stack[k].at /\ k \in 1..L
    BY <1>1
  <2>1. CASE k < L
    <3>1. k + 1 \in 1..L /\ k + 1 > 1 /\ path[k] = reader.stack[k + 1].at /\ (k + 1) - 1 = k
      BY <2>0, <2>1, <1>1
    <3> QED  BY <3>1, <2>0 DEF StackInv
  <2>2. CASE k = L
    <3>1. path[k] = u /\ reader.stack[k] = Top
      BY <2>0, <2>2 DEF Top
    <3> QED  BY <3>1, <2>0 DEF StackInv
  <2> QED  BY <2>0, <2>1, <2>2, <1>1
<1> HIDE DEF path
<1> QED  BY <1>2, <1>3, <1>4 DEF Shallow, IsPath

LEMMA StackFacts ==
    ASSUME reader \in Readers, reader.stack # <<>>
    PROVE  /\ reader.stack \in Seq(Frames) /\ Top \in Frames /\ Below \in Seq(Frames)
           /\ Len(reader.stack) \in Nat \ {0} /\ Len(Below) = Len(reader.stack) - 1
           /\ Top = reader.stack[Len(reader.stack)]
           /\ \A k \in 1..(Len(reader.stack) - 1) : Below[k] = reader.stack[k]
<1>1. reader.stack \in Seq(Frames)
  BY DEF Readers
<1> QED  BY <1>1 DEF Top, Below

LEMMA CrawlRootStep ==
    ASSUME LineageTypes, ReadInv, crawl_root
    PROVE  ReadInv'
<1>1. /\ reader \in Readers /\ stood \subseteq lineage /\ lineage \subseteq ever /\ ever \subseteq Edges
      /\ UNCHANGED <<lineage, stood, ever>> /\ reader.pc = "crawl" /\ reader.visited = {}
  BY DEF LineageTypes, crawl_root, Reads, Unread
<1>2. /\ reader'.pc = "crawl" /\ reader'.kind = reader.kind /\ reader'.root = reader.root
      /\ reader'.batches = reader.batches /\ reader'.edges = reader.edges
      /\ reader'.visited = {reader.root} /\ reader'.nodes = {reader.root}
      /\ reader'.stack = <<Frame(reader.root)>>
  BY <1>1 DEF crawl_root, Reads, Readers
<1>3. CrawlInv /\ reader.edges = {}
  BY <1>1 DEF ReadInv, CrawlInv
<1>4. /\ Len(reader'.stack) = 1 /\ reader'.stack[1].at = reader.root
      /\ reader'.stack[1].rest = {u \in Linked : <<u, reader.root>> \in lineage}
  BY <1>2 DEF Frame, Upstreams
<1>5. StackInv'
  BY <1>1, <1>2, <1>4 DEF StackInv
<1>6. \A e \in stood : e[2] = reader.root => Pending(e)'
  <2> SUFFICES ASSUME NEW e \in stood, e[2] = reader.root PROVE Pending(e)'
    OBVIOUS
  <2>1. e = <<e[1], e[2]>> /\ e[1] \in Linked /\ e \in lineage
    BY <1>1, EdgeFacts
  <2> QED  BY <2>1, <1>4 DEF Pending
<1>7. reader.root \in Origins(ever, reader.root)
  BY <1>1, RootIsOrigin, LinkedAssumption DEF Readers
<1>8. CrawlInv'
  BY <1>1, <1>2, <1>3, <1>5, <1>6, <1>7 DEF CrawlInv
<1> QED  BY <1>2, <1>8 DEF ReadInv, WalkInv, SortInv, LineageIsSound, GraphIsWhole, OrderIsSound

LEMMA CrawlStep ==
    ASSUME LineageTypes, ReadInv, NEW u \in Linked, crawl(u)
    PROVE  ReadInv'
<1> DEFINE L == Len(reader.stack)
<1>1. /\ reader \in Readers /\ stood \subseteq lineage /\ lineage \subseteq ever /\ ever \subseteq Edges
      /\ UNCHANGED <<lineage, elsewhere, stood, ever>> /\ reader.pc = "crawl" /\ reader.stack # <<>>
      /\ u \in Top.rest
  BY DEF LineageTypes, crawl, Reads, Unread
<1>2. CrawlInv
  BY DEF ReadInv
<1>3. L \in Nat \ {0} /\ Top = reader.stack[L] /\ Top \in Frames
  BY <1>1, StackFacts
<1>4. <<u, Top.at>> \in ever /\ Top.at \in reader.visited
  <2>1. L \in 1..L /\ StackInv
    BY <1>1, <1>2, <1>3 DEF CrawlInv
  <2> QED  BY <2>1, <1>1, <1>3 DEF StackInv
<1>5. u \in Origins(ever, reader.root)
  BY <1>1, <1>2, <1>4, OriginsClosed DEF CrawlInv
<1>6. CASE u \in elsewhere
  <2>1. reader' = [reader EXCEPT !.pc = "refused"]
    BY <1>6 DEF crawl, Reads
  <2>2. reader'.pc = "refused" /\ reader'.kind = reader.kind /\ reader'.root = reader.root
    BY <1>1, <2>1 DEF Readers
  <2>3. reader.kind = "graph"
    BY <1>1, <1>2 DEF CrawlInv
  <2>4. LineageIsSound'
    BY <1>1, <1>5, <1>6, <2>2, <2>3 DEF LineageIsSound, GraphIsWhole, OrderIsSound
  <2> QED  BY <2>2, <2>4 DEF ReadInv, WalkInv, CrawlInv, SortInv
<1>7. CASE u \notin elsewhere
  <2>1. /\ reader'.pc = "crawl" /\ reader'.kind = reader.kind /\ reader'.root = reader.root
        /\ reader'.batches = reader.batches /\ reader'.edges = reader.edges
        /\ reader'.visited = reader.visited \cup {u} /\ reader'.nodes = reader.nodes \cup {u}
        /\ reader'.stack = Append(reader.stack, Frame(u))
    BY <1>1, <1>7 DEF crawl, Reads, Readers
  <2>2. Frame(u) \in Frames
    BY DEF Frame, Frames, Upstreams
  <2>3. /\ Len(reader'.stack) = L + 1 /\ reader'.stack[L + 1] = Frame(u)
        /\ \A k \in 1..L : reader'.stack[k] = reader.stack[k]
    BY <2>1, <2>2, <1>1, StackFacts, AppendFacts
  <2>4. Frame(u).at = u /\ Frame(u).rest = {w \in Linked : <<w, u>> \in lineage}
    BY DEF Frame, Upstreams
  <2> HIDE DEF L
  <2>5. StackInv'
    <3> SUFFICES ASSUME NEW k \in 1..(L + 1)
                 PROVE  /\ reader'.stack[k].at \in reader'.visited
                        /\ \A w \in reader'.stack[k].rest : <<w, reader'.stack[k].at>> \in ever
                        /\ k = 1 => reader'.stack[k].at = reader.root
                        /\ k > 1 => <<reader'.stack[k].at, reader'.stack[k - 1].at>> \in ever
      BY <1>1, <2>1, <2>3 DEF StackInv
    <3>1. CASE k \in 1..L
      <4>1. k > 1 => k - 1 \in 1..L
        BY <3>1, <1>3
      <4> QED  BY <3>1, <4>1, <2>1, <2>3, <1>1, <1>2 DEF CrawlInv, StackInv, L
    <3>2. CASE k = L + 1
      <4>1. k > 1 /\ k - 1 = L /\ L \in 1..L
        BY <3>2, <1>3
      <4>2. reader'.stack[k] = Frame(u) /\ reader'.stack[k - 1] = Top
        BY <3>2, <4>1, <2>3, <1>3
      <4>3. /\ reader'.stack[k].at = u /\ reader'.stack[k - 1].at = Top.at
            /\ reader'.stack[k].rest = {w \in Linked : <<w, u>> \in lineage}
        BY <4>2, <2>4
      <4> QED  BY <4>1, <4>3, <2>1, <1>1, <1>4
    <3> QED  BY <3>1, <3>2, <1>3
  <2>6. \A e : Pending(e) => Pending(e)'
    <3> SUFFICES ASSUME NEW e, Pending(e) PROVE Pending(e)'
      OBVIOUS
    <3>1. PICK k \in 1..L : reader.stack[k].at = e[2] /\ e[1] \in reader.stack[k].rest
      BY DEF Pending, L
    <3>2. k \in 1..(L + 1)
      BY <1>3
    <3> QED  BY <3>1, <3>2, <2>3 DEF Pending
  <2>7. \A e \in stood : e[2] = u => Pending(e)'
    <3> SUFFICES ASSUME NEW e \in stood, e[2] = u PROVE Pending(e)'
      OBVIOUS
    <3>1. e = <<e[1], e[2]>> /\ e[1] \in Linked /\ e \in lineage
      BY <1>1, EdgeFacts
    <3>2. L + 1 \in 1..(L + 1)
      BY <1>3
    <3> QED  BY <3>1, <3>2, <2>3, <2>4 DEF Pending
  <2>8. Shallow' = Shallow
    BY <2>1, <1>1 DEF Shallow, IsPath
  <2>9. CrawlInv'
    <3>1. /\ reader.kind = "graph" /\ reader.batches = <<>> /\ reader.nodes = reader.visited
          /\ reader.visited # {} => reader.root \in reader.visited
          /\ reader.visited \subseteq Origins(ever, reader.root)
          /\ \A e \in reader.edges : e \in ever /\ e[1] \in reader.visited /\ e[2] \in reader.visited
          /\ Shallow => \A e \in stood : e[2] \in reader.visited => e \in reader.edges \/ Pending(e)
      BY <1>1, <1>2 DEF CrawlInv
    <3>2. reader.root \in reader.visited
      BY <3>1, <1>4
    <3> QED  BY <3>1, <3>2, <1>1, <1>5, <2>1, <2>5, <2>6, <2>7, <2>8 DEF CrawlInv
  <2> QED  BY <2>1, <2>9 DEF ReadInv, WalkInv, SortInv, LineageIsSound, GraphIsWhole, OrderIsSound
<1> QED  BY <1>6, <1>7

LEMMA SkipStep ==
    ASSUME LineageTypes, ReadInv, NEW u \in Linked, skip_crawl(u)
    PROVE  ReadInv'
<1> DEFINE L == Len(reader.stack)
           frame == [Top EXCEPT !.rest = @ \ {u}]
<1>1. /\ reader \in Readers /\ stood \subseteq lineage /\ lineage \subseteq ever /\ ever \subseteq Edges
      /\ UNCHANGED <<lineage, elsewhere, stood, ever>> /\ reader.pc = "crawl" /\ reader.stack # <<>>
      /\ u \in Top.rest /\ (u \in reader.visited \/ TooDeep(L))
  BY DEF LineageTypes, skip_crawl, Reads, Unread
<1>2. CrawlInv
  BY DEF ReadInv
<1>3. /\ L \in Nat \ {0} /\ Top = reader.stack[L] /\ Top \in Frames /\ Below \in Seq(Frames) /\ Len(Below) = L - 1
      /\ \A k \in 1..(L - 1) : Below[k] = reader.stack[k]
  BY <1>1, StackFacts
<1>4. <<u, Top.at>> \in ever /\ Top.at \in reader.visited
  <2>1. L \in 1..L /\ StackInv
    BY <1>1, <1>2, <1>3 DEF CrawlInv
  <2> QED  BY <2>1, <1>1, <1>3 DEF StackInv
<1>5. frame \in Frames /\ frame.at = Top.at /\ frame.rest = Top.rest \ {u}
  BY <1>3 DEF Frames
<1>6. /\ reader'.pc = "crawl" /\ reader'.kind = reader.kind /\ reader'.root = reader.root
      /\ reader'.batches = reader.batches /\ reader'.visited = reader.visited /\ reader'.nodes = reader.nodes
      /\ reader'.edges = (IF u \in reader.visited THEN reader.edges \cup {<<u, Top.at>>} ELSE reader.edges)
      /\ reader'.stack = Append(Below, frame)
  BY <1>1 DEF skip_crawl, Reads, Readers
<1> HIDE DEF frame
<1>7. /\ Len(reader'.stack) = L /\ reader'.stack[L] = frame
      /\ \A k \in 1..(L - 1) : reader'.stack[k] = reader.stack[k]
  <2>1. /\ Len(Append(Below, frame)) = (L - 1) + 1 /\ Append(Below, frame)[(L - 1) + 1] = frame
        /\ \A k \in 1..(L - 1) : Append(Below, frame)[k] = Below[k]
    BY <1>3, <1>5, AppendFacts
  <2>2. (L - 1) + 1 = L
    BY <1>3
  <2> QED  BY <2>1, <2>2, <1>3, <1>6
<1> HIDE DEF L
<1>8. /\ \A k \in 1..L : reader'.stack[k].at = reader.stack[k].at
      /\ \A k \in 1..L : reader'.stack[k].rest = IF k = L THEN reader.stack[k].rest \ {u} ELSE reader.stack[k].rest
  <2>1. \A k \in 1..L : k = L \/ k \in 1..(L - 1)
    BY <1>3
  <2> QED  BY <2>1, <1>3, <1>5, <1>7
<1>9. StackInv'
  <2> SUFFICES ASSUME NEW k \in 1..L
               PROVE  /\ reader'.stack[k].at \in reader'.visited
                      /\ \A w \in reader'.stack[k].rest : <<w, reader'.stack[k].at>> \in ever
                      /\ k = 1 => reader'.stack[k].at = reader.root
                      /\ k > 1 => <<reader'.stack[k].at, reader'.stack[k - 1].at>> \in ever
    BY <1>1, <1>6, <1>7 DEF StackInv
  <2>1. k > 1 => k - 1 \in 1..L
    BY <1>3
  <2>2. StackInv
    BY <1>1, <1>2 DEF CrawlInv
  <2> QED  BY <2>1, <2>2, <1>6, <1>8 DEF StackInv, L
<1>10. Shallow' = Shallow
  BY <1>1, <1>6 DEF Shallow, IsPath
<1>11. ASSUME Shallow, NEW e \in stood, Pending(e) PROVE e \in reader'.edges \/ Pending(e)'
  <2>1. PICK k \in 1..L : reader.stack[k].at = e[2] /\ e[1] \in reader.stack[k].rest
    BY <1>11 DEF Pending, L
  <2>2. CASE k = L /\ e[1] = u
    <3>1. e = <<u, Top.at>>
      BY <2>1, <2>2, <1>1, <1>3, EdgeFacts
    <3>2. u \in reader.visited
      <4>1. reader.kind = "graph" /\ StackInv
        BY <1>1, <1>2 DEF CrawlInv
      <4> QED  BY <4>1, <1>1, <1>11, DeepPath DEF L
    <3> QED  BY <3>1, <3>2, <1>6
  <2>3. CASE ~(k = L /\ e[1] = u)
    <3>1. reader'.stack[k].at = e[2] /\ e[1] \in reader'.stack[k].rest
      BY <2>1, <2>3, <1>8
    <3> QED  BY <3>1, <1>7 DEF Pending
  <2> QED  BY <2>2, <2>3
<1>12. CrawlInv'
  <2>1. /\ reader.kind = "graph" /\ reader.batches = <<>> /\ reader.nodes = reader.visited
        /\ reader.visited # {} => reader.root \in reader.visited
        /\ reader.visited \subseteq Origins(ever, reader.root)
        /\ \A e \in reader.edges : e \in ever /\ e[1] \in reader.visited /\ e[2] \in reader.visited
        /\ Shallow => \A e \in stood : e[2] \in reader.visited => e \in reader.edges \/ Pending(e)
    BY <1>1, <1>2 DEF CrawlInv
  <2>2. \A e \in reader'.edges : e \in ever /\ e[1] \in reader.visited /\ e[2] \in reader.visited
    BY <2>1, <1>4, <1>6
  <2>3. reader.edges \subseteq reader'.edges
    BY <1>6
  <2> QED  BY <2>1, <2>2, <2>3, <1>1, <1>4, <1>6, <1>9, <1>10, <1>11 DEF CrawlInv
<1> QED  BY <1>6, <1>12 DEF ReadInv, WalkInv, SortInv, LineageIsSound, GraphIsWhole, OrderIsSound

LEMMA ReturnStep ==
    ASSUME LineageTypes, ReadInv, crawl_returns
    PROVE  ReadInv'
<1> DEFINE L == Len(reader.stack)
<1>1. /\ reader \in Readers /\ stood \subseteq lineage /\ lineage \subseteq ever /\ ever \subseteq Edges
      /\ UNCHANGED <<lineage, elsewhere, stood, ever>> /\ reader.pc = "crawl" /\ reader.stack # <<>>
      /\ Top.rest = {}
  BY DEF LineageTypes, crawl_returns, Reads, Unread
<1>2. CrawlInv
  BY DEF ReadInv
<1>3. /\ L \in Nat \ {0} /\ Top = reader.stack[L] /\ Below \in Seq(Frames) /\ Len(Below) = L - 1
      /\ \A k \in 1..(L - 1) : Below[k] = reader.stack[k]
  BY <1>1, StackFacts
<1>4. /\ reader'.pc = (IF Below = <<>> THEN "sort" ELSE "crawl") /\ reader'.stack = Below
      /\ reader'.kind = reader.kind /\ reader'.root = reader.root
      /\ reader'.batches = reader.batches /\ reader'.visited = reader.visited /\ reader'.nodes = reader.nodes
      /\ reader'.edges = reader.edges
  BY <1>1 DEF crawl_returns, Reads, Readers
<1> HIDE DEF L
<1>5. /\ reader.kind = "graph" /\ reader.batches = <<>> /\ reader.nodes = reader.visited
      /\ reader.root \in reader.visited
      /\ reader.visited \subseteq Origins(ever, reader.root) /\ StackInv
      /\ \A e \in reader.edges : e \in ever /\ e[1] \in reader.visited /\ e[2] \in reader.visited
      /\ Shallow => \A e \in stood : e[2] \in reader.visited => e \in reader.edges \/ Pending(e)
  BY <1>1, <1>2 DEF CrawlInv
<1>6. Shallow' = Shallow
  BY <1>1, <1>4 DEF Shallow, IsPath
<1>7. \A e : Pending(e) => \E k \in 1..(L - 1) : Below[k].at = e[2] /\ e[1] \in Below[k].rest
  <2> SUFFICES ASSUME NEW e, Pending(e)
               PROVE  \E k \in 1..(L - 1) : Below[k].at = e[2] /\ e[1] \in Below[k].rest
    OBVIOUS
  <2>1. PICK k \in 1..L : reader.stack[k].at = e[2] /\ e[1] \in reader.stack[k].rest
    BY DEF Pending, L
  <2>2. k # L
    BY <2>1, <1>1, <1>3
  <2>3. k \in 1..(L - 1)
    BY <2>2, <1>3
  <2> QED  BY <2>1, <2>3, <1>3
<1>8. CASE Below = <<>>
  <2>1. reader'.pc = "sort"
    BY <1>4, <1>8
  <2>2. L - 1 = 0
    BY <1>3, <1>8
  <2>3. \A e : ~Pending(e)
    BY <1>7, <2>2
  <2>4. Placing'
    BY <1>4, <1>5 DEF Placing
  <2>5. SortInv'
    BY <1>1, <1>4, <1>5, <1>6, <2>3, <2>4 DEF SortInv
  <2> QED  BY <2>1, <2>5 DEF ReadInv, WalkInv, CrawlInv, LineageIsSound, GraphIsWhole, OrderIsSound
<1>9. CASE Below # <<>>
  <2>1. reader'.pc = "crawl"
    BY <1>4, <1>9
  <2>2. StackInv'
    <3> SUFFICES ASSUME NEW k \in 1..(L - 1)
                 PROVE  /\ Below[k].at \in reader.visited
                        /\ \A w \in Below[k].rest : <<w, Below[k].at>> \in ever
                        /\ k = 1 => Below[k].at = reader.root
                        /\ k > 1 => <<Below[k].at, Below[k - 1].at>> \in ever
      BY <1>1, <1>3, <1>4 DEF StackInv
    <3>1. k \in 1..L /\ (k > 1 => k - 1 \in 1..(L - 1))
      BY <1>3
    <3> QED  BY <3>1, <1>3, <1>5 DEF StackInv, L
  <2>3. \A e : Pending(e) => Pending(e)'
    BY <1>3, <1>4, <1>7 DEF Pending
  <2>4. CrawlInv'
    BY <1>1, <1>4, <1>5, <1>6, <2>2, <2>3 DEF CrawlInv
  <2> QED  BY <2>1, <2>4 DEF ReadInv, WalkInv, SortInv, LineageIsSound, GraphIsWhole, OrderIsSound
<1> QED  BY <1>8, <1>9

LEMMA ReadStep == LineageTypes /\ ReadInv /\ [LineageNext]_lineage_vars => ReadInv'
<1> SUFFICES ASSUME LineageTypes, ReadInv, [LineageNext]_lineage_vars PROVE ReadInv'
  OBVIOUS
<1>1. ASSUME NEW u \in Linked, NEW d \in Linked, add_lineage_edge(u, d) \/ remove_lineage_edge(u, d)
      PROVE  ReadInv'
  <2>1. lineage' \subseteq Edges
    BY <1>1 DEF add_lineage_edge, remove_lineage_edge, LineageTypes, Edges
  <2> QED  BY <1>1, <2>1, EditStep DEF add_lineage_edge, remove_lineage_edge
<1>2. ASSUME NEW d \in Linked, resolve_upstream_dependencies(d) PROVE ReadInv'
  <2>1. \A u \in Linked : u \in Upstreams(d) <=> <<u, d>> \in Turned(lineage)
    BY <1>2 DEF resolve_upstream_dependencies, Upstreams, Turned
  <2> QED  BY <1>2, <2>1, FollowStep DEF resolve_upstream_dependencies, Upstreams
<1>3. ASSUME NEW d \in Linked, resolve_downstream_dependencies(d) PROVE ReadInv'
  <2>1. \A u \in Linked : u \in Downstreams(d) <=> <<u, d>> \in Turned(lineage)
    <3>1. reader.pc = "down" /\ lineage \in SUBSET Edges
      BY <1>3 DEF resolve_downstream_dependencies, LineageTypes
    <3> QED  BY <3>1, ConverseFacts DEF Downstreams, Turned
  <2> QED  BY <1>3, <2>1, FollowStep DEF resolve_downstream_dependencies, Downstreams
<1>4. CASE UNCHANGED lineage_vars
  <2>1. UNCHANGED <<lineage, reader, stood, ever, elsewhere>>
    BY <1>4 DEF lineage_vars
  <2>2. /\ Turned(ever)' = Turned(ever) /\ Turned(stood)' = Turned(stood) /\ Reached' = Reached /\ Nodes' = Nodes
        /\ Lineal(ever)' = Lineal(ever) /\ Lineal(stood)' = Lineal(stood) /\ Shallow' = Shallow
        /\ StackInv' = StackInv /\ Placing' = Placing
    BY <2>1 DEF Turned, Reached, Nodes, Lineal, Shallow, IsPath, StackInv, Placing
  <2>3. \A e : Pending(e)' = Pending(e)
    BY <2>1 DEF Pending
  <2> QED
    BY <2>1, <2>2, <2>3 DEF ReadInv, WalkInv, CrawlInv, SortInv, LineageIsSound, GraphIsWhole, OrderIsSound
<1> QED
  BY <1>1, <1>2, <1>3, <1>4, StartStep, ThenDownstreamStep, GraphStep, OrderStep, BatchStep, CrawlRootStep,
     CrawlStep, SkipStep, ReturnStep DEF LineageNext, resolver_batch, graph_get_execution_order

(* What the readers of the lineage answer is right of the edges that stood *)
(* still while they read, for any edges, also with cycles, and any edits.  *)
THEOREM AnswersAreSound == LineageSpec => []LineageIsSound
<1>1. LineageInit => LineageTypes /\ ReadInv
  <2> SUFFICES ASSUME LineageInit PROVE LineageTypes /\ ReadInv
    OBVIOUS
  <2>1. reader.pc = "idle"
    BY DEF LineageInit, Unread
  <2>2. LineageTypes
    BY DEF LineageInit, LineageTypes, Edges
  <2> QED  BY <2>1, <2>2 DEF ReadInv, WalkInv, CrawlInv, SortInv, LineageIsSound, GraphIsWhole, OrderIsSound
<1>2. LineageTypes /\ ReadInv /\ [LineageNext]_lineage_vars => (LineageTypes /\ ReadInv)'
  BY LineageTypeStep, ReadStep
<1>3. ReadInv => LineageIsSound
  BY DEF ReadInv
<1> QED  BY <1>1, <1>2, <1>3, PTL DEF LineageSpec


=============================================================================
