--------------------------- MODULE ServicesProofs ---------------------------
(***************************************************************************)
(* What holds of the requests and of the worker behind them, for any       *)
(* number of packages, processes, people, places and handlers: the upload  *)
(* of definitions, who is told of an activity, and what a request that     *)
(* fails leaves in the database.                                           *)
(***************************************************************************)
EXTENDS Definitions, Watchers, Handlers, FiniteSetTheorems, SequenceTheorems, WellFoundedInduction, TLAPS

-----------------------------------------------------------------------------
(* Every set of numbers has a least one.                                   *)
Less == {ss \in Nat \X Nat : ss[1] < ss[2]}

LEMMA Least ==
    ASSUME NEW S \in SUBSET Nat, S # {}
    PROVE  \E m \in S : \A n \in S : m <= n
<1>1. IsWellFoundedOn(Less, Nat)
  BY NatLessThanWellFounded DEF OpToRel, Less
<1>2. PICK x \in S : \A y \in S : ~(<<y, x>> \in Less)
  BY <1>1, WFMin
<1>3. ASSUME NEW y \in S PROVE x <= y
  <2>1. ~(<<y, x>> \in Less)
    BY <1>2
  <2>2. x \in Nat /\ y \in Nat /\ <<y, x>> \in Nat \X Nat
    OBVIOUS
  <2> QED  BY <2>1, <2>2 DEF Less
<1> QED  BY <1>3

-----------------------------------------------------------------------------
(* Uploaded definitions                                                    *)
Uploads == [op : {"upload"}, def : Definition, proc : Process, holds : {FALSE},
            at : {"skipped", "loaded", "passed", "failed"}]
Deploys == [op : {"deploy"}, def : Definition, proc : Process, holds : {FALSE}, at : {"read", "registered"}]
Reruns == [op : {"rerun"}, def : Definition, proc : Process, holds : {TRUE},
           at : {"running", "passed", "failed"}, seen : {"draft", "active"}]
Category == {Upload[d].category : d \in Definition}
Listings == [op : {"list"}, def : {None}, proc : Process, holds : {FALSE}, at : 0..Len(Upload) \cup {None},
             category : Category, listed : SUBSET Definition, due : SUBSET Definition]

Requested == {Idle} \cup Uploads \cup Deploys \cup Reruns \cup Listings

DefinitionTypes == TypeOK /\ job \in [Client -> Requested]

(* What a request works on was unpacked, or is stored already; what it has *)
(* let through is vouched for before its row says so; and a listing has    *)
(* shown what lies up to its cursor of what stood when it began.           *)
Whole(d) == Upload[d].module \in Unpacked(d) /\ (Upload[d].tests # None => Upload[d].tests \in Unpacked(d))
WorkOK(c) ==
    /\ job[c].op = "upload" => Whole(job[c].def)
    /\ job[c].op \in {"deploy", "rerun"} => row[job[c].def] # None
    /\ job[c].op = "deploy" /\ job[c].at = "registered" => job[c].def \in vouched
    /\ job[c].op = "rerun" /\ job[c].at = "passed" /\ job[c].seen = "draft" => job[c].def \in vouched
    /\ job[c].op = "list" =>
          \A d \in job[c].due : /\ row[d] # None /\ Upload[d].category = job[c].category
                                /\ job[c].at = None \/ d <= job[c].at => d \in job[c].listed
RowOK(d) == row[d] # None => Whole(d) /\ (row[d].status = "active" => d \in vouched)

DefinitionInv ==
    /\ DefinitionTypes
    /\ \A c \in Client : WorkOK(c)
    /\ \A d \in Definition : RowOK(d)
    /\ CodeIsVouchedFor

LEMMA Below ==
    ASSUME NEW base \in Seq(STRING), NEW f \in Seq(STRING)
    PROVE  IsPrefix(base, base \o f) /\ SubSeq(base \o f, Len(base) + 1, Len(base \o f)) = f
<1>1. base \in Seq(STRING) /\ Len(base) \in Nat
  BY LenProperties
<1>2. SubSeq(base \o f, 1, Len(base)) = base
  BY <1>1, SubSeqOfConcat1
<1>3. SubSeq(base \o f, Len(base) + 1, Len(base) + Len(f)) = f
  BY <1>1, SubSeqOfConcat2
<1>4. Len(base \o f) = Len(base) + Len(f) /\ Len(f) \in Nat
  BY <1>1, ConcatProperties, LenProperties
<1> QED  BY <1>1, <1>2, <1>3, <1>4 DEF IsPrefix

LEMMA Unpacking ==
    ASSUME NEW d \in Definition, ValidManifest(Upload[d])
    PROVE  /\ Upload[d].module \in Extracted(Upload[d]) \cup {<<"manifest">>}
           /\ Upload[d].tests # None => Upload[d].tests \in Extracted(Upload[d]) \cup {<<"manifest">>}
<1> DEFINE files == Upload[d].files
<1>1. files \subseteq Seq(STRING) /\ Upload[d].module \in Seq(STRING)
      /\ (Upload[d].tests # None => Upload[d].tests \in Seq(STRING))
  BY DefinitionsAssumption
<1>2. ASSUME NEW f \in Seq(STRING), NEW base \in Bases(files), base \o f \in files
      PROVE  f \in Extracted(Upload[d]) \cup {<<"manifest">>}
  <2>1. base \in Seq(STRING)
    <3>1. \A e \in Directories(files) : e \in STRING
      BY <1>1 DEF Directories
    <3>2. base = <<>> \/ \E e \in Directories(files) : base = <<e>>
      BY <1>2 DEF Bases
    <3>3. CASE base = <<>>
      BY <3>3, EmptySeq
    <3>4. CASE \E e \in Directories(files) : base = <<e>>
      <4>1. PICK e \in STRING : base = <<e>>
        BY <3>1, <3>4
      <4> QED  BY <4>1
    <3> QED  BY <3>2, <3>3, <3>4
  <2>2. IsPrefix(base, base \o f) /\ SubSeq(base \o f, Len(base) + 1, Len(base \o f)) = f
    BY <2>1, Below
  <2>3. f \in {SubSeq(g, Len(base) + 1, Len(g)) : g \in {x \in files : IsPrefix(base, x)}}
    BY <1>2, <2>2
  <2> DEFINE S(b) == {SubSeq(g, Len(b) + 1, Len(g)) : g \in {x \in files : IsPrefix(b, x)}}
  <2>4. f \in S(base)
    BY <2>3
  <2>5. Extracted(Upload[d]) = (UNION {S(b) : b \in Bases(files)}) \ {<<"manifest">>}
    BY DEF Extracted
  <2>6. f \in UNION {S(b) : b \in Bases(files)}
    <3> HIDE DEF S, files
    <3> QED  BY <1>2, <2>4
  <2> HIDE DEF S, files
  <2> QED  BY <2>5, <2>6
<1>3. PICK base \in Bases(files) : base \o Upload[d].module \in files
  BY DEF ValidManifest, HasModule
<1>4. Upload[d].tests # None => base \o Upload[d].tests \in files
  BY DEF ValidManifest
<1> HIDE DEF files
<1> QED  BY <1>1, <1>2, <1>3, <1>4
(* The rows that a page keeps are the first ones: with a row in excess the *)
(* page ends at the last of them, without one it holds all that is left.   *)
LEMMA Greatest ==
    ASSUME NEW L \in Nat, NEW S \in SUBSET (0..L), S # {}
    PROVE  \E m \in S : \A n \in S : n <= m
<1> DEFINE Bounds == {n \in Nat : \A r \in S : r <= n}
<1>1. L \in Bounds /\ Bounds \in SUBSET Nat
  OBVIOUS
<1>2. PICK m \in Bounds : \A n \in Bounds : m <= n
  BY <1>1, Least
<1>3. m \in S
  <2> SUFFICES ASSUME m \notin S PROVE FALSE
    OBVIOUS
  <2>1. m \in Nat /\ \A r \in S : r \in Nat /\ r < m
    BY <1>2
  <2>2. PICK s \in S : TRUE
    OBVIOUS
  <2>3. m - 1 \in Nat /\ \A r \in S : r <= m - 1
    BY <2>1, <2>2
  <2>4. m <= m - 1
    BY <1>2, <2>3
  <2> QED  BY <2>1, <2>4
<1> QED  BY <1>2, <1>3

UpTo(U, d) == {e \in U : e <= d}
FirstOf(U, n) == {d \in U : Cardinality(UpTo(U, d)) <= n}

LEMMA Ranks ==
    ASSUME NEW U \in SUBSET Nat, IsFiniteSet(U)
    PROVE  /\ \A d : IsFiniteSet(UpTo(U, d)) /\ Cardinality(UpTo(U, d)) \in Nat
           /\ \A d, e \in U : e <= d => Cardinality(UpTo(U, e)) <= Cardinality(UpTo(U, d))
<1>1. \A d : UpTo(U, d) \subseteq U
  BY DEF UpTo
<1>2. \A d : IsFiniteSet(UpTo(U, d)) /\ Cardinality(UpTo(U, d)) \in Nat
  BY <1>1, FS_Subset, FS_CardinalityType
<1>3. ASSUME NEW d \in U, NEW e \in U, e <= d PROVE Cardinality(UpTo(U, e)) <= Cardinality(UpTo(U, d))
  <2>1. \A z \in U : z <= e => z <= d
    BY <1>3
  <2>2. UpTo(U, e) \subseteq UpTo(U, d)
    BY <2>1 DEF UpTo
  <2> QED  BY <1>2, <2>2, FS_Subset
<1> QED  BY <1>2, <1>3

LEMMA FirstOnes ==
    ASSUME NEW U \in SUBSET Nat, IsFiniteSet(U), NEW n \in Nat, n > 0
    PROVE  /\ \A d \in FirstOf(U, n), e \in U : e <= d => e \in FirstOf(U, n)
           /\ U # {} => FirstOf(U, n) # {}
           /\ Cardinality(FirstOf(U, n + 1)) <= n => U \subseteq FirstOf(U, n)
<1>1. /\ \A d : IsFiniteSet(UpTo(U, d)) /\ Cardinality(UpTo(U, d)) \in Nat
      /\ \A d, e \in U : e <= d => Cardinality(UpTo(U, e)) <= Cardinality(UpTo(U, d))
  BY Ranks
<1>2. \A d \in FirstOf(U, n), e \in U : e <= d => e \in FirstOf(U, n)
  BY <1>1 DEF FirstOf
<1>3. ASSUME U # {} PROVE FirstOf(U, n) # {}
  <2>1. PICK first \in U : \A s \in U : first <= s
    BY <1>3, Least
  <2>2. \A z \in U : z <= first <=> z = first
    BY <2>1
  <2>3. UpTo(U, first) = {first}
    BY <2>2 DEF UpTo
  <2>4. Cardinality(UpTo(U, first)) = 1
    BY <2>3, FS_Singleton
  <2> QED  BY <2>4 DEF FirstOf
<1>4. ASSUME Cardinality(FirstOf(U, n + 1)) <= n PROVE U \subseteq FirstOf(U, n)
  <2> DEFINE Beyond == {d \in U : Cardinality(UpTo(U, d)) > n}
  <2>1. SUFFICES ASSUME Beyond # {} PROVE FALSE
    BY <1>1 DEF FirstOf
  <2>2. PICK d \in Beyond : \A s \in Beyond : d <= s
    <3>1. Beyond \in SUBSET Nat
      OBVIOUS
    <3> HIDE DEF Beyond
    <3> QED  BY <2>1, <3>1, Least
  <2> DEFINE Lower == UpTo(U, d) \ {d}
  <2>3. \A e \in Lower : e \in U /\ e < d /\ Cardinality(UpTo(U, e)) <= n
    <3> SUFFICES ASSUME NEW e \in Lower PROVE e \in U /\ e < d /\ Cardinality(UpTo(U, e)) <= n
      OBVIOUS
    <3>1. e \in U /\ e <= d /\ e # d /\ e \in Nat /\ d \in Nat
      BY DEF UpTo
    <3>2. e \notin Beyond
      BY <2>2, <3>1
    <3> QED  BY <1>1, <3>1, <3>2
  <2>4. /\ d \in UpTo(U, d) /\ IsFiniteSet(Lower) /\ Cardinality(Lower) \in Nat
        /\ Cardinality(Lower) = Cardinality(UpTo(U, d)) - 1
    <3>1. d \in UpTo(U, d)
      BY DEF UpTo
    <3> QED  BY <1>1, <3>1, FS_RemoveElement, FS_CardinalityType
  <2>5. Cardinality(Lower) <= n
    <3>1. CASE Lower = {}
      BY <3>1, FS_EmptySet
    <3>2. CASE Lower # {}
      <4>1. PICK m \in Lower : \A e \in Lower : e <= m
        <5>1. d \in Nat
          BY <2>2
        <5>2. \A e \in Lower : e \in 0..d
          <6> SUFFICES ASSUME NEW e \in Lower PROVE e \in 0..d
            OBVIOUS
          <6>1. e \in U /\ e < d
            BY <2>3
          <6> QED  BY <5>1, <6>1
        <5> HIDE DEF Lower
        <5> QED  BY <3>2, <5>1, <5>2, Greatest
      <4>2. Lower \subseteq UpTo(U, m)
        BY <2>3, <4>1 DEF UpTo
      <4>3. Cardinality(Lower) <= Cardinality(UpTo(U, m))
        BY <1>1, <4>2, FS_Subset
      <4>4. Cardinality(UpTo(U, m)) <= n /\ Cardinality(UpTo(U, m)) \in Nat
        BY <1>1, <2>3, <4>1
      <4> HIDE DEF Lower
      <4> QED  BY <2>4, <4>3, <4>4
    <3> QED  BY <3>1, <3>2
  <2>6. Cardinality(UpTo(U, d)) = n + 1
    <3>1. Cardinality(UpTo(U, d)) > n /\ Cardinality(UpTo(U, d)) \in Nat
      BY <1>1, <2>2
    <3> HIDE DEF Lower
    <3> QED  BY <2>4, <2>5, <3>1
  <2>7. UpTo(U, d) \subseteq FirstOf(U, n + 1)
    <3>1. \A e \in UpTo(U, d) : e \in U /\ e <= d
      BY DEF UpTo
    <3>2. \A e \in UpTo(U, d) : Cardinality(UpTo(U, e)) <= n + 1
      BY <1>1, <2>6, <3>1
    <3> QED  BY <3>1, <3>2 DEF FirstOf
  <2>8. IsFiniteSet(FirstOf(U, n + 1)) /\ Cardinality(FirstOf(U, n + 1)) \in Nat
    <3>1. FirstOf(U, n + 1) \subseteq U
      BY DEF FirstOf
    <3> QED  BY <3>1, FS_Subset, FS_CardinalityType
  <2>9. n + 1 <= Cardinality(FirstOf(U, n + 1))
    BY <2>6, <2>7, <2>8, FS_Subset
  <2> QED  BY <1>4, <2>8, <2>9
<1> QED  BY <1>2, <1>3, <1>4
(* What a page of the definitions leaves, whatever was stored meanwhile.   *)
Beyond(position) == {e \in Definition : Stands(e) /\ position < e}

LEMMA PageOfDefinitions ==
    ASSUME NEW position \in 0..Len(Upload)
    PROVE  LET page == After(position, PageSize)
               more == Cardinality(After(position, PageSize + 1)) > PageSize
           IN  /\ page \subseteq Beyond(position)
               /\ more => /\ NextCursor(position) \in 0..Len(Upload)
                          /\ \A d \in Beyond(position) : d <= NextCursor(position) => d \in page
               /\ ~more => Beyond(position) \subseteq page
<1> DEFINE U == Beyond(position)
<1>1. Definition = 1..Len(Upload) /\ Len(Upload) \in Nat /\ PageSize \in Nat /\ PageSize > 0
  <2>1. PageSize \in Nat \ {0} => PageSize \in Nat /\ PageSize > 0
    OBVIOUS
  <2> QED  BY <2>1, DefinitionsAssumption
<1>2. U \in SUBSET (1..Len(Upload)) /\ U \in SUBSET Nat /\ IsFiniteSet(U)
  <2>1. U \subseteq 1..Len(Upload)
    BY <1>1 DEF Beyond
  <2>2. \A d \in 1..Len(Upload) : d \in Nat
    BY <1>1
  <2>3. IsFiniteSet(1..Len(Upload))
    BY <1>1, FS_Interval
  <2> QED  BY <2>1, <2>2, <2>3, FS_Subset
<1>3. \A n : After(position, n) = FirstOf(U, n)
  <2>1. \A d, n : d \in After(position, n) <=>
            d \in U /\ Cardinality({e \in Definition : Stands(e) /\ position < e /\ e <= d}) <= n
    <3>1. \A d \in Definition : d > position <=> position < d
      BY <1>1
    <3> QED  BY <3>1 DEF After, Beyond
  <2>2. \A d : {e \in Definition : Stands(e) /\ position < e /\ e <= d} = UpTo(U, d)
    BY DEF UpTo, Beyond
  <2> QED  BY <2>1, <2>2 DEF FirstOf
<1> DEFINE page == FirstOf(U, PageSize)
<1>4. /\ \A d \in page, e \in U : e <= d => e \in page
      /\ U # {} => page # {}
      /\ Cardinality(FirstOf(U, PageSize + 1)) <= PageSize => U \subseteq page
  BY <1>1, <1>2, FirstOnes
<1>5. page \subseteq U /\ FirstOf(U, PageSize + 1) \subseteq U
  BY DEF FirstOf
<1>6. Cardinality(FirstOf(U, PageSize + 1)) \in Nat
  BY <1>2, <1>5, FS_Subset, FS_CardinalityType
<1>7. ASSUME Cardinality(FirstOf(U, PageSize + 1)) > PageSize
      PROVE  NextCursor(position) \in page /\ \A e \in page : e <= NextCursor(position)
  <2>1. U # {}
    <3> SUFFICES ASSUME U = {} PROVE FALSE
      OBVIOUS
    <3>1. Cardinality(FirstOf(U, PageSize + 1)) = 0
      BY <1>5, FS_EmptySet
    <3> QED  BY <1>1, <1>7, <3>1
  <2>2. page \in SUBSET (0..Len(Upload)) /\ page # {}
    <3>1. \A d \in 1..Len(Upload) : d \in 0..Len(Upload)
      BY <1>1
    <3> HIDE DEF U, page
    <3> QED  BY <1>2, <1>4, <1>5, <2>1, <3>1
  <2>3. \E m \in page : \A n \in page : n <= m
    <3> HIDE DEF U, page
    <3> QED  BY <1>1, <2>2, Greatest
  <2> QED  BY <1>3, <2>3 DEF NextCursor
<1>8. page \subseteq 0..Len(Upload)
  <2> HIDE DEF U, page
  <2> QED  BY <1>1, <1>2, <1>5
<1>9. \A d \in U : d \in Nat
  BY <1>2
<1> HIDE DEF U, page
<1>10. ~(Cardinality(FirstOf(U, PageSize + 1)) > PageSize) => U \subseteq page
  BY <1>1, <1>4, <1>6
<1>11. ASSUME Cardinality(FirstOf(U, PageSize + 1)) > PageSize
       PROVE  /\ NextCursor(position) \in 0..Len(Upload)
              /\ \A d \in U : d <= NextCursor(position) => d \in page
  BY <1>4, <1>7, <1>8, <1>11
<1>12. U = Beyond(position) /\ After(position, PageSize) = page
       /\ After(position, PageSize + 1) = FirstOf(U, PageSize + 1)
  BY <1>3 DEF U, page
<1> QED  BY <1>5, <1>10, <1>11, <1>12
LEMMA JobRows ==
    ASSUME DefinitionTypes, NEW c \in Client
    PROVE  /\ job[c] \in Requested
           /\ job[c].op = "upload" => job[c] \in Uploads
           /\ job[c].op = "deploy" => job[c] \in Deploys
           /\ job[c].op = "rerun" => job[c] \in Reruns
           /\ job[c].op = "list" => job[c] \in Listings
<1>1. job[c] \in Requested
  BY DEF DefinitionTypes
<1>2. job[c] = Idle => job[c].op = "idle"
  BY DEF Idle
<1>3. job[c] \in Uploads => job[c].op = "upload"
  BY DEF Uploads
<1>4. job[c] \in Deploys => job[c].op = "deploy"
  BY DEF Deploys
<1>5. job[c] \in Reruns => job[c].op = "rerun"
  BY DEF Reruns
<1>6. job[c] \in Listings => job[c].op = "list"
  BY DEF Listings
<1>7. job[c] = Idle \/ job[c] \in Uploads \/ job[c] \in Deploys \/ job[c] \in Reruns \/ job[c] \in Listings
  BY <1>1 DEF Requested
<1> QED  BY <1>1, <1>2, <1>3, <1>4, <1>5, <1>6, <1>7

(* No step takes away what a request relies on.                            *)
Grows ==
    /\ \A d \in Definition : Whole(d) => Whole(d)'
    /\ \A d \in Definition : row[d] # None => row'[d] # None
    /\ vouched \subseteq vouched'

LEMMA OthersGoOn ==
    ASSUME DefinitionInv, Grows, NEW e \in Client, job'[e] = job[e]
    PROVE  WorkOK(e)'
<1>1. WorkOK(e) /\ DefinitionTypes
  BY DEF DefinitionInv
<1>2. job[e].op = "upload" => job[e].def \in Definition
  BY <1>1, JobRows DEF Uploads
<1>3. job[e].op \in {"deploy", "rerun"} => job[e].def \in Definition
  BY <1>1, JobRows DEF Deploys, Reruns
<1>4. job[e].op = "list" => job[e].due \subseteq Definition
  BY <1>1, JobRows DEF Listings
<1> QED  BY <1>1, <1>2, <1>3, <1>4 DEF WorkOK, Grows, Whole, Unpacked

LEMMA OneMoves ==
    ASSUME DefinitionInv, Grows, TypeOK', NEW c \in Client, NEW j \in Requested,
           job' = [job EXCEPT ![c] = j], WorkOK(c)',
           \A d \in Definition : RowOK(d)', CodeIsVouchedFor'
    PROVE  DefinitionInv'
<1>1. job \in [Client -> Requested]
  BY DEF DefinitionInv, DefinitionTypes
<1>2. job' \in [Client -> Requested] /\ \A e \in Client : e # c => job'[e] = job[e]
  BY <1>1
<1>3. \A e \in Client : WorkOK(e)'
  BY <1>2, OthersGoOn
<1> QED  BY <1>2, <1>3 DEF DefinitionInv, DefinitionTypes

(* What is left alone stays right; a class that is registered is one that  *)
(* is vouched for from now on.                                             *)
LEMMA RowsStay ==
    ASSUME Grows, row' = row, \A d \in Definition : RowOK(d)
    PROVE  \A d \in Definition : RowOK(d)'
BY DEF Grows, RowOK, Whole, Unpacked

LEMMA NamesStay ==
    ASSUME Grows, factory' = factory, CodeIsVouchedFor
    PROVE  CodeIsVouchedFor'
BY DEF Grows, CodeIsVouchedFor

LEMMA Registers ==
    ASSUME TypeOK, CodeIsVouchedFor, NEW p \in Process, NEW d \in Definition,
           Register(p, d), vouched' = vouched \cup {d}
    PROVE  /\ factory' \in [Process -> [Class -> Definition \cup {None, Shipped}]]
           /\ vouched' \subseteq Definition
           /\ CodeIsVouchedFor'
<1>1. factory \in [Process -> [Class -> Definition \cup {None, Shipped}]] /\ vouched \subseteq Definition
  BY DEF TypeOK
<1>2. CASE factory' = factory
  BY <1>1, <1>2 DEF CodeIsVouchedFor
<1>3. CASE factory' # factory
  <2>1. factory' = [factory EXCEPT ![p][Upload[d].class] = d]
    BY <1>3 DEF Register
  <2>2. Upload[d].class \in Class
    BY DEF Class
  <2>3. \A q \in Process, k \in Class : factory'[q][k] = factory[q][k] \/ factory'[q][k] = d
    BY <1>1, <2>1, <2>2
  <2>4. factory' \in [Process -> [Class -> Definition \cup {None, Shipped}]]
    BY <1>1, <2>1, <2>2
  <2> QED  BY <1>1, <2>3, <2>4 DEF CodeIsVouchedFor
<1> QED  BY <1>2, <1>3

LEMMA Rewritten ==
    ASSUME NEW rows, rows \in [Definition -> Evaluated \cup {None}], NEW d \in Definition, NEW filed \in Evaluated
    PROVE  /\ [rows EXCEPT ![d] = filed] \in [Definition -> Evaluated \cup {None}]
           /\ \A e \in Definition : [rows EXCEPT ![d] = filed][e] = IF e = d THEN filed ELSE rows[e]
<1> DEFINE S == Evaluated \cup {None}
<1>1. filed \in S /\ rows \in [Definition -> S]
  OBVIOUS
<1> HIDE DEF S
<1>2. /\ [rows EXCEPT ![d] = filed] \in [Definition -> S]
      /\ \A e \in Definition : [rows EXCEPT ![d] = filed][e] = IF e = d THEN filed ELSE rows[e]
  BY <1>1
<1> QED  BY <1>2 DEF S

-----------------------------------------------------------------------------
(* The requests                                                            *)
LEMMA LoadStep ==
    ASSUME DefinitionInv, NEW c \in Client, NEW p \in Process, NEW d \in Definition, NEW skip \in BOOLEAN,
           LoadPackage(c, p, d, skip)
    PROVE  DefinitionInv'
<1> DEFINE j == [op |-> "upload", def |-> d, proc |-> p, holds |-> FALSE,
                 at |-> IF skip \/ Upload[d].tests = None THEN "skipped" ELSE "loaded"]
<1>1. /\ job' = [job EXCEPT ![c] = j] /\ folder' = [folder EXCEPT ![d] = Extracted(Upload[d])]
      /\ row' = row /\ factory' = factory /\ vouched' = vouched /\ ValidManifest(Upload[d])
  BY DEF LoadPackage, Begin
<1>2. DefinitionTypes /\ TypeOK
  BY DEF DefinitionInv, DefinitionTypes
<1>3. j \in Requested
  BY DEF Requested, Uploads
<1>4. folder'[d] = Extracted(Upload[d]) /\ \A e \in Definition : e # d => folder'[e] = folder[e]
  BY <1>1, <1>2 DEF TypeOK
<1>5. Whole(d)'
  BY <1>1, <1>4, Unpacking DEF Whole, Unpacked
<1>6. Grows
  BY <1>1, <1>4, <1>5 DEF Grows, Whole, Unpacked
<1>7. TypeOK'
  BY <1>1, <1>2 DEF TypeOK
<1>8. job'[c] = j
  BY <1>1, <1>2 DEF DefinitionTypes
<1>9. j.op = "upload" /\ j.def = d
  OBVIOUS
<1> HIDE DEF j
<1>10. WorkOK(c)'
  BY <1>5, <1>8, <1>9 DEF WorkOK
<1> QED  BY <1>1, <1>3, <1>6, <1>7, <1>10, RowsStay, NamesStay, OneMoves DEF DefinitionInv

LEMMA TestStep ==
    ASSUME DefinitionInv, NEW c \in Client, NEW passed \in BOOLEAN, RunTests(c, passed)
    PROVE  DefinitionInv'
<1> DEFINE j == [job[c] EXCEPT !.at = IF passed THEN "passed" ELSE "failed"]
<1>1. /\ job' = [job EXCEPT ![c] = j] /\ job[c].op = "upload"
      /\ folder' = folder /\ row' = row /\ factory' = factory /\ vouched' = vouched
  BY DEF RunTests, Continue, Working
<1>2. DefinitionTypes /\ TypeOK /\ WorkOK(c)
  BY DEF DefinitionInv, DefinitionTypes
<1>3. job[c] \in Uploads
  BY <1>1, <1>2, JobRows
<1>4. j \in Uploads /\ j.def = job[c].def /\ j.op = "upload"
  BY <1>3 DEF Uploads
<1>5. Grows
  BY <1>1 DEF Grows, Whole, Unpacked
<1>6. TypeOK'
  BY <1>1, <1>2 DEF TypeOK
<1>7. job'[c] = j
  BY <1>1, <1>2 DEF DefinitionTypes
<1> HIDE DEF j
<1>8. WorkOK(c)'
  BY <1>1, <1>2, <1>4, <1>7 DEF WorkOK, Whole, Unpacked
<1>9. j \in Requested
  BY <1>4 DEF Requested
<1> QED  BY <1>1, <1>5, <1>6, <1>8, <1>9, RowsStay, NamesStay, OneMoves DEF DefinitionInv

LEMMA StoreStep ==
    ASSUME DefinitionInv, NEW c \in Client, StoreDefinition(c)
    PROVE  DefinitionInv'
<1> DEFINE d == job[c].def
           evaluation == job[c].at
           filed == [status |-> StatusOf(evaluation), evaluation |-> evaluation]
<1>1. /\ job' = [job EXCEPT ![c] = Idle] /\ job[c].op = "upload" /\ folder' = folder
      /\ evaluation \in {"skipped", "passed", "failed"}
      /\ row' = row \/ row' = [row EXCEPT ![d] = filed]
  BY DEF StoreDefinition, Finish
<1>2. DefinitionTypes /\ TypeOK /\ WorkOK(c) /\ CodeIsVouchedFor
  BY DEF DefinitionInv, DefinitionTypes
<1>3. job[c] \in Uploads /\ d \in Definition /\ job[c].proc \in Process
  BY <1>1, <1>2, JobRows DEF Uploads
<1>4. filed \in Evaluated /\ filed.status = StatusOf(evaluation)
  BY <1>1 DEF Evaluated, StatusOf
<1>5. \/ factory' = factory /\ vouched' = vouched /\ filed.status # "active"
      \/ Register(job[c].proc, d) /\ vouched' = vouched \cup {d}
  BY DEF StoreDefinition
<1>6. Whole(d)
  BY <1>1, <1>2 DEF WorkOK
<1> HIDE DEF filed, d, evaluation
<1>7. /\ row' \in [Definition -> Evaluated \cup {None}] /\ None \notin Evaluated
      /\ \A e \in Definition : row'[e] = row[e] \/ (e = d /\ row'[e] = filed)
  <2>1. None \notin Evaluated
    BY DefinitionsAssumption
  <2>2. row \in [Definition -> Evaluated \cup {None}]
    BY <1>2 DEF TypeOK
  <2>3. CASE row' = row
    BY <2>1, <2>2, <2>3
  <2>4. CASE row' = [row EXCEPT ![d] = filed]
    BY <1>3, <1>4, <2>1, <2>2, <2>4, Rewritten
  <2> QED  BY <1>1, <2>3, <2>4
<1>8. /\ factory' \in [Process -> [Class -> Definition \cup {None, Shipped}]]
      /\ vouched' \subseteq Definition /\ CodeIsVouchedFor' /\ vouched \subseteq vouched'
  <2>1. CASE factory' = factory /\ vouched' = vouched
    BY <1>2, <2>1 DEF TypeOK, CodeIsVouchedFor
  <2>2. CASE Register(job[c].proc, d) /\ vouched' = vouched \cup {d}
    BY <1>2, <1>3, <2>2, Registers
  <2> QED  BY <1>5, <2>1, <2>2
<1>9. Grows
  BY <1>1, <1>4, <1>7, <1>8 DEF Grows, Whole, Unpacked
<1>10. TypeOK'
  BY <1>1, <1>2, <1>7, <1>8 DEF TypeOK
<1>11. job'[c] = Idle /\ Idle.op = "idle" /\ Idle \in Requested
  BY <1>1, <1>2 DEF DefinitionTypes, Idle, Requested
<1>12. WorkOK(c)'
  BY <1>11 DEF WorkOK
<1>13. ASSUME NEW e \in Definition PROVE RowOK(e)'
  <2>1. RowOK(e)
    BY DEF DefinitionInv
  <2>2. CASE row'[e] = row[e]
    BY <1>9, <2>1, <2>2 DEF Grows, RowOK
  <2>3. CASE e = d /\ row'[e] = filed
    BY <1>1, <1>5, <1>6, <2>3 DEF RowOK, Whole, Unpacked
  <2> QED  BY <1>7, <2>2, <2>3
<1> QED  BY <1>1, <1>8, <1>9, <1>10, <1>11, <1>12, <1>13, OneMoves

LEMMA ReadStep ==
    ASSUME DefinitionInv, NEW c \in Client, NEW p \in Process, NEW d \in Definition, ReadForDeploy(c, p, d)
    PROVE  DefinitionInv'
<1> DEFINE j == [op |-> "deploy", def |-> d, proc |-> p, holds |-> FALSE, at |-> "read"]
<1>1. /\ job' = [job EXCEPT ![c] = j] /\ row[d] # None
      /\ folder' = folder /\ row' = row /\ factory' = factory /\ vouched' = vouched
  BY DEF ReadForDeploy, Begin, IsDraft
<1>2. DefinitionTypes /\ TypeOK
  BY DEF DefinitionInv, DefinitionTypes
<1>3. j \in Requested
  BY DEF Requested, Deploys
<1>4. Grows
  BY <1>1 DEF Grows, Whole, Unpacked
<1>5. TypeOK'
  BY <1>1, <1>2 DEF TypeOK
<1>6. job'[c] = j /\ j.op = "deploy" /\ j.def = d /\ j.at = "read"
  BY <1>1, <1>2 DEF DefinitionTypes
<1> HIDE DEF j
<1>7. WorkOK(c)'
  BY <1>1, <1>6 DEF WorkOK
<1> QED  BY <1>1, <1>3, <1>4, <1>5, <1>7, RowsStay, NamesStay, OneMoves DEF DefinitionInv

LEMMA RegisterStep ==
    ASSUME DefinitionInv, NEW c \in Client, RegisterForDeploy(c)
    PROVE  DefinitionInv'
<1> DEFINE j == [job[c] EXCEPT !.at = "registered"]
           d == job[c].def
<1>1. /\ job' = [job EXCEPT ![c] = j] /\ job[c].op = "deploy" /\ folder' = folder /\ row' = row
      /\ Register(job[c].proc, d) /\ vouched' = vouched \cup {d}
  BY DEF RegisterForDeploy, Continue, Working
<1>2. DefinitionTypes /\ TypeOK /\ WorkOK(c) /\ CodeIsVouchedFor
  BY DEF DefinitionInv, DefinitionTypes
<1>3. job[c] \in Deploys /\ d \in Definition /\ job[c].proc \in Process
  BY <1>1, <1>2, JobRows DEF Deploys
<1>4. j \in Deploys /\ j \in Requested /\ j.def = d /\ j.op = "deploy"
  BY <1>3 DEF Deploys, Requested
<1>5. job'[c] = j
  BY <1>1, <1>2 DEF DefinitionTypes
<1> HIDE DEF j
<1>6. /\ factory' \in [Process -> [Class -> Definition \cup {None, Shipped}]]
      /\ vouched' \subseteq Definition /\ CodeIsVouchedFor'
  BY <1>1, <1>2, <1>3, Registers
<1>7. Grows
  BY <1>1 DEF Grows, Whole, Unpacked
<1>8. TypeOK'
  BY <1>1, <1>2, <1>6 DEF TypeOK
<1>9. WorkOK(c)'
  BY <1>1, <1>2, <1>4, <1>5 DEF WorkOK
<1> QED  BY <1>1, <1>4, <1>6, <1>7, <1>8, <1>9, RowsStay, OneMoves DEF DefinitionInv

LEMMA DeployStep ==
    ASSUME DefinitionInv, NEW c \in Client, Deploy(c)
    PROVE  DefinitionInv'
<1> DEFINE d == job[c].def
<1>1. /\ job' = [job EXCEPT ![c] = Idle] /\ job[c].op = "deploy" /\ job[c].at = "registered"
      /\ row' = [row EXCEPT ![d].status = "active"]
      /\ folder' = folder /\ factory' = factory /\ vouched' = vouched
  BY DEF Deploy, Finish, Working
<1>2. DefinitionTypes /\ TypeOK /\ WorkOK(c) /\ CodeIsVouchedFor
  BY DEF DefinitionInv, DefinitionTypes
<1>3. d \in Definition /\ row[d] # None /\ d \in vouched
  <2>1. job[c] \in Deploys
    BY <1>1, <1>2, JobRows
  <2> QED  BY <1>1, <1>2, <2>1 DEF Deploys, WorkOK
<1>4. row \in [Definition -> Evaluated \cup {None}] /\ None \notin Evaluated
  BY <1>2, DefinitionsAssumption DEF TypeOK
<1> HIDE DEF d
<1>5. row[d] \in Evaluated
  BY <1>3, <1>4
<1> DEFINE filed == [row[d] EXCEPT !.status = "active"]
<1>6. filed \in Evaluated
  BY <1>5 DEF Evaluated
<1>7. row' = [row EXCEPT ![d] = filed]
  BY <1>1
<1> HIDE DEF filed
<1>8. /\ row' \in [Definition -> Evaluated \cup {None}]
      /\ \A e \in Definition : row'[e] = row[e] \/ (e = d /\ row'[e] = filed)
  BY <1>3, <1>4, <1>6, <1>7, Rewritten
<1>9. Grows
  BY <1>1, <1>4, <1>6, <1>8 DEF Grows, Whole, Unpacked
<1>10. TypeOK'
  BY <1>1, <1>2, <1>8 DEF TypeOK
<1>11. job'[c] = Idle /\ Idle.op = "idle" /\ Idle \in Requested
  BY <1>1, <1>2 DEF DefinitionTypes, Idle, Requested
<1>12. WorkOK(c)'
  BY <1>11 DEF WorkOK
<1>13. ASSUME NEW e \in Definition PROVE RowOK(e)'
  <2>1. RowOK(e)
    BY DEF DefinitionInv
  <2>2. CASE row'[e] = row[e]
    BY <1>9, <2>1, <2>2 DEF Grows, RowOK
  <2>3. CASE e = d
    BY <1>3, <1>9, <2>1, <2>3 DEF Grows, RowOK
  <2> QED  BY <1>8, <2>2, <2>3
<1> QED  BY <1>1, <1>2, <1>9, <1>10, <1>11, <1>12, <1>13, NamesStay, OneMoves

LEMMA StartRerunStep ==
    ASSUME DefinitionInv, NEW c \in Client, NEW p \in Process, NEW d \in Definition, StartRerun(c, p, d)
    PROVE  DefinitionInv'
<1> DEFINE j == [op |-> "rerun", def |-> d, proc |-> p, holds |-> TRUE, at |-> "running", seen |-> row[d].status]
<1>1. /\ job' = [job EXCEPT ![c] = j] /\ row[d] # None
      /\ folder' = folder /\ row' = row /\ factory' = factory /\ vouched' = vouched
  BY DEF StartRerun, Begin
<1>2. DefinitionTypes /\ TypeOK
  BY DEF DefinitionInv, DefinitionTypes
<1>3. row[d].status \in {"draft", "active"}
  <2>1. row[d] \in Evaluated
    BY <1>1, <1>2 DEF TypeOK
  <2> QED  BY <2>1 DEF Evaluated
<1>4. j \in Requested
  BY <1>3 DEF Requested, Reruns
<1>5. Grows
  BY <1>1 DEF Grows, Whole, Unpacked
<1>6. TypeOK'
  BY <1>1, <1>2 DEF TypeOK
<1>7. job'[c] = j /\ j.op = "rerun" /\ j.def = d /\ j.at = "running"
  BY <1>1, <1>2 DEF DefinitionTypes
<1> HIDE DEF j
<1>8. WorkOK(c)'
  BY <1>1, <1>7 DEF WorkOK
<1> QED  BY <1>1, <1>4, <1>5, <1>6, <1>8, RowsStay, NamesStay, OneMoves DEF DefinitionInv

LEMMA EndRerunStep ==
    ASSUME DefinitionInv, NEW c \in Client, NEW passed \in BOOLEAN, EndRerun(c, passed)
    PROVE  DefinitionInv'
<1> DEFINE j == [job[c] EXCEPT !.at = IF passed THEN "passed" ELSE "failed"]
           d == job[c].def
<1>1. /\ job' = [job EXCEPT ![c] = j] /\ job[c].op = "rerun" /\ folder' = folder /\ row' = row
  BY DEF EndRerun, Continue, Working
<1>2. \/ SeenDraft(c, passed) /\ Register(job[c].proc, d) /\ vouched' = vouched \cup {d}
      \/ ~SeenDraft(c, passed) /\ factory' = factory /\ vouched' = vouched
  BY DEF EndRerun
<1>3. DefinitionTypes /\ TypeOK /\ WorkOK(c) /\ CodeIsVouchedFor
  BY DEF DefinitionInv, DefinitionTypes
<1>4. job[c] \in Reruns /\ d \in Definition /\ job[c].proc \in Process
  BY <1>1, <1>3, JobRows DEF Reruns
<1>5. /\ j \in Reruns /\ j \in Requested /\ j.def = d /\ j.op = "rerun" /\ j.seen = job[c].seen
      /\ j.at = "passed" <=> passed
  BY <1>4 DEF Reruns, Requested
<1>6. job'[c] = j
  BY <1>1, <1>3 DEF DefinitionTypes
<1> HIDE DEF j
<1>7. /\ factory' \in [Process -> [Class -> Definition \cup {None, Shipped}]]
      /\ vouched' \subseteq Definition /\ CodeIsVouchedFor' /\ vouched \subseteq vouched'
  <2>1. CASE factory' = factory /\ vouched' = vouched
    BY <1>3, <2>1 DEF TypeOK, CodeIsVouchedFor
  <2>2. CASE Register(job[c].proc, d) /\ vouched' = vouched \cup {d}
    BY <1>3, <1>4, <2>2, Registers
  <2> QED  BY <1>2, <2>1, <2>2
<1>8. Grows
  BY <1>1, <1>7 DEF Grows, Whole, Unpacked
<1>9. TypeOK'
  BY <1>1, <1>3, <1>7 DEF TypeOK
<1>10. WorkOK(c)'
  BY <1>1, <1>2, <1>3, <1>5, <1>6 DEF WorkOK, SeenDraft
<1> QED  BY <1>1, <1>5, <1>7, <1>8, <1>9, <1>10, RowsStay, OneMoves DEF DefinitionInv

LEMMA CommitRerunStep ==
    ASSUME DefinitionInv, NEW c \in Client, CommitRerun(c)
    PROVE  DefinitionInv'
<1> DEFINE d == job[c].def
           filed == [row[d] EXCEPT !.evaluation = job[c].at,
                                    !.status = IF SeenDraft(c, job[c].at = "passed") THEN "active" ELSE @]
<1>1. /\ job' = [job EXCEPT ![c] = Idle] /\ job[c].op = "rerun" /\ job[c].at # "running"
      /\ row' = [row EXCEPT ![d] = filed]
      /\ folder' = folder /\ factory' = factory /\ vouched' = vouched
  BY DEF CommitRerun, Finish
<1>2. DefinitionTypes /\ TypeOK /\ WorkOK(c) /\ CodeIsVouchedFor
  BY DEF DefinitionInv, DefinitionTypes
<1>3. /\ d \in Definition /\ row[d] # None /\ job[c].at \in {"passed", "failed"}
      /\ SeenDraft(c, job[c].at = "passed") => d \in vouched
  <2>1. job[c] \in Reruns
    BY <1>1, <1>2, JobRows
  <2> QED  BY <1>1, <1>2, <2>1 DEF Reruns, WorkOK, SeenDraft
<1>4. row \in [Definition -> Evaluated \cup {None}] /\ None \notin Evaluated
  BY <1>2, DefinitionsAssumption DEF TypeOK
<1>5. row[d] \in Evaluated
  BY <1>3, <1>4
<1>6. /\ filed \in Evaluated
      /\ filed.status = "active" => SeenDraft(c, job[c].at = "passed") \/ row[d].status = "active"
  BY <1>3, <1>5 DEF Evaluated
<1> HIDE DEF filed, d
<1>7. /\ row' \in [Definition -> Evaluated \cup {None}]
      /\ \A e \in Definition : row'[e] = row[e] \/ (e = d /\ row'[e] = filed)
  BY <1>1, <1>3, <1>4, <1>6, Rewritten
<1>8. Grows
  BY <1>1, <1>4, <1>6, <1>7 DEF Grows, Whole, Unpacked
<1>9. TypeOK'
  BY <1>1, <1>2, <1>7 DEF TypeOK
<1>10. job'[c] = Idle /\ Idle.op = "idle" /\ Idle \in Requested
  BY <1>1, <1>2 DEF DefinitionTypes, Idle, Requested
<1>11. WorkOK(c)'
  BY <1>10 DEF WorkOK
<1>12. ASSUME NEW e \in Definition PROVE RowOK(e)'
  <2>1. RowOK(e)
    BY DEF DefinitionInv
  <2>2. CASE row'[e] = row[e]
    BY <1>8, <2>1, <2>2 DEF Grows, RowOK
  <2>3. CASE e = d /\ row'[e] = filed
    BY <1>3, <1>6, <1>8, <2>1, <2>3 DEF Grows, RowOK
  <2> QED  BY <1>7, <2>2, <2>3
<1> QED  BY <1>1, <1>2, <1>8, <1>9, <1>10, <1>11, <1>12, NamesStay, OneMoves

LEMMA StartListingStep ==
    ASSUME DefinitionInv, NEW c \in Client, NEW p \in Process, NEW category \in Category,
           StartListing(c, p, category)
    PROVE  DefinitionInv'
<1> DEFINE Due == {d \in Definition : Stands(d) /\ Upload[d].category = category}
           j == [op |-> "list", def |-> None, proc |-> p, holds |-> FALSE, at |-> 0,
                 category |-> category, listed |-> {}, due |-> Due]
<1>1. /\ job' = [job EXCEPT ![c] = j]
      /\ folder' = folder /\ row' = row /\ factory' = factory /\ vouched' = vouched
  BY DEF StartListing, Begin
<1>2. DefinitionTypes /\ TypeOK
  BY DEF DefinitionInv, DefinitionTypes
<1>3. /\ Definition = 1..Len(Upload) /\ Len(Upload) \in Nat /\ None \notin 0..Len(Upload)
      /\ 0 \in 0..Len(Upload)
  BY DefinitionsAssumption
<1>4. Due \subseteq Definition /\ \A d \in Due : row[d] # None /\ Upload[d].category = category
  BY DEF Stands
<1> HIDE DEF Due
<1>5. j \in Requested
  BY <1>3, <1>4 DEF Requested, Listings
<1>6. Grows
  BY <1>1 DEF Grows, Whole, Unpacked
<1>7. TypeOK'
  BY <1>1, <1>2 DEF TypeOK
<1>8. job'[c] = j /\ j.op = "list" /\ j.due = Due /\ j.category = category /\ j.at = 0
  BY <1>1, <1>2 DEF DefinitionTypes
<1> HIDE DEF j
<1>9. \A d \in Due : ~(d <= 0) /\ j.at # None
  BY <1>3, <1>4, <1>8
<1>10. WorkOK(c)'
  BY <1>1, <1>4, <1>8, <1>9 DEF WorkOK
<1> QED  BY <1>1, <1>5, <1>6, <1>7, <1>10, RowsStay, NamesStay, OneMoves DEF DefinitionInv

LEMMA ListStep ==
    ASSUME DefinitionInv, NEW c \in Client, ListDefinitions(c)
    PROVE  DefinitionInv'
<1> DEFINE position == job[c].at
           more == Cardinality(After(position, PageSize + 1)) > PageSize
           page == After(position, PageSize)
           next == IF more THEN NextCursor(position) ELSE None
           new == {d \in page : Upload[d].category = job[c].category}
           j == [job[c] EXCEPT !.at = next, !.listed = @ \cup new]
<1>1. /\ job' = [job EXCEPT ![c] = j] /\ job[c].op = "list" /\ position # None
      /\ folder' = folder /\ row' = row /\ factory' = factory /\ vouched' = vouched
  <2>1. job' = [job EXCEPT ![c].at = next, ![c].listed = @ \cup new]
    BY DEF ListDefinitions
  <2> HIDE DEF next, new
  <2> QED  BY <2>1 DEF ListDefinitions
<1>2. DefinitionTypes /\ TypeOK /\ WorkOK(c)
  BY DEF DefinitionInv, DefinitionTypes
<1>3. job[c] \in Listings
  BY <1>1, <1>2, JobRows
<1>4. position \in 0..Len(Upload)
  BY <1>1, <1>3 DEF Listings
<1>5. /\ page \subseteq Beyond(position)
      /\ more => /\ NextCursor(position) \in 0..Len(Upload)
                 /\ \A d \in Beyond(position) : d <= NextCursor(position) => d \in page
      /\ ~more => Beyond(position) \subseteq page
  BY <1>4, PageOfDefinitions
<1>6. None \notin 0..Len(Upload) /\ Definition = 1..Len(Upload) /\ Len(Upload) \in Nat
  BY DefinitionsAssumption
<1>7. page \subseteq Definition
  BY <1>5 DEF Beyond
<1> HIDE DEF more, page, position
<1>8. next \in 0..Len(Upload) \cup {None}
  BY <1>5
<1>9. new \subseteq Definition
  BY <1>7
<1>10. \A d \in Beyond(position) : next = None \/ d <= next => d \in page
  BY <1>5, <1>6
<1> HIDE DEF next, new
<1>11. /\ j \in Listings /\ j \in Requested /\ j.op = "list" /\ j.due = job[c].due /\ j.category = job[c].category
       /\ j.at = next /\ j.listed = job[c].listed \cup new
  BY <1>3, <1>8, <1>9 DEF Listings, Requested
<1>12. job'[c] = j
  BY <1>1, <1>2 DEF DefinitionTypes
<1> HIDE DEF j
<1>13. ASSUME NEW d \in job[c].due
       PROVE  /\ row[d] # None /\ Upload[d].category = job[c].category
              /\ next = None \/ d <= next => d \in job[c].listed \cup new
  <2>1. /\ row[d] # None /\ Upload[d].category = job[c].category /\ d \in Definition
        /\ d <= position => d \in job[c].listed
    <3>1. d \in Definition
      BY <1>3 DEF Listings
    <3> QED  BY <1>1, <1>2, <3>1 DEF WorkOK, position
  <2>2. CASE d <= position
    BY <2>1, <2>2
  <2>3. CASE ~(d <= position)
    <3>1. position < d
      BY <1>4, <1>6, <2>1, <2>3
    <3>2. d \in Beyond(position)
      BY <2>1, <3>1 DEF Beyond, Stands
    <3> QED  BY <1>10, <2>1, <3>2 DEF new
  <2> QED  BY <2>2, <2>3
<1>14. WorkOK(c)'
  BY <1>1, <1>11, <1>12, <1>13 DEF WorkOK
<1>15. Grows
  BY <1>1 DEF Grows, Whole, Unpacked
<1>16. TypeOK'
  BY <1>1, <1>2 DEF TypeOK
<1> QED  BY <1>1, <1>11, <1>14, <1>15, <1>16, RowsStay, NamesStay, OneMoves DEF DefinitionInv

LEMMA AbortStep ==
    ASSUME DefinitionInv, NEW c \in Client, Abort(c)
    PROVE  DefinitionInv'
<1>1. /\ job' = [job EXCEPT ![c] = Idle]
      /\ folder' = folder /\ row' = row /\ factory' = factory /\ vouched' = vouched
  BY DEF Abort, Finish
<1>2. DefinitionTypes /\ TypeOK
  BY DEF DefinitionInv, DefinitionTypes
<1>3. job'[c] = Idle /\ Idle.op = "idle" /\ Idle \in Requested
  BY <1>1, <1>2 DEF DefinitionTypes, Idle, Requested
<1>4. WorkOK(c)'
  BY <1>3 DEF WorkOK
<1>5. Grows
  BY <1>1 DEF Grows, Whole, Unpacked
<1>6. TypeOK'
  BY <1>1, <1>2 DEF TypeOK
<1> QED  BY <1>1, <1>3, <1>4, <1>5, <1>6, RowsStay, NamesStay, OneMoves DEF DefinitionInv

-----------------------------------------------------------------------------
(* A process starts                                                        *)
LEMMA LoadedFacts ==
    ASSUME DefinitionInv, NEW k \in Class, NEW name \in Loaded(k)
    PROVE  name \in Definition \cup {None, Shipped} /\ (name \in Definition => name \in vouched)
<1>1. None \notin Definition /\ Shipped \notin Definition
  <2>1. Definition = 1..Len(Upload) /\ Len(Upload) \in Nat /\ None \notin 0..Len(Upload)
    BY DefinitionsAssumption
  <2> QED  BY <2>1, DefinitionsAssumption
<1> DEFINE named == {d \in Definition : Loadable(d) /\ Upload[d].class = k}
<1>2. name \in {Shipped} \/ name \in {None} \/ name \in named
  BY DEF Loaded
<1>3. ASSUME name \in named PROVE name \in Definition /\ name \in vouched
  <2>1. name \in Definition /\ row[name] # None /\ row[name].status = "active"
    BY <1>3 DEF Loadable
  <2>2. RowOK(name)
    BY <2>1 DEF DefinitionInv
  <2> QED  BY <2>1, <2>2 DEF RowOK
<1> QED  BY <1>1, <1>2, <1>3

LEMMA RestartStep ==
    ASSUME DefinitionInv, NEW p \in Process, Restart(p)
    PROVE  DefinitionInv'
<1>1. PICK names \in [Class -> UNION {Loaded(k) : k \in Class}] :
         (\A k \in Class : names[k] \in Loaded(k)) /\ factory' = [factory EXCEPT ![p] = names]
  BY DEF Restart
<1>2. folder' = folder /\ row' = row /\ vouched' = vouched
  BY DEF Restart
<1>3. DefinitionTypes /\ TypeOK /\ CodeIsVouchedFor
  BY DEF DefinitionInv, DefinitionTypes
<1> DEFINE Names == Definition \cup {None, Shipped}
<1>4. \A k \in Class : names[k] \in Names /\ (names[k] \in Definition => names[k] \in vouched)
  BY <1>1, LoadedFacts
<1>5. factory \in [Process -> [Class -> Names]]
  BY <1>3 DEF TypeOK
<1> HIDE DEF Names
<1>6. names \in [Class -> Names]
  BY <1>1, <1>4
<1>7. /\ factory' \in [Process -> [Class -> Names]]
      /\ \A q \in Process, k \in Class : factory'[q][k] = IF q = p THEN names[k] ELSE factory[q][k]
  BY <1>1, <1>5, <1>6
<1>8. TypeOK'
  BY <1>2, <1>3, <1>7 DEF TypeOK, Names
<1>9. CodeIsVouchedFor'
  BY <1>2, <1>3, <1>4, <1>7 DEF CodeIsVouchedFor
<1>10. Grows
  BY <1>2 DEF Grows, Whole, Unpacked
<1>11. /\ job' \in [Client -> Requested]
       /\ \A c \in Client : job'[c] = Idle \/ job'[c] = job[c]
  <2>1. job' = [c \in Client |-> IF job[c] # Idle /\ job[c].proc = p THEN Idle ELSE job[c]]
    BY DEF Restart
  <2>2. Idle \in Requested /\ job \in [Client -> Requested]
    BY <1>3 DEF Requested, DefinitionTypes
  <2> HIDE DEF Requested
  <2> QED  BY <2>1, <2>2
<1>12. ASSUME NEW c \in Client PROVE WorkOK(c)'
  <2>1. CASE job'[c] = Idle
    <3>1. job'[c].op = "idle"
      BY <2>1 DEF Idle
    <3> QED  BY <3>1 DEF WorkOK
  <2>2. CASE job'[c] = job[c]
    BY <1>10, <2>2, OthersGoOn
  <2> QED  BY <1>11, <2>1, <2>2
<1>13. \A d \in Definition : RowOK(d)'
  BY <1>2, <1>10, RowsStay DEF DefinitionInv
<1> QED  BY <1>8, <1>9, <1>11, <1>12, <1>13 DEF DefinitionInv, DefinitionTypes

LEMMA DefinitionStart ==
    ASSUME Init
    PROVE  DefinitionInv
<1>1. None \notin Definition /\ Shipped \notin Definition
  <2>1. Definition = 1..Len(Upload) /\ Len(Upload) \in Nat /\ None \notin 0..Len(Upload)
    BY DefinitionsAssumption
  <2> QED  BY <2>1, DefinitionsAssumption
<1>2. TypeOK
  BY DEF Init, TypeOK
<1>3. job = [c \in Client |-> Idle] /\ Idle.op = "idle" /\ Idle \in Requested
  BY DEF Init, Idle, Requested
<1>4. job \in [Client -> Requested] /\ \A c \in Client : WorkOK(c)
  BY <1>3 DEF WorkOK
<1>5. \A d \in Definition : RowOK(d)
  BY DEF Init, RowOK
<1>6. CodeIsVouchedFor
  BY <1>1 DEF Init, CodeIsVouchedFor
<1> QED  BY <1>2, <1>4, <1>5, <1>6 DEF DefinitionInv, DefinitionTypes

LEMMA DefinitionStep ==
    ASSUME DefinitionInv, [Next]_vars
    PROVE  DefinitionInv'
<1>1. ASSUME NEW c \in Client, Handle(c) PROVE DefinitionInv'
  <2>1. CASE RegisterForDeploy(c)
    BY <2>1, RegisterStep
  <2>2. CASE Deploy(c)
    BY <2>2, DeployStep
  <2>3. CASE StoreDefinition(c)
    BY <2>3, StoreStep
  <2>4. CASE CommitRerun(c)
    BY <2>4, CommitRerunStep
  <2>5. CASE ListDefinitions(c)
    BY <2>5, ListStep
  <2>6. CASE Abort(c)
    BY <2>6, AbortStep
  <2>7. CASE \E passed \in BOOLEAN : RunTests(c, passed) \/ EndRerun(c, passed)
    BY <2>7, TestStep, EndRerunStep
  <2>8. CASE \E p \in Process, d \in Definition : ReadForDeploy(c, p, d) \/ StartRerun(c, p, d)
    BY <2>8, ReadStep, StartRerunStep
  <2>9. CASE \E p \in Process, d \in Definition : \E skip \in BOOLEAN : LoadPackage(c, p, d, skip)
    BY <2>9, LoadStep
  <2>10. CASE \E p \in Process, d \in Definition : StartListing(c, p, Upload[d].category)
    BY <2>10, StartListingStep DEF Category
  <2> QED  BY <1>1, <2>1, <2>2, <2>3, <2>4, <2>5, <2>6, <2>7, <2>8, <2>9, <2>10 DEF Handle
<1>2. ASSUME UNCHANGED vars PROVE DefinitionInv'
  <2>1. Grows /\ TypeOK' /\ job' \in [Client -> Requested] /\ factory' = factory /\ row' = row /\ job' = job
    BY <1>2 DEF vars, Grows, Whole, Unpacked, TypeOK, DefinitionInv, DefinitionTypes
  <2>2. \A c \in Client : WorkOK(c)'
    BY <2>1, OthersGoOn
  <2> QED  BY <2>1, <2>2, RowsStay, NamesStay DEF DefinitionInv, DefinitionTypes
<1> QED  BY <1>1, <1>2, RestartStep DEF Next

LEMMA DefinitionsHold == Spec => []DefinitionInv
<1>1. Init => DefinitionInv
  BY DefinitionStart
<1>2. DefinitionInv /\ [Next]_vars => DefinitionInv'
  BY DefinitionStep
<1> QED  BY <1>1, <1>2, PTL DEF Spec

(* Whatever uploads, tests, deployments and restarts overlap, and whatever *)
(* the packages hold: a name stands for code that somebody let through,    *)
(* and what is stored can be run.                                          *)
THEOREM StoredCodeIsSound == Spec => []DefinitionsAreSound
<1>1. DefinitionInv => DefinitionsAreSound
  BY DEF DefinitionInv, DefinitionsAreSound, RowOK, StoredCanRun, Whole
<1> QED  BY <1>1, DefinitionsHold, PTL

(* A client that follows the cursors to the end has been shown all that    *)
(* stood when it began, for any size of the pages.                         *)
THEOREM PagesMissNothing == Spec => []ListingIsComplete
<1>1. ASSUME DefinitionInv PROVE ListingIsComplete
  <2> SUFFICES ASSUME NEW c \in Client, job[c].op = "list", job[c].at = None
               PROVE  job[c].due \subseteq job[c].listed
    BY DEF ListingIsComplete
  <2>1. WorkOK(c)
    BY <1>1 DEF DefinitionInv
  <2> QED  BY <2>1 DEF WorkOK
<1> QED  BY <1>1, DefinitionsHold, PTL

-----------------------------------------------------------------------------
(* Who is told of an activity                                              *)
WorkerSteps == {"idle", "subscribers", "owner", "delegators", "members", "preferences", "filter", "over"}

WatchTypes ==
    /\ above \in [Places -> Places \cup {Nobody}]
    /\ owner \in [Places -> People \cup {Nobody}]
    /\ activity \in Activities \cup {Nobody}
    /\ worker \in [pc : WorkerSteps, at : Places \cup {Nobody}, chain : SUBSET Places,
                   found : SUBSET People, ask : SUBSET People]

(* Whose reason stands is met on the way up and found by the statement     *)
(* that asks for reasons of its kind.                                      *)
OnTheWay(route) ==
    \/ \E k \in DOMAIN route : worker.at = route[k] /\ \A j \in DOMAIN route : j < k => route[j] \in worker.chain
    \/ \A j \in DOMAIN route : route[j] \in worker.chain

FromSubscriptions == {"descendants", "resource"}

StandsFound(x) ==
    /\ worker.pc \in {"subscribers", "delegators"} => OnTheWay(x[2])
    /\ worker.pc = "owner" => (x[3] \in FromSubscriptions => x[1] \in worker.found)
    /\ worker.pc = "delegators" => (x[3] \in FromSubscriptions \cup {"owner"} => x[1] \in worker.found)
    /\ worker.pc = "members" => (x[3] # "member" => x[1] \in worker.found)
    /\ worker.pc = "preferences" => x[1] \in worker.found
    /\ worker.pc = "filter" => x[1] \in {activity.actor, activity.target} \cup worker.ask \cup worker.found
    /\ worker.pc = "over" => x[1] = activity.actor \/ <<"user", x[1]>> \in told

StandInv ==
    /\ activity = Nobody => worker = Resting /\ standing = {} /\ told = {}
    /\ worker.pc = "idle" => worker = Resting
    /\ worker.pc = "members" => activity.action \in _CHAT_ACTION_PREFIXES
    /\ standing \subseteq Reasons
    /\ \A x \in standing : StandsFound(x)

(* Whoever is found had a reason: while the tree stays, the way up is a    *)
(* route without circles.                                                  *)
StopsAt(route, r) ==
    /\ route[Len(route)] = r
    /\ \A i, j \in DOMAIN route : route[i] = route[j] => i = j
OnRoute(r) == \E route \in Routes : StopsAt(route, r)

HadInv == Delivering => Having.reason \subseteq had.reason /\ Having.wish \subseteq had.wish
FoundHad ==
    /\ Delivering => \A r \in worker.chain \cup ({worker.at} \ {Nobody}) : OnRoute(r)
    /\ Delivering => worker.found \cup worker.ask \subseteq had.reason
    /\ worker.pc = "filter" => worker.found \subseteq had.wish
    /\ \A p \in People : <<"user", p>> \in told => p = activity.target \/ p \in had.reason \cap had.wish

WatchInv == WatchTypes /\ StandInv /\ HadInv /\ (~changed.tree => FoundHad)

-----------------------------------------------------------------------------
LEMMA PathFacts ==
    ASSUME NEW path \in Paths
    PROVE  /\ Len(path) \in Nat /\ 1 <= Len(path) /\ Len(path) <= Cardinality(Places)
           /\ DOMAIN path = 1..Len(path) /\ \A k \in 1..Len(path) : path[k] \in Places
           /\ path \in [1..Len(path) -> Places]
<1>1. PICK n \in 1..Cardinality(Places) : path \in [1..n -> Places]
  BY DEF Paths
<1>2. Cardinality(Places) \in Nat
  BY WatchersAssumption, FS_CardinalityType
<1>3. n \in Nat /\ 1 <= n /\ n <= Cardinality(Places)
  BY <1>2
<1>4. path \in Seq(Places) /\ DOMAIN path = 1..n
  BY <1>1, <1>3
<1>5. Len(path) \in Nat /\ DOMAIN path = 1..Len(path)
  BY <1>4, LenProperties
<1>6. Len(path) = n
  BY <1>3, <1>4, <1>5
<1> QED  BY <1>1, <1>3, <1>6

LEMMA RouteFacts ==
    ASSUME NEW route \in Routes
    PROVE  /\ route \in Paths /\ route[1] = activity.place
           /\ \A k \in 1..Len(route) : k # 1 => route[k] = above[route[k - 1]]
BY PathFacts DEF Routes

(* A path of n places, whatever the way it is written.                     *)
LEMMA PathMade ==
    ASSUME NEW n \in Nat, 1 <= n, n <= Cardinality(Places), NEW path \in [1..n -> Places]
    PROVE  path \in Paths /\ Len(path) = n
<1>1. Cardinality(Places) \in Nat
  BY WatchersAssumption, FS_CardinalityType
<1>2. n \in 1..Cardinality(Places)
  BY <1>1
<1>3. path \in Paths
  BY <1>2 DEF Paths
<1>4. DOMAIN path = 1..Len(path) /\ Len(path) \in Nat
  BY <1>3, PathFacts
<1> QED  BY <1>3, <1>4

LEMMA AtThePlace ==
    ASSUME activity.place \in Places
    PROVE  OnRoute(activity.place)
<1>1. PICK route : route = [i \in 1..1 |-> activity.place]
  OBVIOUS
<1>2. Cardinality(Places) \in Nat /\ Cardinality(Places) # 0
  BY WatchersAssumption, FS_CardinalityType, FS_EmptySet
<1>3. route \in Paths /\ Len(route) = 1
  <2>1. 1 \in Nat /\ 1 <= 1 /\ 1 <= Cardinality(Places) /\ route \in [1..1 -> Places]
    BY <1>1, <1>2
  <2> QED  BY <2>1, PathMade
<1>4. DOMAIN route = {1} /\ route[1] = activity.place
  BY <1>1
<1>5. route \in Routes
  BY <1>3, <1>4 DEF Routes
<1> QED  BY <1>3, <1>4, <1>5 DEF OnRoute, StopsAt

(* The way goes on, or turns back to a place that it has been to.          *)
LEMMA WayGoesOn ==
    ASSUME NEW r \in Places, OnRoute(r), NEW up \in Places, above[r] = up
    PROVE  OnRoute(up)
<1>1. PICK route \in Routes : StopsAt(route, r)
  BY DEF OnRoute
<1>2. PICK n : n = Len(route)
  OBVIOUS
<1>3. /\ n \in Nat /\ 1 <= n /\ n <= Cardinality(Places) /\ DOMAIN route = 1..n
      /\ \A k \in 1..n : route[k] \in Places
      /\ route[1] = activity.place /\ \A k \in 1..n : k # 1 => route[k] = above[route[k - 1]]
      /\ route[n] = r /\ \A i, j \in 1..n : route[i] = route[j] => i = j
      /\ route \in [1..n -> Places]
  <2>1. route \in Paths
    BY RouteFacts
  <2> QED  BY <1>1, <1>2, <2>1, PathFacts, RouteFacts DEF StopsAt
<1>4. CASE \E j \in 1..n : route[j] = up
  <2>1. PICK j \in 1..n : route[j] = up
    BY <1>4
  <2>2. PICK short : short = [i \in 1..j |-> route[i]]
    OBVIOUS
  <2>3. j \in Nat /\ 1 <= j /\ j <= Cardinality(Places)
    BY <1>3, WatchersAssumption, FS_CardinalityType
  <2>4. short \in [1..j -> Places] /\ DOMAIN short = 1..j /\ \A i \in 1..j : short[i] = route[i] /\ i \in 1..n
    BY <1>3, <2>2, <2>3
  <2>5. short \in Paths /\ Len(short) = j
    BY <2>3, <2>4, PathMade
  <2>6. short \in Routes
    <3>1. short[1] = activity.place
      BY <1>3, <2>3, <2>4
    <3>2. ASSUME NEW k \in 1..j, k # 1  PROVE short[k] = above[short[k - 1]]
      <4>1. k - 1 \in 1..j
        BY <2>3, <3>2
      <4> QED  BY <1>3, <2>4, <3>2, <4>1
    <3> QED  BY <2>4, <2>5, <3>1, <3>2 DEF Routes
  <2>7. StopsAt(short, up)
    BY <1>3, <2>1, <2>3, <2>4, <2>5 DEF StopsAt
  <2> QED  BY <2>6, <2>7 DEF OnRoute
<1>5. CASE \A j \in 1..n : route[j] # up
  <2>1. PICK long : long = [i \in 1..n + 1 |-> IF i = n + 1 THEN up ELSE route[i]]
    OBVIOUS
  <2>2. \A i \in 1..n + 1 : i = n + 1 \/ i \in 1..n
    BY <1>3
  <2>3. /\ long \in [1..n + 1 -> Places] /\ DOMAIN long = 1..n + 1 /\ long[n + 1] = up
        /\ \A i \in 1..n : long[i] = route[i]
    BY <1>3, <2>1, <2>2
  <2>4. \A i, j \in 1..n + 1 : long[i] = long[j] => i = j
    BY <1>3, <1>5, <2>2, <2>3
  <2>5. long \in Injection(1..n + 1, Places)
    BY <2>3, <2>4 DEF Injection, IsInjective
  <2>6. Cardinality(1..n + 1) <= Cardinality(Places)
    BY <2>5, WatchersAssumption, FS_Injection
  <2>7. Cardinality(1..n + 1) = n + 1
    <3>1. 1 \in Int /\ n + 1 \in Int /\ ~(1 > n + 1)
      BY <1>3
    <3> QED  BY <1>3, <3>1, FS_Interval
  <2>8. long \in Paths /\ Len(long) = n + 1
    BY <1>3, <2>3, <2>6, <2>7, PathMade
  <2>9. long \in Routes
    <3>1. long[1] = activity.place
      BY <1>3, <2>3
    <3>2. ASSUME NEW k \in 1..n + 1, k # 1  PROVE long[k] = above[long[k - 1]]
      <4>1. k - 1 \in 1..n /\ (k = n + 1 \/ k \in 1..n)
        BY <1>3, <3>2
      <4> QED  BY <1>3, <2>3, <3>2, <4>1
    <3> QED  BY <2>3, <2>8, <3>1, <3>2 DEF Routes
  <2>10. StopsAt(long, up)
    BY <2>3, <2>4, <2>8 DEF StopsAt
  <2> QED  BY <2>9, <2>10 DEF OnRoute
<1> QED  BY <1>4, <1>5

-----------------------------------------------------------------------------
(* The reasons depend on the activity and the setting only.                *)
LEMMA SameReasons ==
    ASSUME UNCHANGED <<setting_vars, activity>>
    PROVE  /\ Routes' = Routes /\ Reasons' = Reasons /\ Having' = Having
           /\ \A p : Wishes(p)' <=> Wishes(p)
<1>1. UNCHANGED <<above, owner, follows, holds, taste, activity>>
  BY DEF setting_vars
<1>2. Routes' = Routes
  BY <1>1 DEF Routes
<1>3. \A p, route, kind : Reason(p, route, kind)' <=> Reason(p, route, kind)
  BY <1>1 DEF Reason
<1>4. \A p : Wishes(p)' <=> Wishes(p)
  BY <1>1 DEF Wishes
<1>5. Reasons' = Reasons
  BY <1>2, <1>3, <1>4 DEF Reasons
<1>6. Having' = Having
  BY <1>2, <1>3, <1>4 DEF Having
<1> QED  BY <1>2, <1>4, <1>5, <1>6

LEMMA StandingFacts ==
    ASSUME StandInv, NEW x \in standing
    PROVE  /\ activity # Nobody
           /\ x[1] \in People /\ x[2] \in Routes /\ x[3] \in Kinds
           /\ Reason(x[1], x[2], x[3]) /\ Wishes(x[1])
BY DEF StandInv, Reasons

(* A request changes the setting, and the history with it.                 *)
SettingTypes ==
    /\ above \in [Places -> Places \cup {Nobody}]
    /\ owner \in [Places -> People \cup {Nobody}]

LEMMA ObservedKeeps ==
    ASSUME WatchInv, NEW moved \in BOOLEAN, Observed(moved), SettingTypes',
           moved \/ UNCHANGED above
    PROVE  WatchInv'
<1>1. UNCHANGED <<activity, worker, told>> /\ (Delivering' <=> Delivering)
  BY DEF Observed, Delivering
<1>2. WatchTypes'
  BY <1>1 DEF WatchInv, WatchTypes, SettingTypes
<1>3. StandInv'
  <2>1. CASE activity = Nobody
    BY <1>1, <2>1 DEF Observed, history, WatchInv, StandInv
  <2>2. CASE activity # Nobody
    <3>1. standing' = standing \cap Reasons'
      BY <2>2 DEF Observed
    <3>2. \A x \in standing : StandsFound(x)'
      BY <1>1 DEF WatchInv, StandInv, StandsFound, OnTheWay
    <3>3. worker'.pc = "idle" => worker' = Resting'
      BY <1>1 DEF WatchInv, StandInv, Resting
    <3>4. worker'.pc = "members" => activity'.action \in _CHAT_ACTION_PREFIXES
      BY <1>1 DEF WatchInv, StandInv
    <3> QED  BY <1>1, <2>2, <3>1, <3>2, <3>3, <3>4 DEF StandInv
  <2> QED  BY <2>1, <2>2
<1>4. HadInv'
  <2>1. CASE Delivering
    <3>1. activity # Nobody
      BY <2>1 DEF Delivering, WatchInv, StandInv, Resting
    <3>2. had' = Grown(had, Having')
      BY <2>1, <3>1 DEF Observed
    <3> QED  BY <3>2 DEF HadInv, Grown
  <2>2. CASE ~Delivering
    BY <1>1, <2>2 DEF HadInv
  <2> QED  BY <2>1, <2>2
<1>5. had.reason \subseteq had'.reason /\ had.wish \subseteq had'.wish
  <2>1. CASE UNCHANGED history
    BY <2>1 DEF history
  <2>2. CASE ~UNCHANGED history
    <3>1. had' = had \/ had' = Grown(had, Having')
      BY <2>2 DEF Observed
    <3> QED  BY <3>1 DEF Grown
  <2> QED  BY <2>1, <2>2
<1>6. ASSUME ~changed'.tree  PROVE FoundHad'
  <2>1. ~changed.tree /\ (~moved \/ ~Delivering)
    BY <1>6 DEF Observed
  <2>2. FoundHad
    BY <2>1 DEF WatchInv
  <2>3. Delivering => \A r : OnRoute(r)' <=> OnRoute(r)
    <3>1. Delivering => UNCHANGED <<above, activity>>
      BY <1>1, <2>1
    <3> QED  BY <3>1 DEF OnRoute, Routes
  <2> QED  BY <1>1, <1>5, <2>2, <2>3 DEF FoundHad
<1> QED  BY <1>2, <1>3, <1>4, <1>6 DEF WatchInv

LEMMA RequestKeeps ==
    ASSUME WatchInv,
           \/ \E r, to \in Places : MoveTo(r, to)
           \/ \E r \in Places, p \in People :
                \/ Transfer(r, p)
                \/ \E scope \in Scopes : Subscribe(p, r, scope)
                \/ \E role \in Roles : Bind(p, r, role)
           \/ \E x \in follows : Unsubscribe(x)
           \/ \E p \in People, preference \in Preferences : Prefer(p, preference)
    PROVE  WatchInv'
<1>1. SettingTypes
  BY DEF WatchInv, WatchTypes, SettingTypes
<1>2. ASSUME NEW r \in Places, NEW to \in Places, MoveTo(r, to)  PROVE WatchInv'
  <2>1. Observed(TRUE) /\ SettingTypes'
    BY <1>1, <1>2 DEF MoveTo, SettingTypes
  <2> QED  BY <2>1, ObservedKeeps
<1>3. ASSUME NEW r \in Places, NEW p \in People, Transfer(r, p)  PROVE WatchInv'
  <2>1. Observed(FALSE) /\ SettingTypes' /\ UNCHANGED above
    BY <1>1, <1>3 DEF Transfer, SettingTypes
  <2> QED  BY <2>1, ObservedKeeps
<1>4. ASSUME \/ \E r \in Places, p \in People :
                  \/ \E scope \in Scopes : Subscribe(p, r, scope)
                  \/ \E role \in Roles : Bind(p, r, role)
             \/ \E x \in follows : Unsubscribe(x)
             \/ \E p \in People, preference \in Preferences : Prefer(p, preference)
      PROVE  WatchInv'
  <2>1. Observed(FALSE) /\ SettingTypes' /\ UNCHANGED above
    BY <1>1, <1>4 DEF Subscribe, Bind, Unsubscribe, Prefer, SettingTypes
  <2> QED  BY <2>1, ObservedKeeps
<1> QED  BY <1>2, <1>3, <1>4

LEMMA RecordKeeps ==
    ASSUME WatchInv, NEW a \in Activities, RecordActivity(a)
    PROVE  WatchInv'
<1>1. /\ activity = Nobody /\ activity' = a /\ a # Nobody
      /\ UNCHANGED <<above, owner, worker, told, had, changed>> /\ standing' = Reasons'
      /\ worker = Resting /\ told = {}
  BY ActivityAssumption DEF RecordActivity, setting_vars, WatchInv, StandInv
<1>2. WatchTypes'
  BY <1>1 DEF WatchInv, WatchTypes
<1>3. worker'.pc = "idle" /\ ~Delivering'
  BY <1>1 DEF Resting, Delivering
<1>4. \A x \in standing' : StandsFound(x)'
  BY <1>3 DEF StandsFound
<1>5. StandInv'
  <2>1. worker' = Resting' /\ worker'.pc # "members" /\ activity' # Nobody /\ standing' \subseteq Reasons'
    BY <1>1, <1>3 DEF Resting
  <2> QED  BY <1>4, <2>1 DEF StandInv
<1>6. HadInv' /\ FoundHad'
  BY <1>1, <1>3 DEF HadInv, FoundHad
<1> QED  BY <1>2, <1>5, <1>6 DEF WatchInv

-----------------------------------------------------------------------------
(* A step of the worker, which leaves the reasons as they are.             *)
WorkerRecord == [pc : WorkerSteps, at : Places \cup {Nobody}, chain : SUBSET Places,
                 found : SUBSET People, ask : SUBSET People]

LEMMA WorkerKeeps ==
    ASSUME WatchInv, activity # Nobody, UNCHANGED <<setting_vars, activity, standing, changed>>,
           worker' \in WorkerRecord, worker'.pc = "idle" => worker' = Resting,
           worker'.pc = "members" => activity.action \in _CHAT_ACTION_PREFIXES,
           HadInv', \A x \in standing : StandsFound(x)',
           ~changed.tree => FoundHad'
    PROVE  WatchInv'
<1>1. WatchTypes'
  BY DEF WatchInv, WatchTypes, WorkerRecord, setting_vars
<1>2. StandInv'
  BY SameReasons DEF WatchInv, StandInv
<1> QED  BY <1>1, <1>2 DEF WatchInv

LEMMA HadStays ==
    ASSUME WatchInv, UNCHANGED <<setting_vars, activity, had>>, Delivering
    PROVE  HadInv'
BY SameReasons DEF WatchInv, HadInv

(* Found by a statement that asks with a reason.                           *)
LEMMA WithReason ==
    ASSUME WatchInv, Delivering, NEW p \in People, NEW route \in Routes, NEW kind \in Kinds,
           Reason(p, route, kind)
    PROVE  p \in had.reason
BY DEF WatchInv, HadInv, Having

LEMMA HandleKeeps ==
    ASSUME WatchInv, handle_activity_outbox
    PROVE  WatchInv'
<1>1. /\ activity # Nobody /\ activity \in Activities /\ activity.place \in Places
      /\ UNCHANGED <<setting_vars, activity, told, standing, changed>>
      /\ worker = Resting
  BY DEF handle_activity_outbox, WatchInv, WatchTypes, StandInv, Activities
<1>2. worker' = [pc |-> "subscribers", at |-> activity.place, chain |-> {}, found |-> {}, ask |-> {}]
  BY <1>1 DEF handle_activity_outbox, Walk, Resting
<1>3. worker' \in WorkerRecord /\ worker'.pc = "subscribers" /\ Delivering'
  BY <1>1, <1>2 DEF WorkerRecord, WorkerSteps, Delivering
<1>4. had' = Grown(had, Having)
  BY DEF handle_activity_outbox
<1>5. HadInv'
  BY <1>1, <1>4, SameReasons DEF HadInv, Grown
<1>6. ASSUME NEW x \in standing  PROVE StandsFound(x)'
  <2>1. x[2] \in Routes
    BY StandingFacts DEF WatchInv
  <2>2. x[2][1] = activity.place /\ 1 \in DOMAIN x[2] /\ \A j \in DOMAIN x[2] : ~(j < 1)
    BY <2>1, RouteFacts, PathFacts
  <2>3. OnTheWay(x[2])'
    BY <1>2, <2>2 DEF OnTheWay
  <2> QED  BY <1>3, <2>3 DEF StandsFound
<1>7. ASSUME ~changed.tree  PROVE FoundHad'
  <2>1. OnRoute(activity.place)'
    BY <1>1, AtThePlace, SameReasons DEF OnRoute
  <2>2. \A p \in People : <<"user", p>> \in told' => p = activity'.target \/ p \in had'.reason \cap had'.wish
    BY <1>1, <1>4, <1>7 DEF WatchInv, FoundHad, Grown
  <2>3. worker'.chain \cup ({worker'.at} \ {Nobody}) = {activity'.place} \/ worker'.chain \cup ({worker'.at} \ {Nobody}) = {}
    BY <1>1, <1>2
  <2>4. \A r \in (worker.chain \cup ({worker.at} \ {Nobody}))' : OnRoute(r)'
    BY <1>1, <2>1, <2>3
  <2> QED  BY <1>2, <2>2, <2>4 DEF FoundHad
<1> QED  BY <1>1, <1>3, <1>5, <1>6, <1>7, WorkerKeeps

(* What Asks leaves as it was.                                             *)
LEMMA AskedFacts ==
    ASSUME WatchInv, NEW next, Asks(next), worker.pc # "idle"
    PROVE  /\ UNCHANGED <<setting_vars, activity, told, standing, had, changed>> /\ worker' = next
           /\ activity # Nobody /\ worker \in WorkerRecord
BY DEF Asks, history, WatchInv, WatchTypes, StandInv, Resting, WorkerRecord

LEMMA ChainKeeps ==
    ASSUME WatchInv, _resource_chain
    PROVE  WatchInv'
<1>1. worker.at # Nobody /\ worker.pc # "idle"
  BY DEF _resource_chain, WatchInv, StandInv, Resting
<1>2. PICK next : next = [worker EXCEPT !.at = above[worker.at], !.chain = worker.chain \cup {worker.at}]
  OBVIOUS
<1>3. Asks(next)
  BY <1>2 DEF _resource_chain
<1>4. /\ UNCHANGED <<setting_vars, activity, told, standing, had, changed>> /\ worker' = next
      /\ activity # Nobody /\ worker \in WorkerRecord
  BY <1>1, <1>3, AskedFacts
<1>5. worker.at \in Places /\ above[worker.at] \in Places \cup {Nobody}
  BY <1>1, <1>4 DEF WorkerRecord, WatchInv, WatchTypes
<1>6. /\ worker'.at = above[worker.at] /\ worker'.chain = worker.chain \cup {worker.at}
      /\ worker'.pc = worker.pc /\ worker'.found = worker.found /\ worker'.ask = worker.ask
      /\ worker' \in WorkerRecord
  BY <1>2, <1>4, <1>5 DEF WorkerRecord
<1>7. Delivering' <=> Delivering
  BY <1>6 DEF Delivering
<1>8. HadInv'
  BY <1>4, <1>7, HadStays DEF HadInv
<1>9. ASSUME NEW x \in standing  PROVE StandsFound(x)'
  <2>1. StandsFound(x) /\ x[2] \in Routes
    BY StandingFacts DEF WatchInv, StandInv
  <2>2. PICK route, n : route = x[2] /\ n = Len(route)
    OBVIOUS
  <2>3. /\ DOMAIN route = 1..n /\ n \in Nat
        /\ \A k \in 1..n : k # 1 => route[k] = above[route[k - 1]]
    BY <2>1, <2>2, RouteFacts, PathFacts
  <2>4. ASSUME OnTheWay(route)  PROVE OnTheWay(route)'
    <3>1. CASE \A j \in DOMAIN route : route[j] \in worker.chain
      BY <1>6, <3>1 DEF OnTheWay
    <3>2. ASSUME NEW k \in 1..n, worker.at = route[k], \A j \in 1..n : j < k => route[j] \in worker.chain
          PROVE  OnTheWay(route)'
      <4>1. \A j \in 1..n : j <= k => route[j] \in worker'.chain
        BY <1>6, <2>3, <3>2
      <4>2. CASE k = n
        <5>1. \A j \in DOMAIN route : route[j] \in worker'.chain
          BY <2>3, <4>1, <4>2
        <5> QED  BY <5>1 DEF OnTheWay
      <4>3. CASE k # n
        <5>1. k + 1 \in 1..n /\ k + 1 # 1 /\ (k + 1) - 1 = k
          BY <2>3, <4>3
        <5>2. route[k + 1] = worker'.at
          BY <1>6, <2>3, <3>2, <5>1
        <5>3. \A j \in 1..n : j < k + 1 => route[j] \in worker'.chain
          BY <2>3, <4>1
        <5> QED  BY <2>3, <5>1, <5>2, <5>3 DEF OnTheWay
      <4> QED  BY <4>2, <4>3
    <3> QED  BY <2>3, <2>4, <3>1, <3>2 DEF OnTheWay
  <2> QED  BY <1>4, <1>6, <2>1, <2>2, <2>4 DEF StandsFound
<1>10. ASSUME ~changed.tree  PROVE FoundHad'
  <2>1. FoundHad
    BY <1>10 DEF WatchInv
  <2>2. \A r : OnRoute(r)' <=> OnRoute(r)
    BY <1>4, SameReasons DEF OnRoute
  <2>3. ASSUME Delivering, NEW r \in worker'.chain \cup ({worker'.at} \ {Nobody})
        PROVE  OnRoute(r)
    <3>1. OnRoute(worker.at) /\ \A q \in worker.chain : OnRoute(q)
      BY <1>1, <2>1, <2>3 DEF FoundHad
    <3>2. above[worker.at] # Nobody => OnRoute(above[worker.at])
      BY <1>5, <3>1, WayGoesOn
    <3> QED  BY <1>6, <2>3, <3>1, <3>2
  <2> QED  BY <1>4, <1>6, <1>7, <2>1, <2>2, <2>3 DEF FoundHad
<1>11. worker'.pc = "members" => activity.action \in _CHAT_ACTION_PREFIXES
  BY <1>6 DEF WatchInv, StandInv
<1> QED  BY <1>1, <1>4, <1>6, <1>8, <1>9, <1>10, <1>11, WorkerKeeps

(* A statement that finds people, each for a reason that is theirs.        *)
LEMMA FindingKeeps ==
    ASSUME WatchInv, Delivering, worker.pc # "filter",
           UNCHANGED <<setting_vars, activity, told, standing, had, changed>>,
           worker' \in WorkerRecord, worker'.pc \notin {"idle", "over", "filter"},
           \/ worker'.at = worker.at /\ worker'.chain = worker.chain
           \/ worker'.at = activity.place /\ worker'.chain = {},
           worker'.pc = "members" => activity.action \in _CHAT_ACTION_PREFIXES,
           worker'.ask = worker.ask,
           ~changed.tree => \A p \in worker'.found \ worker.found : p \in had.reason,
           \A x \in standing : StandsFound(x)'
    PROVE  WatchInv'
<1>1. activity # Nobody /\ activity.place \in Places
  BY DEF Delivering, WatchInv, StandInv, Resting, WatchTypes, Activities
<1>2. Delivering'
  BY DEF Delivering
<1>3. HadInv'
  BY HadStays
<1>4. ASSUME ~changed.tree  PROVE FoundHad'
  <2>1. FoundHad
    BY <1>4 DEF WatchInv
  <2>2. \A r : OnRoute(r)' <=> OnRoute(r)
    BY SameReasons DEF OnRoute
  <2>3. OnRoute(activity.place)
    BY <1>1, AtThePlace
  <2>4. \A r \in worker'.chain \cup ({worker'.at} \ {Nobody}) : OnRoute(r)
    BY <2>1, <2>3 DEF FoundHad
  <2>5. worker'.found \cup worker'.ask \subseteq had.reason
    BY <1>4, <2>1 DEF FoundHad
  <2> QED  BY <2>1, <2>2, <2>4, <2>5 DEF FoundHad
<1> QED  BY <1>1, <1>3, <1>4, WorkerKeeps

(* What the chain has when the way up is over.                             *)
LEMMA WayIsOver ==
    ASSUME WatchInv, worker.pc \in {"subscribers", "delegators"}, worker.at = Nobody, NEW x \in standing
    PROVE  /\ x[2][Len(x[2])] \in worker.chain
           /\ Len(x[2]) = 1 => x[2][1] = activity.place
<1>1. OnTheWay(x[2]) /\ x[2] \in Routes /\ x[2] \in Paths
  BY StandingFacts, RouteFacts DEF WatchInv, StandInv, StandsFound
<1>2. /\ Len(x[2]) \in DOMAIN x[2] /\ \A k \in DOMAIN x[2] : x[2][k] \in Places
  BY <1>1, PathFacts
<1>3. \A k \in DOMAIN x[2] : x[2][k] # worker.at
  BY <1>2, WatchersAssumption
<1> QED  BY <1>1, <1>2, <1>3, RouteFacts DEF OnTheWay

LEMMA ChainHasReason ==
    ASSUME WatchInv, Delivering, ~changed.tree, NEW r \in worker.chain, NEW p \in People
    PROVE  /\ <<p, r, "descendants">> \in follows => p \in had.reason
           /\ <<p, r, "owner">> \in holds => p \in had.reason
<1>1. PICK route \in Routes : StopsAt(route, r)
  BY DEF WatchInv, FoundHad, OnRoute
<1>2. route[Len(route)] = r
  BY <1>1 DEF StopsAt
<1>3. <<p, r, "descendants">> \in follows => Reason(p, route, "descendants")
  BY <1>2 DEF Reason
<1>4. <<p, r, "owner">> \in holds => Reason(p, route, "delegator")
  BY <1>2 DEF Reason
<1>5. "descendants" \in Kinds /\ "delegator" \in Kinds
  BY DEF Kinds
<1> QED  BY <1>3, <1>4, <1>5, WithReason

(* The route that ends where it begins.                                    *)
LEMMA PlaceHasReason ==
    ASSUME WatchInv, Delivering, NEW p \in People,
           \/ <<p, activity.place, "resource">> \in follows
           \/ owner[activity.place] = p
           \/ activity.action \in _CHAT_ACTION_PREFIXES /\ \E role \in Roles : <<p, activity.place, role>> \in holds
    PROVE  p \in had.reason
<1>1. activity.place \in Places
  BY DEF Delivering, WatchInv, StandInv, Resting, WatchTypes, Activities
<1>2. PICK route : route = [i \in 1..1 |-> activity.place]
  OBVIOUS
<1>3. 1 \in Nat /\ 1 <= 1 /\ 1 <= Cardinality(Places) /\ route \in [1..1 -> Places]
  <2>1. Cardinality(Places) \in Nat /\ Cardinality(Places) # 0
    BY <1>1, WatchersAssumption, FS_CardinalityType, FS_EmptySet
  <2> QED  BY <1>1, <1>2, <2>1
<1>4. route \in Paths /\ Len(route) = 1
  BY <1>3, PathMade
<1>5. DOMAIN route = {1} /\ route[1] = activity.place
  BY <1>2
<1>6. route \in Routes
  BY <1>4, <1>5 DEF Routes
<1>7. \/ Reason(p, route, "resource") \/ Reason(p, route, "owner") \/ Reason(p, route, "member")
  BY <1>4, <1>5 DEF Reason
<1>8. {"resource", "owner", "member"} \subseteq Kinds
  BY DEF Kinds
<1> QED  BY <1>6, <1>7, <1>8, WithReason

LEMMA SubscribersKeeps ==
    ASSUME WatchInv, _subscription_watchers
    PROVE  WatchInv'
<1>1. worker.pc = "subscribers" /\ worker.at = Nobody /\ worker.pc # "idle" /\ Delivering
  BY DEF _subscription_watchers, Asked, Delivering
<1>2. PICK people : people = {p \in People : \E r \in worker.chain, scope \in Scopes :
             <<p, r, scope>> \in follows /\ (scope = "resource" => r = activity.place)}
  OBVIOUS
<1>3. PICK next : next = [worker EXCEPT !.found = worker.found \cup people, !.pc = "owner"]
  OBVIOUS
<1>4. Asks(next)
  BY <1>2, <1>3 DEF _subscription_watchers, Finds
<1>5. /\ UNCHANGED <<setting_vars, activity, told, standing, had, changed>> /\ worker' = next
      /\ activity # Nobody /\ worker \in WorkerRecord
  BY <1>1, <1>4, AskedFacts
<1>6. /\ worker'.found = worker.found \cup people /\ worker'.pc = "owner" /\ worker' \in WorkerRecord
      /\ worker'.at = worker.at /\ worker'.chain = worker.chain /\ worker'.ask = worker.ask
  <2>1. people \subseteq People /\ "owner" \in WorkerSteps
    BY <1>2 DEF WorkerSteps
  <2> QED  BY <1>3, <1>5, <2>1 DEF WorkerRecord
<1>7. ASSUME NEW x \in standing  PROVE StandsFound(x)'
  <2>1. x[1] \in People /\ Reason(x[1], x[2], x[3])
    BY StandingFacts DEF WatchInv
  <2>2. x[2][Len(x[2])] \in worker.chain /\ (Len(x[2]) = 1 => x[2][1] = activity.place)
    BY <1>1, WayIsOver
  <2>3. CASE x[3] = "descendants"
    <3>1. <<x[1], x[2][Len(x[2])], "descendants">> \in follows
      BY <2>1, <2>3 DEF Reason
    <3>2. x[1] \in people
      BY <1>2, <2>1, <2>2, <3>1 DEF Scopes
    <3> QED  BY <1>6, <3>2 DEF StandsFound
  <2>4. CASE x[3] = "resource"
    <3>1. <<x[1], x[2][Len(x[2])], "resource">> \in follows /\ x[2][Len(x[2])] = activity.place
      BY <2>1, <2>2, <2>4 DEF Reason
    <3>2. x[1] \in people
      BY <1>2, <2>1, <2>2, <3>1 DEF Scopes
    <3> QED  BY <1>6, <3>2 DEF StandsFound
  <2> QED  BY <1>6, <2>3, <2>4 DEF StandsFound, FromSubscriptions
<1>8. ASSUME ~changed.tree, NEW p \in people  PROVE p \in had.reason
  <2>1. PICK r \in worker.chain, scope \in Scopes :
            <<p, r, scope>> \in follows /\ (scope = "resource" => r = activity.place)
    BY <1>2
  <2>2. p \in People
    BY <1>2
  <2>3. CASE scope = "resource"
    BY <1>1, <2>1, <2>2, <2>3, PlaceHasReason
  <2>4. CASE scope = "descendants"
    BY <1>1, <1>8, <2>1, <2>2, <2>4, ChainHasReason
  <2> QED  BY <2>3, <2>4 DEF Scopes
<1>9. ~changed.tree => \A p \in worker'.found \ worker.found : p \in had.reason
  BY <1>6, <1>8
<1>10. /\ worker.pc # "filter" /\ worker'.pc \notin {"idle", "over", "filter", "members"}
       /\ worker'.at = worker.at /\ worker'.chain = worker.chain /\ worker'.ask = worker.ask
       /\ worker' \in WorkerRecord
  BY <1>1, <1>6
<1>11. \A x \in standing : StandsFound(x)'
  BY <1>7
<1> QED  BY <1>1, <1>5, <1>9, <1>10, <1>11, FindingKeeps

LEMMA OwnerKeeps ==
    ASSUME WatchInv, _resource_owner
    PROVE  WatchInv'
<1>1. worker.pc = "owner" /\ worker.pc # "idle" /\ Delivering
  BY DEF _resource_owner, Delivering
<1>2. PICK people : people = {owner[activity.place]} \ {Nobody}
  OBVIOUS
<1>3. PICK next : next = [Walk("delegators") EXCEPT !.found = @ \cup people]
  OBVIOUS
<1>4. Asks(next)
  BY <1>1, <1>2, <1>3 DEF _resource_owner
<1>5. /\ UNCHANGED <<setting_vars, activity, told, standing, had, changed>> /\ worker' = next
      /\ activity # Nobody /\ worker \in WorkerRecord
  BY <1>1, <1>4, AskedFacts
<1>6. activity.place \in Places /\ people \subseteq People
  BY <1>2, <1>5 DEF WatchInv, WatchTypes, Activities
<1>7. /\ worker'.found = worker.found \cup people /\ worker'.pc = "delegators" /\ worker' \in WorkerRecord
      /\ worker'.at = activity.place /\ worker'.chain = {} /\ worker'.ask = worker.ask
  BY <1>3, <1>5, <1>6 DEF WorkerRecord, Walk, WorkerSteps
<1>8. ASSUME NEW x \in standing  PROVE StandsFound(x)'
  <2>1. x[1] \in People /\ Reason(x[1], x[2], x[3]) /\ x[2] \in Routes /\ StandsFound(x)
    BY StandingFacts DEF WatchInv, StandInv
  <2>2. x[2][1] = activity.place /\ 1 \in DOMAIN x[2] /\ Len(x[2]) \in DOMAIN x[2]
        /\ \A j \in DOMAIN x[2] : ~(j < 1)
    BY <2>1, RouteFacts, PathFacts
  <2>3. OnTheWay(x[2])'
    BY <1>7, <2>2 DEF OnTheWay
  <2>4. CASE x[3] = "owner"
    <3>1. owner[activity.place] = x[1] /\ x[1] # Nobody
      BY <2>1, <2>2, <2>4, WatchersAssumption DEF Reason
    <3> QED  BY <1>2, <1>7, <2>3, <3>1 DEF StandsFound
  <2>5. CASE x[3] \in FromSubscriptions
    BY <1>1, <1>7, <2>1, <2>3, <2>5 DEF StandsFound
  <2> QED  BY <1>7, <2>3, <2>4, <2>5 DEF StandsFound
<1>9. ~changed.tree => \A p \in worker'.found \ worker.found : p \in had.reason
  <2>1. ASSUME NEW p \in people  PROVE p \in had.reason
    <3>1. p \in People /\ owner[activity.place] = p
      BY <1>2, <1>6
    <3> QED  BY <1>1, <3>1, PlaceHasReason
  <2> QED  BY <1>7, <2>1
<1> QED  BY <1>1, <1>5, <1>7, <1>8, <1>9, FindingKeeps

LEMMA DelegatorsKeeps ==
    ASSUME WatchInv, _resource_delegators
    PROVE  WatchInv'
<1>1. worker.pc = "delegators" /\ worker.at = Nobody /\ worker.pc # "idle" /\ worker.pc # "filter" /\ Delivering
  BY DEF _resource_delegators, Asked, Delivering
<1>2. PICK people : people = {p \in People : \E r \in worker.chain : <<p, r, "owner">> \in holds}
  OBVIOUS
<1>3. PICK c : c = IF activity.action \in _CHAT_ACTION_PREFIXES THEN "members" ELSE "preferences"
  OBVIOUS
<1>4. PICK next : next = [worker EXCEPT !.found = worker.found \cup people, !.pc = c]
  OBVIOUS
<1>5. Asks(next)
  BY <1>2, <1>3, <1>4 DEF _resource_delegators, Finds
<1>6. /\ UNCHANGED <<setting_vars, activity, told, standing, had, changed>> /\ worker' = next
      /\ activity # Nobody /\ worker \in WorkerRecord
  BY <1>1, <1>5, AskedFacts
<1>7. /\ worker'.found = worker.found \cup people /\ worker'.pc = c /\ worker' \in WorkerRecord
      /\ worker'.at = worker.at /\ worker'.chain = worker.chain /\ worker'.ask = worker.ask
  <2>1. people \subseteq People /\ c \in WorkerSteps
    BY <1>2, <1>3 DEF WorkerSteps
  <2> QED  BY <1>4, <1>6, <2>1 DEF WorkerRecord
<1>8. ASSUME NEW x \in standing  PROVE StandsFound(x)'
  <2>1. x[1] \in People /\ Reason(x[1], x[2], x[3]) /\ x[3] \in Kinds /\ StandsFound(x)
    BY StandingFacts DEF WatchInv, StandInv
  <2>2. x[2][Len(x[2])] \in worker.chain
    BY <1>1, WayIsOver
  <2>3. x[3] # "member" => x[1] \in worker'.found
    <3>1. CASE x[3] = "delegator"
      <4>1. <<x[1], x[2][Len(x[2])], "owner">> \in holds
        BY <2>1, <3>1 DEF Reason
      <4> QED  BY <1>2, <1>7, <2>1, <2>2, <4>1
    <3>2. CASE x[3] \in FromSubscriptions \cup {"owner"}
      BY <1>1, <1>7, <2>1, <3>2 DEF StandsFound
    <3> QED  BY <2>1, <3>1, <3>2 DEF Kinds, FromSubscriptions
  <2>4. CASE x[3] = "member"
    <3>1. activity.action \in _CHAT_ACTION_PREFIXES
      BY <2>1, <2>4 DEF Reason
    <3>2. worker'.pc = "members"
      BY <1>3, <1>7, <3>1
    <3> QED  BY <2>4, <3>2 DEF StandsFound
  <2>5. worker'.pc \in {"members", "preferences"}
    BY <1>3, <1>7
  <2> QED  BY <2>3, <2>4, <2>5 DEF StandsFound
<1>9. ~changed.tree => \A p \in worker'.found \ worker.found : p \in had.reason
  <2>1. ASSUME ~changed.tree, NEW p \in people  PROVE p \in had.reason
    <3>1. PICK r \in worker.chain : <<p, r, "owner">> \in holds
      BY <1>2
    <3>2. p \in People
      BY <1>2
    <3> QED  BY <1>1, <2>1, <3>1, <3>2, ChainHasReason
  <2> QED  BY <1>7, <2>1
<1>10. /\ worker'.pc \notin {"idle", "over", "filter"}
       /\ worker'.at = worker.at /\ worker'.chain = worker.chain /\ worker'.ask = worker.ask
       /\ worker' \in WorkerRecord /\ (worker'.pc = "members" => activity.action \in _CHAT_ACTION_PREFIXES)
  BY <1>1, <1>3, <1>7
<1>11. \A x \in standing : StandsFound(x)'
  BY <1>8
<1> QED  BY <1>1, <1>6, <1>9, <1>10, <1>11, FindingKeeps

(* Chat is asked for by statement; the place's members all have a reason.  *)
LEMMA MembersKeeps ==
    ASSUME WatchInv, _channel_members
    PROVE  WatchInv'
<1>1. worker.pc = "members" /\ worker.pc # "idle" /\ worker.pc # "filter" /\ Delivering
  BY DEF _channel_members, Delivering
<1>2. PICK people : people = {p \in People : \E role \in Roles : <<p, activity.place, role>> \in holds}
  OBVIOUS
<1>3. PICK next : next = [worker EXCEPT !.found = worker.found \cup people, !.pc = "preferences"]
  OBVIOUS
<1>4. Asks(next)
  BY <1>2, <1>3 DEF _channel_members, Finds
<1>5. /\ UNCHANGED <<setting_vars, activity, told, standing, had, changed>> /\ worker' = next
      /\ activity # Nobody /\ worker \in WorkerRecord
  BY <1>1, <1>4, AskedFacts
<1>6. /\ worker'.found = worker.found \cup people /\ worker'.pc = "preferences" /\ worker' \in WorkerRecord
      /\ worker'.at = worker.at /\ worker'.chain = worker.chain /\ worker'.ask = worker.ask
  <2>1. people \subseteq People /\ "preferences" \in WorkerSteps
    BY <1>2 DEF WorkerSteps
  <2> QED  BY <1>3, <1>5, <2>1 DEF WorkerRecord
<1>7. \A x \in standing : StandsFound(x)'
  <2>1. ASSUME NEW x \in standing  PROVE x[1] \in worker'.found
    <3>1. x[1] \in People /\ Reason(x[1], x[2], x[3]) /\ x[2] \in Routes /\ StandsFound(x)
      BY StandingFacts DEF WatchInv, StandInv
    <3>2. CASE x[3] = "member"
      <4>1. PICK role \in Roles : Len(x[2]) = 1 /\ <<x[1], x[2][Len(x[2])], role>> \in holds
        BY <3>1, <3>2 DEF Reason
      <4>2. x[2][Len(x[2])] = activity.place
        BY <3>1, <4>1, RouteFacts
      <4> QED  BY <1>2, <1>6, <3>1, <4>1, <4>2
    <3>3. CASE x[3] # "member"
      BY <1>1, <1>6, <3>1, <3>3 DEF StandsFound
    <3> QED  BY <3>2, <3>3
  <2> QED  BY <1>6, <2>1 DEF StandsFound
<1>8. ~changed.tree => \A p \in worker'.found \ worker.found : p \in had.reason
  <2>1. ASSUME NEW p \in people  PROVE p \in had.reason
    <3>1. activity.action \in _CHAT_ACTION_PREFIXES
      BY <1>1 DEF WatchInv, StandInv
    <3> QED  BY <1>1, <1>2, <3>1, PlaceHasReason
  <2> QED  BY <1>6, <2>1
<1>9. /\ worker'.pc \notin {"idle", "over", "filter"} /\ worker'.ask = worker.ask /\ worker' \in WorkerRecord
  BY <1>6
<1>10. worker'.at = worker.at /\ worker'.chain = worker.chain /\ worker'.pc # "members"
  BY <1>6
<1> QED  BY <1>1, <1>5, <1>7, <1>8, <1>9, <1>10, FindingKeeps

LEMMA DiscardKeeps ==
    ASSUME WatchInv, Discard
    PROVE  WatchInv'
<1>1. worker.pc = "preferences" /\ worker.pc # "idle" /\ Delivering
  BY DEF Discard, Delivering
<1>2. PICK others : others = worker.found \ {activity.actor, activity.target}
  OBVIOUS
<1>3. PICK next : next = [worker EXCEPT !.pc = "filter", !.ask = others, !.found = {}]
  OBVIOUS
<1>4. Asks(next)
  BY <1>2, <1>3 DEF Discard
<1>5. /\ UNCHANGED <<setting_vars, activity, told, standing, had, changed>> /\ worker' = next
      /\ activity # Nobody /\ worker \in WorkerRecord
  BY <1>1, <1>4, AskedFacts
<1>6. /\ worker'.found = {} /\ worker'.ask = others /\ worker'.pc = "filter" /\ worker' \in WorkerRecord
      /\ worker'.at = worker.at /\ worker'.chain = worker.chain
  <2>1. others \in SUBSET People /\ {} \in SUBSET People /\ "filter" \in WorkerSteps
    BY <1>2, <1>5 DEF WorkerSteps, WorkerRecord
  <2> QED  BY <1>3, <1>5, <2>1 DEF WorkerRecord
<1>7. Delivering'
  BY <1>6 DEF Delivering
<1>8. HadInv'
  BY <1>1, <1>5, HadStays
<1>9. \A x \in standing : StandsFound(x)'
  <2>1. ASSUME NEW x \in standing  PROVE x[1] \in {activity.actor, activity.target} \cup worker'.ask
    <3>1. x[1] \in worker.found
      BY <1>1 DEF WatchInv, StandInv, StandsFound
    <3> QED  BY <1>2, <1>6, <3>1
  <2> QED  BY <1>5, <1>6, <2>1 DEF StandsFound
<1>10. ASSUME ~changed.tree  PROVE FoundHad'
  <2>1. FoundHad
    BY <1>10 DEF WatchInv
  <2>2. \A r : OnRoute(r)' <=> OnRoute(r)
    BY <1>5, SameReasons DEF OnRoute
  <2>3. worker'.found \cup worker'.ask \subseteq had.reason /\ worker'.found \subseteq had.wish
    BY <1>1, <1>2, <1>6, <2>1 DEF FoundHad
  <2> QED  BY <1>1, <1>5, <1>6, <2>1, <2>2, <2>3 DEF FoundHad
<1>11. worker'.pc # "idle" /\ worker'.pc # "members"
  BY <1>6
<1> QED  BY <1>5, <1>6, <1>8, <1>9, <1>10, <1>11, WorkerKeeps

LEMMA FilterKeeps ==
    ASSUME WatchInv, NEW p \in People, _filter_watchers_by_preference(p)
    PROVE  WatchInv'
<1>1. worker.pc = "filter" /\ worker.pc # "idle" /\ Delivering /\ p \in worker.ask
  BY DEF _filter_watchers_by_preference, Delivering
<1>2. PICK kept : kept = IF Wishes(p) THEN worker.found \cup {p} ELSE worker.found
  OBVIOUS
<1>3. PICK next : next = [worker EXCEPT !.ask = worker.ask \ {p}, !.found = kept]
  OBVIOUS
<1>4. Asks(next)
  BY <1>2, <1>3 DEF _filter_watchers_by_preference
<1>5. /\ UNCHANGED <<setting_vars, activity, told, standing, had, changed>> /\ worker' = next
      /\ activity # Nobody /\ worker \in WorkerRecord
  BY <1>1, <1>4, AskedFacts
<1>6. /\ worker'.found = kept /\ worker'.ask = worker.ask \ {p} /\ worker'.pc = "filter" /\ worker' \in WorkerRecord
      /\ worker'.at = worker.at /\ worker'.chain = worker.chain
  <2>1. kept \in SUBSET People /\ worker.ask \ {p} \in SUBSET People
    BY <1>2, <1>5 DEF WorkerRecord
  <2> QED  BY <1>1, <1>3, <1>5, <2>1 DEF WorkerRecord
<1>7. HadInv'
  BY <1>1, <1>5, HadStays
<1>8. \A x \in standing : StandsFound(x)'
  <2>1. ASSUME NEW x \in standing
        PROVE  x[1] \in {activity.actor, activity.target} \cup worker'.ask \cup worker'.found
    <3>1. x[1] \in {activity.actor, activity.target} \cup worker.ask \cup worker.found
      BY <1>1 DEF WatchInv, StandInv, StandsFound
    <3>2. Wishes(x[1])
      BY StandingFacts DEF WatchInv
    <3> QED  BY <1>2, <1>6, <3>1, <3>2
  <2> QED  BY <1>5, <1>6, <2>1 DEF StandsFound
<1>9. ASSUME ~changed.tree  PROVE FoundHad'
  <2>1. FoundHad
    BY <1>9 DEF WatchInv
  <2>2. \A r : OnRoute(r)' <=> OnRoute(r)
    BY <1>5, SameReasons DEF OnRoute
  <2>3. Wishes(p) => p \in had.wish
    BY <1>1 DEF WatchInv, HadInv, Having
  <2>4. worker'.found \cup worker'.ask \subseteq had.reason /\ worker'.found \subseteq had.wish
    BY <1>1, <1>2, <1>6, <2>1, <2>3 DEF FoundHad
  <2> QED  BY <1>1, <1>5, <1>6, <2>1, <2>2, <2>4 DEF FoundHad
<1>10. worker'.pc # "idle" /\ worker'.pc # "members"
  BY <1>6
<1> QED  BY <1>5, <1>6, <1>7, <1>8, <1>9, <1>10, WorkerKeeps

(* A push that fails has told some, all of whom had a reason.              *)
LEMMA PublishKeeps ==
    ASSUME WatchInv, publish_channels
    PROVE  WatchInv'
<1>1. /\ worker.pc = "filter" /\ worker.pc # "idle" /\ worker.ask = {} /\ Delivering
      /\ UNCHANGED <<setting_vars, activity, standing, had, changed>>
  BY DEF publish_channels, Delivering, history
<1>2. PICK channels : channels = _activity_channels \cup {<<"user", p>> : p \in worker.found}
  OBVIOUS
<1>3. PICK pc, sent : /\ worker' = [Resting EXCEPT !.pc = pc] /\ told' = told \cup sent /\ sent \subseteq channels
                      /\ pc \in {"idle", "over"} /\ (pc = "over" => sent = channels)
  <2>1. CASE told' = told \cup channels /\ worker' = [Resting EXCEPT !.pc = "over"]
    BY <2>1
  <2>2. CASE \E sent \in SUBSET channels : told' = told \cup sent /\ worker' = Resting
    <3>1. Resting = [Resting EXCEPT !.pc = "idle"]
      BY DEF Resting
    <3>2. PICK sent \in SUBSET channels : told' = told \cup sent /\ worker' = Resting
      BY <2>2
    <3>3. worker' = [Resting EXCEPT !.pc = "idle"] /\ told' = told \cup sent /\ sent \subseteq channels /\ "idle" # "over"
      BY <3>1, <3>2
    <3> QED  BY <3>3
  <2> QED  BY <1>2, <2>1, <2>2 DEF publish_channels
<1>4. /\ worker'.pc = pc /\ worker'.at = Nobody /\ worker'.chain = {} /\ worker'.found = {} /\ worker'.ask = {}
      /\ worker' \in WorkerRecord /\ (pc = "idle" => worker' = Resting) /\ ~Delivering'
  BY <1>3 DEF Resting, WorkerRecord, WorkerSteps, Delivering
<1>5. activity # Nobody /\ activity.target \in People \cup {Nobody}
  BY <1>1 DEF WatchInv, StandInv, Resting, WatchTypes, Activities
<1>6. \A p \in People : /\ p = activity.target => <<"user", p>> \in channels
                        /\ p \in worker.found => <<"user", p>> \in channels
                        /\ <<"user", p>> \in channels => p = activity.target \/ p \in worker.found
  BY <1>2, WatchersAssumption DEF _activity_channels
<1>7. HadInv'
  BY <1>4 DEF HadInv
<1>8. \A x \in standing : StandsFound(x)'
  <2>1. ASSUME NEW x \in standing, pc = "over"  PROVE x[1] = activity.actor \/ <<"user", x[1]>> \in told'
    <3>1. x[1] \in {activity.actor, activity.target} \cup worker.found /\ x[1] \in People
      BY <1>1, StandingFacts DEF WatchInv, StandInv, StandsFound
    <3> QED  BY <1>3, <1>6, <2>1, <3>1
  <2>2. worker'.pc = "over" \/ worker'.pc = "idle"
    BY <1>3, <1>4
  <2> QED  BY <1>1, <1>4, <2>1, <2>2 DEF StandsFound
<1>9. ASSUME ~changed.tree  PROVE FoundHad'
  <2>1. FoundHad
    BY <1>9 DEF WatchInv
  <2>2. worker.found \subseteq had.reason \cap had.wish
    BY <1>1, <2>1 DEF FoundHad
  <2>3. \A p \in People : <<"user", p>> \in told' => p = activity.target \/ p \in had.reason \cap had.wish
    BY <1>3, <1>6, <2>1, <2>2 DEF FoundHad
  <2>4. worker'.pc # "filter"
    BY <1>3, <1>4
  <2> QED  BY <1>1, <1>4, <2>3, <2>4 DEF FoundHad
<1>10. WatchTypes'
  BY <1>1, <1>4 DEF WatchInv, WatchTypes, WorkerRecord, setting_vars
<1>11. StandInv'
  <2>1. worker'.pc # "members" /\ (worker'.pc = "idle" => worker' = Resting')
    BY <1>3, <1>4 DEF Resting
  <2>2. standing' \subseteq Reasons'
    BY <1>1, SameReasons DEF WatchInv, StandInv
  <2> QED  BY <1>1, <1>5, <1>8, <2>1, <2>2 DEF StandInv
<1> QED  BY <1>7, <1>9, <1>1, <1>10, <1>11 DEF WatchInv

LEMMA WatchStutters ==
    ASSUME WatchInv, UNCHANGED watch_vars
    PROVE  WatchInv'
<1>1. UNCHANGED <<above, owner, setting_vars, activity, worker, told, standing, had, changed>>
  BY DEF watch_vars, setting_vars, history
<1>2. WatchTypes'
  BY <1>1 DEF WatchInv, WatchTypes
<1>3. StandInv'
  BY <1>1, SameReasons DEF WatchInv, StandInv, StandsFound, OnTheWay, Resting
<1>4. HadInv'
  BY <1>1, SameReasons DEF WatchInv, HadInv, Delivering
<1>5. FoundHad => FoundHad'
  <2>1. \A r : OnRoute(r)' <=> OnRoute(r)
    BY <1>1, SameReasons DEF OnRoute
  <2> QED  BY <1>1, <2>1 DEF FoundHad, Delivering
<1> QED  BY <1>1, <1>2, <1>3, <1>4, <1>5 DEF WatchInv

LEMMA WatchBegins ==
    ASSUME WatchInit
    PROVE  WatchInv
<1>1. activity = Nobody /\ worker = Resting /\ told = {} /\ standing = {} /\ ~Delivering
  BY DEF WatchInit, Resting, Delivering
<1>2. WatchTypes
  BY <1>1 DEF WatchInit, WatchTypes, Resting, WorkerSteps
<1>3. StandInv /\ HadInv /\ FoundHad
  BY <1>1 DEF StandInv, HadInv, FoundHad, Resting
<1> QED  BY <1>2, <1>3 DEF WatchInv

(* Whoever watches is told and nobody else is: ToldRightly, between the    *)
(* statements of handle_activity_outbox and whatever is requested          *)
(* meanwhile, however far the way up and however often it is tried.        *)
THEOREM WatchersAreTold == WatchSpec => []ToldRightly
<1>1. WatchInit => WatchInv
  BY WatchBegins
<1>2. WatchInv /\ [WatchNext]_watch_vars => WatchInv'
  <2> SUFFICES ASSUME WatchInv, [WatchNext]_watch_vars  PROVE WatchInv'
    OBVIOUS
  <2>1. CASE \/ \E r, to \in Places : MoveTo(r, to)
             \/ \E r \in Places, p \in People :
                  \/ Transfer(r, p)
                  \/ \E scope \in Scopes : Subscribe(p, r, scope)
                  \/ \E role \in Roles : Bind(p, r, role)
             \/ \E x \in follows : Unsubscribe(x)
             \/ \E p \in People, preference \in Preferences : Prefer(p, preference)
    BY <2>1, RequestKeeps
  <2>2. CASE \E a \in Activities : RecordActivity(a)
    BY <2>2, RecordKeeps
  <2>3. CASE handle_activity_outbox \/ _resource_chain \/ _subscription_watchers \/ _resource_owner
    BY <2>3, HandleKeeps, ChainKeeps, SubscribersKeeps, OwnerKeeps
  <2>4. CASE _resource_delegators \/ _channel_members \/ Discard \/ publish_channels
    BY <2>4, DelegatorsKeeps, MembersKeeps, DiscardKeeps, PublishKeeps
  <2>5. CASE \E p \in People : _filter_watchers_by_preference(p)
    BY <2>5, FilterKeeps
  <2>6. CASE UNCHANGED watch_vars
    BY <2>6, WatchStutters
  <2> QED  BY <2>1, <2>2, <2>3, <2>4, <2>5, <2>6 DEF WatchNext
<1>3. WatchInv => ToldRightly
  BY DEF WatchInv, StandInv, StandsFound, FoundHad, ToldRightly, StandingAreTold, OnlyWatchersAreTold
<1> QED  BY <1>1, <1>2, <1>3, PTL DEF WatchSpec

-----------------------------------------------------------------------------
(* The requests                                                            *)
RequestTypes ==
    /\ dialect \in {"postgres", "sqlite"}
    /\ request \in [handler : DOMAIN Handler \cup {"none"}, script : Seq(Operations), at : Nat,
                    reply : {"none", "ok", "error"}]
    /\ request.at <= Len(request.script)
    /\ session \in [tx : BOOLEAN, point : {"none", "outer", "savepoint"}, held : BOOLEAN,
                    pending : SUBSET Written, sent : SUBSET Written]

Unstored == session.pending \cup session.sent

(* Whether no block is open after n operations.                            *)
Outside(script, n) == \A i \in 1..n : script[i].op = "begin" => \E j \in i..n : script[j].op = "end"
BlockInv ==
    Running => /\ Outside(request.script, request.at) => session.point = "none"
               /\ InTransaction(request.script, request.at) => session.tx /\ session.point # "outer"

(* What the session holds was written after the last reset.  What lasts    *)
(* and was written is in the session, unless something may have committed. *)
Fresh(script, n, database, held) ==
    /\ \A x \in held : \E i \in Wrote(script) :
          i <= n /\ script[i].row = x /\ \A j \in i..n : script[j].op # "reset"
    /\ \A i \in Wrote(script) \cap Lasting(script) :
          i <= n => script[i].row \in held \/ \E k \in i..n : MayCommit(script, k, database)

(* Of these rows all that was written or none is in the session, and all   *)
(* that lasts or none is stored.                                           *)
Part(script, rows) == {i \in Wrote(script) \cap Lasting(script) : script[i].row \in rows}
HeldTogether(script, n, held, rows) ==
    held \cap rows # {} => \A i \in Part(script, rows) : i <= n => script[i].row \in held
StoredTogether(script, there, rows) ==
    /\ \A x \in there \cap rows : \E i \in Part(script, rows) : script[i].row = x
    /\ there \cap rows # {} => \A i \in Part(script, rows) : script[i].row \in there

PartInv ==
    /\ Running => Fresh(request.script, request.at, dialect, Unstored)
    /\ stored \subseteq Writes(request.script)
    /\ \A rows : Together(request.script, dialect, rows) =>
          /\ Running => HeldTogether(request.script, request.at, Unstored, rows)
          /\ StoredTogether(request.script, stored, rows)

RequestInv == RequestTypes /\ BlockInv /\ PartInv

-----------------------------------------------------------------------------
(* ----- one operation more ----- *)
LEMMA FreshStays ==
    ASSUME NEW script \in Seq(Operations), NEW n \in Nat, n + 1 \in 1..Len(script), NEW database, NEW held,
           Fresh(script, n, database, held),
           script[n + 1].op \notin {"add", "execute", "reset"}
    PROVE  Fresh(script, n + 1, database, held)
<1>1. n + 1 \notin Wrote(script)
  BY DEF Wrote
<1>2. ASSUME NEW x \in held
      PROVE  \E i \in Wrote(script) : i <= n + 1 /\ script[i].row = x /\ \A j \in i..n + 1 : script[j].op # "reset"
  <2>1. PICK i \in Wrote(script) : i <= n /\ script[i].row = x /\ \A j \in i..n : script[j].op # "reset"
    BY DEF Fresh
  <2>2. i \in Nat /\ \A j \in i..n + 1 : j \in i..n \/ j = n + 1
    BY DEF Wrote
  <2> QED  BY <2>1, <2>2
<1>3. ASSUME NEW i \in Wrote(script) \cap Lasting(script), i <= n + 1
      PROVE  script[i].row \in held \/ \E k \in i..n + 1 : MayCommit(script, k, database)
  <2>1. i \in Nat /\ i # n + 1
    BY <1>1 DEF Wrote
  <2>2. i <= n /\ \A k \in i..n : k \in i..n + 1
    BY <1>3, <2>1
  <2> QED  BY <2>2 DEF Fresh
<1> QED  BY <1>2, <1>3 DEF Fresh

LEMMA FreshWrites ==
    ASSUME NEW script \in Seq(Operations), NEW n \in Nat, n + 1 \in 1..Len(script), NEW database, NEW held,
           Fresh(script, n, database, held),
           script[n + 1].op \in {"add", "execute"}
    PROVE  Fresh(script, n + 1, database, held \cup {script[n + 1].row})
<1>1. n + 1 \in Wrote(script) /\ n + 1 <= n + 1 /\ \A j \in n + 1..n + 1 : script[j].op # "reset"
  BY DEF Wrote
<1>2. ASSUME NEW x \in held
      PROVE  \E i \in Wrote(script) : i <= n + 1 /\ script[i].row = x /\ \A j \in i..n + 1 : script[j].op # "reset"
  <2>1. PICK i \in Wrote(script) : i <= n /\ script[i].row = x /\ \A j \in i..n : script[j].op # "reset"
    BY DEF Fresh
  <2>2. i \in Nat /\ \A j \in i..n + 1 : j \in i..n \/ j = n + 1
    BY DEF Wrote
  <2> QED  BY <1>1, <2>1, <2>2
<1>3. ASSUME NEW i \in Wrote(script) \cap Lasting(script), i <= n + 1
      PROVE  script[i].row \in held \cup {script[n + 1].row} \/ \E k \in i..n + 1 : MayCommit(script, k, database)
  <2>1. i = n + 1 \/ (i <= n /\ \A k \in i..n : k \in i..n + 1)
    BY <1>3 DEF Wrote
  <2> QED  BY <2>1 DEF Fresh
<1> QED  BY <1>1, <1>2, <1>3 DEF Fresh

LEMMA FreshEmpties ==
    ASSUME NEW script \in Seq(Operations), NEW n \in Nat, n + 1 \in 1..Len(script), NEW database,
           script[n + 1].op = "reset" \/ MayCommit(script, n + 1, database)
    PROVE  Fresh(script, n + 1, database, {})
<1>1. ASSUME NEW i \in Wrote(script) \cap Lasting(script), i <= n + 1
      PROVE  \E k \in i..n + 1 : MayCommit(script, k, database)
  <2>1. n + 1 \in i..n + 1 /\ n + 1 \in i..Len(script)
    BY <1>1 DEF Wrote
  <2>2. script[n + 1].op # "reset"
    BY <2>1 DEF Lasting
  <2> QED  BY <2>1, <2>2
<1> QED  BY <1>1 DEF Fresh

LEMMA HeldStays ==
    ASSUME NEW script \in Seq(Operations), NEW n \in Nat, n + 1 \in 1..Len(script), NEW held, NEW rows,
           HeldTogether(script, n, held, rows),
           script[n + 1].op \notin {"add", "execute"}
    PROVE  HeldTogether(script, n + 1, held, rows)
<1>1. ASSUME NEW i \in Part(script, rows), i <= n + 1  PROVE i <= n
  BY <1>1 DEF Part, Wrote
<1> QED  BY <1>1 DEF HeldTogether

LEMMA HeldWrites ==
    ASSUME NEW script \in Seq(Operations), NEW n \in Nat, n + 1 \in 1..Len(script), NEW database, NEW held, NEW rows,
           Fresh(script, n, database, held), HeldTogether(script, n, held, rows),
           Together(script, database, rows),
           script[n + 1].op \in {"add", "execute"}
    PROVE  HeldTogether(script, n + 1, held \cup {script[n + 1].row}, rows)
<1> SUFFICES ASSUME (held \cup {script[n + 1].row}) \cap rows # {}, NEW i \in Part(script, rows), i <= n + 1
             PROVE  script[i].row \in held \cup {script[n + 1].row}
  BY DEF HeldTogether
<1>1. i \in Nat /\ i \in Wrote(script) /\ i \in Lasting(script) /\ script[i].row \in rows
  BY DEF Part, Wrote
<1>2. CASE i = n + 1
  BY <1>2
<1>3. CASE i # n + 1 /\ held \cap rows # {}
  <2>1. i <= n
    BY <1>1, <1>3
  <2> QED  BY <1>3, <2>1 DEF HeldTogether
<1>4. CASE i # n + 1 /\ script[n + 1].row \in rows
  <2>1. i <= n
    BY <1>1, <1>4
  <2>2. n + 1 \in Wrote(script)
    BY <1>4 DEF Wrote
  <2>3. n + 1 \in Lasting(script)
    BY <1>1, <2>1 DEF Lasting
  <2>4. \A k \in i..n + 1 : ~MayCommit(script, k, database)
    BY <1>1, <1>4, <2>2, <2>3 DEF Together
  <2> QED  BY <1>1, <2>1, <2>4 DEF Fresh
<1> QED  BY <1>2, <1>3, <1>4

LEMMA StoredCommits ==
    ASSUME NEW script \in Seq(Operations), NEW n \in Nat, n + 1 \in 1..Len(script), NEW database, NEW held, NEW there,
           NEW rows,
           Fresh(script, n, database, held), HeldTogether(script, n, held, rows), StoredTogether(script, there, rows),
           Together(script, database, rows), MayCommit(script, n + 1, database)
    PROVE  StoredTogether(script, there \cup held, rows)
<1>1. ASSUME NEW x \in held, x \in rows
      PROVE  \E i \in Part(script, rows) : i <= n /\ script[i].row = x
  <2>1. PICK i \in Wrote(script) : i <= n /\ script[i].row = x /\ \A j \in i..n : script[j].op # "reset"
    BY DEF Fresh
  <2>2. i \in 1..Len(script) /\ n + 1 \in Nat
    BY DEF Wrote
  <2>3. i \in Lasting(script)
    <3> SUFFICES ASSUME i \notin Lasting(script)  PROVE FALSE
      OBVIOUS
    <3>1. PICK j \in i..Len(script) : script[j].op = "reset" /\ \A k \in i..j : ~MayCommit(script, k, database)
      BY <1>1, <2>1 DEF Together
    <3>2. ~(j <= n)
      BY <2>1, <2>2, <3>1
    <3>3. n + 1 \in i..j
      BY <2>1, <2>2, <3>1, <3>2
    <3> QED  BY <3>1, <3>3
  <2> QED  BY <1>1, <2>1, <2>3 DEF Part
<1>2. ASSUME NEW x \in held, x \in rows, NEW i \in Part(script, rows)
      PROVE  script[i].row \in held
  <2>1. PICK p \in Part(script, rows) : p <= n /\ script[p].row = x
    BY <1>1, <1>2
  <2>2. /\ p \in Wrote(script) /\ p \in Lasting(script) /\ script[p].row \in rows /\ p \in Nat
        /\ i \in Wrote(script) /\ i \in Lasting(script) /\ script[i].row \in rows /\ i \in Nat
    BY DEF Part, Wrote
  <2>3. \A k \in p..i : ~MayCommit(script, k, database)
    BY <2>2 DEF Together
  <2>4. ~(n + 1 \in p..i)
    BY <2>3
  <2>5. i <= n
    BY <2>1, <2>2, <2>4
  <2> QED  BY <1>2, <2>5 DEF HeldTogether
<1>3. \A x \in (there \cup held) \cap rows : \E i \in Part(script, rows) : script[i].row = x
  BY <1>1 DEF StoredTogether
<1>4. (there \cup held) \cap rows # {} => \A i \in Part(script, rows) : script[i].row \in there \cup held
  BY <1>2 DEF StoredTogether
<1> QED  BY <1>3, <1>4 DEF StoredTogether

-----------------------------------------------------------------------------
(* ----- the steps ----- *)
Steps(n) ==
    /\ Running /\ n = request.at + 1 /\ n <= Len(request.script) /\ UNCHANGED dialect
    /\ request' = [request EXCEPT !.at = n]
Starts ==
    /\ \E h \in DOMAIN Handler : \E script \in Handler[h] :
          request' = [handler |-> h, script |-> script, at |-> 0, reply |-> "none"]
    /\ session' = Opened /\ stored' = {} /\ UNCHANGED dialect
Ends ==
    /\ Running /\ request.at <= Len(request.script) /\ UNCHANGED <<dialect, stored>> /\ session' = Opened
    /\ \E reply \in {"ok", "error"} : request' = [request EXCEPT !.reply = reply]

(* Operations that neither write nor commit, that write, that commit, and  *)
(* that discard.                                                           *)
Other(n) ==
    /\ Steps(n) /\ request.script[n].op \notin {"add", "execute", "reset"}
    /\ Unstored' = Unstored /\ UNCHANGED stored
Puts(n) ==
    /\ Steps(n) /\ request.script[n].op \in {"add", "execute"}
    /\ Unstored' = Unstored \cup {request.script[n].row} /\ UNCHANGED stored
Commits(n) ==
    /\ Steps(n) /\ request.script[n].op \in {"commit", "end"}
    /\ request.script[n].op = "end" => dialect = "sqlite" \/ session.point = "outer"
    /\ Unstored' = {} /\ stored' = stored \cup Unstored
Discards(n) ==
    /\ Steps(n) /\ request.script[n].op = "reset"
    /\ Unstored' = {} /\ UNCHANGED stored

(* What becomes of the transaction. *)
Transaction(n) ==
    LET op == request.script[n].op
    IN  /\ op \in {"look", "add", "execute"} => session'.tx /\ session'.point = session.point
        /\ op = "begin" => session'.tx /\ (session.tx => session'.point = "savepoint")
        /\ op \in {"end", "commit", "reset"} => session'.point = "none"
        /\ op = "end" /\ session.point # "outer" /\ session.tx => session'.tx
        /\ op \in {"flush", "do"} => session'.tx = session.tx /\ session'.point = session.point
        /\ op # "crash"

LEMMA OperationFacts ==
    ASSUME RequestTypes, NEW n, Steps(n)
    PROVE  /\ request.script \in Seq(Operations) /\ request.at \in Nat /\ n = request.at + 1 /\ n \in 1..Len(request.script)
           /\ Operation = request.script[n] /\ request.script[n] \in Operations
           /\ request'.script = request.script /\ request'.at = n /\ request'.handler = request.handler
           /\ request'.reply = "none" /\ Running'
           /\ request' \in [handler : DOMAIN Handler \cup {"none"}, script : Seq(Operations), at : Nat,
                            reply : {"none", "ok", "error"}]
           /\ request'.at <= Len(request'.script)
<1>1. /\ request.script \in Seq(Operations) /\ request.at \in Nat /\ Len(request.script) \in Nat
      /\ n = request.at + 1 /\ n <= Len(request.script) /\ request.handler # "none" /\ request.reply = "none"
  BY DEF RequestTypes, Steps, Running
<1>2. n \in 1..Len(request.script) /\ n \in Nat
  BY <1>1
<1>3. request.script[n] \in Operations
  BY <1>1, <1>2
<1>4. /\ request'.script = request.script /\ request'.at = n /\ request'.handler = request.handler
      /\ request'.reply = request.reply
      /\ request' \in [handler : DOMAIN Handler \cup {"none"}, script : Seq(Operations), at : Nat,
                       reply : {"none", "ok", "error"}]
  BY <1>2 DEF RequestTypes, Steps
<1> QED  BY <1>1, <1>2, <1>3, <1>4 DEF Operation, Running

LEMMA StepForms ==
    ASSUME RequestTypes, RequestNext
    PROVE  \/ Starts \/ Ends
           \/ \E n : (Other(n) \/ Puts(n) \/ Commits(n) \/ Discards(n)) /\ Transaction(n)
<1>0. session \in [tx : BOOLEAN, point : {"none", "outer", "savepoint"}, held : BOOLEAN,
                   pending : SUBSET Written, sent : SUBSET Written]
  BY DEF RequestTypes
<1>1. CASE get_db
  BY <1>1 DEF get_db, Starts
<1>2. CASE Raise \/ Reply
  BY <1>2 DEF Raise, Reply, Ends, RequestTypes
<1> DEFINE n == request.at + 1
<1>3. ASSUME NEW op, Upcoming(op), Advance, UNCHANGED dialect  PROVE Steps(n) /\ request.script[n].op = op
  <2>1. request' = [request EXCEPT !.at = n] /\ request.at \in Nat /\ Len(request.script) \in Nat
    BY <1>3 DEF Advance, RequestTypes
  <2> QED  BY <1>3, <2>1 DEF Upcoming, Steps
<1>4. CASE Query
  <2>1. Steps(n) /\ request.script[n].op = "look"
    BY <1>3, <1>4 DEF Query
  <2>2. session' = [session EXCEPT !.tx = TRUE] /\ UNCHANGED stored
    BY <1>4 DEF Query
  <2>3. Other(n)
    BY <1>0, <2>1, <2>2 DEF Other, Unstored
  <2>4. Transaction(n)
    BY <1>0, <2>1, <2>2 DEF Transaction
  <2> QED  BY <2>3, <2>4
<1>5. CASE Add
  <2>1. Steps(n) /\ request.script[n].op = "add"
    BY <1>3, <1>5 DEF Add
  <2>2. session' = [session EXCEPT !.tx = TRUE, !.pending = @ \cup {request.script[n].row}] /\ UNCHANGED stored
    BY <1>5 DEF Add, Operation
  <2>3. Puts(n)
    BY <1>0, <2>1, <2>2 DEF Puts, Unstored
  <2>4. Transaction(n)
    BY <1>0, <2>1, <2>2 DEF Transaction
  <2> QED  BY <2>3, <2>4
<1>6. CASE FlushRows
  <2>1. Steps(n) /\ request.script[n].op = "flush"
    BY <1>3, <1>6 DEF FlushRows
  <2>2. session' = [session EXCEPT !.sent = @ \cup session.pending, !.pending = {}] /\ UNCHANGED stored
    BY <1>6 DEF FlushRows, Flushed
  <2>3. Other(n)
    BY <1>0, <2>1, <2>2 DEF Other, Unstored
  <2>4. Transaction(n)
    BY <1>0, <2>1, <2>2 DEF Transaction
  <2> QED  BY <2>3, <2>4
<1>7. CASE Execute
  <2>1. Steps(n) /\ request.script[n].op = "execute"
    BY <1>3, <1>7 DEF Execute
  <2>2. session' = [session EXCEPT !.tx = TRUE, !.sent = @ \cup {request.script[n].row}] /\ UNCHANGED stored
    BY <1>7 DEF Execute, Operation
  <2>3. Puts(n)
    BY <1>0, <2>1, <2>2 DEF Puts, Unstored
  <2>4. Transaction(n)
    BY <1>0, <2>1, <2>2 DEF Transaction
  <2> QED  BY <2>3, <2>4
<1>8. CASE Call
  <2>1. Steps(n) /\ request.script[n].op = "do"
    BY <1>3, <1>8 DEF Call
  <2>2. UNCHANGED <<session, stored>>
    BY <1>8 DEF Call
  <2> QED  BY <2>1, <2>2 DEF Other, Transaction, Unstored
<1>9. Unstored = Flushed(session).sent /\ Opened.pending = {} /\ Opened.sent = {} /\ Opened.point = "none"
  BY <1>0 DEF Unstored, Flushed, Opened
<1>10. CASE CommitRows
  <2>1. Steps(n) /\ request.script[n].op = "commit"
    BY <1>3, <1>10 DEF CommitRows
  <2>2. session' = Opened /\ stored' = stored \cup Flushed(session).sent
    BY <1>10 DEF CommitRows, CommitAll
  <2>3. Unstored' = {} /\ session'.point = "none"
    BY <1>9, <2>2 DEF Unstored
  <2> QED  BY <1>9, <2>1, <2>2, <2>3 DEF Commits, Transaction
<1>11. CASE Reset
  <2>1. Steps(n) /\ request.script[n].op = "reset"
    BY <1>3, <1>11 DEF Reset
  <2>2. session' = Opened /\ UNCHANGED stored
    BY <1>11 DEF Reset
  <2>3. Unstored' = {} /\ session'.point = "none"
    BY <1>9, <2>2 DEF Unstored
  <2> QED  BY <2>1, <2>2, <2>3 DEF Discards, Transaction
<1>12. CASE BeginBlock
  <2>1. Steps(n) /\ request.script[n].op = "begin" /\ UNCHANGED stored
    BY <1>3, <1>12 DEF BeginBlock
  <2>2. CASE session.tx
    <3>1. session' = [Flushed(session) EXCEPT !.point = "savepoint", !.held = Flushed(session).sent # {}]
      BY <1>12, <2>2 DEF BeginBlock
    <3>2. session'.pending = {} /\ session'.sent = Unstored /\ session'.tx /\ session'.point = "savepoint"
      BY <1>0, <2>2, <3>1 DEF Flushed, Unstored
    <3>3. Unstored' = Unstored
      BY <3>2 DEF Unstored
    <3> QED  BY <2>1, <3>2, <3>3 DEF Other, Transaction
  <2>3. CASE ~session.tx
    <3>1. session' = [session EXCEPT !.tx = TRUE, !.point = "outer"]
      BY <1>12, <2>3 DEF BeginBlock
    <3>2. session'.pending = session.pending /\ session'.sent = session.sent /\ session'.tx
      BY <1>0, <3>1
    <3> QED  BY <2>1, <2>3, <3>2 DEF Other, Transaction, Unstored
  <2> QED  BY <2>2, <2>3
<1>13. CASE EndBlock
  <2>1. Steps(n) /\ request.script[n].op = "end"
    BY <1>3, <1>13 DEF EndBlock
  <2>2. CASE session.point = "outer"
    <3>1. session' = Opened /\ stored' = stored \cup Flushed(session).sent
      BY <1>13, <2>2 DEF EndBlock, CommitAll
    <3>2. Unstored' = {} /\ session'.point = "none"
      BY <1>9, <3>1 DEF Unstored
    <3> QED  BY <1>9, <2>1, <2>2, <3>1, <3>2 DEF Commits, Transaction
  <2>3. CASE session.point = "savepoint" /\ dialect = "sqlite" /\ ~session.held
    <3>1. session' = [Opened EXCEPT !.tx = TRUE] /\ stored' = stored \cup Flushed(session).sent
      BY <1>13, <2>3 DEF EndBlock
    <3>2. Unstored' = {} /\ session'.point = "none" /\ session'.tx
      BY <3>1 DEF Unstored, Opened
    <3> QED  BY <1>9, <2>1, <2>3, <3>1, <3>2 DEF Commits, Transaction
  <2>4. CASE session.point # "outer" /\ ~(session.point = "savepoint" /\ dialect = "sqlite" /\ ~session.held)
    <3>1. session' = [Flushed(session) EXCEPT !.point = "none"] /\ UNCHANGED stored
      BY <1>13, <2>4 DEF EndBlock
    <3>2. session'.pending = {} /\ session'.sent = Unstored /\ session'.tx = session.tx /\ session'.point = "none"
      BY <1>0, <3>1 DEF Flushed, Unstored
    <3>3. Unstored' = Unstored
      BY <3>2 DEF Unstored
    <3> QED  BY <2>1, <2>4, <3>1, <3>2, <3>3 DEF Other, Transaction
  <2> QED  BY <2>2, <2>3, <2>4
<1> QED  BY <1>1, <1>2, <1>4, <1>5, <1>6, <1>7, <1>8, <1>10, <1>11, <1>12, <1>13 DEF RequestNext

LEMMA SessionTyped ==
    ASSUME RequestTypes, RequestNext
    PROVE  session' \in [tx : BOOLEAN, point : {"none", "outer", "savepoint"}, held : BOOLEAN,
                         pending : SUBSET Written, sent : SUBSET Written]
<1> DEFINE S == [tx : BOOLEAN, point : {"none", "outer", "savepoint"}, held : BOOLEAN,
                 pending : SUBSET Written, sent : SUBSET Written]
<1>0. session \in S
  BY DEF RequestTypes
<1>1. Opened \in S /\ [Opened EXCEPT !.tx = TRUE] \in S
  BY DEF Opened
<1>2. Flushed(session) \in S
  BY <1>0 DEF Flushed
<1>3. CASE get_db \/ Raise \/ Reply \/ CommitRows \/ Reset \/ Call
  BY <1>0, <1>1, <1>3 DEF get_db, Raise, Reply, CommitRows, Reset, Call, CommitAll
<1>4. CASE Query \/ FlushRows
  BY <1>0, <1>2, <1>4 DEF Query, FlushRows
<1>5. CASE Add \/ Execute
  <2>1. Steps(request.at + 1) /\ request.script[request.at + 1].op \in {"add", "execute"}
    BY <1>5 DEF Add, Execute, Upcoming, Advance, Steps, RequestTypes
  <2>2. Operation \in Operations /\ Operation.op \in {"add", "execute"}
    BY <2>1, OperationFacts
  <2>3. Operation.row \in Written
    BY <2>2 DEF Operations
  <2>4. PICK put \in Written : put = Operation.row
    BY <2>3
  <2>5. \/ session' = [session EXCEPT !.tx = TRUE, !.pending = @ \cup {put}]
        \/ session' = [session EXCEPT !.tx = TRUE, !.sent = @ \cup {put}]
    BY <1>5, <2>4 DEF Add, Execute
  <2>6. \A w \in S : /\ [w EXCEPT !.tx = TRUE, !.pending = @ \cup {put}] \in S
                    /\ [w EXCEPT !.tx = TRUE, !.sent = @ \cup {put}] \in S
    <3> SUFFICES ASSUME NEW w \in S
                 PROVE  /\ [w EXCEPT !.tx = TRUE, !.pending = @ \cup {put}] \in S
                        /\ [w EXCEPT !.tx = TRUE, !.sent = @ \cup {put}] \in S
      OBVIOUS
    <3>1. w.pending \cup {put} \in SUBSET Written /\ w.sent \cup {put} \in SUBSET Written
      OBVIOUS
    <3> QED  BY <3>1
  <2> HIDE DEF S
  <2>7. session' \in S
    BY <1>0, <2>5, <2>6
  <2> QED  BY <2>7 DEF S
<1>6. CASE BeginBlock
  <2>1. PICK f \in S : f = Flushed(session)
    BY <1>2
  <2>2. [f EXCEPT !.point = "savepoint", !.held = f.sent # {}] \in S /\ [session EXCEPT !.tx = TRUE, !.point = "outer"] \in S
    BY <1>0
  <2> QED  BY <1>6, <2>1, <2>2 DEF BeginBlock
<1>7. CASE EndBlock
  <2>1. PICK f \in S : f = Flushed(session)
    BY <1>2
  <2>2. [f EXCEPT !.point = "none"] \in S
    OBVIOUS
  <2>3. \/ session' = Opened \/ session' = [Opened EXCEPT !.tx = TRUE] \/ session' = [f EXCEPT !.point = "none"]
    <3>1. CASE session.point = "outer"
      BY <1>7, <3>1 DEF EndBlock, CommitAll
    <3>2. CASE session.point = "savepoint" /\ dialect = "sqlite" /\ ~session.held
      BY <1>7, <3>2 DEF EndBlock
    <3>3. CASE session.point # "outer" /\ ~(session.point = "savepoint" /\ dialect = "sqlite" /\ ~session.held)
      BY <1>7, <2>1, <3>3 DEF EndBlock
    <3> QED  BY <3>1, <3>2, <3>3
  <2> QED  BY <1>1, <2>2, <2>3
<1> QED  BY <1>3, <1>4, <1>5, <1>6, <1>7 DEF RequestNext

LEMMA RequestTypesStep == RequestTypes /\ [RequestNext]_request_vars => RequestTypes'
<1> SUFFICES ASSUME RequestTypes, [RequestNext]_request_vars  PROVE RequestTypes'
  OBVIOUS
<1>1. CASE UNCHANGED request_vars
  BY <1>1 DEF request_vars, RequestTypes
<1>2. CASE RequestNext
  <2>1. CASE Starts
    <3>1. PICK h \in DOMAIN Handler : \E script \in Handler[h] :
             request' = [handler |-> h, script |-> script, at |-> 0, reply |-> "none"]
      BY <2>1 DEF Starts
    <3>2. PICK script \in Handler[h] : request' = [handler |-> h, script |-> script, at |-> 0, reply |-> "none"]
      BY <3>1
    <3>3. script \in Seq(Operations) /\ 0 <= Len(script)
      BY HandlerAssumption
    <3> QED  BY <1>2, <2>1, <3>2, <3>3, SessionTyped DEF RequestTypes, Starts
  <2>2. CASE Ends
    BY <1>2, <2>2, SessionTyped DEF RequestTypes, Ends
  <2>3. ASSUME NEW n, Steps(n)  PROVE RequestTypes'
    BY <1>2, <2>3, OperationFacts, SessionTyped DEF RequestTypes, Steps
  <2> QED  BY <1>2, <2>1, <2>2, <2>3, StepForms DEF Other, Puts, Commits, Discards
<1> QED  BY <1>1, <1>2

LEMMA BlockStep == RequestTypes /\ BlockInv /\ RequestNext => BlockInv'
<1> SUFFICES ASSUME RequestTypes, BlockInv, RequestNext, Running'  PROVE BlockInv'
  BY DEF BlockInv
<1>1. CASE Starts
  <2>1. request'.at = 0 /\ session'.point = "none"
    BY <1>1 DEF Starts, Opened
  <2>2. ~InTransaction(request'.script, 0)
    BY DEF InTransaction
  <2> QED  BY <2>1, <2>2 DEF BlockInv
<1>2. CASE Ends
  BY <1>2 DEF Ends, RequestTypes, Running
<1>3. ASSUME NEW n, Steps(n), Transaction(n)  PROVE BlockInv'
  <2>1. PICK s, m, op : s = request.script /\ m = request.at /\ op = s[n].op
    OBVIOUS
  <2>2. /\ s \in Seq(Operations) /\ m \in Nat /\ n = m + 1 /\ n \in 1..Len(s) /\ n \in Nat /\ Running
        /\ request'.script = s /\ request'.at = n /\ s[n] \in Operations
    BY <1>3, <2>1, OperationFacts DEF Steps
  <2>3. op \in {"look", "flush", "commit", "begin", "end", "crash", "reset", "add", "execute", "do"}
    BY <2>1, <2>2 DEF Operations
  <2>4. /\ Outside(s, m) => session.point = "none"
        /\ InTransaction(s, m) => session.tx /\ session.point # "outer"
    BY <2>1, <2>2 DEF BlockInv
  <2>5. Outside(s, n) /\ op \notin {"end", "begin"} => Outside(s, m)
    <3> SUFFICES ASSUME Outside(s, n), op \notin {"end", "begin"}, NEW i \in 1..m, s[i].op = "begin"
                 PROVE  \E j \in i..m : s[j].op = "end"
      BY DEF Outside
    <3>1. i \in 1..n /\ \A j \in i..n : j \in i..m \/ j = n
      BY <2>2
    <3> QED  BY <2>1, <3>1 DEF Outside
  <2>6. Outside(s, n) => op # "begin"
    <3>1. n \in 1..n /\ \A j \in n..n : j = n
      BY <2>2
    <3> QED  BY <2>1, <3>1 DEF Outside
  <2>7. InTransaction(s, n) => \/ op \in {"look", "add", "execute"} /\ Outside(s, n)
                               \/ op \notin {"commit", "reset"} /\ InTransaction(s, m)
    <3> SUFFICES ASSUME InTransaction(s, n)
                 PROVE  \/ op \in {"look", "add", "execute"} /\ Outside(s, n)
                        \/ op \notin {"commit", "reset"} /\ InTransaction(s, m)
      OBVIOUS
    <3>1. PICK k \in 1..n : /\ s[k].op \in {"look", "add", "execute"}
                            /\ \A i \in 1..k : s[i].op = "begin" => \E j \in i..k : s[j].op = "end"
                            /\ \A i \in k..n : s[i].op \notin {"commit", "reset"}
      BY DEF InTransaction
    <3>2. n \in k..n /\ op \notin {"commit", "reset"}
      BY <2>1, <2>2, <3>1
    <3>3. CASE k = n
      BY <2>1, <3>1, <3>3 DEF Outside
    <3>4. CASE k # n
      <4>1. k \in 1..m /\ \A i \in k..m : i \in k..n
        BY <2>2, <3>4
      <4> QED  BY <3>1, <3>2, <4>1 DEF InTransaction
    <3> QED  BY <3>3, <3>4
  <2>8. PICK tx, point : tx = session.tx /\ point = session.point
    OBVIOUS
  <2>9. PICK tx2, point2 : tx2 = session'.tx /\ point2 = session'.point
    OBVIOUS
  <2>10. /\ op \in {"look", "add", "execute"} => tx2 /\ point2 = point
         /\ op = "begin" => tx2 /\ (tx => point2 = "savepoint")
         /\ op \in {"end", "commit", "reset"} => point2 = "none"
         /\ op = "end" /\ point # "outer" /\ tx => tx2
         /\ op \in {"flush", "do"} => tx2 = tx /\ point2 = point
         /\ op # "crash"
    BY <1>3, <2>1, <2>8, <2>9 DEF Transaction
  <2>11. Outside(s, n) => point2 = "none"
    BY <2>3, <2>4, <2>5, <2>6, <2>8, <2>10
  <2>12. InTransaction(s, n) => tx2 /\ point2 # "outer"
    <3>1. CASE op \in {"look", "add", "execute"} /\ Outside(s, n)
      BY <2>4, <2>5, <2>8, <2>10, <3>1
    <3>2. CASE op \notin {"commit", "reset"} /\ InTransaction(s, m)
      BY <2>3, <2>4, <2>8, <2>10, <3>2
    <3> QED  BY <2>7, <3>1, <3>2
  <2> QED  BY <2>2, <2>9, <2>11, <2>12 DEF BlockInv
<1> QED  BY <1>1, <1>2, <1>3, StepForms DEF Other, Puts, Commits, Discards

LEMMA PartStep == RequestTypes /\ BlockInv /\ PartInv /\ RequestNext => PartInv'
<1> SUFFICES ASSUME RequestTypes, BlockInv, PartInv, RequestNext  PROVE PartInv'
  OBVIOUS
<1>1. CASE Starts
  <2>1. request'.at = 0 /\ stored' = {} /\ Unstored' = {}
    BY <1>1 DEF Starts, Opened, Unstored
  <2>2. Fresh(request'.script, 0, dialect', {})
    BY DEF Fresh, Wrote
  <2>3. \A rows : HeldTogether(request'.script, 0, {}, rows) /\ StoredTogether(request'.script, {}, rows)
    BY DEF HeldTogether, StoredTogether
  <2> QED  BY <2>1, <2>2, <2>3 DEF PartInv
<1>2. CASE Ends
  <2>1. ~Running' /\ request'.script = request.script /\ UNCHANGED <<stored, dialect>>
    BY <1>2 DEF Ends, RequestTypes, Running
  <2> QED  BY <2>1 DEF PartInv
<1>3. ASSUME NEW n, Other(n) \/ Puts(n) \/ Commits(n) \/ Discards(n)  PROVE PartInv'
  <2>1. PICK s, m, db, held, there : s = request.script /\ m = request.at /\ db = dialect /\ held = Unstored /\ there = stored
    OBVIOUS
  <2>2. /\ s \in Seq(Operations) /\ m \in Nat /\ n = m + 1 /\ n \in 1..Len(s) /\ Running /\ Running'
        /\ request'.script = s /\ request'.at = m + 1 /\ dialect' = db /\ s[n] \in Operations
    <3>1. Steps(n)
      BY <1>3 DEF Other, Puts, Commits, Discards
    <3> QED  BY <2>1, <3>1, OperationFacts DEF Steps
  <2>3. Fresh(s, m, db, held) /\ there \subseteq Writes(s)
    BY <2>1, <2>2 DEF PartInv
  <2>4. ASSUME NEW rows, Together(s, db, rows)  PROVE HeldTogether(s, m, held, rows) /\ StoredTogether(s, there, rows)
    BY <2>1, <2>2, <2>4 DEF PartInv
  <2>5. held \subseteq Writes(s)
    BY <2>3 DEF Fresh, Writes
  <2>6. CASE Other(n)
    <3>1. s[m + 1].op \notin {"add", "execute", "reset"} /\ Unstored' = held /\ stored' = there
      BY <2>1, <2>2, <2>6 DEF Other
    <3>2. Fresh(s, m + 1, db, held)
      BY <2>2, <2>3, <3>1, FreshStays
    <3>3. ASSUME NEW rows, Together(s, db, rows)  PROVE HeldTogether(s, m + 1, held, rows)
      BY <2>2, <2>4, <3>1, <3>3, HeldStays
    <3> QED  BY <2>2, <2>3, <2>4, <3>1, <3>2, <3>3 DEF PartInv
  <2>7. CASE Puts(n)
    <3>1. s[m + 1].op \in {"add", "execute"} /\ Unstored' = held \cup {s[m + 1].row} /\ stored' = there
      BY <2>1, <2>2, <2>7 DEF Puts
    <3>2. Fresh(s, m + 1, db, held \cup {s[m + 1].row})
      BY <2>2, <2>3, <3>1, FreshWrites
    <3>3. ASSUME NEW rows, Together(s, db, rows)  PROVE HeldTogether(s, m + 1, held \cup {s[m + 1].row}, rows)
      BY <2>2, <2>3, <2>4, <3>1, <3>3, HeldWrites
    <3> QED  BY <2>2, <2>3, <2>4, <3>1, <3>2, <3>3 DEF PartInv
  <2>8. \A rows : HeldTogether(s, m + 1, {}, rows)
    BY DEF HeldTogether
  <2>9. CASE Commits(n)
    <3>1. /\ s[m + 1].op \in {"commit", "end"} /\ Unstored' = {} /\ stored' = there \cup held
          /\ s[m + 1].op = "end" => db = "sqlite" \/ session.point = "outer"
      BY <2>1, <2>2, <2>9 DEF Commits
    <3>2. MayCommit(s, m + 1, db)
      <4>1. session.point = "outer" => ~InTransaction(s, (m + 1) - 1)
        <5>1. (m + 1) - 1 = m
          BY <2>2
        <5> QED  BY <2>1, <2>2, <5>1 DEF BlockInv
      <4> QED  BY <3>1, <4>1 DEF MayCommit
    <3>3. Fresh(s, m + 1, db, {})
      BY <2>2, <3>2, FreshEmpties
    <3>4. ASSUME NEW rows, Together(s, db, rows)  PROVE StoredTogether(s, there \cup held, rows)
      BY <2>2, <2>3, <2>4, <3>2, <3>4, StoredCommits
    <3> QED  BY <2>2, <2>3, <2>5, <2>8, <3>1, <3>3, <3>4 DEF PartInv
  <2>10. CASE Discards(n)
    <3>1. s[m + 1].op = "reset" /\ Unstored' = {} /\ stored' = there
      BY <2>1, <2>2, <2>10 DEF Discards
    <3>2. Fresh(s, m + 1, db, {})
      BY <2>2, <3>1, FreshEmpties
    <3> QED  BY <2>2, <2>3, <2>4, <2>8, <3>1, <3>2 DEF PartInv
  <2> QED  BY <1>3, <2>6, <2>7, <2>9, <2>10
<1> QED  BY <1>1, <1>2, <1>3, StepForms

LEMMA RequestsHold == RequestSpec => []RequestInv
<1>1. RequestInit => RequestInv
  <2> SUFFICES ASSUME RequestInit  PROVE RequestInv
    OBVIOUS
  <2>1. /\ ~Running /\ stored = {} /\ session = Opened /\ request = NoRequest
        /\ dialect \in {"postgres", "sqlite"}
    BY DEF RequestInit, NoRequest, Running
  <2>2. RequestTypes
    <3>1. <<>> \in Seq(Operations) /\ Len(<<>>) = 0
      OBVIOUS
    <3> QED  BY <2>1, <3>1 DEF RequestTypes, NoRequest, Opened
  <2>3. \A s, rows : StoredTogether(s, {}, rows)
    BY DEF StoredTogether
  <2> QED  BY <2>1, <2>2, <2>3 DEF RequestInv, BlockInv, PartInv
<1>2. RequestInv /\ [RequestNext]_request_vars => RequestInv'
  <2>1. ASSUME RequestInv, UNCHANGED request_vars  PROVE BlockInv' /\ PartInv'
    <3>1. UNCHANGED <<dialect, request, session, stored>> /\ Unstored' = Unstored /\ Running' = Running
      BY <2>1 DEF request_vars, Unstored, Running
    <3> QED  BY <2>1, <3>1 DEF RequestInv, BlockInv, PartInv
  <2> QED  BY <2>1, RequestTypesStep, BlockStep, PartStep DEF RequestInv
<1> QED  BY <1>1, <1>2, PTL DEF RequestSpec

-----------------------------------------------------------------------------
(* What follows for handlers that obey the rules                           *)
PathInv ==
    \/ request = NoRequest
    \/ request.handler \in DOMAIN Handler /\ request.script \in Handler[request.handler]

OneCommit == \A h \in DOMAIN Handler \ Staged : \A script \in Handler[h] : CommitsOnce(script)
ToldWithRows ==
    \A h \in DOMAIN Handler \ Apart : \A script \in Handler[h] :
        TellsOfAll(script, "postgres") /\ TellsOfAll(script, "sqlite")

LEMMA PathHolds == RequestSpec => []PathInv
<1>1. RequestInit => PathInv
  BY DEF RequestInit, PathInv
<1>2. RequestInv /\ PathInv /\ [RequestNext]_request_vars => PathInv'
  <2> SUFFICES ASSUME RequestInv, PathInv, [RequestNext]_request_vars  PROVE PathInv'
    OBVIOUS
  <2>1. CASE UNCHANGED request_vars
    BY <2>1 DEF request_vars, PathInv
  <2>2. CASE Starts
    <3>1. PICK h \in DOMAIN Handler : \E script \in Handler[h] :
             request' = [handler |-> h, script |-> script, at |-> 0, reply |-> "none"]
      BY <2>2 DEF Starts
    <3> QED  BY <3>1 DEF PathInv
  <2>3. CASE Ends
    <3>1. Running /\ request'.script = request.script /\ request'.handler = request.handler
      BY <2>3 DEF Ends, RequestInv, RequestTypes
    <3> QED  BY <3>1 DEF PathInv, Running, NoRequest
  <2>4. ASSUME NEW n, Steps(n)  PROVE PathInv'
    <3>1. Running /\ request'.script = request.script /\ request'.handler = request.handler
      BY <2>4, OperationFacts DEF Steps, RequestInv
    <3> QED  BY <3>1 DEF PathInv, Running, NoRequest
  <2>5. RequestNext => Starts \/ Ends \/ \E n : Steps(n)
    BY StepForms DEF RequestInv, Other, Puts, Commits, Discards
  <2> QED  BY <2>1, <2>2, <2>3, <2>4, <2>5
<1> QED  BY <1>1, <1>2, RequestsHold, PTL DEF RequestSpec

LEMMA NothingWritten == CommitsOnce(<<>>) /\ \A database : TellsOfAll(<<>>, database)
<1>1. Wrote(<<>>) = {}
  BY DEF Wrote
<1>2. \A database, rows : Together(<<>>, database, rows)
  BY <1>1 DEF Together
<1>3. Told(<<>>) = {}
  BY <1>1 DEF Told, KeptRows
<1> QED  BY <1>2, <1>3 DEF CommitsOnce, TellsOfAll

(* A handler whose paths commit between no two of the rows that they keep  *)
(* stores all of these rows or none, wherever it fails.                    *)
THEOREM RequestsStoreAllOrNothing == OneCommit /\ RequestSpec => []AllOrNothing
<1> SUFFICES ASSUME OneCommit  PROVE RequestSpec => []AllOrNothing
  OBVIOUS
<1>1. ASSUME RequestInv, PathInv  PROVE AllOrNothing
  <2> SUFFICES ASSUME dialect = "postgres", request.handler \notin Staged
               PROVE  /\ request.at = 0 => CommitsOnce(request.script)
                      /\ Over => OfHandler(stored) \in {{}, OfHandler(KeptRows(request.script))}
    BY DEF AllOrNothing
  <2>1. CASE request = NoRequest
    BY <2>1, NothingWritten DEF NoRequest, Over
  <2>2. CASE request.handler \in DOMAIN Handler /\ request.script \in Handler[request.handler]
    <3> DEFINE script == request.script
               rows == OfHandler(Writes(script))
    <3>1. CommitsOnce(script)
      BY <2>2 DEF OneCommit
    <3>2. StoredTogether(script, stored, rows)
      BY <1>1, <3>1 DEF RequestInv, PartInv, CommitsOnce
    <3>3. OfHandler(stored) = stored \cap rows
      BY <1>1 DEF RequestInv, PartInv, OfHandler
    <3>4. ASSUME stored \cap rows # {}, NEW x \in OfHandler(KeptRows(script))  PROVE x \in stored \cap rows
      <4>1. PICK i \in Wrote(script) \cap Lasting(script) : script[i].row = x
        BY DEF OfHandler, KeptRows
      <4>2. x \in rows
        BY <4>1 DEF OfHandler, Writes
      <4>3. i \in Part(script, rows)
        BY <4>1, <4>2 DEF Part
      <4> QED  BY <3>2, <3>4, <4>1, <4>2, <4>3 DEF StoredTogether
    <3>5. ASSUME NEW x \in stored \cap rows  PROVE x \in OfHandler(KeptRows(script))
      <4>1. PICK i \in Part(script, rows) : script[i].row = x
        BY <3>2 DEF StoredTogether
      <4> QED  BY <4>1 DEF Part, KeptRows, OfHandler
    <3>6. stored \cap rows = {} \/ stored \cap rows = OfHandler(KeptRows(script))
      BY <3>4, <3>5
    <3> QED  BY <3>1, <3>3, <3>6
  <2> QED  BY <1>1, <2>1, <2>2 DEF PathInv
<1> QED  BY <1>1, RequestsHold, PathHolds, PTL

(* A handler whose paths commit between no two of an activity, its row in  *)
(* the outbox and the rows that it tells of stores the three together, on  *)
(* either database and wherever it fails.                                  *)
THEOREM RowsComeWithActivity == ToldWithRows /\ RequestSpec => []RowsHaveActivity
<1> SUFFICES ASSUME ToldWithRows  PROVE RequestSpec => []RowsHaveActivity
  OBVIOUS
<1>1. ASSUME RequestInv, PathInv  PROVE RowsHaveActivity
  <2> SUFFICES ASSUME request.handler \notin Apart
               PROVE  /\ request.at = 0 => TellsOfAll(request.script, dialect)
                      /\ Over => \A names \in Told(request.script) :
                             \/ Tale(request.script, names) \subseteq stored
                             \/ Tale(request.script, names) \cap stored = {}
    BY DEF RowsHaveActivity
  <2>1. CASE request = NoRequest
    BY <2>1, NothingWritten DEF NoRequest, Over
  <2>2. CASE request.handler \in DOMAIN Handler /\ request.script \in Handler[request.handler]
    <3>1. TellsOfAll(request.script, dialect)
      BY <1>1, <2>2 DEF ToldWithRows, RequestInv, RequestTypes
    <3>2. ASSUME NEW names \in Told(request.script), Tale(request.script, names) \cap stored # {}
          PROVE  Tale(request.script, names) \subseteq stored
      <4> DEFINE script == request.script
                 tale == Tale(script, names)
      <4>1. tale \subseteq KeptRows(script) /\ Together(script, dialect, tale)
        BY <3>1, <3>2 DEF TellsOfAll, Tale
      <4>2. StoredTogether(script, stored, tale)
        BY <1>1, <4>1 DEF RequestInv, PartInv
      <4>3. ASSUME NEW x \in tale  PROVE \E i \in Part(script, tale) : script[i].row = x
        <5>1. PICK i \in Wrote(script) \cap Lasting(script) : script[i].row = x
          BY <4>1 DEF KeptRows
        <5> QED  BY <5>1 DEF Part
      <4> QED  BY <3>2, <4>2, <4>3 DEF StoredTogether
    <3> QED  BY <3>1, <3>2
  <2> QED  BY <1>1, <2>1, <2>2 DEF PathInv
<1> QED  BY <1>1, RequestsHold, PathHolds, PTL
=============================================================================
