---------------------------- MODULE Definitions ----------------------------
(***************************************************************************)
(* Uploaded definitions: the package is checked and unpacked into a        *)
(* folder, tested, stored as a resource and registered as a class in the   *)
(* factory of the process that handles the request; a draft is deployed or *)
(* tested again; a process that starts loads what is active                *)
(* (services/extension_loader.py, test_runner_service.py,                  *)
(* definition_upload_service.py, libs/core/plugin_loader.py, startup.py).  *)
(* Files are paths, classes are pairs of a type and a name.                *)
(***************************************************************************)
EXTENDS Naturals, Sequences, FiniteSets, SequencesExt

CONSTANTS
    Client, Process, None,
    Shipped,        \* the code that comes with the program
    Upload,         \* the packages sent, by the id that each definition gets
    Supported,      \* types with a factory
    BuiltIn,        \* classes that the modules of the program register
    PageSize, Settings

Definition == DOMAIN Upload
Class == {Upload[d].class : d \in Definition} \cup BuiltIn

(* Resource.status and DefinitionUpload.evaluation_status of a definition. *)
Evaluated == [status : {"draft", "active"}, evaluation : {"passed", "failed", "skipped"}]

ASSUME DefinitionsAssumption ==
    /\ Definition = 1..Len(Upload) /\ Len(Upload) \in Nat
    /\ \A d \in Definition :
          /\ Upload[d].files \subseteq Seq(STRING) /\ Upload[d].module \in Seq(STRING)
          /\ Upload[d].tests = None \/ Upload[d].tests \in Seq(STRING)
    /\ None \notin Evaluated \cup (0..Len(Upload)) /\ Shipped \notin Definition
    /\ PageSize \in Nat \ {0}
    /\ Settings \subseteq [handlers : SUBSET Client, dialect : {"postgres", "sqlite"},
                           starts : Nat, uploads : SUBSET Definition,
                           parts : SUBSET {"skip", "list"}]

VARIABLES
    folder,         \* the files of each artifact folder
    row,            \* the row of each definition, None before it is stored
    factory,        \* each process's FactoryRegistry: what a class name stands for
    starts,         \* starts of processes, for the bound
    vouched,        \* history: definitions tested, spared the tests, or deployed by someone
    job, setting

vars == <<folder, row, factory, starts, vouched, job, setting>>

Idle == [op |-> "idle"]
Begin(c, work) == c \in setting.handlers /\ job[c] = Idle /\ job' = [job EXCEPT ![c] = work]
Working(c, op, at) == job[c].op = op /\ job[c].at = at
Continue(c, at) == job' = [job EXCEPT ![c].at = at]
Finish(c) == job' = [job EXCEPT ![c] = Idle]
-----------------------------------------------------------------------------
(* The manifest is at the root or in the only directory at the top.        *)
Directories(files) == {f[1] : f \in {g \in files : Len(g) > 1}}
Bases(files) ==
    IF <<"manifest">> \in files THEN {<<>>}
    ELSE {<<d>> : d \in {e \in Directories(files) : /\ Directories(files) = {e}
                                                    /\ <<e, "manifest">> \in files}}

HasModule(p) == \E base \in Bases(p.files) : base \o p.module \in p.files
ValidManifest(p) ==
    /\ Bases(p.files) # {}
    /\ HasModule(p)
    /\ p.tests # None => \A base \in Bases(p.files) : base \o p.tests \in p.files

Extracted(p) ==
    (UNION {{SubSeq(f, Len(base) + 1, Len(f)) : f \in {g \in p.files : IsPrefix(base, g)}} :
               base \in Bases(p.files)}) \ {<<"manifest">>}

(* A package that is refused leaves nothing: the activity that says so is  *)
(* rolled back with the request.                                           *)
LoadPackage(c, p, d, skip) ==
    /\ d \in setting.uploads /\ folder[d] = {}
    /\ \A e \in Client : job[e] # Idle => job[e].def # d
    /\ skip => "skip" \in setting.parts
    /\ ValidManifest(Upload[d])
    /\ folder' = [folder EXCEPT ![d] = Extracted(Upload[d])]
    /\ Begin(c, [op |-> "upload", def |-> d, proc |-> p, holds |-> FALSE,
                 at |-> IF skip \/ Upload[d].tests = None THEN "skipped" ELSE "loaded"])
    /\ UNCHANGED <<row, factory, starts, vouched>>

(* pytest's exit code, 5 ("no tests") included, decides; a missing file or *)
(* a timeout fails.                                                        *)
Outcomes(d) == {FALSE} \cup {Upload[d].tests \in folder[d]}

(* The activities are committed, which ends the session's transaction.     *)
RunTests(c, passed) ==
    /\ Working(c, "upload", "loaded")
    /\ passed \in Outcomes(job[c].def)
    /\ Continue(c, IF passed THEN "passed" ELSE "failed")
    /\ UNCHANGED <<folder, row, factory, starts, vouched>>

StatusOf(evaluation) == IF evaluation \in {"passed", "skipped"} THEN "active" ELSE "draft"
-----------------------------------------------------------------------------
(* The module is imported from its folder and the class put into the       *)
(* factory of its type, unless the name is taken there.                    *)
Loads(d) ==
    /\ Upload[d].module \in folder[d]
    /\ Upload[d].loads
    /\ Upload[d].class[1] \in Supported

Register(p, d) ==
    factory' = IF Loads(d) /\ factory[p][Upload[d].class] = None
               THEN [factory EXCEPT ![p][Upload[d].class] = d] ELSE factory

(* Without tests the handler's transaction is still the one that the       *)
(* actor was read in: tx_activity only opens a savepoint, and nobody       *)
(* commits.  SQLite commits with the release of the savepoint.  The class  *)
(* is registered all the same, and an error there is only logged.          *)
Kept(evaluation) == evaluation # "skipped" \/ setting.dialect = "sqlite"
StoreDefinition(c) ==
    LET d == job[c].def evaluation == job[c].at
    IN  /\ job[c].op = "upload" /\ evaluation \in {"skipped", "passed", "failed"}
        /\ row' = IF Kept(evaluation)
                  THEN [row EXCEPT ![d] = [status |-> StatusOf(evaluation), evaluation |-> evaluation]]
                  ELSE row
        /\ IF StatusOf(evaluation) = "active"
           THEN Register(job[c].proc, d) /\ vouched' = vouched \cup {d}
           ELSE UNCHANGED <<factory, vouched>>
        /\ Finish(c)
        /\ UNCHANGED <<folder, starts>>
-----------------------------------------------------------------------------
IsDraft(d) == row[d] # None /\ row[d].status = "draft"

ReadForDeploy(c, p, d) ==
    /\ IsDraft(d)
    /\ Begin(c, [op |-> "deploy", def |-> d, proc |-> p, holds |-> FALSE, at |-> "read"])
    /\ UNCHANGED <<folder, row, factory, starts, vouched>>

(* The class is registered before the status is written.                   *)
RegisterForDeploy(c) ==
    /\ Working(c, "deploy", "read")
    /\ Loads(job[c].def)
    /\ Register(job[c].proc, job[c].def)
    /\ vouched' = vouched \cup {job[c].def}
    /\ Continue(c, "registered")
    /\ UNCHANGED <<folder, row, starts>>

(* A session that flushes holds the row of the upload, on SQLite the       *)
(* database, until it commits.                                             *)
Free(c, d) ==
    \A e \in Client \ {c} :
        job[e] # Idle /\ job[e].holds => setting.dialect = "postgres" /\ job[e].def # d

Deploy(c) ==
    /\ Working(c, "deploy", "registered")
    /\ setting.dialect = "sqlite" => Free(c, job[c].def)
    /\ row' = [row EXCEPT ![job[c].def].status = "active"]
    /\ Finish(c)
    /\ UNCHANGED <<folder, factory, starts, vouched>>

(* "running" is flushed before the tests and overwritten before the        *)
(* commit: no one else sees it, but it locks the row as long as they run.  *)
StartRerun(c, p, d) ==
    /\ row[d] # None /\ Upload[d].tests # None
    /\ Free(c, d)
    /\ Begin(c, [op |-> "rerun", def |-> d, proc |-> p, holds |-> TRUE, at |-> "running",
                 seen |-> row[d].status])
    /\ UNCHANGED <<folder, row, factory, starts, vouched>>

SeenDraft(c, passed) == passed /\ job[c].seen = "draft"
EndRerun(c, passed) ==
    /\ Working(c, "rerun", "running")
    /\ passed \in Outcomes(job[c].def)
    /\ IF SeenDraft(c, passed)
       THEN Register(job[c].proc, job[c].def) /\ vouched' = vouched \cup {job[c].def}
       ELSE UNCHANGED <<factory, vouched>>
    /\ Continue(c, IF passed THEN "passed" ELSE "failed")
    /\ UNCHANGED <<folder, row, starts>>

CommitRerun(c) ==
    LET d == job[c].def passed == job[c].at = "passed"
    IN  /\ job[c].op = "rerun" /\ job[c].at # "running"
        /\ row' = [row EXCEPT ![d].evaluation = job[c].at,
                              ![d].status = IF SeenDraft(c, passed) THEN "active" ELSE @]
        /\ Finish(c)
        /\ UNCHANGED <<folder, factory, starts, vouched>>
-----------------------------------------------------------------------------
(* A process starts: the modules of the program register their classes,    *)
(* then the active definitions are loaded, in no particular order.         *)
AnyStored(d) == row[d] # None /\ Loads(d)       (* Bug: drafts are loaded too *)
Loadable(d) == row[d] # None /\ row[d].status = "active" /\ Loads(d)
Loaded(k) ==
    IF k \in BuiltIn THEN {Shipped}
    ELSE LET named == {d \in Definition : Loadable(d) /\ Upload[d].class = k}
         IN  IF named = {} THEN {None} ELSE named

Restart(p) ==
    /\ starts < setting.starts /\ starts' = starts + 1
    /\ \E names \in [Class -> UNION {Loaded(k) : k \in Class}] :
          /\ \A k \in Class : names[k] \in Loaded(k)
          /\ factory' = [factory EXCEPT ![p] = names]
    /\ job' = [c \in Client |-> IF job[c] # Idle /\ job[c].proc = p THEN Idle ELSE job[c]]
    /\ UNCHANGED <<folder, row, vouched>>
-----------------------------------------------------------------------------
(* A client pages through the definitions of a category by id.  One row    *)
(* more than the page is read, the next page starts after the last row     *)
(* kept, and the category is looked at last.                               *)
Stands(d) == row[d] # None
StartListing(c, p, category) ==
    /\ "list" \in setting.parts
    /\ Begin(c, [op |-> "list", def |-> None, proc |-> p, holds |-> FALSE, at |-> 0,
                 category |-> category, listed |-> {},
                 due |-> {d \in Definition : Stands(d) /\ Upload[d].category = category}])
    /\ UNCHANGED <<folder, row, factory, starts, vouched>>

After(cursor, n) ==
    {d \in Definition : /\ Stands(d) /\ d > cursor
                        /\ Cardinality({e \in Definition : Stands(e) /\ cursor < e /\ e <= d}) <= n}
OneFurther(cursor) ==                           (* Bug: the row read in excess is the cursor *)
    CHOOSE d \in After(cursor, PageSize + 1) : \A e \in After(cursor, PageSize + 1) : e <= d
NextCursor(cursor) ==
    CHOOSE d \in After(cursor, PageSize) : \A e \in After(cursor, PageSize) : e <= d

ListDefinitions(c) ==
    LET cursor == job[c].at
        more == Cardinality(After(cursor, PageSize + 1)) > PageSize
    IN  /\ job[c].op = "list" /\ job[c].at # None
        /\ job' = [job EXCEPT
              ![c].at = IF more THEN NextCursor(cursor) ELSE None,
              ![c].listed = @ \cup {d \in After(cursor, PageSize) : Upload[d].category = job[c].category}]
        /\ UNCHANGED <<folder, row, factory, starts, vouched>>
-----------------------------------------------------------------------------
(* An error, a failed commit or a client that goes away: the session is    *)
(* closed; folders and factories stay as they are.                         *)
Abort(c) ==
    /\ job[c] # Idle /\ Finish(c)
    /\ UNCHANGED <<folder, row, factory, starts, vouched>>

Init ==
    /\ folder = [d \in Definition |-> {}]
    /\ row = [d \in Definition |-> None]
    /\ factory = [p \in Process |-> [k \in Class |-> IF k \in BuiltIn THEN Shipped ELSE None]]
    /\ starts = 0 /\ vouched = {}
    /\ setting \in Settings
    /\ job = [c \in Client |-> Idle]

Handle(c) ==
    \/ RegisterForDeploy(c) \/ Deploy(c) \/ StoreDefinition(c) \/ CommitRerun(c)
    \/ ListDefinitions(c) \/ Abort(c)
    \/ \E passed \in BOOLEAN : RunTests(c, passed) \/ EndRerun(c, passed)
    \/ \E p \in Process, d \in Definition :
          \/ ReadForDeploy(c, p, d) \/ StartRerun(c, p, d)
          \/ \E skip \in BOOLEAN : LoadPackage(c, p, d, skip)
    \/ \E p \in Process, d \in Definition : StartListing(c, p, Upload[d].category)

Next == ((\E c \in Client : Handle(c)) \/ \E p \in Process : Restart(p)) /\ UNCHANGED setting

Spec == Init /\ [][Next]_vars
-----------------------------------------------------------------------------
TypeOK ==
    /\ folder \in [Definition -> SUBSET UNION {Extracted(Upload[d]) : d \in Definition}]
    /\ row \in [Definition -> Evaluated \cup {None}]
    /\ factory \in [Process -> [Class -> Definition \cup {None, Shipped}]]
    /\ vouched \subseteq Definition

(* What a name stands for, in any process and after any restart, is a      *)
(* class of the program or of a definition whose tests passed or were      *)
(* skipped, or that somebody deployed ("active if tests pass or skipped,   *)
(* draft if tests fail", definition_upload_service.py).                    *)
CodeIsVouchedFor ==
    \A p \in Process, k \in Class : factory[p][k] \in Definition => factory[p][k] \in vouched

(* The check of the manifest looks at paths in the archive, the import and *)
(* the tests at paths in the folder: what is stored can be run, unless a   *)
(* package names its manifest for them, which is not unpacked              *)
(* (extension_loader.py, _validate_manifest and _process_zip).             *)
Unpacked(d) == folder[d] \cup {<<"manifest">>}
StoredCanRun ==
    \A d \in Definition : row[d] # None =>
        Upload[d].module \in Unpacked(d) /\ (Upload[d].tests # None => Upload[d].tests \in Unpacked(d))

(* Whoever follows next_cursor to the end has been shown every definition  *)
(* of the category that was there when the listing began, whatever was     *)
(* uploaded meanwhile (routers/definitions.py, list_definitions).          *)
ListingIsComplete ==
    \A c \in Client : job[c].op = "list" /\ job[c].at = None => job[c].due \subseteq job[c].listed

(* Whatever uploads, deployments, reruns and restarts overlap, what a name *)
(* stands for was let through and can run (definition_upload_service.py).  *)
DefinitionsAreSound == CodeIsVouchedFor /\ StoredCanRun
=============================================================================
