------------------------- MODULE ContributionsProofs -------------------------
(***************************************************************************)
(* For every number of refs, resources, voters, handlers and requests:     *)
(* rows keep their types; with one handler at a time, a ref moves forward  *)
(* only, a request is merged once, and the refs that an open request names *)
(* exist; and in every order of steps a branch keeps files of its own, and *)
(* the walk over the lineage finds what is near and ends.                  *)
(***************************************************************************)
EXTENDS Contributions, FiniteSetTheorems, FunctionTheorems, SequenceTheorems, WellFoundedInduction, TLAPS

(* One handler at a time: what the busy one has read is still so.          *)
JobIsCurrent(j) ==
    /\ j.op = "request" => HasRef(j.source) /\ HasRef(j.target)
    /\ j.op = "delete" => ~HasOpenRequests(j.name)
    /\ j.op \in {"vote", "count", "merge"} => request[j.request].status # "merged"
    /\ j.op = "count" => j.seen = request[j.request].status
    /\ j.op = "merge" => head[request[j.request].target] = j.target /\ HasRef(request[j.request].source)

RequestIsSound(q) ==
    /\ request[q].merged <= 1
    /\ request[q].status # "merged" => request[q].merged = 0
    /\ request[q].status = "rejected" => request[q].settled
    /\ request[q].status \in {"open", "approved"} /\ ~request[q].settled =>
          HasRef(request[q].source) /\ HasRef(request[q].target)

SerialInv ==
    /\ \A c \in Client : job[c] # Idle => c \in setting.handlers
    /\ Serial => /\ \A c \in Client : JobIsCurrent(job[c])
                 /\ \A q \in DOMAIN request : RequestIsSound(q)

-----------------------------------------------------------------------------
(* Tables are appended to, or one row of them changes.                     *)
LEMMA AppendFacts ==
    ASSUME NEW S, NEW s \in Seq(S), NEW x \in S
    PROVE  /\ Append(s, x) \in Seq(S) /\ Len(Append(s, x)) = Len(s) + 1
           /\ DOMAIN Append(s, x) = DOMAIN s \cup {Len(s) + 1}
           /\ Len(s) + 1 \notin DOMAIN s
           /\ Append(s, x)[Len(s) + 1] = x
           /\ \A i \in DOMAIN s : Append(s, x)[i] = s[i]
  OBVIOUS

LEMMA ReplaceFacts ==
    ASSUME NEW S, NEW s \in Seq(S), NEW i \in DOMAIN s, NEW x \in S
    PROVE  /\ [s EXCEPT ![i] = x] \in Seq(S)
           /\ DOMAIN [s EXCEPT ![i] = x] = DOMAIN s
  OBVIOUS

LEMMA ElementFacts ==
    ASSUME NEW S, NEW s \in Seq(S), NEW i \in DOMAIN s
    PROVE  s[i] \in S
  OBVIOUS

(* What a handler has read is told by op.                                  *)
LEMMA JobForms ==
    ASSUME TypeOK, NEW c \in Client
    PROVE  /\ job[c].op = "branch" => job[c] \in BranchJob
           /\ job[c].op = "delete" => job[c] \in DeleteJob
           /\ job[c].op = "request" => job[c] \in RequestJob
           /\ job[c].op = "vote" => job[c] \in VoteJob
           /\ job[c].op = "count" => job[c] \in CountJob
           /\ job[c].op = "merge" => job[c] \in MergeJob
           /\ job[c].op \in {"copy", "fork"} => job[c] \in CopyJob
           /\ job[c].op = "return" => job[c] \in ReturnJob
<1>1. job[c] \in Job
  BY DEF TypeOK
<1>2. Idle.op = "idle"
  BY DEF Idle
<1>3. /\ \A j \in BranchJob : j.op = "branch"
      /\ \A j \in DeleteJob : j.op = "delete"
      /\ \A j \in RequestJob : j.op = "request"
  BY DEF BranchJob, DeleteJob, RequestJob
<1>4. /\ \A j \in VoteJob : j.op = "vote"
      /\ \A j \in CountJob : j.op = "count"
      /\ \A j \in MergeJob : j.op = "merge"
  BY DEF VoteJob, CountJob, MergeJob
<1>5. /\ \A j \in CopyJob : j.op \in {"copy", "fork"}
      /\ \A j \in ReturnJob : j.op = "return"
  BY DEF CopyJob, ReturnJob
<1> QED  BY <1>1, <1>2, <1>3, <1>4, <1>5 DEF Job

Grows == Row \subseteq Row' /\ Version \subseteq Version' /\ Folder \subseteq Folder' /\ DOMAIN request \subseteq DOMAIN request'

LEMMA JobStep ==
    ASSUME TypeOK, Grows, NEW c \in Client, NEW w \in Job \cup Job',
           job' = [job EXCEPT ![c] = w]
    PROVE  (job \in [Client -> Job])'
<1>1. BranchJob \subseteq BranchJob' /\ MergeJob \subseteq MergeJob'
  BY DEF BranchJob, MergeJob, Grows
<1>2. VoteJob \subseteq VoteJob' /\ CountJob \subseteq CountJob'
  BY DEF VoteJob, CountJob, Grows
<1>3. CopyJob \subseteq CopyJob' /\ ReturnJob \subseteq ReturnJob'
  BY DEF CopyJob, ReturnJob, Grows
<1>4. Job \subseteq Job'
  BY <1>1, <1>2, <1>3 DEF Job, DeleteJob, RequestJob
<1>5. job \in [Client -> Job]
  BY DEF TypeOK
<1> QED  BY <1>4, <1>5

-----------------------------------------------------------------------------
(* Types after a step that only reads.                                     *)
Reading(c) ==
    /\ UNCHANGED <<history, rows, folder, setting>>
    /\ \/ \E name, from \in Ref : ReadForBranch(c, name, from) \/ ReadForRequest(c, name, from)
       \/ \E name \in Ref : ReadForDelete(c, name)
       \/ \E p \in setting.voters, q \in DOMAIN request, d \in {"approve", "reject"} : ReadForVote(c, p, q, d)
       \/ \E q \in DOMAIN request : ReadForMerge(c, q)
       \/ CountVotes(c)

(* A handler that reads begins, or counts the votes, with what is so.      *)
LEMMA ReadingFacts ==
    ASSUME TypeOK, NEW c \in Client, Reading(c)
    PROVE  \E w \in Job : job' = [job EXCEPT ![c] = w]
<1>0. /\ \A v \in Ref : HasRef(v) => head[v] \in Version
      /\ setting.voters \subseteq Principal
      /\ \A q \in DOMAIN request : request[q] \in RequestRow
  <2>1. setting.voters \subseteq Principal
    BY MergeAssumption DEF TypeOK
  <2>2. \A q \in DOMAIN request : request[q] \in RequestRow
    BY ElementFacts DEF TypeOK
  <2> QED  BY <2>1, <2>2 DEF TypeOK, HasRef
<1>1. ASSUME NEW name \in Ref, NEW from \in Ref, ReadForBranch(c, name, from)
      PROVE  \E w \in BranchJob : job' = [job EXCEPT ![c] = w]
  BY <1>0, <1>1 DEF ReadForBranch, Begin, BranchJob
<1>2. ASSUME NEW name \in Ref, NEW from \in Ref, ReadForRequest(c, name, from)
      PROVE  \E w \in RequestJob : job' = [job EXCEPT ![c] = w]
  BY <1>0, <1>2 DEF ReadForRequest, Begin, RequestJob
<1>3. ASSUME NEW name \in Ref, ReadForDelete(c, name)
      PROVE  \E w \in DeleteJob : job' = [job EXCEPT ![c] = w]
  BY <1>3 DEF ReadForDelete, Begin, DeleteJob
<1>4. ASSUME NEW p \in setting.voters, NEW q \in DOMAIN request, NEW d \in {"approve", "reject"},
             ReadForVote(c, p, q, d)
      PROVE  \E w \in VoteJob : job' = [job EXCEPT ![c] = w]
  BY <1>0, <1>4 DEF ReadForVote, Begin, VoteJob
<1>5. ASSUME NEW q \in DOMAIN request, ReadForMerge(c, q)
      PROVE  \E w \in MergeJob : job' = [job EXCEPT ![c] = w]
  <2>1. request[q].source \in Ref /\ request[q].target \in Ref
    BY <1>0 DEF RequestRow
  <2>2. head[request[q].source] \in Version /\ head[request[q].target] \in Version
    BY <1>0, <1>5, <2>1 DEF ReadForMerge
  <2> QED  BY <1>5, <2>2 DEF ReadForMerge, Begin, MergeJob
<1>6. ASSUME CountVotes(c)
      PROVE  \E w \in CountJob : job' = [job EXCEPT ![c] = w]
  <2>1. job[c] \in VoteJob
    BY <1>6, JobForms DEF CountVotes, Working
  <2>2. request[job[c].request].status \in Status
    BY <1>0, <2>1 DEF VoteJob, RequestRow
  <2>3. \A a, b : Verdict(a, b) \in {"open", "approved", "rejected"}
    BY DEF Verdict
  <2> DEFINE counted(v) == [op |-> "count", actor |-> job[c].actor, request |-> job[c].request,
                            decision |-> job[c].decision,
                            seen |-> request[job[c].request].status, verdict |-> v]
  <2>4. \A v \in {"open", "approved", "rejected"} : counted(v) \in CountJob
    BY <2>1, <2>2 DEF CountJob, VoteJob
  <2>5. \E a, b : job' = [job EXCEPT ![c] = counted(Verdict(a, b))]
    BY <1>6 DEF CountVotes
  <2> HIDE DEF counted
  <2> QED  BY <2>3, <2>4, <2>5
<1> QED  BY <1>1, <1>2, <1>3, <1>4, <1>5, <1>6 DEF Reading, Job

(* Versions are written on top of versions that exist.                     *)
LEMMA VersionWritten ==
    ASSUME TypeOK, NEW parents \in Seq(Version), version' = Append(version, parents)
    PROVE  /\ version' \in Seq(Seq(Nat))
           /\ \A v \in Version' : \A i \in DOMAIN version'[v] : version'[v][i] \in 1..v - 1
           /\ Version' = Version \cup {Newest} /\ Newest \notin Version /\ Newest \in Nat \ {0}
           /\ version'[Newest] = parents /\ \A v \in Version : version'[v] = version[v]
<1>1. version \in Seq(Seq(Nat)) /\ DOMAIN version = Version /\ Len(version) \in Nat
  BY DEF TypeOK, Version
<1>2. parents \in Seq(Nat)
  BY <1>1 DEF Version
<1>3. /\ version' \in Seq(Seq(Nat)) /\ Len(version') = Len(version) + 1
      /\ version'[Len(version) + 1] = parents /\ \A v \in Version : version'[v] = version[v]
  BY <1>1, <1>2, AppendFacts
<1>4. Version' = Version \cup {Newest} /\ Newest \notin Version /\ Newest \in Nat \ {0}
  BY <1>1, <1>3 DEF Version, Newest
<1>5. \A i \in DOMAIN parents : parents[i] \in 1..Newest - 1
  <2>1. \A i \in DOMAIN parents : parents[i] \in Version
    BY ElementFacts
  <2> QED  BY <1>1, <2>1 DEF Version, Newest
<1> QED  BY <1>3, <1>4, <1>5 DEF TypeOK, Newest

LEMMA RequestReplaced ==
    ASSUME TypeOK, NEW q \in DOMAIN request, NEW row \in RequestRow,
           request' = [request EXCEPT ![q] = row]
    PROVE  request' \in Seq(RequestRow) /\ DOMAIN request' = DOMAIN request
           /\ request'[q] = row /\ \A o \in DOMAIN request \ {q} : request'[o] = request[o]
  BY ReplaceFacts DEF TypeOK

LEMMA TypeStep ==
    ASSUME TypeOK, [Next]_vars
    PROVE  TypeOK'
<1> USE DEF history, rows
<1>0. /\ setting \in Settings /\ UNCHANGED setting
      /\ Len(version) \in Nat /\ DOMAIN version = Version /\ folder \in Nat
      /\ request \in Seq(RequestRow)
  BY DEF TypeOK, Next, vars, Version
<1>1. ASSUME NEW c \in Client, Reading(c)
      PROVE  TypeOK'
  <2>1. \E w \in Job : job' = [job EXCEPT ![c] = w]
    BY <1>1, ReadingFacts
  <2>2. Grows
    BY <1>1 DEF Reading, Grows, Version, Folder, Row, Present
  <2>3. (job \in [Client -> Job])'
    BY <2>1, <2>2, JobStep
  <2> QED  BY <1>1, <2>3 DEF Reading, TypeOK, Version, Folder, Row, Present
<1>2. ASSUME NEW c \in Client, Finish(c), Grows
      PROVE  (job \in [Client -> Job])'
  BY <1>2, JobStep DEF Finish, Job
<1>3. ASSUME NEW c \in Client, NEW name \in Ref, WriteVersion(c, name), UNCHANGED <<rows, folder>>
      PROVE  TypeOK'
  <2>1. head[name] \in Version
    BY <1>3 DEF WriteVersion, HasRef, TypeOK
  <2>2. /\ version' = Append(version, <<head[name]>>) /\ head' = [head EXCEPT ![name] = Newest]
        /\ UNCHANGED <<request, job>>
    BY <1>3 DEF WriteVersion
  <2>3. <<head[name]>> \in Seq(Version)
    BY <2>1
  <2>4. /\ version' \in Seq(Seq(Nat))
        /\ \A v \in Version' : \A i \in DOMAIN version'[v] : version'[v][i] \in 1..v - 1
        /\ Version' = Version \cup {Newest}
    BY <2>2, <2>3, VersionWritten
  <2>5. head' \in [Ref -> Version' \cup {0}]
    BY <2>2, <2>4 DEF TypeOK
  <2>6. (job \in [Client -> Job])'
    <3>1. Idle \in Job /\ Grows
      BY <1>3, <2>2, <2>4 DEF Job, Grows, Folder, Row, Present
    <3>2. job' = [job EXCEPT ![c] = Idle]
      BY <1>3, <2>2 DEF WriteVersion, TypeOK
    <3> QED  BY <3>1, <3>2, JobStep
  <2> QED  BY <1>0, <1>3, <2>2, <2>4, <2>5, <2>6 DEF TypeOK, Folder, Row, Present
<1>4. ASSUME NEW c \in Client, CreateBranch(c) \/ DeleteBranch(c), UNCHANGED <<rows, folder>>
      PROVE  TypeOK'
  <2>1. Grows /\ UNCHANGED <<version, request>> /\ Finish(c)
    BY <1>4 DEF CreateBranch, DeleteBranch, Grows, Version, Folder, Row, Present
  <2>2. job[c].op = "branch" => job[c] \in BranchJob
    BY JobForms
  <2>3. head' \in [Ref -> Version \cup {0}]
    BY <1>4, <2>2 DEF CreateBranch, DeleteBranch, Working, BranchJob, TypeOK
  <2>4. (job \in [Client -> Job])'
    BY <1>2, <2>1
  <2> QED  BY <1>0, <1>4, <2>1, <2>3, <2>4 DEF TypeOK, Version, Folder, Row, Present
<1>5. ASSUME NEW c \in Client, CreateRequest(c), UNCHANGED <<rows, folder>>
      PROVE  TypeOK'
  <2>1. job[c] \in RequestJob
    BY <1>5, JobForms DEF CreateRequest, Working
  <2>2. NewRequest(job[c].source, job[c].target) \in RequestRow
    BY <2>1 DEF NewRequest, RequestJob, RequestRow, Status
  <2>3. request' \in Seq(RequestRow) /\ DOMAIN request \subseteq DOMAIN request'
    BY <1>0, <1>5, <2>2, AppendFacts DEF CreateRequest
  <2>4. (job \in [Client -> Job])'
    BY <1>2, <1>5, <2>3 DEF CreateRequest, Grows, Version, Folder, Row, Present
  <2> QED  BY <1>0, <1>5, <2>3, <2>4 DEF TypeOK, CreateRequest, Version, Folder, Row, Present
<1>6. ASSUME NEW c \in Client, SettleVote(c), UNCHANGED <<rows, folder>>
      PROVE  TypeOK'
  <2>1. job[c] \in CountJob
    BY <1>6, JobForms DEF SettleVote, Working
  <2> DEFINE j == job[c]
             q == j.request
             row == [request[q] EXCEPT !.votes = [@ EXCEPT ![j.actor] = j.decision],
                                       !.status = IF j.verdict = j.seen THEN @ ELSE j.verdict,
                                       !.settled = @ \/ j.verdict = "rejected"]
  <2>2. q \in DOMAIN request /\ request[q] \in RequestRow
    BY <1>0, <2>1, ElementFacts DEF CountJob
  <2>3. row \in RequestRow
    BY <2>1, <2>2 DEF CountJob, RequestRow, Status
  <2>4. request' = [request EXCEPT ![q] = row]
    BY <1>6, <2>2 DEF SettleVote, RequestRow
  <2> HIDE DEF row
  <2>5. request' \in Seq(RequestRow) /\ DOMAIN request' = DOMAIN request
    BY <2>2, <2>3, <2>4, RequestReplaced
  <2>6. (job \in [Client -> Job])'
    BY <1>2, <1>6, <2>5 DEF SettleVote, Grows, Version, Folder, Row, Present
  <2> QED  BY <1>0, <1>6, <2>5, <2>6 DEF TypeOK, SettleVote, Version, Folder, Row, Present
<1>7. ASSUME NEW c \in Client, Merge(c), UNCHANGED <<rows, folder>>
      PROVE  TypeOK'
  <2>1. job[c] \in MergeJob
    BY <1>7, JobForms DEF Merge, Working
  <2> DEFINE j == job[c]
             q == j.request
             row == [request[q] EXCEPT !.status = "merged", !.merged = @ + 1]
  <2>2. q \in DOMAIN request /\ request[q] \in RequestRow /\ j.source \in Version /\ j.target \in Version
    BY <1>0, <2>1, ElementFacts DEF MergeJob
  <2>3. row \in RequestRow
    <3>1. request[q].merged + 1 \in Nat /\ "merged" \in Status
      BY <2>2 DEF RequestRow, Status
    <3> QED  BY <2>2, <3>1 DEF RequestRow
  <2>4. request' = [request EXCEPT ![q] = row]
    BY <1>7, <2>2 DEF Merge, RequestRow
  <2> HIDE DEF row
  <2>5. request' \in Seq(RequestRow) /\ DOMAIN request' = DOMAIN request
    BY <2>2, <2>3, <2>4, RequestReplaced
  <2>6. Parents(j.source, j.target) \in Seq(Version)
    BY <2>2 DEF Parents
  <2>7. /\ version' \in Seq(Seq(Nat))
        /\ \A v \in Version' : \A i \in DOMAIN version'[v] : version'[v][i] \in 1..v - 1
        /\ Version' = Version \cup {Newest}
    BY <1>7, <2>6, VersionWritten DEF Merge
  <2>8. head' \in [Ref -> Version' \cup {0}]
    BY <1>7, <2>2, <2>7 DEF Merge, TypeOK, RequestRow
  <2>9. (job \in [Client -> Job])'
    BY <1>2, <1>7, <2>5, <2>7 DEF Merge, Grows, Folder, Row, Present
  <2> QED  BY <1>0, <1>7, <2>5, <2>7, <2>8, <2>9 DEF TypeOK, Folder, Row, Present
<1>8. ASSUME NEW c \in Client, Abort(c), UNCHANGED <<history, rows, folder>>
      PROVE  TypeOK'
  <2>1. (job \in [Client -> Job])'
    BY <1>2, <1>8 DEF Abort, Grows, Version, Folder, Row, Present
  <2> QED  BY <1>0, <1>8, <2>1 DEF TypeOK, Version, Folder, Row, Present
<1>9. ASSUME NEW c \in Client, NEW i \in Item, ReadForCopy(c, i) \/ CopyFiles(c, i), UNCHANGED history
      PROVE  TypeOK'
  <2>1. Folder' = Folder \cup {folder'} /\ folder' \in Nat \ {0} /\ UNCHANGED rows
    BY <1>0, <1>9 DEF ReadForCopy, CopyFiles, Folder, Present, TypeOK
  <2>2. CASE ReadForCopy(c, i)
    <3>1. \E w \in CopyJob : job' = [job EXCEPT ![c] = w]
      BY <2>2 DEF ReadForCopy, Present, Row, Begin, CopyJob, TypeOK
    <3>2. (job \in [Client -> Job])'
      <4>1. Grows
        BY <1>9, <2>1, <2>2 DEF ReadForCopy, Grows, Version, Folder, Row, Present
      <4> QED  BY <3>1, <4>1, JobStep DEF Job
    <3> QED  BY <1>0, <1>9, <2>2, <3>2 DEF TypeOK, ReadForCopy, Version, Folder, Row, Present
  <2>3. CASE CopyFiles(c, i)
    <3>1. folder + 1 \in Folder' /\ folder' = folder + 1 /\ Folder \subseteq Folder' /\ UNCHANGED Row
      BY <1>0, <2>1, <2>3 DEF CopyFiles, Folder, Row, Present
    <3>2. i \in Row'
      BY <2>3, <3>1 DEF CopyFiles, Row
    <3>3. \E w \in CopyJob' : job' = [job EXCEPT ![c] = w]
      BY <2>3, <3>1, <3>2 DEF CopyFiles, NewFolder, Begin, CopyJob
    <3>4. Grows
      BY <1>9, <3>1 DEF Grows, Version
    <3>5. (job \in [Client -> Job])'
      BY <3>3, <3>4, JobStep DEF Job
    <3>6. artifact' \in [Item -> Folder' \cup {0}]
      BY <2>1, <3>1 DEF TypeOK
    <3> QED  BY <1>0, <1>9, <2>1, <3>1, <3>5, <3>6 DEF TypeOK, Version
  <2> QED  BY <1>9, <2>2, <2>3
<1>10. ASSUME NEW c \in Client, NEW n \in Item, Copy(c, n) \/ Branch(c, n), UNCHANGED history
       PROVE  TypeOK'
  <2>1. job[c] \in CopyJob
    BY <1>10, JobForms DEF Copy, Branch, Working
  <2>2. artifact' = [artifact EXCEPT ![n] = job[c].artifact] /\ UNCHANGED <<folder, merged>>
    BY <1>10 DEF Copy, Branch
  <2>3. /\ artifact' \in [Item -> Folder \cup {0}] /\ Row \subseteq Row' /\ n \in Row'
        /\ job[c].of \in Row'
    BY <2>1, <2>2 DEF CopyJob, TypeOK, Row, Present, Folder
  <2>4. \E t \in {"copy_of", "branch_of"} : edge' = edge \cup {<<n, job[c].of, t>>}
    BY <1>10 DEF Copy, Branch
  <2>5. edge' \subseteq Row' \X Row' \X {"copy_of", "branch_of", "merged_from"}
    BY <2>3, <2>4 DEF TypeOK
  <2>6. (job \in [Client -> Job])'
    BY <1>2, <1>10, <2>2, <2>3 DEF Copy, Branch, Grows, Version, Folder
  <2> QED  BY <1>0, <1>10, <2>2, <2>3, <2>5, <2>6 DEF TypeOK, Version, Folder
<1>11. ASSUME NEW c \in Client, NEW source \in Item, NEW target \in Item, ReadForReturn(c, source, target),
              UNCHANGED history
       PROVE  TypeOK'
  <2>1. source \in Row /\ target \in Row /\ artifact[source] \in Folder
    BY <1>11 DEF ReadForReturn, TypeOK, Row, Present
  <2>2. \E w \in ReturnJob : job' = [job EXCEPT ![c] = w]
    BY <1>11, <2>1 DEF ReadForReturn, Begin, ReturnJob
  <2>3. Grows
    BY <1>11 DEF ReadForReturn, Grows, Version, Folder, Row, Present
  <2>4. (job \in [Client -> Job])'
    BY <2>2, <2>3, JobStep DEF Job
  <2> QED  BY <1>0, <1>11, <2>4 DEF TypeOK, ReadForReturn, Version, Folder, Row, Present
<1>12. ASSUME NEW c \in Client, Return(c), UNCHANGED history
       PROVE  TypeOK'
  <2>1. job[c] \in ReturnJob
    BY <1>12, JobForms DEF Return, Working
  <2>2. /\ artifact' = [artifact EXCEPT ![job[c].target] = job[c].artifact] /\ UNCHANGED folder
        /\ edge' = edge \cup {<<job[c].target, job[c].source, "merged_from">>}
        /\ merged' = merged \cup {job[c].source}
    BY <1>12 DEF Return
  <2>3. /\ artifact' \in [Item -> Folder \cup {0}] /\ Row \subseteq Row'
        /\ job[c].source \in Row' /\ job[c].target \in Row'
    BY <2>1, <2>2 DEF ReturnJob, TypeOK, Row, Present, Folder
  <2>4. edge' \subseteq Row' \X Row' \X {"copy_of", "branch_of", "merged_from"} /\ merged' \subseteq Row'
    BY <2>2, <2>3 DEF TypeOK
  <2>5. (job \in [Client -> Job])'
    BY <1>2, <1>12, <2>2, <2>3 DEF Return, Grows, Version, Folder
  <2> QED  BY <1>0, <1>12, <2>2, <2>3, <2>4, <2>5 DEF TypeOK, Version, Folder
<1>13. CASE UNCHANGED vars
  BY <1>13 DEF vars, TypeOK, Version, Folder, Row, Present, Job, BranchJob, DeleteJob, RequestJob, VoteJob,
     CountJob, MergeJob, CopyJob, ReturnJob
<1>14. ASSUME NEW c \in Client, Step(c)
       PROVE  TypeOK'
  <2>1. CASE setting.part = "requests" /\ MergeStep(c) /\ UNCHANGED <<rows, folder>>
    BY <1>0, <1>1, <1>3, <1>4, <1>5, <1>6, <1>7, <2>1 DEF MergeStep, Reading, ReadForBranch, ReadForRequest,
       ReadForDelete, ReadForVote, ReadForMerge, CountVotes
  <2>2. CASE setting.part = "branches" /\ BranchStep(c) /\ UNCHANGED history
    BY <1>9, <1>10, <1>11, <1>12, <2>2 DEF BranchStep
  <2>3. CASE Abort(c) /\ UNCHANGED <<history, rows, folder>>
    BY <1>8, <2>3
  <2> QED  BY <1>14, <2>1, <2>2, <2>3 DEF Step
<1> QED  BY <1>13, <1>14 DEF Next

LEMMA InitTyped == Init => TypeOK
<1> SUFFICES ASSUME Init PROVE TypeOK
  OBVIOUS
<1> USE DEF Init, MergeInit, BranchInit
<1>1. version \in Seq(Seq(Nat)) /\ Len(version) = 1 /\ version[1] = <<>> /\ request \in Seq(RequestRow)
  OBVIOUS
<1>2. \A v \in Version : \A i \in DOMAIN version[v] : version[v][i] \in 1..v - 1
  <2>1. Version = {1} /\ DOMAIN version[1] = {}
    BY <1>1 DEF Version
  <2> QED  BY <2>1
<1>3. head \in [Ref -> Version \cup {0}] /\ artifact \in [Item -> Folder \cup {0}] /\ folder \in Nat
  BY <1>1 DEF Version, Folder
<1>4. job \in [Client -> Job]
  BY DEF Job
<1> QED  BY <1>1, <1>2, <1>3, <1>4 DEF TypeOK

(* Refs name versions that exist, edges link resources that exist, and     *)
(* handlers work on what exists.                                           *)
THEOREM Typing == Spec => []TypeOK
BY InitTyped, TypeStep, PTL DEF Spec

-----------------------------------------------------------------------------
(* ----- one handler at a time ----- *)
LEMMA OneWorks ==
    ASSUME TypeOK, SerialInv, NEW c \in Client, Step(c), UNCHANGED setting
    PROVE  /\ c \in setting.handlers
           /\ \A d \in Client \ {c} : job'[d] = job[d]
           /\ Serial => \A d \in Client \ {c} : job[d] = Idle
<1>0. job \in [Client -> Job]
  BY DEF TypeOK
<1>1. ASSUME NEW w, Begin(c, w)
      PROVE  c \in setting.handlers /\ \A d \in Client \ {c} : job'[d] = job[d]
  BY <1>0, <1>1 DEF Begin
<1>2. ASSUME Finish(c), job[c] # Idle
      PROVE  c \in setting.handlers /\ \A d \in Client \ {c} : job'[d] = job[d]
  BY <1>0, <1>2 DEF Finish, SerialInv
<1>3. ASSUME NEW op, op # "idle", Working(c, op)
      PROVE  job[c] # Idle
  BY <1>3 DEF Working, Idle
<1>4. c \in setting.handlers /\ \A d \in Client \ {c} : job'[d] = job[d]
  <2>1. CASE MergeStep(c)
    <3>1. ASSUME NEW name \in Ref, WriteVersion(c, name)
          PROVE  <1>4!:
      BY <3>1 DEF WriteVersion
    <3>2. CASE CountVotes(c)
      BY <1>0, <1>3, <3>2 DEF CountVotes, SerialInv
    <3>3. CASE CreateBranch(c) \/ DeleteBranch(c) \/ CreateRequest(c) \/ SettleVote(c) \/ Merge(c)
      BY <1>2, <1>3, <3>3 DEF CreateBranch, DeleteBranch, CreateRequest, SettleVote, Merge
    <3> QED
      BY <1>1, <2>1, <3>1, <3>2, <3>3 DEF MergeStep, ReadForBranch, ReadForRequest, ReadForDelete, ReadForVote, ReadForMerge
  <2>2. CASE BranchStep(c)
    BY <1>1, <1>2, <1>3, <2>2 DEF BranchStep, ReadForCopy, CopyFiles, Copy, Branch, ReadForReturn, Return
  <2>3. CASE Abort(c)
    BY <1>2, <2>3 DEF Abort
  <2> QED  BY <2>1, <2>2, <2>3 DEF Step
<1>5. ASSUME Serial, NEW d \in Client \ {c}
      PROVE  job[d] = Idle
  BY <1>4, <1>5 DEF Serial, SerialInv
<1> QED  BY <1>4, <1>5

(* It is enough to look at the requests, and at what the handler has read. *)
LEMMA SerialGoesOn ==
    ASSUME TypeOK, SerialInv, NEW c \in Client, Step(c), UNCHANGED setting,
           Serial => JobIsCurrent(job[c])' /\ \A q \in DOMAIN request' : RequestIsSound(q)'
    PROVE  SerialInv'
<1>1. \A d \in Client : job'[d] # Idle => d \in setting.handlers
  BY OneWorks DEF SerialInv
<1>2. ASSUME Serial, NEW d \in Client \ {c}
      PROVE  JobIsCurrent(job[d])'
  <2>1. job'[d] = Idle
    BY <1>2, OneWorks
  <2> QED  BY <2>1 DEF JobIsCurrent, Idle
<1>3. Serial' = Serial
  BY DEF Serial
<1> QED  BY <1>1, <1>2, <1>3 DEF SerialInv

LEMMA RequestStep ==
    ASSUME TypeOK, SerialInv, Serial, NEW c \in Client, MergeStep(c),
           UNCHANGED setting
    PROVE  JobIsCurrent(job[c])' /\ \A q \in DOMAIN request' : RequestIsSound(q)'
<1>0. /\ JobIsCurrent(job[c]) /\ \A q \in DOMAIN request : RequestIsSound(q)
      /\ request \in Seq(RequestRow) /\ job \in [Client -> Job] /\ head \in [Ref -> Version \cup {0}]
      /\ \A q \in DOMAIN request : request[q] \in RequestRow
  BY ElementFacts DEF SerialInv, TypeOK
<1>1. ASSUME UNCHANGED <<version, head, request>>
      PROVE  \A q \in DOMAIN request' : RequestIsSound(q)'
  BY <1>0, <1>1 DEF RequestIsSound, HasRef
<1>2. ASSUME job'[c] = Idle
      PROVE  JobIsCurrent(job[c])'
  BY <1>2 DEF JobIsCurrent, Idle
<1>3. ASSUME Finish(c)
      PROVE  JobIsCurrent(job[c])'
  <2>1. job'[c] = Idle
    BY <1>0, <1>3 DEF Finish
  <2> QED  BY <1>2, <2>1
<1>4. ASSUME UNCHANGED request, \A name \in Ref : HasRef(name) => HasRef(name)'
      PROVE  \A q \in DOMAIN request' : RequestIsSound(q)'
  BY <1>0, <1>4 DEF RequestIsSound, RequestRow
<1>5. ASSUME NEW name \in Ref, WriteVersion(c, name)
      PROVE  JobIsCurrent(job[c])' /\ \A q \in DOMAIN request' : RequestIsSound(q)'
  <2>1. job'[c] = Idle /\ UNCHANGED request
    BY <1>5 DEF WriteVersion
  <2>2. \A v \in Ref : HasRef(v) => HasRef(v)'
    BY <1>0, <1>5 DEF WriteVersion, HasRef, Newest, TypeOK
  <2> QED  BY <1>2, <1>4, <2>1, <2>2
<1>6. CASE CreateBranch(c)
  <2>1. job[c] \in BranchJob
    BY <1>6, JobForms DEF CreateBranch, Working
  <2>2. \A v \in Ref : HasRef(v) => HasRef(v)'
    BY <1>0, <1>6, <2>1 DEF CreateBranch, HasRef, BranchJob
  <2> QED  BY <1>3, <1>4, <1>6, <2>2 DEF CreateBranch
<1>7. CASE DeleteBranch(c)
  <2>1. job[c] \in DeleteJob /\ ~HasOpenRequests(job[c].name) /\ UNCHANGED request
    BY <1>0, <1>7, JobForms DEF DeleteBranch, Working, JobIsCurrent
  <2>2. \A v \in Ref \ {job[c].name} : HasRef(v) => HasRef(v)'
    BY <1>0, <1>7, <2>1 DEF DeleteBranch, HasRef
  <2>3. \A q \in DOMAIN request' : RequestIsSound(q)'
    BY <1>0, <2>1, <2>2 DEF HasOpenRequests, RequestIsSound, RequestRow
  <2> QED  BY <1>3, <1>7, <2>3 DEF DeleteBranch
<1>8. CASE CreateRequest(c)
  <2>1. job[c] \in RequestJob /\ HasRef(job[c].source) /\ HasRef(job[c].target)
    BY <1>0, <1>8, JobForms DEF CreateRequest, Working, JobIsCurrent
  <2> DEFINE new == NewRequest(job[c].source, job[c].target)
  <2>2. new \in RequestRow
    BY <2>1 DEF NewRequest, RequestJob, RequestRow, Status
  <2>3. /\ new.source = job[c].source /\ new.target = job[c].target /\ new.status = "open" /\ new.merged = 0
    BY DEF NewRequest
  <2> HIDE DEF new
  <2>4. /\ request' = Append(request, new) /\ UNCHANGED head
    BY <1>8 DEF CreateRequest, new
  <2>5. /\ DOMAIN request' = DOMAIN request \cup {Len(request) + 1}
        /\ request'[Len(request) + 1] = new /\ \A q \in DOMAIN request : request'[q] = request[q]
    BY <1>0, <2>2, <2>4, AppendFacts
  <2>6. \A q \in DOMAIN request' : RequestIsSound(q)'
    BY <1>0, <2>1, <2>3, <2>4, <2>5 DEF RequestIsSound, HasRef
  <2> QED  BY <1>3, <1>8, <2>6 DEF CreateRequest
<1>9. CASE SettleVote(c)
  <2>1. job[c] \in CountJob
    BY <1>9, JobForms DEF SettleVote, Working
  <2> DEFINE j == job[c]
  <2>a. PICK q \in DOMAIN request : q = j.request
    BY <2>1 DEF CountJob
  <2>2. request[q] \in RequestRow /\ j.seen = request[q].status /\ j.seen # "merged"
    BY <1>0, <1>9, <2>1, <2>a DEF JobIsCurrent, SettleVote, Working
  <2>3. /\ DOMAIN request' = DOMAIN request /\ UNCHANGED head
        /\ \A o \in DOMAIN request \ {q} : request'[o] = request[o]
    BY <1>0, <1>9, <2>a, <2>2 DEF SettleVote
  <2>4. /\ request'[q].source = request[q].source /\ request'[q].target = request[q].target
        /\ request'[q].merged = request[q].merged
        /\ request'[q].status = j.verdict
        /\ request[q].settled \/ j.verdict = "rejected" => request'[q].settled
    BY <1>0, <1>9, <2>a, <2>2 DEF SettleVote, RequestRow
  <2>5. j.verdict \in {"open", "approved", "rejected"}
    BY <2>1 DEF CountJob
  <2> HIDE DEF j
  <2>6. RequestIsSound(q)'
    <3>1. RequestIsSound(q)
      BY <1>0, <2>2
    <3>2. request[q].status # "merged" /\ request[q].status \in Status
      BY <2>2 DEF RequestRow
    <3> QED  BY <2>3, <2>4, <2>5, <3>1, <3>2 DEF RequestIsSound, HasRef, Status
  <2>7. \A o \in DOMAIN request' : RequestIsSound(o)'
    BY <1>0, <2>3, <2>6 DEF RequestIsSound, HasRef
  <2> QED  BY <1>3, <1>9, <2>7 DEF SettleVote
<1>10. CASE Merge(c)
  <2>1. job[c] \in MergeJob
    BY <1>10, JobForms DEF Merge, Working
  <2> DEFINE j == job[c]
  <2>a. PICK q \in DOMAIN request : q = j.request
    BY <2>1 DEF MergeJob
  <2>2. request[q] \in RequestRow /\ request[q].status # "merged"
    BY <1>0, <1>10, <2>1, <2>a DEF JobIsCurrent, Merge, Working
  <2>3. /\ DOMAIN request' = DOMAIN request
        /\ \A o \in DOMAIN request \ {q} : request'[o] = request[o]
    BY <1>0, <1>10, <2>a, <2>2 DEF Merge
  <2>4. request'[q].merged = request[q].merged + 1 /\ request'[q].status = "merged"
    BY <1>0, <1>10, <2>a, <2>2 DEF Merge, RequestRow
  <2>5. \A v \in Ref : HasRef(v) => HasRef(v)'
    BY <1>0, <1>10 DEF Merge, HasRef, Newest, TypeOK
  <2> HIDE DEF j
  <2>6. RequestIsSound(q)'
    <3>1. request[q].merged = 0
      BY <1>0, <2>2 DEF RequestIsSound
    <3> QED  BY <2>4, <3>1 DEF RequestIsSound
  <2>7. \A o \in DOMAIN request' : RequestIsSound(o)'
    BY <1>0, <2>3, <2>5, <2>6 DEF RequestIsSound, RequestRow
  <2> QED  BY <1>3, <1>10, <2>7 DEF Merge
<1>11. ASSUME UNCHANGED history, NEW w, Begin(c, w), JobIsCurrent(w)
       PROVE  JobIsCurrent(job[c])' /\ \A q \in DOMAIN request' : RequestIsSound(q)'
  <2>1. job'[c] = w /\ UNCHANGED <<head, request>>
    BY <1>0, <1>11 DEF Begin, history
  <2>2. JobIsCurrent(job[c])'
    BY <1>11, <2>1 DEF JobIsCurrent, HasRef, HasOpenRequests
  <2> QED  BY <1>1, <1>11, <2>2 DEF history
<1>12. ASSUME NEW name \in Ref, NEW from \in Ref, ReadForBranch(c, name, from) \/ ReadForRequest(c, name, from)
       PROVE  JobIsCurrent(job[c])' /\ \A q \in DOMAIN request' : RequestIsSound(q)'
  <2>1. JobIsCurrent([op |-> "branch", name |-> name, at |-> head[from]])
    BY DEF JobIsCurrent
  <2>2. HasRef(name) /\ HasRef(from) => JobIsCurrent([op |-> "request", source |-> name, target |-> from])
    BY DEF JobIsCurrent
  <2> QED  BY <1>11, <1>12, <2>1, <2>2 DEF ReadForBranch, ReadForRequest
<1>13. ASSUME NEW name \in Ref, ReadForDelete(c, name)
       PROVE  JobIsCurrent(job[c])' /\ \A q \in DOMAIN request' : RequestIsSound(q)'
  <2>1. JobIsCurrent([op |-> "delete", name |-> name])
    BY <1>13 DEF JobIsCurrent, ReadForDelete
  <2> QED  BY <1>11, <1>13, <2>1 DEF ReadForDelete
<1>14. ASSUME NEW p \in setting.voters, NEW q \in DOMAIN request, NEW d \in {"approve", "reject"},
              ReadForVote(c, p, q, d)
       PROVE  JobIsCurrent(job[c])' /\ \A o \in DOMAIN request' : RequestIsSound(o)'
  <2>1. JobIsCurrent([op |-> "vote", actor |-> p, request |-> q, decision |-> d])
    BY <1>14 DEF JobIsCurrent, ReadForVote
  <2> QED  BY <1>11, <1>14, <2>1 DEF ReadForVote
<1>15. ASSUME NEW q \in DOMAIN request, ReadForMerge(c, q)
       PROVE  JobIsCurrent(job[c])' /\ \A o \in DOMAIN request' : RequestIsSound(o)'
  <2>1. JobIsCurrent([op |-> "merge", request |-> q,
                      source |-> head[request[q].source], target |-> head[request[q].target]])
    BY <1>15 DEF JobIsCurrent, ReadForMerge, NotMerged
  <2> QED  BY <1>11, <1>15, <2>1 DEF ReadForMerge
<1>16. CASE CountVotes(c)
  <2>1. job[c] \in VoteJob /\ request[job[c].request].status # "merged"
    BY <1>0, <1>16, JobForms DEF CountVotes, Working, JobIsCurrent
  <2>2. /\ job'[c].op = "count" /\ job'[c].request = job[c].request
        /\ job'[c].seen = request[job[c].request].status /\ UNCHANGED history
    BY <1>0, <1>16 DEF CountVotes
  <2>3. JobIsCurrent(job[c])'
    BY <2>1, <2>2 DEF JobIsCurrent, history
  <2> QED  BY <1>1, <2>2, <2>3 DEF history
<1> QED
  BY <1>5, <1>6, <1>7, <1>8, <1>9, <1>10, <1>12, <1>13, <1>14, <1>15, <1>16 DEF MergeStep

LEMMA SerialStep ==
    ASSUME TypeOK, SerialInv, [Next]_vars
    PROVE  SerialInv'
<1>1. ASSUME NEW c \in Client, Step(c), UNCHANGED setting
      PROVE  SerialInv'
  <2>1. CASE setting.part = "requests" /\ MergeStep(c) /\ UNCHANGED <<rows, folder>>
    BY <1>1, <2>1, RequestStep, SerialGoesOn
  <2>2. ASSUME UNCHANGED history, job'[c].op \in {"idle", "copy", "fork", "return"}
        PROVE  SerialInv'
    <3>1. JobIsCurrent(job[c])'
      BY <2>2 DEF JobIsCurrent
    <3>2. Serial => \A q \in DOMAIN request' : RequestIsSound(q)'
      BY <2>2 DEF SerialInv, RequestIsSound, HasRef, history
    <3> QED  BY <1>1, <3>1, <3>2, SerialGoesOn
  <2>3. CASE setting.part = "branches" /\ BranchStep(c) /\ UNCHANGED history
    <3>1. job'[c].op \in {"idle", "copy", "fork", "return"}
      <4>1. CASE job'[c].op = "idle"
        BY <4>1
      <4>2. Finish(c) => job'[c].op = "idle"
        BY DEF Finish, Idle, TypeOK
      <4>3. \A w : Begin(c, w) => job'[c] = w
        BY DEF Begin, TypeOK
      <4>4. ASSUME NEW i \in Item, ReadForCopy(c, i) \/ CopyFiles(c, i)
            PROVE  job'[c].op \in {"copy", "fork"}
        BY <4>3, <4>4 DEF ReadForCopy, CopyFiles, NewFolder
      <4>5. ASSUME NEW source, NEW target, ReadForReturn(c, source, target)
            PROVE  job'[c].op = "return"
        BY <4>3, <4>5 DEF ReadForReturn
      <4> QED  BY <2>3, <4>2, <4>4, <4>5 DEF BranchStep, Copy, Branch, Return
    <3> QED  BY <2>2, <2>3, <3>1
  <2>4. CASE Abort(c) /\ UNCHANGED <<history, rows, folder>>
    BY <2>2, <2>4 DEF Abort, Finish, Idle, TypeOK
  <2> QED  BY <1>1, <2>1, <2>3, <2>4 DEF Step
<1>2. CASE UNCHANGED vars
  BY <1>2 DEF vars, history, SerialInv, Serial, JobIsCurrent, RequestIsSound, HasRef, HasOpenRequests
<1> QED  BY <1>1, <1>2 DEF Next

LEMMA ContributionsInvariant == Spec => [](TypeOK /\ SerialInv)
<1>1. Init => TypeOK /\ SerialInv
  <2>1. Init => SerialInv
    BY DEF Init, MergeInit, SerialInv, JobIsCurrent, Idle
  <2> QED  BY <2>1, InitTyped
<1>2. TypeOK /\ SerialInv /\ [Next]_vars => (TypeOK /\ SerialInv)'
  BY TypeStep, SerialStep
<1> QED  BY <1>1, <1>2, PTL DEF Spec

(* Handlers that come one at a time merge a request once.                  *)
THEOREM RequestsMergeOnce == Spec => []MergedOnce
<1>1. SerialInv => MergedOnce
  BY DEF SerialInv, RequestIsSound, MergedOnce
<1> QED  BY <1>1, ContributionsInvariant, PTL

(* The refs that a request names exist as long as it is open or approved,  *)
(* unless it was rejected meanwhile, with one handler at a time.           *)
THEOREM OpenRequestsKeepRefs == Spec => []OpenRequestHasRefs
<1>1. SerialInv => OpenRequestHasRefs
  BY DEF SerialInv, RequestIsSound, OpenRequestHasRefs
<1> QED  BY <1>1, ContributionsInvariant, PTL

(* A ref that moves names a version that descends from the one it named.   *)
LEMMA RefsMoveForward ==
    ASSUME TypeOK, SerialInv, [Next]_vars, Serial, NEW name \in Ref, NEW v \in Version,
           head[name] = v, HasRef(name)'
    PROVE  Descends(v, head[name])'
<1>1. SUFFICES ASSUME NEW S \in SUBSET Version', head'[name] \in S,
                      \A x \in S : \A i \in DOMAIN version'[x] : version'[x][i] \in S
               PROVE  v \in S
  BY DEF Descends
<1>2. CASE head'[name] = head[name]
  BY <1>1, <1>2
<1>3. ASSUME NEW c \in Client, MergeStep(c), UNCHANGED setting
      PROVE  v \in S
  <2>0. /\ head \in [Ref -> Version \cup {0}] /\ v # 0 /\ JobIsCurrent(job[c])
        /\ \A q \in DOMAIN request : request[q] \in RequestRow
    BY ElementFacts DEF TypeOK, Version, SerialInv
  <2>1. CASE UNCHANGED head
    BY <1>2, <2>1
  <2>2. ASSUME NEW other \in Ref, WriteVersion(c, other)
        PROVE  v \in S
    <3>1. CASE other # name
      BY <1>2, <2>0, <2>2, <3>1 DEF WriteVersion
    <3>2. CASE other = name
      <4>1. /\ head'[name] = Newest /\ version' = Append(version, <<v>>) /\ <<v>> \in Seq(Version)
        BY <2>0, <2>2, <3>2 DEF WriteVersion
      <4>2. version'[head'[name]] = <<v>>
        BY <4>1, VersionWritten
      <4> QED  BY <1>1, <4>2
    <3> QED  BY <3>1, <3>2
  <2>3. CASE CreateBranch(c)
    <3>1. job[c] \in BranchJob
      BY <2>3, JobForms DEF CreateBranch, Working
    <3> QED  BY <1>2, <2>0, <2>3, <3>1 DEF CreateBranch, HasRef, BranchJob
  <2>4. CASE DeleteBranch(c)
    <3>1. job[c] \in DeleteJob
      BY <2>4, JobForms DEF DeleteBranch, Working
    <3> QED  BY <1>2, <2>0, <2>4, <3>1 DEF DeleteBranch, HasRef, DeleteJob
  <2>5. CASE Merge(c)
    <3>1. job[c] \in MergeJob
      BY <2>5, JobForms DEF Merge, Working
    <3> DEFINE j == job[c]
               target == request[j.request].target
    <3>2. /\ target \in Ref /\ j.source \in Version /\ j.target \in Version /\ head[target] = j.target
      BY <2>0, <2>5, <3>1 DEF MergeJob, RequestRow, JobIsCurrent, Merge, Working
    <3>3. CASE target # name
      BY <1>2, <2>0, <2>5, <3>2, <3>3 DEF Merge
    <3>4. CASE target = name
      <4>1. /\ head'[name] = Newest /\ version' = Append(version, <<v, j.source>>)
            /\ <<v, j.source>> \in Seq(Version)
        BY <2>0, <2>5, <3>2, <3>4 DEF Merge, Parents
      <4>2. version'[head'[name]] = <<v, j.source>>
        BY <4>1, VersionWritten
      <4>3. version'[head'[name]][1] = v /\ 1 \in DOMAIN version'[head'[name]]
        BY <4>2
      <4> QED  BY <1>1, <4>3
    <3> QED  BY <3>3, <3>4
  <2> QED
    BY <1>3, <2>1, <2>2, <2>3, <2>4, <2>5 DEF MergeStep, ReadForBranch, ReadForRequest, ReadForDelete, ReadForVote,
       ReadForMerge, CountVotes, SettleVote, CreateRequest, history
<1>4. UNCHANGED head \/ \E c \in Client : MergeStep(c) /\ UNCHANGED setting
  BY DEF Next, Step, vars, history
<1> QED  BY <1>2, <1>3, <1>4

(* With one handler at a time what was merged into a ref stays merged:     *)
(* every move of the ref is to a descendant.                               *)
THEOREM RefsDescend == Spec => HeadDescends
<1>1. TypeOK /\ SerialInv /\ [Next]_vars
      => [Serial => \A name \in Ref, v \in Version :
                       head[name] = v => (HasRef(name) => Descends(v, head[name]))']_vars
  <2> SUFFICES ASSUME TypeOK, SerialInv, [Next]_vars, Serial, NEW name \in Ref, NEW v \in Version,
                      head[name] = v, HasRef(name)'
               PROVE  Descends(v, head[name])'
    OBVIOUS
  <2> QED  BY RefsMoveForward
<1> QED  BY <1>1, ContributionsInvariant, PTL DEF Spec, HeadDescends

-----------------------------------------------------------------------------
(* Branches and the resources that they were taken from                    *)
Taken == {e \in Item \X Item : <<e[1], e[2], "branch_of">> \in edge}
Back == {e \in Taken : e[1] \in merged}

(* Where the edges of E lead to.                                           *)
Climb(E, x) ==
    {y \in Item : \A S \in SUBSET Item : x \in S /\ (\A e \in E : e[1] \in S => e[2] \in S) => y \in S}

(* The folders that a row names, or that a handler has read of it.         *)
Held(x) ==
    {artifact[x]} \cup {job[c].artifact : c \in {d \in Client : job[d].op = "return" /\ job[d].source = x}}
Kin(x, y) == Climb(Taken, x) \cap Climb(Taken, y) # {}

(* A branch was taken from one resource, and not in a circle.              *)
TakenInv ==
    /\ \A e, f \in Taken : e[1] = f[1] => e = f
    /\ \A e \in Taken : e[1] \notin Climb(Taken, e[2])

(* The folder of a branch to be is nobody else's.                          *)
Files == {"copy", "fork", "return"}
FreshInv ==
    \A c \in Client : job[c].op = "fork" =>
        /\ \A x \in Item : artifact[x] # job[c].artifact
        /\ \A d \in Client \ {c} : job[d].op \in Files => job[d].artifact # job[c].artifact

(* Rows with a common origin share a folder only if one has been merged    *)
(* all the way into the other.                                             *)
SharedInv ==
    \A x, y \in Item : Kin(x, y) /\ Held(x) \cap Held(y) # {} => x \in Climb(Back, y) \/ y \in Climb(Back, x)

ReturnInv == \A c \in Client : job[c].op = "return" => <<job[c].source, job[c].target>> \in Taken

BranchInv == TakenInv /\ FreshInv /\ SharedInv /\ ReturnInv

LEMMA ClimbFacts ==
    ASSUME NEW E \in SUBSET (Item \X Item), NEW x \in Item
    PROVE  /\ x \in Climb(E, x)
           /\ \A e \in E : e[1] \in Climb(E, x) => e[2] \in Climb(E, x)
           /\ \A y \in Climb(E, x) : Climb(E, y) \subseteq Climb(E, x)
           /\ \A F \in SUBSET (Item \X Item) : E \subseteq F => Climb(E, x) \subseteq Climb(F, x)
<1>1. \A e \in E : e[2] \in Item
  OBVIOUS
<1> QED  BY <1>1 DEF Climb

LEMMA ClimbLeast ==
    ASSUME NEW E \in SUBSET (Item \X Item), NEW S \in SUBSET Item, NEW x \in S,
           \A e \in E : e[1] \in S => e[2] \in S
    PROVE  Climb(E, x) \subseteq S
BY DEF Climb

(* The way up begins with the one edge that leaves the row.                *)
LEMMA ClimbFirst ==
    ASSUME NEW E \in SUBSET (Item \X Item), \A e, f \in E : e[1] = f[1] => e = f,
           NEW e \in E, NEW y \in Climb(E, e[1]), y # e[1]
    PROVE  y \in Climb(E, e[2])
<1> DEFINE S == {e[1]} \cup Climb(E, e[2])
<1>1. e[1] \in Item /\ e[2] \in Item
  OBVIOUS
<1>2. S \in SUBSET Item /\ e[1] \in S
  BY <1>1 DEF Climb
<1>3. ASSUME NEW f \in E, f[1] \in S  PROVE f[2] \in S
  BY <1>1, <1>3, ClimbFacts
<1> HIDE DEF S
<1>4. Climb(E, e[1]) \subseteq S
  BY <1>2, <1>3, ClimbLeast
<1> QED  BY <1>4 DEF S

(* A row that no edge leaves.                                              *)
LEMMA ClimbNowhere ==
    ASSUME NEW E \in SUBSET (Item \X Item), NEW x \in Item, \A e \in E : e[1] # x
    PROVE  Climb(E, x) = {x}
<1>1. {x} \in SUBSET Item /\ x \in {x} /\ \A e \in E : e[1] \in {x} => e[2] \in {x}
  OBVIOUS
<1>2. Climb(E, x) \subseteq {x}
  BY <1>1, ClimbLeast
<1> QED  BY <1>2, ClimbFacts

LEMMA TakenFacts ==
    /\ Taken \in SUBSET (Item \X Item) /\ Back \in SUBSET (Item \X Item) /\ Back \subseteq Taken
    /\ \A x, y \in Item : <<x, y>> \in Taken <=> <<x, y, "branch_of">> \in edge
BY DEF Taken, Back

(* The branches are kept apart.                                            *)
LEMMA ApartByInv == BranchInv /\ TypeOK => BranchesAreIsolated
<1> SUFFICES ASSUME BranchInv, TypeOK, NEW e \in edge, e[3] = "branch_of", e[1] \notin merged,
                    artifact[e[1]] = artifact[e[2]]
             PROVE  FALSE
  BY DEF BranchesAreIsolated
<1>1. PICK x \in Item, y \in Item : e = <<x, y, "branch_of">>
  BY DEF TypeOK, Row
<1>2. <<x, y>> \in Taken /\ x \notin merged
  BY <1>1, TakenFacts
<1>3. x \notin Climb(Taken, y)
  BY <1>2 DEF BranchInv, TakenInv
<1>4. y \in Climb(Taken, x) /\ y \in Climb(Taken, y)
  BY <1>1, <1>2, TakenFacts, ClimbFacts
<1>5. Held(x) \cap Held(y) # {}
  BY <1>1 DEF Held
<1>6. x \in Climb(Back, y) \/ y \in Climb(Back, x)
  BY <1>1, <1>4, <1>5 DEF BranchInv, SharedInv, Kin
<1>7. x \notin Climb(Back, y)
  BY <1>1, <1>3, TakenFacts, ClimbFacts
<1>8. Climb(Back, x) = {x}
  <2>1. \A f \in Back : f[1] # x
    BY <1>2 DEF Back
  <2> QED  BY <1>1, <2>1, TakenFacts, ClimbNowhere
<1> QED  BY <1>3, <1>4, <1>6, <1>7, <1>8

(* A handler that reads, gives up or works on requests.                    *)
LEMMA RowsStay ==
    ASSUME TypeOK, BranchInv, UNCHANGED <<artifact, edge, merged>>, NEW c \in Client, NEW w,
           job' = [job EXCEPT ![c] = w],
           w.op = "return" => /\ w.source \in Item /\ w.artifact = artifact[w.source]
                              /\ <<w.source, w.target>> \in Taken,
           w.op = "copy" => \E x \in Item : artifact[x] = w.artifact,
           w.op = "fork" => /\ \A x \in Item : artifact[x] # w.artifact
                            /\ \A d \in Client : job[d].op \in Files => job[d].artifact # w.artifact
    PROVE  BranchInv'
<1>1. Taken' = Taken /\ Back' = Back
  BY DEF Taken, Back
<1>2. job'[c] = w /\ \A d \in Client \ {c} : job'[d] = job[d]
  BY DEF TypeOK
<1>3. TakenInv'
  BY <1>1 DEF BranchInv, TakenInv
<1>4. ReturnInv'
  BY <1>1, <1>2 DEF BranchInv, ReturnInv
<1>5. \A x \in Item : Held(x)' \subseteq Held(x)
  BY <1>2 DEF Held
<1>6. SharedInv'
  BY <1>1, <1>5 DEF BranchInv, SharedInv, Kin
<1>7. ASSUME NEW d \in Client, job'[d].op = "fork"
      PROVE  /\ \A x \in Item : artifact'[x] # job'[d].artifact
             /\ \A b \in Client \ {d} : job'[b].op \in Files => job'[b].artifact # job'[d].artifact
  <2>1. CASE d = c
    BY <1>2, <1>7, <2>1
  <2>2. CASE d # c
    <3>1. /\ job[d].op = "fork" /\ job'[d] = job[d] /\ \A x \in Item : artifact[x] # job[d].artifact
          /\ \A b \in Client \ {d} : job[b].op \in Files => job[b].artifact # job[d].artifact
      BY <1>2, <1>7, <2>2 DEF BranchInv, FreshInv
    <3>2. w.op \in Files => w.artifact # job[d].artifact
      BY <3>1 DEF Files
    <3> QED  BY <1>2, <3>1, <3>2
  <2> QED  BY <2>1, <2>2
<1>8. FreshInv'
  BY <1>7 DEF FreshInv
<1> QED  BY <1>3, <1>4, <1>6, <1>8 DEF BranchInv

(* A copy or a branch: a row that no edge has led to or from.              *)
LEMMA RowComes ==
    ASSUME TypeOK, BranchInv, NEW c \in Client, NEW n \in Item, ~Present(n),
           NEW t \in {"copy_of", "branch_of"}, job[c].op \in {"copy", "fork"},
           t = "branch_of" => job[c].op = "fork",
           artifact' = [artifact EXCEPT ![n] = job[c].artifact],
           edge' = edge \cup {<<n, job[c].of, t>>}, UNCHANGED merged, Finish(c)
    PROVE  BranchInv'
<1> DEFINE of == job[c].of
<1>1. of \in Item /\ of # n /\ n \notin merged
  BY JobForms DEF CopyJob, Row, TypeOK
<1>2. job'[c] = Idle /\ \A d \in Client \ {c} : job'[d] = job[d]
  BY DEF TypeOK, Finish
<1>3. Idle.op = "idle" /\ Idle.op \notin Files
  BY DEF Idle, Files
<1>4. \A e \in Taken : e[1] # n /\ e[2] # n
  BY DEF Taken, TypeOK, Row
<1>5. Taken' = IF t = "branch_of" THEN Taken \cup {<<n, of>>} ELSE Taken
  <2>1. \A e \in Item \X Item : <<e[1], e[2], "branch_of">> = <<n, of, t>> <=> e = <<n, of>> /\ t = "branch_of"
    OBVIOUS
  <2>2. \A e \in Item \X Item : e \in Taken' <=> e \in Taken \/ (e = <<n, of>> /\ t = "branch_of")
    BY <2>1 DEF Taken
  <2> QED  BY <1>1, <2>2, TakenFacts DEF Taken
<1>6. Taken' \in SUBSET (Item \X Item) /\ Taken \subseteq Taken'
  BY <1>1, <1>5, TakenFacts
<1>7. Back' = Back
  BY <1>1, <1>5 DEF Back
<1>8. ASSUME NEW x \in Item \ {n}
      PROVE  n \notin Climb(Taken, x) /\ Climb(Taken', x) = Climb(Taken, x)
  <2>1. Item \ {n} \in SUBSET Item /\ x \in Item \ {n} /\ \A e \in Taken : e[2] \in Item \ {n}
    BY <1>4, TakenFacts
  <2>2. Climb(Taken, x) \subseteq Item \ {n}
    BY <2>1, TakenFacts, ClimbLeast
  <2>3. \A e \in Taken' : e[1] \in Climb(Taken, x) => e[2] \in Climb(Taken, x)
    BY <1>5, <2>2, TakenFacts, ClimbFacts
  <2>4. Climb(Taken, x) \in SUBSET Item /\ x \in Climb(Taken, x)
    BY TakenFacts, ClimbFacts DEF Climb
  <2>5. Climb(Taken', x) \subseteq Climb(Taken, x)
    BY <1>6, <2>3, <2>4, ClimbLeast
  <2>6. Climb(Taken, x) \subseteq Climb(Taken', x)
    BY <1>6, TakenFacts, ClimbFacts
  <2> QED  BY <2>2, <2>5, <2>6
<1>9. TakenInv'
  <2>1. ASSUME NEW e \in Taken'  PROVE e[1] \notin Climb(Taken', e[2])
    <3>1. CASE e \in Taken
      BY <1>4, <1>8, <3>1, TakenFacts DEF BranchInv, TakenInv
    <3>2. CASE e = <<n, of>>
      BY <1>1, <1>8, <3>2
    <3> QED  BY <1>5, <2>1, <3>1, <3>2
  <2>2. \A e, f \in Taken' : e[1] = f[1] => e = f
    BY <1>4, <1>5 DEF BranchInv, TakenInv
  <2>3. Climb(Taken, n)' = Climb(Taken', n)
    BY DEF Climb
  <2>4. \A x : Climb(Taken, x)' = Climb(Taken', x)
    BY DEF Climb
  <2> QED  BY <2>1, <2>2, <2>4 DEF TakenInv
<1>10. ReturnInv'
  BY <1>2, <1>3, <1>6 DEF BranchInv, ReturnInv
<1>11. /\ artifact'[n] = job[c].artifact /\ \A x \in Item \ {n} : artifact'[x] = artifact[x]
  BY DEF TypeOK
<1>12. FreshInv'
  <2> SUFFICES ASSUME NEW d \in Client, job'[d].op = "fork"
               PROVE  /\ \A x \in Item : artifact'[x] # job'[d].artifact
                      /\ \A b \in Client \ {d} : job'[b].op \in Files => job'[b].artifact # job'[d].artifact
    BY DEF FreshInv
  <2>1. d # c /\ job'[d] = job[d]
    BY <1>2, <1>3
  <2>2. /\ \A x \in Item : artifact[x] # job[d].artifact
        /\ \A b \in Client \ {d} : job[b].op \in Files => job[b].artifact # job[d].artifact
    BY <2>1 DEF BranchInv, FreshInv
  <2>3. job[c].artifact # job[d].artifact
    BY <2>1, <2>2 DEF Files
  <2> QED  BY <1>2, <1>3, <1>11, <2>1, <2>2, <2>3
<1>13. \A x \in Item \ {n} : Held(x)' \subseteq Held(x)
  BY <1>2, <1>3, <1>11 DEF Held
<1>14. \A x : Climb(Taken, x)' = Climb(Taken', x) /\ Climb(Back, x)' = Climb(Back, x)
  BY <1>7 DEF Climb
<1>15. ASSUME NEW y \in Item \ {n}, Kin(n, y)'  PROVE Held(n)' \cap Held(y)' = {}
  <2>1. t = "branch_of"
    <3>1. ASSUME t # "branch_of"  PROVE FALSE
      <4>1. Taken' = Taken
        BY <1>5, <3>1
      <4>2. Climb(Taken, n) = {n}
        BY <1>4, TakenFacts, ClimbNowhere
      <4> QED  BY <1>8, <1>14, <1>15, <4>1, <4>2 DEF Kin
    <3> QED  BY <3>1
  <2>2. \A d \in Client : ~(job[d].op = "return" /\ job[d].source = n)
    BY JobForms DEF ReturnJob, Row
  <2>3. Held(n)' = {job[c].artifact}
    BY <1>2, <1>3, <1>11, <2>2 DEF Held
  <2>4. /\ \A x \in Item : artifact[x] # job[c].artifact
        /\ \A d \in Client \ {c} : job[d].op \in Files => job[d].artifact # job[c].artifact
    BY <2>1 DEF BranchInv, FreshInv
  <2>5. job[c].artifact \notin Held(y)
    BY <2>1, <2>4 DEF Held, Files
  <2> QED  BY <1>13, <2>3, <2>5
<1>16. SharedInv'
  <2> SUFFICES ASSUME NEW x \in Item, NEW y \in Item, Kin(x, y)', Held(x)' \cap Held(y)' # {}
               PROVE  x \in Climb(Back, y)' \/ y \in Climb(Back, x)'
    BY DEF SharedInv
  <2>1. CASE x = y
    BY <1>14, <2>1, TakenFacts, ClimbFacts
  <2>2. CASE x # n /\ y # n
    <3>1. Kin(x, y) /\ Held(x) \cap Held(y) # {}
      BY <1>8, <1>13, <1>14, <2>2 DEF Kin
    <3> QED  BY <1>14, <3>1 DEF BranchInv, SharedInv
  <2>3. CASE x # y /\ x = n
    BY <1>15, <2>3
  <2>4. CASE x # y /\ y = n
    <3>1. Kin(y, x)'
      BY DEF Kin
    <3> QED  BY <1>15, <2>4, <3>1
  <2> QED  BY <2>1, <2>2, <2>3, <2>4
<1> QED  BY <1>9, <1>10, <1>12, <1>16 DEF BranchInv

(* A branch is merged: its folder, as it was read, goes one up.            *)
LEMMA BranchReturns ==
    ASSUME TypeOK, BranchInv, NEW c \in Client, Return(c)
    PROVE  BranchInv'
<1>1. PICK s, t, a : s = job[c].source /\ t = job[c].target /\ a = job[c].artifact
  OBVIOUS
<1>2. /\ job[c].op = "return" /\ s \in Item /\ t \in Item /\ <<s, t>> \in Taken /\ a \in Held(s)
  BY <1>1, JobForms DEF Return, Working, ReturnJob, Row, BranchInv, ReturnInv, Held
<1>3. /\ artifact'[t] = a /\ \A x \in Item \ {t} : artifact'[x] = artifact[x]
      /\ edge' = edge \cup {<<t, s, "merged_from">>} /\ merged' = merged \cup {s}
  BY <1>1, <1>2 DEF Return, TypeOK
<1>4. job'[c] = Idle /\ \A d \in Client \ {c} : job'[d] = job[d]
  BY DEF TypeOK, Return, Finish
<1>5. Idle.op = "idle" /\ Idle.op \notin Files
  BY DEF Idle, Files
<1>6. Taken' = Taken
  BY <1>3 DEF Taken
<1>7. Back' \in SUBSET (Item \X Item) /\ Back \subseteq Back' /\ <<s, t>> \in Back' /\ Back' \subseteq Taken
  BY <1>2, <1>3, <1>6, TakenFacts DEF Back
<1>8. \A x : Climb(Taken, x)' = Climb(Taken, x) /\ Climb(Back, x)' = Climb(Back', x)
  BY <1>6 DEF Climb
<1>9. TakenInv'
  BY <1>6, <1>8 DEF BranchInv, TakenInv
<1>10. ReturnInv'
  BY <1>4, <1>5, <1>6 DEF BranchInv, ReturnInv
<1>11. FreshInv'
  <2> SUFFICES ASSUME NEW d \in Client, job'[d].op = "fork"
               PROVE  /\ \A x \in Item : artifact'[x] # job'[d].artifact
                      /\ \A b \in Client \ {d} : job'[b].op \in Files => job'[b].artifact # job'[d].artifact
    BY DEF FreshInv
  <2>1. d # c /\ job'[d] = job[d]
    BY <1>4, <1>5
  <2>2. /\ \A x \in Item : artifact[x] # job[d].artifact
        /\ \A b \in Client \ {d} : job[b].op \in Files => job[b].artifact # job[d].artifact
    BY <2>1 DEF BranchInv, FreshInv
  <2>3. a # job[d].artifact
    BY <1>1, <1>2, <2>1, <2>2 DEF Files
  <2> QED  BY <1>3, <1>4, <1>5, <2>1, <2>2, <2>3
<1>12. /\ \A x \in Item \ {t} : Held(x)' \subseteq Held(x)
       /\ Held(t)' \subseteq Held(t) \cup {a}
  BY <1>2, <1>3, <1>4, <1>5 DEF Held
<1>13. \A x \in Item : Climb(Back, x) \subseteq Climb(Back', x)
  BY <1>7, TakenFacts, ClimbFacts
<1>14. ASSUME NEW y \in Item \ {t}, Kin(t, y), a \in Held(y)
       PROVE  t \in Climb(Back', y) \/ y \in Climb(Back', t)
  <2>1. Climb(Taken, t) \subseteq Climb(Taken, s)
    BY <1>2, TakenFacts, ClimbFacts
  <2>2. Kin(s, y)
    BY <1>14, <2>1 DEF Kin
  <2>3. s \in Climb(Back', y) \/ y \in Climb(Back', s)
    BY <1>2, <1>13, <1>14, <2>2 DEF BranchInv, SharedInv
  <2>4. t \in Climb(Back', s)
    BY <1>2, <1>7, ClimbFacts
  <2>5. CASE s \in Climb(Back', y)
    BY <1>7, <2>4, <2>5, ClimbFacts
  <2>6. CASE y = s
    BY <2>4, <2>6
  <2>7. CASE y \in Climb(Back', s) /\ y # s
    <3>1. \A e, f \in Back' : e[1] = f[1] => e = f
      BY <1>7 DEF BranchInv, TakenInv
    <3>2. PICK e \in Back' : e = <<s, t>>
      BY <1>7
    <3>3. y \in Climb(Back', e[2])
      BY <1>7, <2>7, <3>1, <3>2, ClimbFirst
    <3> QED  BY <3>2, <3>3
  <2> QED  BY <2>3, <2>5, <2>6, <2>7
<1>15. SharedInv'
  <2> SUFFICES ASSUME NEW x \in Item, NEW y \in Item, Kin(x, y)', Held(x)' \cap Held(y)' # {}
               PROVE  x \in Climb(Back', y) \/ y \in Climb(Back', x)
    BY <1>8 DEF SharedInv
  <2>1. Kin(x, y) /\ Kin(y, x)
    BY <1>8 DEF Kin
  <2>2. CASE x = y
    BY <1>7, <2>2, ClimbFacts
  <2>3. CASE Held(x) \cap Held(y) # {}
    BY <1>13, <2>1, <2>3 DEF BranchInv, SharedInv
  <2>4. CASE x # y /\ x = t /\ a \in Held(y)
    BY <1>14, <2>1, <2>4
  <2>5. CASE x # y /\ y = t /\ a \in Held(x)
    BY <1>14, <2>1, <2>5
  <2>6. x = y \/ Held(x) \cap Held(y) # {} \/ (x = t /\ a \in Held(y)) \/ (y = t /\ a \in Held(x))
    BY <1>12
  <2> QED  BY <2>2, <2>3, <2>4, <2>5, <2>6
<1> QED  BY <1>9, <1>10, <1>11, <1>15 DEF BranchInv

LEMMA BranchesStep ==
    ASSUME TypeOK, BranchInv, NEW c \in Client, Step(c)
    PROVE  BranchInv'
<1>1. ASSUME UNCHANGED rows, NEW w, job' = [job EXCEPT ![c] = w], w.op \notin Files  PROVE BranchInv'
  BY <1>1, RowsStay DEF rows, Files
<1>2. Idle.op \notin Files
  BY DEF Idle, Files
<1>3. ASSUME UNCHANGED rows, UNCHANGED job  PROVE BranchInv'
  <2>1. job' = [job EXCEPT ![c] = job[c]] /\ Taken' = Taken /\ Back' = Back
    BY <1>3 DEF TypeOK, Taken, Back, rows
  <2>2. \A x : Held(x)' = Held(x)
    BY <1>3 DEF Held, rows
  <2> QED  BY <1>3, <2>1, <2>2 DEF BranchInv, TakenInv, FreshInv, SharedInv, ReturnInv, Kin, rows
<1>4. ASSUME MergeStep(c), UNCHANGED rows  PROVE BranchInv'
  <2>1. ASSUME NEW w, Begin(c, w), w.op \notin Files  PROVE BranchInv'
    BY <1>1, <1>4, <2>1 DEF Begin
  <2>2. ASSUME Finish(c)  PROVE BranchInv'
    BY <1>1, <1>2, <1>4, <2>2 DEF Finish
  <2>3. ASSUME NEW name \in Ref, NEW from \in Ref, ReadForBranch(c, name, from) \/ ReadForRequest(c, name, from)
        PROVE  BranchInv'
    BY <2>1, <2>3 DEF ReadForBranch, ReadForRequest, Files
  <2>4. ASSUME NEW name \in Ref, WriteVersion(c, name) \/ ReadForDelete(c, name)  PROVE BranchInv'
    BY <1>3, <1>4, <2>1, <2>4 DEF WriteVersion, ReadForDelete, Files
  <2>5. ASSUME NEW p \in setting.voters, NEW q \in DOMAIN request, NEW d \in {"approve", "reject"},
               ReadForVote(c, p, q, d)
        PROVE  BranchInv'
    BY <2>1, <2>5 DEF ReadForVote, Files
  <2>6. ASSUME NEW q \in DOMAIN request, ReadForMerge(c, q)  PROVE BranchInv'
    BY <2>1, <2>6 DEF ReadForMerge, Files
  <2>7. CASE CreateBranch(c) \/ DeleteBranch(c) \/ CreateRequest(c) \/ SettleVote(c) \/ Merge(c)
    BY <2>2, <2>7 DEF CreateBranch, DeleteBranch, CreateRequest, SettleVote, Merge
  <2>8. CASE CountVotes(c)
    <3>1. PICK w : w.op = "count" /\ job' = [job EXCEPT ![c] = w]
      <4> DEFINE counted(v) == [op |-> "count", actor |-> job[c].actor, request |-> job[c].request,
                                decision |-> job[c].decision,
                                seen |-> request[job[c].request].status, verdict |-> v]
      <4>1. \E a, b : job' = [job EXCEPT ![c] = counted(Verdict(a, b))]
        BY <2>8 DEF CountVotes
      <4>2. \A v : counted(v).op = "count"
        OBVIOUS
      <4> HIDE DEF counted
      <4> QED  BY <4>1, <4>2
    <3>2. w.op \notin Files
      BY <3>1 DEF Files
    <3> QED  BY <1>1, <1>4, <3>1, <3>2
  <2> QED  BY <1>4, <2>3, <2>4, <2>5, <2>6, <2>7, <2>8 DEF MergeStep
<1>5. ASSUME Abort(c), UNCHANGED rows  PROVE BranchInv'
  BY <1>1, <1>2, <1>5 DEF Abort, Finish
<1>6. ASSUME BranchStep(c)  PROVE BranchInv'
  <2>1. ASSUME NEW i \in Item, ReadForCopy(c, i)  PROVE BranchInv'
    BY <2>1, RowsStay DEF ReadForCopy, Begin, rows
  <2>2. ASSUME NEW i \in Item, CopyFiles(c, i)  PROVE BranchInv'
    <3>1. \A x \in Item : artifact[x] # folder + 1
      BY DEF TypeOK, Folder
    <3>2. \A d \in Client : job[d].op \in Files => job[d].artifact # folder + 1
      BY JobForms DEF Files, CopyJob, ReturnJob, Folder, TypeOK
    <3>3. PICK w : w = NewFolder(i)
      OBVIOUS
    <3>4. w.op = "fork" /\ w.artifact = folder + 1
      BY <3>3 DEF NewFolder
    <3>5. job' = [job EXCEPT ![c] = w] /\ UNCHANGED <<artifact, edge, merged>>
      BY <2>2, <3>3 DEF CopyFiles, Begin, rows
    <3> QED  BY <3>1, <3>2, <3>4, <3>5, RowsStay
  <2>3. ASSUME NEW n \in Item, Copy(c, n)  PROVE BranchInv'
    BY <2>3, RowComes DEF Copy, Working
  <2>4. ASSUME NEW n \in Item, Branch(c, n)  PROVE BranchInv'
    BY <2>4, RowComes DEF Branch, Working
  <2>5. ASSUME NEW source \in Item, NEW target \in Item, ReadForReturn(c, source, target)  PROVE BranchInv'
    <3>1. <<source, target>> \in Taken
      BY <2>5, TakenFacts DEF ReadForReturn
    <3>2. PICK w : w = [op |-> "return", source |-> source, target |-> target, artifact |-> artifact[source]]
      OBVIOUS
    <3>3. job' = [job EXCEPT ![c] = w] /\ UNCHANGED <<artifact, edge, merged>>
      BY <2>5, <3>2 DEF ReadForReturn, Begin, rows
    <3>4. w.op = "return" /\ w.source = source /\ w.target = target /\ w.artifact = artifact[source]
      BY <3>2
    <3> QED  BY <3>1, <3>3, <3>4, RowsStay
  <2> QED  BY <1>6, <2>1, <2>2, <2>3, <2>4, <2>5, BranchReturns DEF BranchStep
<1> QED  BY <1>4, <1>5, <1>6 DEF Step

LEMMA BranchesBegin == Init => BranchInv
<1> SUFFICES ASSUME Init  PROVE BranchInv
  OBVIOUS
<1>1. edge = {} /\ \A c \in Client : job[c].op = "idle"
  BY DEF Init, BranchInit, Idle
<1>2. Taken = {} /\ Back = {}
  BY <1>1 DEF Taken, Back
<1>3. \A x \in Item : Climb(Taken, x) = {x}
  BY <1>2, TakenFacts, ClimbNowhere
<1> QED  BY <1>1, <1>2, <1>3, ClimbFacts, TakenFacts DEF BranchInv, TakenInv, FreshInv, SharedInv, ReturnInv, Kin

-----------------------------------------------------------------------------
(* The walk over the lineage                                               *)
(* ----- numbers and finite sets ----- *)
Less == {pair \in Nat \X Nat : pair[1] < pair[2]}
LEMMA Least ==
    ASSUME NEW S \in SUBSET Nat, S # {}
    PROVE  \E m \in S : \A n \in S : m <= n
<1>1. IsWellFoundedOn(Less, Nat)
  BY NatLessThanWellFounded DEF OpToRel, Less
<1>2. PICK x \in S : \A y \in S : ~(<<y, x>> \in Less)
  BY <1>1, WFMin
<1>3. ASSUME NEW y \in S PROVE x <= y
  <2>1. ~(<<y, x>> \in Less)
    BY <1>2
  <2>2. x \in Nat /\ y \in Nat /\ <<y, x>> \in Nat \X Nat
    OBVIOUS
  <2> QED  BY <2>1, <2>2 DEF Less
<1> QED  BY <1>3

-----------------------------------------------------------------------------
(* What is defined by recursion on numbers: values from D, each the image  *)
(* of the one before.  A least length without such a function has a        *)
(* predecessor.                                                            *)
Iterated(f, n, x, F, D) == f \in [0..n -> D] /\ \A k \in 0..n : f[k] = IF k = 0 THEN x ELSE F[f[k - 1]]

LEMMA Iterates ==
    ASSUME NEW D, NEW F \in [D -> D], NEW x \in D, NEW n \in Nat
    PROVE  \E f : Iterated(f, n, x, F, D)
<1> DEFINE Good(f, m) == Iterated(f, m, x, F, D)
           Bad == {m \in Nat : ~\E f : Good(f, m)}
<1>1. SUFFICES ASSUME Bad # {} PROVE FALSE
  BY <1>1
<1>2. PICK m \in Bad : \A k \in Bad : m <= k
  BY <1>1, Least
<1>3. CASE m = 0
  <2> DEFINE f == [k \in 0..0 |-> x]
  <2>1. Good(f, 0)
    BY DEF Iterated
  <2> QED  BY <1>2, <1>3, <2>1
<1>4. CASE m # 0
  <2> HIDE DEF Good
  <2>1. m \in Nat /\ (m - 1) \in Nat /\ (m - 1) \notin Bad
    BY <1>2, <1>4
  <2> USE DEF Good, Iterated
  <2>2. PICK f : Good(f, m - 1)
    BY <2>1
  <2> DEFINE g == [k \in 0..m |-> IF k = m THEN F[f[m - 1]] ELSE f[k]]
  <2>3. /\ \A k \in 0..(m - 1) : f[k] = (IF k = 0 THEN x ELSE F[f[k - 1]]) /\ f[k] \in D
        /\ (m - 1) \in 0..(m - 1)
    BY <2>1, <2>2
  <2>4. ASSUME NEW k \in 0..m PROVE g[k] \in D /\ g[k] = IF k = 0 THEN x ELSE F[g[k - 1]]
    <3>1. CASE k = m
      <4>1. (m - 1) \in 0..m /\ m - 1 # m /\ g[m - 1] = f[m - 1] /\ g[m] = F[f[m - 1]]
        BY <2>1
      <4> QED  BY <1>4, <2>3, <3>1, <4>1
    <3>2. CASE k # m /\ k # 0
      <4>1. k \in 0..(m - 1) /\ (k - 1) \in 0..m /\ k - 1 # m /\ g[k] = f[k] /\ g[k - 1] = f[k - 1]
        BY <2>1, <3>2
      <4> QED  BY <2>3, <3>2, <4>1
    <3>3. CASE k = 0
      <4>1. k \in 0..(m - 1) /\ g[k] = f[k]
        BY <1>4, <2>1, <3>3
      <4> QED  BY <2>3, <3>3, <4>1
    <3> QED  BY <3>1, <3>2, <3>3
  <2>5. g = [k \in 0..m |-> g[k]]
    OBVIOUS
  <2> HIDE DEF g
  <2>6. Good(g, m)
    BY <2>4, <2>5
  <2> QED  BY <1>2, <2>6
<1> QED  BY <1>3, <1>4

(* What holds at first and stays from each number to the next.             *)
LEMMA HoldsUpTo ==
    ASSUME NEW n \in Nat, NEW P, 0 \in P, \A k \in 1..n : k - 1 \in P => k \in P
    PROVE  0..n \subseteq P
<1> DEFINE Bad == {k \in 0..n : k \notin P}
<1>1. SUFFICES ASSUME Bad # {}  PROVE FALSE
  BY <1>1
<1>2. Bad \in SUBSET Nat
  OBVIOUS
<1>3. PICK m \in Bad : \A k \in Bad : m <= k
  BY <1>1, <1>2, Least
<1>4. m # 0 /\ m \in 1..n /\ (m - 1) \in 0..n /\ (m - 1) \notin Bad
  BY <1>3
<1> QED  BY <1>3, <1>4

LEMMA SetAsSeq ==
    ASSUME NEW S, IsFiniteSet(S)
    PROVE  /\ SetToSeq(S) \in Seq(S) /\ Len(SetToSeq(S)) = Cardinality(S) /\ Cardinality(S) \in Nat
           /\ \A x \in S : \E k \in 1..Cardinality(S) : SetToSeq(S)[k] = x
<1>1. Cardinality(S) \in Nat /\ ExistsBijection(1..Cardinality(S), S)
  BY FS_CardinalityType
<1>2. PICK n : n = Cardinality(S) /\ n \in Nat
  BY <1>1
<1>3. PICK b \in [1..n -> S] : IsInjective(b)
  BY <1>1, <1>2 DEF ExistsBijection, Bijection, Injection
<1>4. SetToSeq(S) \in [1..n -> S] /\ IsInjective(SetToSeq(S))
  BY <1>2, <1>3 DEF SetToSeq
<1>5. PICK f : f = SetToSeq(S)
  OBVIOUS
<1>6. f \in Injection(1..n, S)
  BY <1>4, <1>5 DEF Injection
<1>7. Cardinality(1..n) = n
  BY <1>2, FS_Interval
<1>8. f \in Surjection(1..n, S)
  BY <1>2, <1>6, <1>7, FS_Injection
<1>9. f \in Seq(S) /\ Len(f) = n
  BY <1>2, <1>4, <1>5
<1> QED  BY <1>2, <1>5, <1>8, <1>9 DEF Surjection

-----------------------------------------------------------------------------
(* One visit                                                               *)
Entry == [item : Item, depth : Nat]
Walks == [queue : Seq(Entry), visited : SUBSET Item]
Items(q) == {q[k].item : k \in 1..Len(q)}
Furthered(S, direction, types) == S \cup UNION {Neighbours(x, direction, types) : x \in S}

Leaving(V, direction) == {e \in edge : (IF direction = "upstream" THEN e[1] ELSE e[2]) \in V}

LEMMA NeighbourFacts ==
    ASSUME TypeOK, IsFiniteSet(edge), NEW x, NEW direction, NEW types, NEW depth \in Nat,
           NEW seen
    PROVE  LET found == {[item |-> n, depth |-> depth + 1] : n \in Neighbours(x, direction, types) \ seen}
           IN  /\ found \subseteq Entry /\ IsFiniteSet(found)
               /\ Cardinality(found) \in Nat /\ Cardinality(Leaving({x}, direction)) \in Nat
               /\ Cardinality(found) <= Cardinality(Leaving({x}, direction))
<1> DEFINE found == {[item |-> n, depth |-> depth + 1] : n \in Neighbours(x, direction, types) \ seen}
           L == Leaving({x}, direction)
           far(e) == [item |-> IF direction = "upstream" THEN e[2] ELSE e[1], depth |-> depth + 1]
           f == [e \in L |-> far(e)]
           T == {far(e) : e \in L}
<1>1. IsFiniteSet(L)
  <2>1. L \subseteq edge
    BY DEF Leaving
  <2> QED  BY <2>1, FS_Subset
<1>2. f \in Surjection(L, T)
  BY DEF Surjection
<1>3. IsFiniteSet(T) /\ Cardinality(T) <= Cardinality(L)
  BY <1>1, <1>2, FS_Surjection
<1>4. found \subseteq T
  <2>1. ASSUME NEW n \in Neighbours(x, direction, types)  PROVE [item |-> n, depth |-> depth + 1] \in T
    <3>1. PICK t \in types : (IF direction = "upstream" THEN <<x, n, t>> ELSE <<n, x, t>>) \in edge
      BY DEF Neighbours
    <3>2. PICK e \in edge : e = IF direction = "upstream" THEN <<x, n, t>> ELSE <<n, x, t>>
      BY <3>1
    <3>3. (IF direction = "upstream" THEN e[1] ELSE e[2]) = x /\ (IF direction = "upstream" THEN e[2] ELSE e[1]) = n
      BY <3>2
    <3>4. e \in L
      BY <3>3 DEF Leaving
    <3> QED  BY <3>3, <3>4
  <2> QED  BY <2>1
<1>5. IsFiniteSet(found) /\ Cardinality(found) <= Cardinality(T)
  BY <1>3, <1>4, FS_Subset
<1>6. Cardinality(found) \in Nat /\ Cardinality(T) \in Nat /\ Cardinality(L) \in Nat
  BY <1>1, <1>3, <1>5, FS_CardinalityType
<1>7. found \subseteq Entry
  BY DEF Neighbours, Entry
<1> QED  BY <1>3, <1>5, <1>6, <1>7

(* The queue after a visit: the head is gone, and s comes at the end.      *)
LEMMA QueueFacts ==
    ASSUME NEW q \in Seq(Entry), q # <<>>, NEW s \in Seq(Entry), NEW r, r = Tail(q) \o s
    PROVE  /\ r \in Seq(Entry) /\ Len(q) \in Nat /\ Len(q) >= 1 /\ Len(s) \in Nat
           /\ Len(r) = Len(q) - 1 + Len(s) /\ Len(r) \in Nat
           /\ \A k \in 2..Len(q) : k - 1 \in 1..Len(r) /\ r[k - 1] = q[k]
           /\ \A k \in 1..Len(s) : Len(q) - 1 + k \in 1..Len(r) /\ r[Len(q) - 1 + k] = s[k]
           /\ \A k \in 1..Len(r) : \/ k + 1 \in 2..Len(q) /\ r[k] = q[k + 1]
                                   \/ k - (Len(q) - 1) \in 1..Len(s) /\ r[k] = s[k - (Len(q) - 1)]
<1>1. /\ Len(q) \in Nat /\ Len(q) >= 1 /\ Len(s) \in Nat /\ Tail(q) \in Seq(Entry) /\ Len(Tail(q)) = Len(q) - 1
      /\ \A k \in 1..Len(q) - 1 : Tail(q)[k] = q[k + 1]
  OBVIOUS
<1>2. /\ r \in Seq(Entry) /\ Len(r) = Len(q) - 1 + Len(s)
      /\ \A k \in 1..Len(r) : r[k] = IF k <= Len(q) - 1 THEN Tail(q)[k] ELSE s[k - (Len(q) - 1)]
  BY <1>1
<1>3. ASSUME NEW k \in 2..Len(q)  PROVE k - 1 \in 1..Len(r) /\ r[k - 1] = q[k]
  <2>1. k - 1 \in 1..Len(q) - 1 /\ k - 1 \in 1..Len(r) /\ k - 1 <= Len(q) - 1 /\ (k - 1) + 1 = k
    BY <1>1, <1>2
  <2> QED  BY <1>1, <1>2, <2>1
<1>4. ASSUME NEW k \in 1..Len(s)  PROVE Len(q) - 1 + k \in 1..Len(r) /\ r[Len(q) - 1 + k] = s[k]
  <2>1. Len(q) - 1 + k \in 1..Len(r) /\ ~(Len(q) - 1 + k <= Len(q) - 1) /\ (Len(q) - 1 + k) - (Len(q) - 1) = k
    BY <1>1, <1>2
  <2> QED  BY <1>2, <2>1
<1>5. ASSUME NEW k \in 1..Len(r)
      PROVE  \/ k + 1 \in 2..Len(q) /\ r[k] = q[k + 1]
             \/ k - (Len(q) - 1) \in 1..Len(s) /\ r[k] = s[k - (Len(q) - 1)]
  <2>1. CASE k <= Len(q) - 1
    BY <1>1, <1>2, <2>1
  <2>2. CASE ~(k <= Len(q) - 1)
    BY <1>1, <1>2, <2>2
  <2> QED  BY <2>1, <2>2
<1> QED  BY <1>1, <1>2, <1>3, <1>4, <1>5

(* What a visit makes of a walk: s is put at the end of the queue.         *)
Visits(w, v, s, i, d, direction, types) ==
    /\ w \in Walks /\ w.queue # <<>> /\ i = w.queue[1].item /\ d = w.queue[1].depth /\ d \in Nat
    /\ v \in Walks /\ v.queue = Tail(w.queue) \o s
    /\ v.visited = IF d <= MaxDepth THEN w.visited \cup {i} ELSE w.visited
    /\ s \in Seq(Entry) /\ Len(s) \in Nat
    /\ \A k \in 1..Len(s) : s[k].depth = d + 1 /\ s[k].item \in Neighbours(i, direction, types)
    /\ i \in w.visited \/ d > MaxDepth => Len(s) = 0
    /\ i \notin w.visited /\ d <= MaxDepth =>
           /\ Neighbours(i, direction, types) \subseteq v.visited \cup Items(s)
           /\ Len(s) <= Cardinality(Leaving({i}, direction))

LEMMA VisitFacts ==
    ASSUME TypeOK, IsFiniteSet(edge), MaxDepth \in Nat, NEW w \in Walks, NEW direction, NEW types,
           w.queue # <<>>
    PROVE  \E s : Visits(w, Visit(w, direction, types), s, w.queue[1].item, w.queue[1].depth, direction, types)
<1>1. PICK q, V, i, d : q = w.queue /\ V = w.visited /\ i = q[1].item /\ d = q[1].depth
  OBVIOUS
<1>2. /\ q \in Seq(Entry) /\ q # <<>> /\ V \in SUBSET Item /\ q[1] \in Entry /\ Head(q) = q[1]
      /\ i \in Item /\ d \in Nat /\ Tail(q) \in Seq(Entry) /\ w = [queue |-> q, visited |-> V]
  <2>1. w.queue \in Seq(Entry) /\ w.visited \in SUBSET Item /\ w = [queue |-> w.queue, visited |-> w.visited]
    BY DEF Walks
  <2>2. q \in Seq(Entry) /\ q # <<>>
    BY <1>1, <2>1
  <2>3. q[1] \in Entry /\ Head(q) = q[1] /\ Tail(q) \in Seq(Entry)
    BY <2>2
  <2> QED  BY <1>1, <2>1, <2>2, <2>3 DEF Entry
<1>3. CASE i \in V \/ d > MaxDepth
  <2>1. Visit(w, direction, types) = [queue |-> Tail(q), visited |-> V]
    BY <1>1, <1>2, <1>3 DEF Visit, TooDeep
  <2>2. Tail(q) \o <<>> = Tail(q) /\ <<>> \in Seq(Entry) /\ Len(<<>>) = 0
    BY <1>2
  <2>3. V = V \cup {i} \/ ~(d <= MaxDepth)
    BY <1>2, <1>3
  <2>4. [queue |-> Tail(q), visited |-> V] \in Walks
    BY <1>2 DEF Walks
  <2>5. PICK v : v = [queue |-> Tail(q), visited |-> V]
    OBVIOUS
  <2>6. v \in Walks /\ v.queue = Tail(q) \o <<>> /\ v.visited = IF d <= MaxDepth THEN V \cup {i} ELSE V
    BY <2>2, <2>3, <2>4, <2>5
  <2>7. Visits(w, v, <<>>, i, d, direction, types)
    BY <1>1, <1>2, <1>3, <2>2, <2>6 DEF Visits
  <2> QED  BY <1>1, <2>1, <2>5, <2>7
<1>4. CASE i \notin V /\ ~(d > MaxDepth)
  <2> DEFINE found == {[item |-> n, depth |-> d + 1] : n \in Neighbours(i, direction, types) \ (V \cup {i})}
  <2>1. /\ found \subseteq Entry /\ IsFiniteSet(found)
        /\ Cardinality(found) \in Nat /\ Cardinality(Leaving({i}, direction)) \in Nat
        /\ Cardinality(found) <= Cardinality(Leaving({i}, direction))
    BY <1>2, NeighbourFacts
  <2>2. PICK s : s = SetToSeq(found)
    OBVIOUS
  <2>3. Visit(w, direction, types) = [queue |-> Tail(q) \o s, visited |-> V \cup {i}]
    BY <1>1, <1>2, <1>4, <2>2 DEF Visit, TooDeep
  <2>4. /\ s \in Seq(found) /\ Len(s) = Cardinality(found)
        /\ \A x \in found : \E k \in 1..Len(s) : s[k] = x
    BY <2>1, <2>2, SetAsSeq
  <2>5. \A k \in 1..Len(s) : s[k] \in found
    BY <2>4
  <2>6. s \in Seq(Entry)
    BY <2>1, <2>4
  <2>7. \A k \in 1..Len(s) : s[k].depth = d + 1 /\ s[k].item \in Neighbours(i, direction, types)
    BY <2>5
  <2>8. Neighbours(i, direction, types) \subseteq V \cup {i} \cup Items(s)
    <3>1. ASSUME NEW n \in Neighbours(i, direction, types), n \notin V \cup {i}  PROVE n \in Items(s)
      <4>1. [item |-> n, depth |-> d + 1] \in found
        BY <3>1
      <4>2. PICK k \in 1..Len(s) : s[k] = [item |-> n, depth |-> d + 1]
        BY <2>4, <4>1
      <4> QED  BY <4>2 DEF Items
    <3> QED  BY <3>1
  <2>9. [queue |-> Tail(q) \o s, visited |-> V \cup {i}] \in Walks /\ d <= MaxDepth
    BY <1>2, <1>4, <2>6 DEF Walks
  <2>10. Len(s) \in Nat /\ Len(s) <= Cardinality(Leaving({i}, direction))
    BY <2>1, <2>4
  <2> HIDE DEF found
  <2>11. PICK v : v = [queue |-> Tail(q) \o s, visited |-> V \cup {i}]
    OBVIOUS
  <2>12. /\ v \in Walks /\ v.queue = Tail(q) \o s /\ v.visited = V \cup {i}
    BY <2>9, <2>11
  <2>13. Visits(w, v, s, i, d, direction, types)
    BY <1>1, <1>2, <1>4, <2>6, <2>7, <2>8, <2>9, <2>10, <2>12 DEF Visits
  <2> QED  BY <1>1, <2>3, <2>11, <2>13
<1> QED  BY <1>3, <1>4

-----------------------------------------------------------------------------
(* The walk and the places within MaxDepth                                 *)
Nearer(near, i, direction, types) ==
    /\ near \in [0..MaxDepth -> SUBSET Item]
    /\ \A n \in 0..MaxDepth : near[n] = IF n = 0 THEN {i} ELSE Furthered(near[n - 1], direction, types)

LEMMA NearGrows ==
    ASSUME MaxDepth \in Nat, NEW near, NEW i, NEW direction, NEW types, Nearer(near, i, direction, types)
    PROVE  /\ \A b \in 0..MaxDepth : \A a \in 0..b : near[a] \subseteq near[b]
           /\ \A a \in 0..MaxDepth : \A S : near[a] \subseteq S /\ Furthered(S, direction, types) \subseteq S =>
                  near[MaxDepth] \subseteq S
<1>1. ASSUME NEW k \in 1..MaxDepth
      PROVE  near[k - 1] \subseteq near[k] /\ near[k] = Furthered(near[k - 1], direction, types) /\ k - 1 \in 0..MaxDepth
  BY DEF Nearer, Furthered
<1>2. \A b \in 0..MaxDepth : \A a \in 0..b : near[a] \subseteq near[b]
  <2> DEFINE P == {b \in 0..MaxDepth : \A a \in 0..b : near[a] \subseteq near[b]}
  <2>1. 0 \in P
    OBVIOUS
  <2>2. ASSUME NEW k \in 1..MaxDepth, k - 1 \in P  PROVE k \in P
    <3>1. \A a \in 0..k : a = k \/ a \in 0..k - 1
      OBVIOUS
    <3>2. near[k - 1] \subseteq near[k]
      BY <1>1
    <3> QED  BY <2>2, <3>1, <3>2
  <2> HIDE DEF P
  <2>3. 0..MaxDepth \subseteq P
    BY <2>1, <2>2, HoldsUpTo
  <2> QED  BY <2>3 DEF P
<1>3. ASSUME NEW a \in 0..MaxDepth, NEW S, near[a] \subseteq S, Furthered(S, direction, types) \subseteq S
      PROVE  near[MaxDepth] \subseteq S
  <2> DEFINE P == {b \in 0..MaxDepth : a <= b => near[b] \subseteq S}
  <2>1. 0 \in P
    BY <1>3
  <2>2. ASSUME NEW k \in 1..MaxDepth, k - 1 \in P  PROVE k \in P
    <3>1. CASE a <= k - 1
      <4>1. near[k - 1] \subseteq S
        BY <2>2, <3>1
      <4>2. near[k] \subseteq S
        BY <1>1, <1>3, <4>1 DEF Furthered
      <4> QED  BY <4>2
    <3>2. CASE ~(a <= k - 1)
      <4>1. a <= k => a = k
        BY <3>2
      <4> QED  BY <1>3, <4>1
    <3> QED  BY <3>1, <3>2
  <2> HIDE DEF P
  <2>3. 0..MaxDepth \subseteq P
    BY <2>1, <2>2, HoldsUpTo
  <2> QED  BY <2>3 DEF P
<1> QED  BY <1>2, <1>3

(* The queue is in the order of the depths, which differ by one at most.   *)
Ordered(q) ==
    \A j, k \in 1..Len(q) : j <= k => q[j].depth <= q[k].depth /\ q[k].depth <= q[j].depth + 1

(* What is visited or about to be is near enough.                          *)
WithinReach(w, near) ==
    /\ \A k \in 1..Len(w.queue) : w.queue[k].depth <= MaxDepth => w.queue[k].item \in near[w.queue[k].depth]
    /\ w.visited \subseteq near[MaxDepth]

(* What is as near as the head of the queue is visited or in the queue,    *)
(* and so are the neighbours of what is visited.                           *)
AtDepth(q, d) == {q[k].item : k \in {j \in 1..Len(q) : q[j].depth = d}}
Covers(w, near, direction, types) ==
    /\ w.queue = <<>> => near[MaxDepth] \subseteq w.visited
    /\ w.queue # <<>> /\ w.queue[1].depth > MaxDepth => near[MaxDepth] \subseteq w.visited
    /\ w.queue # <<>> /\ w.queue[1].depth <= MaxDepth =>
          /\ near[w.queue[1].depth] \subseteq w.visited \cup AtDepth(w.queue, w.queue[1].depth)
          /\ Furthered(w.visited, direction, types) \subseteq w.visited \cup Items(w.queue)

(* Every edge puts one entry into the queue at most.                       *)
Counted(w, k, direction) ==
    w.queue # <<>> => k + Len(w.queue) <= 1 + Cardinality(Leaving(w.visited, direction))

LEMMA OrderKept ==
    ASSUME NEW w, NEW v, NEW s, NEW i, NEW d, NEW direction, NEW types,
           Visits(w, v, s, i, d, direction, types), Ordered(w.queue)
    PROVE  Ordered(v.queue) /\ \A k \in 1..Len(v.queue) : d <= v.queue[k].depth /\ v.queue[k].depth <= d + 1
<1>1. PICK q, r : q = w.queue /\ r = v.queue
  OBVIOUS
<1>2. /\ q \in Seq(Entry) /\ q # <<>> /\ Len(q) \in Nat /\ Len(q) >= 1 /\ d \in Nat /\ 1 \in 1..Len(q)
      /\ \A k \in 1..Len(q) : q[k].depth \in Nat
      /\ s \in Seq(Entry) /\ r = Tail(q) \o s
  <2>1. q \in Seq(Entry) /\ q # <<>> /\ d \in Nat
    BY <1>1 DEF Visits, Walks
  <2>2. Len(q) \in Nat /\ Len(q) >= 1 /\ \A k \in 1..Len(q) : q[k] \in Entry
    BY <2>1
  <2>3. \A k \in 1..Len(q) : q[k].depth \in Nat
    BY <2>2 DEF Entry
  <2> QED  BY <1>1, <2>1, <2>2, <2>3 DEF Visits
<1>3. \A k \in 1..Len(q) : d <= q[k].depth /\ q[k].depth <= d + 1
  <2>1. q[1].depth = d
    BY <1>1 DEF Visits
  <2>2. ASSUME NEW k \in 1..Len(q)  PROVE 1 <= k
    BY <1>2
  <2> QED  BY <1>1, <1>2, <2>1, <2>2 DEF Ordered
<1>4. /\ Len(s) \in Nat /\ Len(r) \in Nat /\ Len(r) = Len(q) - 1 + Len(s)
      /\ \A k \in 1..Len(r) : \/ k + 1 \in 2..Len(q) /\ r[k] = q[k + 1]
                              \/ k - (Len(q) - 1) \in 1..Len(s) /\ r[k] = s[k - (Len(q) - 1)]
  <2>1. q \in Seq(Entry) /\ q # <<>> /\ s \in Seq(Entry) /\ r = Tail(q) \o s
    BY <1>2
  <2> QED  BY <2>1, QueueFacts
<1>5. \A k \in 1..Len(s) : s[k].depth = d + 1
  BY DEF Visits
<1>6. ASSUME NEW k \in 1..Len(r)
      PROVE  \/ k + 1 \in 1..Len(q) /\ r[k] = q[k + 1] /\ d <= r[k].depth /\ r[k].depth <= d + 1
             \/ k > Len(q) - 1 /\ r[k].depth = d + 1
  <2>1. CASE k + 1 \in 2..Len(q) /\ r[k] = q[k + 1]
    BY <1>3, <2>1
  <2>2. CASE k - (Len(q) - 1) \in 1..Len(s) /\ r[k] = s[k - (Len(q) - 1)]
    <3>1. r[k].depth = d + 1
      BY <1>5, <2>2
    <3> QED  BY <1>2, <1>4, <2>2, <3>1
  <2> QED  BY <1>4, <2>1, <2>2
<1>7. ASSUME NEW k \in 1..Len(r)  PROVE d <= r[k].depth /\ r[k].depth <= d + 1 /\ r[k].depth \in Nat
  <2>1. CASE k + 1 \in 1..Len(q) /\ r[k] = q[k + 1]
    BY <1>2, <1>3, <2>1
  <2>2. CASE r[k].depth = d + 1
    BY <1>2, <2>2
  <2> QED  BY <1>6, <2>1, <2>2
<1>8. ASSUME NEW j \in 1..Len(r), NEW k \in 1..Len(r), j <= k
      PROVE  r[j].depth <= r[k].depth /\ r[k].depth <= r[j].depth + 1
  <2>1. CASE r[k].depth = d + 1
    <3>1. d <= r[j].depth /\ r[j].depth <= d + 1 /\ r[j].depth \in Nat
      BY <1>7
    <3> QED  BY <1>2, <2>1, <3>1
  <2>2. CASE k + 1 \in 1..Len(q) /\ r[k] = q[k + 1]
    <3>1. j + 1 \in 1..Len(q) /\ j + 1 <= k + 1 /\ ~(j > Len(q) - 1)
      BY <1>2, <1>8, <2>2
    <3>2. r[j] = q[j + 1]
      BY <1>6, <3>1
    <3> QED  BY <1>1, <2>2, <3>1, <3>2 DEF Ordered
  <2> QED  BY <1>6, <2>1, <2>2
<1> QED  BY <1>1, <1>7, <1>8 DEF Ordered

(* What the queue still has of an item, or the walk has visited.           *)
LEMMA QueueKept ==
    ASSUME NEW w, NEW v, NEW s, NEW i, NEW d, NEW direction, NEW types,
           Visits(w, v, s, i, d, direction, types)
    PROVE  /\ Items(w.queue) \subseteq {i} \cup Items(v.queue)
           /\ Items(s) \subseteq Items(v.queue)
           /\ AtDepth(w.queue, d) \subseteq {i} \cup AtDepth(v.queue, d)
           /\ \A k \in 1..Len(v.queue) : \/ \E j \in 1..Len(w.queue) : v.queue[k] = w.queue[j]
                                         \/ \E j \in 1..Len(s) : v.queue[k] = s[j]
<1>1. PICK q, r : q = w.queue /\ r = v.queue
  OBVIOUS
<1>2. q \in Seq(Entry) /\ q # <<>> /\ s \in Seq(Entry) /\ r = Tail(q) \o s
  BY <1>1 DEF Walks, Visits
<1>3. /\ Len(q) \in Nat /\ Len(q) >= 1 /\ Len(s) \in Nat /\ Len(r) \in Nat
      /\ \A k \in 2..Len(q) : k - 1 \in 1..Len(r) /\ r[k - 1] = q[k]
      /\ \A k \in 1..Len(s) : Len(q) - 1 + k \in 1..Len(r) /\ r[Len(q) - 1 + k] = s[k]
      /\ \A k \in 1..Len(r) : \/ k + 1 \in 2..Len(q) /\ r[k] = q[k + 1]
                              \/ k - (Len(q) - 1) \in 1..Len(s) /\ r[k] = s[k - (Len(q) - 1)]
  BY <1>2, QueueFacts
<1>4. ASSUME NEW k \in 1..Len(q)  PROVE k = 1 \/ \E j \in 1..Len(r) : r[j] = q[k]
  <2>1. k = 1 \/ k \in 2..Len(q)
    BY <1>3
  <2> QED  BY <1>3, <2>1
<1>5. \A k \in 1..Len(s) : \E j \in 1..Len(r) : r[j] = s[k]
  BY <1>3
<1>6. \A k \in 1..Len(r) : (\E j \in 1..Len(q) : r[k] = q[j]) \/ (\E j \in 1..Len(s) : r[k] = s[j])
  <2>1. \A k \in 1..Len(r) : k + 1 \in 2..Len(q) => k + 1 \in 1..Len(q)
    BY <1>3
  <2> QED  BY <1>3, <2>1
<1>6a. q[1].item = i
  BY <1>1 DEF Visits
<1>7. Items(q) \subseteq {i} \cup Items(r) /\ Items(s) \subseteq Items(r)
  <2>1. Items(q) \subseteq {i} \cup Items(r)
    BY <1>4, <1>6a DEF Items
  <2>2. Items(s) \subseteq Items(r)
    BY <1>5 DEF Items
  <2> QED  BY <2>1, <2>2
<1>8. AtDepth(q, d) \subseteq {i} \cup AtDepth(r, d)
  BY <1>4, <1>6a DEF AtDepth
<1> QED  BY <1>1, <1>6, <1>7, <1>8

LEMMA ReachKept ==
    ASSUME MaxDepth \in Nat, NEW w, NEW v, NEW s, NEW i, NEW d, NEW direction, NEW types,
           Visits(w, v, s, i, d, direction, types),
           NEW near, NEW from, Nearer(near, from, direction, types), WithinReach(w, near)
    PROVE  WithinReach(v, near)
<1>1. 1 \in 1..Len(w.queue)
  <2>1. w.queue \in Seq(Entry)
    BY DEF Walks, Visits
  <2>2. w.queue # <<>>
    BY DEF Visits
  <2> QED  BY <2>1, <2>2
<1>2. d <= MaxDepth => i \in near[d] /\ near[d] \subseteq near[MaxDepth]
  <2>1. d <= MaxDepth => i \in near[d]
    BY <1>1 DEF WithinReach, Visits
  <2>2. d <= MaxDepth => d \in 0..MaxDepth /\ MaxDepth \in 0..MaxDepth
    BY DEF Visits
  <2>3. \A b \in 0..MaxDepth : \A a \in 0..b : near[a] \subseteq near[b]
    BY NearGrows
  <2> QED  BY <2>1, <2>2, <2>3
<1>3. v.visited \subseteq near[MaxDepth]
  BY <1>2 DEF Visits, WithinReach
<1>4. ASSUME NEW k \in 1..Len(s), s[k].depth <= MaxDepth  PROVE s[k].item \in near[s[k].depth]
  <2>1. s[k].depth = d + 1 /\ s[k].item \in Neighbours(i, direction, types)
    BY DEF Visits
  <2>2. d <= MaxDepth /\ d + 1 \in 0..MaxDepth /\ d + 1 # 0 /\ (d + 1) - 1 = d
    <3>1. d \in Nat
      BY DEF Visits
    <3> QED  BY <1>4, <2>1, <3>1
  <2>3. near[d + 1] = Furthered(near[d], direction, types)
    BY <2>2 DEF Nearer
  <2> QED  BY <1>2, <2>1, <2>2, <2>3 DEF Furthered
<1>5. \A k \in 1..Len(v.queue) : v.queue[k].depth <= MaxDepth => v.queue[k].item \in near[v.queue[k].depth]
  <2>1. \A k \in 1..Len(v.queue) : \/ \E j \in 1..Len(w.queue) : v.queue[k] = w.queue[j]
                                   \/ \E j \in 1..Len(s) : v.queue[k] = s[j]
    BY QueueKept
  <2>2. \A k \in 1..Len(w.queue) : w.queue[k].depth <= MaxDepth => w.queue[k].item \in near[w.queue[k].depth]
    BY DEF WithinReach
  <2> QED  BY <1>4, <2>1, <2>2
<1> QED  BY <1>3, <1>5 DEF WithinReach

LEMMA CoverKept ==
    ASSUME MaxDepth \in Nat, NEW w, NEW v, NEW s, NEW i, NEW d, NEW direction, NEW types,
           Visits(w, v, s, i, d, direction, types), Ordered(w.queue),
           NEW near, NEW from, Nearer(near, from, direction, types), Covers(w, near, direction, types)
    PROVE  Covers(v, near, direction, types)
<1>1. /\ \A k \in 1..Len(v.queue) : d <= v.queue[k].depth /\ v.queue[k].depth <= d + 1 /\ v.queue[k].depth \in Nat
      /\ Ordered(v.queue)
      /\ v.queue # <<>> => 1 \in 1..Len(v.queue)
  <2>1. v.queue \in Seq(Entry)
    BY DEF Visits, Walks
  <2>2. \A k \in 1..Len(v.queue) : v.queue[k] \in Entry
    BY <2>1
  <2>3. v.queue # <<>> => 1 \in 1..Len(v.queue)
    BY <2>1
  <2> QED  BY <2>2, <2>3, OrderKept DEF Entry
<1>2. d \in Nat /\ w.queue # <<>> /\ w.queue[1].depth = d
  BY DEF Visits
<1>3. CASE d > MaxDepth
  <2>1. ~(d <= MaxDepth)
    BY <1>2, <1>3
  <2>2. v.visited = w.visited /\ near[MaxDepth] \subseteq w.visited
    BY <1>2, <1>3, <2>1 DEF Visits, Covers
  <2>3. v.queue # <<>> => v.queue[1].depth > MaxDepth /\ ~(v.queue[1].depth <= MaxDepth)
    <3>1. ASSUME v.queue # <<>>  PROVE d <= v.queue[1].depth /\ v.queue[1].depth \in Nat
      BY <1>1, <3>1
    <3>2. CASE v.queue # <<>>
      BY <1>2, <1>3, <3>1, <3>2
    <3> QED  BY <3>2
  <2> QED  BY <2>2, <2>3 DEF Covers
<1>4. CASE d <= MaxDepth
  <2>1. /\ v.visited = w.visited \cup {i}
        /\ near[d] \subseteq w.visited \cup AtDepth(w.queue, d)
        /\ Furthered(w.visited, direction, types) \subseteq w.visited \cup Items(w.queue)
    BY <1>2, <1>4 DEF Visits, Covers
  <2>2. /\ Items(w.queue) \subseteq {i} \cup Items(v.queue) /\ Items(s) \subseteq Items(v.queue)
        /\ AtDepth(w.queue, d) \subseteq {i} \cup AtDepth(v.queue, d)
    BY QueueKept
  <2>3. near[d] \subseteq v.visited \cup AtDepth(v.queue, d)
    BY <2>1, <2>2
  <2>4. Furthered(v.visited, direction, types) \subseteq v.visited \cup Items(v.queue)
    <3>1. \A x \in w.visited : Neighbours(x, direction, types) \subseteq v.visited \cup Items(v.queue)
      BY <2>1, <2>2 DEF Furthered
    <3>2. i \notin w.visited => Neighbours(i, direction, types) \subseteq v.visited \cup Items(s)
      BY <1>4 DEF Visits
    <3>3. i \notin w.visited => Neighbours(i, direction, types) \subseteq v.visited \cup Items(v.queue)
      BY <2>2, <3>2
    <3> QED  BY <2>1, <3>1, <3>3 DEF Furthered
  <2>5. d \in 0..MaxDepth
    BY <1>2, <1>4
  <2>6. CASE v.queue = <<>>
    <3>1. AtDepth(v.queue, d) = {} /\ Items(v.queue) = {}
      BY <2>6 DEF AtDepth, Items
    <3>2. near[MaxDepth] \subseteq v.visited
      <4>1. near[d] \subseteq v.visited /\ Furthered(v.visited, direction, types) \subseteq v.visited
        BY <2>3, <2>4, <3>1
      <4> QED  BY <2>5, <4>1, NearGrows
    <3> QED  BY <2>6, <3>2 DEF Covers
  <2>7. CASE v.queue # <<>> /\ v.queue[1].depth = d
    <3>1. ~(d > MaxDepth)
      BY <1>2, <1>4
    <3> QED  BY <2>3, <2>4, <2>7, <3>1 DEF Covers
  <2>8. CASE v.queue # <<>> /\ v.queue[1].depth = d + 1
    <3>1. \A k \in 1..Len(v.queue) : v.queue[k].depth = d + 1
      <4>1. \A k \in 1..Len(v.queue) : 1 <= k /\ v.queue[1].depth <= v.queue[k].depth
        BY <1>1, <2>8 DEF Ordered
      <4> QED  BY <1>1, <1>2, <2>8, <4>1
    <3>2. AtDepth(v.queue, d) = {}
      <4>1. d + 1 # d
        BY <1>2
      <4> QED  BY <3>1, <4>1 DEF AtDepth
    <3>3. Items(v.queue) = AtDepth(v.queue, d + 1)
      <4>1. {k \in 1..Len(v.queue) : v.queue[k].depth = d + 1} = 1..Len(v.queue)
        BY <3>1
      <4> QED  BY <4>1 DEF AtDepth, Items
    <3>4. near[d] \subseteq v.visited
      BY <2>3, <3>2
    <3>5. CASE d + 1 > MaxDepth
      <4>1. d = MaxDepth /\ ~(d + 1 <= MaxDepth)
        BY <1>2, <1>4, <3>5
      <4>2. near[MaxDepth] \subseteq v.visited
        BY <3>4, <4>1
      <4> QED  BY <2>8, <4>1, <4>2 DEF Covers
    <3>6. CASE ~(d + 1 > MaxDepth)
      <4>1. d + 1 \in 0..MaxDepth /\ d + 1 # 0 /\ (d + 1) - 1 = d
        BY <1>2, <3>6
      <4>2. near[d + 1] = Furthered(near[d], direction, types)
        BY <4>1 DEF Nearer
      <4>3. Furthered(near[d], direction, types) \subseteq near[d] \cup Furthered(v.visited, direction, types)
        BY <3>4 DEF Furthered
      <4>4. near[d + 1] \subseteq v.visited \cup AtDepth(v.queue, d + 1)
        BY <2>4, <3>3, <3>4, <4>2, <4>3
      <4> QED  BY <2>4, <2>8, <3>6, <4>4 DEF Covers
    <3> QED  BY <3>5, <3>6
  <2>9. v.queue = <<>> \/ v.queue[1].depth = d \/ v.queue[1].depth = d + 1
    <3>1. CASE v.queue # <<>>
      <4>1. d <= v.queue[1].depth /\ v.queue[1].depth <= d + 1 /\ v.queue[1].depth \in Nat
        BY <1>1, <3>1
      <4> QED  BY <1>2, <4>1
    <3> QED  BY <3>1
  <2> QED  BY <2>6, <2>7, <2>8, <2>9
<1> QED  BY <1>2, <1>3, <1>4

LEMMA CountKept ==
    ASSUME IsFiniteSet(edge), MaxDepth \in Nat, NEW w, NEW v, NEW s, NEW i, NEW d, NEW direction, NEW types,
           Visits(w, v, s, i, d, direction, types), NEW k \in Nat, Counted(w, k, direction)
    PROVE  Counted(v, k + 1, direction)
<1>1. PICK A, B, C : /\ A = Leaving(w.visited, direction) /\ B = Leaving({i}, direction)
                     /\ C = Leaving(v.visited, direction)
  OBVIOUS
<1>2. IsFiniteSet(A) /\ IsFiniteSet(B) /\ IsFiniteSet(C)
  <2>1. A \subseteq edge /\ B \subseteq edge /\ C \subseteq edge
    BY <1>1 DEF Leaving
  <2> QED  BY <2>1, FS_Subset
<1>3. PICK a, b, c, m, n, l : /\ a = Cardinality(A) /\ b = Cardinality(B) /\ c = Cardinality(C)
                              /\ m = Len(w.queue) /\ n = Len(s) /\ l = Len(v.queue)
  OBVIOUS
<1>4. a \in Nat /\ b \in Nat /\ c \in Nat
  BY <1>2, <1>3, FS_CardinalityType
<1>5. m \in Nat /\ n \in Nat /\ l = m - 1 + n
  <2>1. w.queue \in Seq(Entry) /\ w.queue # <<>> /\ s \in Seq(Entry) /\ v.queue = Tail(w.queue) \o s
    BY DEF Walks, Visits
  <2>2. Len(w.queue) \in Nat /\ Len(s) \in Nat /\ Len(v.queue) = Len(w.queue) - 1 + Len(s)
    BY <2>1, QueueFacts
  <2> QED  BY <1>3, <2>2
<1>6. k + m <= 1 + a
  <2>1. w.queue # <<>>
    BY DEF Visits
  <2> QED  BY <1>1, <1>3, <2>1 DEF Counted
<1>7. k + 1 + l <= 1 + c
  <2>1. CASE i \in w.visited \/ d > MaxDepth
    <3>1. n = 0
      BY <1>3, <2>1 DEF Visits
    <3>2. v.visited = w.visited
      <4>1. d \in Nat /\ (d > MaxDepth => ~(d <= MaxDepth))
        BY DEF Visits
      <4>2. v.visited = IF d <= MaxDepth THEN w.visited \cup {i} ELSE w.visited
        BY DEF Visits
      <4> QED  BY <2>1, <4>1, <4>2
    <3>3. c = a
      BY <1>1, <1>3, <3>2
    <3> QED  BY <1>4, <1>5, <1>6, <3>1, <3>3
  <2>2. CASE i \notin w.visited /\ d <= MaxDepth
    <3>1. n <= b /\ v.visited = w.visited \cup {i}
      BY <1>1, <1>3, <2>2 DEF Visits
    <3>2. C = A \cup B /\ A \cap B = {}
      <4>1. \A e : e \in C <=> e \in A \/ e \in B
        BY <1>1, <3>1 DEF Leaving
      <4>2. \A e : ~(e \in A /\ e \in B)
        BY <1>1, <2>2 DEF Leaving
      <4> QED  BY <4>1, <4>2
    <3>3. c = a + b - 0
      <4>1. Cardinality(A \cup B) = Cardinality(A) + Cardinality(B) - Cardinality(A \cap B)
        BY <1>2, FS_Union
      <4>2. Cardinality({}) = 0
        BY FS_EmptySet
      <4> QED  BY <1>3, <3>2, <4>1, <4>2
    <3> QED  BY <1>4, <1>5, <1>6, <3>1, <3>3
  <2>3. d > MaxDepth \/ d <= MaxDepth
    <3>1. d \in Nat
      BY DEF Visits
    <3> QED  BY <3>1
  <2> QED  BY <2>1, <2>2, <2>3
<1> QED  BY <1>1, <1>3, <1>7 DEF Counted

-----------------------------------------------------------------------------
(* The walk as a whole                                                     *)
LEMMA NearExists ==
    ASSUME NEW i \in Item, NEW direction, NEW types
    PROVE  \E near : Nearer(near, i, direction, types) /\ Near(i, direction, types) = near[MaxDepth]
<1> DEFINE F == [S \in SUBSET Item |-> Furthered(S, direction, types)]
<1>1. F \in [SUBSET Item -> SUBSET Item]
  BY DEF Furthered, Neighbours
<1>2. {i} \in SUBSET Item /\ MaxDepth \in Nat
  BY BranchAssumption
<1> HIDE DEF F
<1>3. PICK g : /\ g \in [0..MaxDepth -> SUBSET Item]
               /\ \A k \in 0..MaxDepth : g[k] = IF k = 0 THEN {i} ELSE F[g[k - 1]]
  <2>1. \E g : Iterated(g, MaxDepth, {i}, F, SUBSET Item)
    BY <1>1, <1>2, Iterates
  <2> QED  BY <2>1 DEF Iterated
<1>4. ASSUME NEW k \in 0..MaxDepth
      PROVE  g[k] = IF k = 0 THEN {i} ELSE Furthered(g[k - 1], direction, types)
  <2>1. CASE k = 0
    BY <1>3, <2>1
  <2>2. CASE k # 0
    <3>1. k - 1 \in 0..MaxDepth
      BY <1>2, <2>2
    <3>2. g[k - 1] \in SUBSET Item
      BY <1>3, <3>1
    <3> QED  BY <1>3, <2>2, <3>2 DEF F
  <2> QED  BY <2>1, <2>2
<1> DEFINE near == CHOOSE f : f = [n \in 0..MaxDepth |->
                       IF n = 0 THEN {i} ELSE f[n - 1] \cup UNION {Neighbours(x, direction, types) : x \in f[n - 1]}]
<1>5. g = [n \in 0..MaxDepth |-> IF n = 0 THEN {i} ELSE g[n - 1] \cup UNION {Neighbours(x, direction, types) : x \in g[n - 1]}]
  BY <1>3, <1>4 DEF Furthered
<1>6. near = [n \in 0..MaxDepth |-> IF n = 0 THEN {i} ELSE near[n - 1] \cup UNION {Neighbours(x, direction, types) : x \in near[n - 1]}]
  BY <1>5
<1>7. Near(i, direction, types) = near[MaxDepth]
  BY DEF Near
<1> HIDE DEF near
<1>8. \A n \in 0..MaxDepth : near[n] = IF n = 0 THEN {i} ELSE Furthered(near[n - 1], direction, types)
  BY <1>6 DEF Furthered
<1>9. near \in [0..MaxDepth -> SUBSET Item]
  <2> DEFINE P == {k \in 0..MaxDepth : near[k] \in SUBSET Item}
  <2>1. 0 \in P
    BY <1>2, <1>8
  <2>2. ASSUME NEW k \in 1..MaxDepth, k - 1 \in P  PROVE k \in P
    <3>1. k \in 0..MaxDepth /\ k # 0
      BY <1>2
    <3>2. near[k] = Furthered(near[k - 1], direction, types)
      BY <1>8, <3>1
    <3>3. Furthered(near[k - 1], direction, types) \in SUBSET Item
      BY <2>2 DEF Furthered, Neighbours
    <3> QED  BY <3>1, <3>2, <3>3
  <2> HIDE DEF P
  <2>3. 0..MaxDepth \subseteq P
    BY <1>2, <2>1, <2>2, HoldsUpTo
  <2>4. \A k \in 0..MaxDepth : near[k] \in SUBSET Item
    BY <2>3 DEF P
  <2> QED  BY <1>6, <2>4
<1> QED  BY <1>7, <1>8, <1>9 DEF Nearer

Started(i) == [queue |-> <<[item |-> i, depth |-> 0]>>, visited |-> {}]

LEMMA VisitStays ==
    ASSUME NEW w \in Walks, w.queue = <<>>, NEW direction, NEW types
    PROVE  Visit(w, direction, types) = w
BY DEF Visit

LEMMA WalkExists ==
    ASSUME TypeOK, IsFiniteSet(edge), NEW i \in Item, NEW direction, NEW types, NEW n \in Nat,
           n = Cardinality(edge) + 1
    PROVE  \E walk : /\ Lineage(i, direction, types) = walk[n]
                     /\ walk[0] = Started(i) /\ walk[0] \in Walks
                     /\ \A k \in 1..n : walk[k] = Visit(walk[k - 1], direction, types)
<1> DEFINE F == [w \in Walks |-> Visit(w, direction, types)]
<1>1. F \in [Walks -> Walks]
  <2>1. ASSUME NEW w \in Walks  PROVE Visit(w, direction, types) \in Walks
    <3>1. CASE w.queue = <<>>
      BY <3>1, VisitStays
    <3>2. CASE w.queue # <<>>
      BY <3>2, VisitFacts, BranchAssumption DEF Visits
    <3> QED  BY <3>1, <3>2
  <2> QED  BY <2>1
<1>2. Started(i) \in Walks
  <2>1. [item |-> i, depth |-> 0] \in Entry
    BY DEF Entry
  <2>2. PICK e : e = [item |-> i, depth |-> 0]
    OBVIOUS
  <2>3. <<e>> \in Seq(Entry)
    BY <2>1, <2>2
  <2> QED  BY <2>2, <2>3 DEF Started, Walks
<1> HIDE DEF F
<1>3. PICK g : /\ g \in [0..n -> Walks]
               /\ \A k \in 0..n : g[k] = IF k = 0 THEN Started(i) ELSE F[g[k - 1]]
  <2>1. \E g : Iterated(g, n, Started(i), F, Walks)
    BY <1>1, <1>2, Iterates
  <2> QED  BY <2>1 DEF Iterated
<1>4. ASSUME NEW k \in 0..n  PROVE g[k] = IF k = 0 THEN Started(i) ELSE Visit(g[k - 1], direction, types)
  <2>1. CASE k = 0
    BY <1>3, <2>1
  <2>2. CASE k # 0
    <3>1. k - 1 \in 0..n
      BY <2>2
    <3> QED  BY <1>3, <2>2, <3>1 DEF F
  <2> QED  BY <2>1, <2>2
<1> DEFINE walk == CHOOSE f : f = [k \in 0..Cardinality(edge) + 1 |->
               IF k = 0 THEN [queue |-> <<[item |-> i, depth |-> 0]>>, visited |-> {}]
               ELSE Visit(f[k - 1], direction, types)]
<1>5. g = [k \in 0..n |-> IF k = 0 THEN Started(i) ELSE Visit(g[k - 1], direction, types)]
  BY <1>3, <1>4
<1>6. walk = [k \in 0..Cardinality(edge) + 1 |->
               IF k = 0 THEN [queue |-> <<[item |-> i, depth |-> 0]>>, visited |-> {}]
               ELSE Visit(walk[k - 1], direction, types)]
  BY <1>5 DEF Started
<1>7. Lineage(i, direction, types) = walk[Cardinality(edge) + 1]
  BY DEF Lineage
<1> HIDE DEF walk
<1>8. \A k \in 0..n : walk[k] = IF k = 0 THEN Started(i) ELSE Visit(walk[k - 1], direction, types)
  BY <1>6 DEF Started
<1>9. walk[0] = Started(i) /\ \A k \in 1..n : walk[k] = Visit(walk[k - 1], direction, types)
  <2>1. 0 \in 0..n /\ \A k \in 1..n : k \in 0..n /\ k # 0
    OBVIOUS
  <2> QED  BY <1>8, <2>1
<1> QED  BY <1>2, <1>7, <1>9

(* After k visits. *)
Walked(w, k, near, direction, types) ==
    /\ w \in Walks /\ Ordered(w.queue) /\ WithinReach(w, near)
    /\ Covers(w, near, direction, types) /\ Counted(w, k, direction)

LEMMA WalkBegins ==
    ASSUME NEW i \in Item, NEW direction, NEW types, NEW near, Nearer(near, i, direction, types),
           IsFiniteSet(edge), Started(i) \in Walks
    PROVE  Walked(Started(i), 0, near, direction, types)
<1>1. PICK q, w, e : w = Started(i) /\ q = w.queue /\ e = [item |-> i, depth |-> 0]
  OBVIOUS
<1>2. q = <<e>> /\ w.visited = {} /\ w.queue = q /\ e.item = i /\ e.depth = 0
  BY <1>1 DEF Started
<1>3. q # <<>> /\ Len(q) = 1 /\ q[1] = e /\ 1..Len(q) = {1}
  BY <1>2
<1>4. near[0] = {i} /\ ~(0 > MaxDepth)
  BY BranchAssumption DEF Nearer
<1>5. Ordered(q)
  BY <1>2, <1>3 DEF Ordered
<1>6. WithinReach(w, near)
  BY <1>2, <1>3, <1>4 DEF WithinReach
<1>7. AtDepth(q, 0) = {i}
  BY <1>2, <1>3 DEF AtDepth
<1>8. Furthered({}, direction, types) = {}
  BY DEF Furthered
<1>9. Covers(w, near, direction, types)
  BY <1>2, <1>3, <1>4, <1>7, <1>8 DEF Covers
<1>10. Counted(w, 0, direction)
  <2>1. Leaving({}, direction) = {} /\ Cardinality({}) = 0
    BY FS_EmptySet DEF Leaving
  <2> QED  BY <1>2, <1>3, <2>1 DEF Counted
<1> QED  BY <1>1, <1>5, <1>6, <1>9, <1>10 DEF Walked

LEMMA WalkGoesOn ==
    ASSUME TypeOK, IsFiniteSet(edge), NEW direction, NEW types, NEW near, NEW i, Nearer(near, i, direction, types),
           NEW w, NEW k \in Nat, Walked(w, k, near, direction, types)
    PROVE  Walked(Visit(w, direction, types), k + 1, near, direction, types)
<1>1. w \in Walks /\ Ordered(w.queue) /\ WithinReach(w, near) /\ Covers(w, near, direction, types) /\ Counted(w, k, direction)
  BY DEF Walked
<1>2. CASE w.queue = <<>>
  <2>1. Visit(w, direction, types) = w
    BY <1>1, <1>2, VisitStays
  <2> QED  BY <1>1, <1>2, <2>1 DEF Walked, Counted
<1>3. CASE w.queue # <<>>
  <2>1. PICK v, s, x, d : v = Visit(w, direction, types) /\ Visits(w, v, s, x, d, direction, types)
    BY <1>1, <1>3, VisitFacts, BranchAssumption
  <2>2. Ordered(v.queue)
    BY <1>1, <2>1, OrderKept
  <2>3. WithinReach(v, near)
    BY <1>1, <2>1, ReachKept, BranchAssumption
  <2>4. Covers(v, near, direction, types)
    BY <1>1, <2>1, CoverKept, BranchAssumption
  <2>5. Counted(v, k + 1, direction)
    BY <1>1, <2>1, CountKept, BranchAssumption
  <2>6. v \in Walks
    BY <2>1 DEF Visits
  <2> QED  BY <2>1, <2>2, <2>3, <2>4, <2>5, <2>6 DEF Walked
<1> QED  BY <1>2, <1>3

LEMMA LineageByWalk ==
    ASSUME TypeOK, IsFiniteSet(edge)
    PROVE  LineageIsNear
<1> SUFFICES ASSUME NEW i \in Item, NEW direction, NEW types
             PROVE  /\ Lineage(i, direction, types).queue = <<>>
                    /\ Lineage(i, direction, types).visited = Near(i, direction, types)
  BY DEF LineageIsNear
<1>1. PICK near : Nearer(near, i, direction, types) /\ Near(i, direction, types) = near[MaxDepth]
  BY NearExists
<1>2. PICK n : n = Cardinality(edge) + 1 /\ n \in Nat /\ Cardinality(edge) \in Nat
  <2>1. Cardinality(edge) \in Nat
    BY FS_CardinalityType
  <2> QED  BY <2>1
<1>3. PICK walk : /\ Lineage(i, direction, types) = walk[n]
                  /\ walk[0] = Started(i) /\ walk[0] \in Walks
                  /\ \A k \in 1..n : walk[k] = Visit(walk[k - 1], direction, types)
  BY <1>2, WalkExists
<1> DEFINE P == {k \in 0..n : Walked(walk[k], k, near, direction, types)}
<1>4. 0 \in P
  BY <1>1, <1>2, <1>3, WalkBegins
<1>5. ASSUME NEW k \in 1..n, k - 1 \in P  PROVE k \in P
  <2>1. Walked(walk[k - 1], k - 1, near, direction, types) /\ k - 1 \in Nat /\ (k - 1) + 1 = k /\ k \in 0..n
    BY <1>2, <1>5
  <2>2. Walked(Visit(walk[k - 1], direction, types), (k - 1) + 1, near, direction, types)
    BY <1>1, <2>1, WalkGoesOn
  <2> QED  BY <1>3, <2>1, <2>2
<1> HIDE DEF P
<1>6. 0..n \subseteq P
  BY <1>2, <1>4, <1>5, HoldsUpTo
<1>7. PICK w : w = walk[n] /\ Walked(w, n, near, direction, types)
  BY <1>2, <1>6 DEF P
<1>8. w.queue = <<>>
  <2> SUFFICES ASSUME w.queue # <<>>  PROVE FALSE
    OBVIOUS
  <2>1. n + Len(w.queue) <= 1 + Cardinality(Leaving(w.visited, direction))
    BY <1>7 DEF Walked, Counted
  <2>2. Len(w.queue) \in Nat /\ Len(w.queue) >= 1
    <3>1. w.queue \in Seq(Entry)
      BY <1>7 DEF Walked, Walks
    <3> QED  BY <3>1
  <2>3. PICK L : L = Leaving(w.visited, direction)
    OBVIOUS
  <2>4. L \subseteq edge
    BY <2>3 DEF Leaving
  <2>5. Cardinality(L) \in Nat /\ Cardinality(L) <= Cardinality(edge)
    BY <2>4, FS_Subset, FS_CardinalityType
  <2> QED  BY <1>2, <2>1, <2>2, <2>3, <2>5
<1>9. w.visited = near[MaxDepth]
  BY <1>7, <1>8 DEF Walked, WithinReach, Covers
<1> QED  BY <1>1, <1>3, <1>7, <1>8, <1>9

LEMMA EdgesStep ==
    ASSUME NEW c \in Client, Step(c), IsFiniteSet(edge)
    PROVE  IsFiniteSet(edge')
<1>1. edge' = edge \/ \E e : edge' = edge \cup {e}
  BY DEF Step, BranchStep, ReadForCopy, CopyFiles, Copy, Branch, ReadForReturn, Return, rows
<1> QED  BY <1>1, FS_AddElement

LEMMA BranchesInvariant == Spec => [](TypeOK /\ BranchInv /\ IsFiniteSet(edge))
<1>1. Init => TypeOK /\ BranchInv /\ IsFiniteSet(edge)
  <2>1. Init => edge = {}
    BY DEF Init, BranchInit
  <2> QED  BY <2>1, InitTyped, BranchesBegin, FS_EmptySet
<1>2. TypeOK /\ BranchInv /\ IsFiniteSet(edge) /\ [Next]_vars => (TypeOK /\ BranchInv /\ IsFiniteSet(edge))'
  <2> SUFFICES ASSUME TypeOK, BranchInv, IsFiniteSet(edge), [Next]_vars
               PROVE  (TypeOK /\ BranchInv /\ IsFiniteSet(edge))'
    OBVIOUS
  <2>1. CASE UNCHANGED vars
    <3>1. UNCHANGED <<artifact, edge, merged, job>>
      BY <2>1 DEF vars, rows
    <3>2. TypeOK'
      BY <2>1, TypeStep
    <3>3. Taken' = Taken /\ Back' = Back /\ \A x : Held(x)' = Held(x)
      BY <3>1 DEF Taken, Back, Held
    <3>4. BranchInv'
      BY <3>1, <3>3 DEF BranchInv, TakenInv, FreshInv, SharedInv, ReturnInv, Kin
    <3> QED  BY <3>1, <3>2, <3>4
  <2>2. ASSUME NEW c \in Client, Step(c), UNCHANGED setting  PROVE (TypeOK /\ BranchInv /\ IsFiniteSet(edge))'
    BY <2>2, TypeStep, BranchesStep, EdgesStep
  <2> QED  BY <2>1, <2>2 DEF Next
<1> QED  BY <1>1, <1>2, PTL DEF Spec

(* However copies, branches and merges interleave, a branch that was not   *)
(* merged has files of its own, and the walk over the lineage ends with    *)
(* what is at most MaxDepth edges away.                                    *)
THEOREM BranchesStayFaithful == Spec => []BranchesAreFaithful
<1>1. TypeOK /\ BranchInv /\ IsFiniteSet(edge) => BranchesAreFaithful
  BY ApartByInv, LineageByWalk DEF BranchesAreFaithful
<1> QED  BY <1>1, BranchesInvariant, PTL

=============================================================================
