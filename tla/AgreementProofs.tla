--------------------------- MODULE AgreementProofs ---------------------------
(***************************************************************************)
(* Memory follows the database, and names are unique, as long as the       *)
(* driver throws only for a write without effect.  A write that is applied *)
(* although the driver throws leaves memory behind the database, so this   *)
(* hypothesis, Definite, is needed; the theorems say where.                *)
(*                                                                         *)
(* The last part is about default branches, and when they are kept.        *)
(***************************************************************************)
EXTENDS ServicesProofs

USE DbOutcomesAssumption, NullAssumption, ThreadsAssumption, IdsAssumption
USE DEF Unlocked, InVersioning, InProjects, ProjectFields, IdleRequest, Request

(* A write the driver throws for has had no effect. *)
Definite == "lost" \notin DbOutcomes

LEMMA AppliedIsReported ==
  ASSUME Definite, NEW o \in DbOutcomes
  PROVE  Applied(o) <=> Reported(o)
  BY DEF Definite, Outcomes, Applied, Reported

-----------------------------------------------------------------------------
(* The projects of what is stored exist, and a stored project can be found. *)
ProjectsKnown ==
  /\ \A b \in BranchIds : ~FreshBranch(b) => project[branchOf[b].project] # Null
  /\ \A c \in commitDocs : project[commitOf[c].project] # Null
DocumentsFound ==
  /\ \A p \in ProjectIds : projectDoc[p] # Null => p \in projectMap
  /\ \A t \in Threads : req[t].at = "addProject" => req[t].project \in projectMap

-----------------------------------------------------------------------------
(* Memory and database differ by what the threads inside are changing. *)
BranchesInDatabase(p) == {b \in branchDocs : branchOf[b].project = p}
CommitsInDatabase(p) == {c \in commitDocs : commitOf[c].project = p}
TagsInDatabase(p) == {g \in tagDocs : tagOf[g].project = p}
Changing(x) ==
  \E t \in Threads : /\ req[t].at \in {"pushBranch", "eraseBranch", "pushTag", "eraseTag"}
                      /\ x = req[t].target
Adding(c) == \E t \in Threads : req[t].at = "moveHead" /\ c = req[t].commit

MapsAgree ==
  \A p \in projectMap :
    /\ \A b \in BranchIds : Changing(b) \/ (b \in branchMap[p] <=> b \in BranchesInDatabase(p))
    /\ \A c \in CommitIds : Adding(c) \/ (c \in commitMap[p] <=> c \in CommitsInDatabase(p))
    /\ \A g \in TagIds : Changing(g) \/ (g \in tagMap[p] <=> g \in TagsInDatabase(p))
HeadsAgree == \A b \in branchDocs : head[b] = docHead[b]
ChangesAgree ==
  \A t \in Threads :
    /\ req[t].at = "pushBranch" => req[t].target \in branchDocs
    /\ req[t].at = "pushTag" => req[t].target \in tagDocs
VersionsAgree == MapsAgree /\ HeadsAgree /\ ChangesAgree

-----------------------------------------------------------------------------
(* The fields of a stored project are what its document holds, unless a    *)
(* thread is about to write them, or to put them back.                     *)
Rewriting(p) ==
  \E t \in Threads : req[t].at \in {"writeProject", "restoreDefault"} /\ req[t].project = p
FieldsAgree ==
  /\ \A p \in ProjectIds :
       projectDoc[p] = Null \/ Rewriting(p) \/ project[p] = projectDoc[p]
  /\ \A t \in Threads :
       LET r == req[t]
       IN  /\ r.at \in {"writeProject", "restoreDefault"} =>
                projectDoc[r.project] = Null \/ projectDoc[r.project] = r.old
           /\ r.at = "writeProject" /\ r.target = Null =>
                project[r.project].defaultBranch = r.old.defaultBranch
           /\ r.at = "restoreDefault" =>
                project[r.project].attributes = r.old.attributes

-----------------------------------------------------------------------------
(* Names are unique in memory and in the database taken together. *)
DifferentNames(p) ==
  /\ \A b1, b2 \in branchMap[p] \cup BranchesInDatabase(p) :
       b1 # b2 => branchOf[b1].name # branchOf[b2].name
  /\ \A g1, g2 \in tagMap[p] \cup TagsInDatabase(p) :
       g1 # g2 => tagOf[g1].name # tagOf[g2].name
NamesDiffer == \A p \in projectMap : DifferentNames(p)

-----------------------------------------------------------------------------
LEMMA ProjectsKnownStep ==
  ASSUME TypeOK, HistoryInv, BelongInv, ProjectsKnown, NEW t \in Threads, ThreadStep(t)
  PROVE  ProjectsKnown'
<1>1. ASSUME NEW b \in BranchIds, ~FreshBranch(b)'
      PROVE  project'[branchOf'[b].project] # Null
  <2>1. CASE ~FreshBranch(b)
    <3>1. branchOf[b].project \in ProjectIds
      BY <2>1 DEF FreshBranch, TypeOK, DatabaseTypeOK
    <3> QED
      BY <2>1, <3>1, Stable DEF ProjectsKnown
  <2>2. ASSUME FreshBranch(b), Branching(t)
        PROVE  project'[branchOf'[b].project] # Null
    <3>1. PICK x \in BranchIds, n \in Names : postBranch(t, x, n)
      BY <2>2 DEF Branching
    <3>2. req[t].at = "commit" /\ req[t].project \in ProjectIds
      BY <3>1, BranchingDoes
    <3>3. project'[req[t].project] # Null
      BY <3>2, Stable DEF TypeOK, RequestsTypeOK
    <3>4. \A y \in BranchIds \ {x} : branchOf'[y] = branchOf[y]
      BY <3>1, BranchingDoes
    <3>5. \/ branchOf' = branchOf
          \/ branchOf'[x] = [project |-> req[t].project, name |-> n]
      BY <3>1, BranchingDoes
    <3> QED
      BY <1>1, <2>2, <3>3, <3>4, <3>5 DEF FreshBranch
  <2>3. ASSUME FreshBranch(b), Creating(t)
        PROVE  project'[branchOf'[b].project] # Null
    <3>1. PICK p \in ProjectIds, x \in BranchIds, a \in Attributes : postProject(t, p, x, a)
      BY <2>3 DEF Creating
    <3>2. branchOf' = [branchOf EXCEPT ![x] = [project |-> p, name |-> MainName]]
      BY <3>1, CreatingDoes
    <3>3. project' = [project EXCEPT ![p] = [defaultBranch |-> x, attributes |-> a]]
      BY <3>1, CreatingDoes
    <3>4. project'[p] \in ProjectFields
      BY <3>3 DEF TypeOK, MemoryTypeOK
    <3> QED
      BY <1>1, <2>3, <3>2, <3>4 DEF FreshBranch, TypeOK, DatabaseTypeOK
  <2> QED
    BY <1>1, <2>1, <2>2, <2>3, Assigners DEF FreshBranch
<1>2. ASSUME NEW c \in commitDocs'
      PROVE  project'[commitOf'[c].project] # Null
  <2>1. CASE c \in commitDocs
    <3>1. commitOf[c].project \in ProjectIds /\ commitOf'[c] = commitOf[c]
      BY <2>1, StoredKept DEF BelongInv, CommitsBelong, FreshCommit, TypeOK, DatabaseTypeOK
    <3> QED
      BY <2>1, <3>1, Stable DEF ProjectsKnown
  <2>2. CASE c \notin commitDocs
    <3>1. PICK b \in BranchIds, x \in CommitIds : postCommit(t, b, x) \/ postMerge(t, b, x)
      BY <2>2, Assigners DEF Committing
    <3>2. c = x /\ commitOf'[c].project = req[t].project /\ req[t].project \in ProjectIds
      BY <2>2, <3>1, CommittingDoes
    <3>3. req[t].at # "idle"
      BY <3>1 DEF postCommit, postMerge, At
    <3> QED
      BY <3>2, <3>3, Stable DEF TypeOK, RequestsTypeOK
  <2> QED
    BY <2>1, <2>2
<1> QED
  BY <1>1, <1>2 DEF ProjectsKnown

LEMMA DocumentsFoundStep ==
  ASSUME TypeOK, DocumentsFound, NEW t \in Threads, ThreadStep(t)
  PROVE  DocumentsFound'
<1>1. ASSUME NEW p \in ProjectIds, projectDoc'[p] # Null
      PROVE  p \in projectMap'
  <2>1. CASE projectDoc[p] # Null
    <3>1. deleteProjectWithId(t) => p \in projectMap'
      BY <1>1, <2>1
      DEF deleteProjectWithId, deleteProject, deleteProjectDoc, Applied, Reported,
          DocumentsFound, TypeOK, DatabaseTypeOK
    <3>2. Creating(t) => p \in projectMap'
      BY <2>1, CreatingDoes DEF Creating, DocumentsFound
    <3> QED
      BY <2>1, <3>1, <3>2, Assigners DEF DocumentsFound
  <2>2. CASE projectDoc[p] = Null
    <3>1. ~WriteProject(t) /\ ~deleteProjectWithId(t)
      BY <1>1, <2>2 DEF WriteProject, updateProject, deleteProjectWithId, deleteProject,
                        deleteProjectDoc, TypeOK, DatabaseTypeOK
    <3>2. AddProjectDoc(t)
      BY <1>1, <2>2, <3>1, Assigners
    <3>3. p = req[t].project /\ req[t].at = "addProject" /\ projectMap' = projectMap
      BY <1>1, <2>2, <3>2 DEF AddProjectDoc, addProject, At, TypeOK, DatabaseTypeOK
    <3> QED
      BY <3>3 DEF DocumentsFound
  <2> QED
    BY <2>1, <2>2
<1>2. PICK r : req' = [req EXCEPT ![t] = r] /\ Becomes(t, r)
  BY RequestBecomes
<1>3. req'[t] = r /\ \A u \in Threads \ {t} : req'[u] = req[u]
  BY <1>2 DEF TypeOK, RequestsTypeOK
<1>4. ASSUME r.at = "addProject"
      PROVE  r.project \in projectMap'
  <2>1. PICK b \in BranchIds, a \in Attributes : postProject(t, r.project, b, a)
    BY <1>2, <1>4 DEF Becomes
  <2> QED
    BY <2>1 DEF postProject, createProject
<1>5. ASSUME NEW u \in Threads \ {t}, req[u].at = "addProject"
      PROVE  req[u].project \in projectMap'
  <2>1. ~SpsFree
    BY <1>5, Alone
  <2>2. projectMap' = projectMap
    BY <2>1, Assigners DEF Creating, postProject, createProject, deleteProjectWithId,
                           deleteProject
  <2> QED
    BY <1>5, <2>2 DEF DocumentsFound
<1> QED
  BY <1>1, <1>3, <1>4, <1>5 DEF DocumentsFound

-----------------------------------------------------------------------------
(* Which action a thread inside a critical section takes. *)
LEMMA StepsInside ==
  ASSUME NEW t \in Threads, ThreadStep(t)
  PROVE  /\ req[t].at = "pushBranch" => PushBranch(t)
         /\ req[t].at = "eraseBranch" => EraseBranch(t)
         /\ req[t].at = "pushTag" => PushTag(t)
         /\ req[t].at = "eraseTag" => EraseTag(t)
         /\ req[t].at = "moveHead" => MoveHead(t)
         /\ req[t].at = "addProject" => AddProjectDoc(t)
         /\ req[t].at = "writeProject" => WriteProject(t)
         /\ req[t].at = "restoreDefault" => restoreDefaultBranch(t)
         /\ req[t].at = "forget" => ForgetProject(t) \/ DeleteQueriesFails(t)
<1>1. CASE VersioningStep(t)
  BY <1>1 DEF VersioningStep, findCommit, postCommit, postMerge, MoveHead, postBranch,
              PushBranch, deleteBranchRequest, EraseBranch, postTag, PushTag,
              deleteTagRequest, EraseTag, At
<1>2. CASE ProjectStep(t)
  BY <1>2 DEF ProjectStep, withProject, postProject, AddProjectDoc, putProject,
              changeOwner, WriteProject, restoreDefaultBranch, deleteProjectWithId,
              ForgetProject, DeleteQueriesFails, getProjects, At
<1>3. CASE Answer(t)
  BY <1>3 DEF Answer
<1> QED
  BY <1>1, <1>2, <1>3 DEF ThreadStep

LEMMA OthersKeep ==
  ASSUME TypeOK, NEW t \in Threads, ThreadStep(t), NEW u \in Threads \ {t}
  PROVE  req'[u] = req[u]
  BY RequestBecomes DEF TypeOK, RequestsTypeOK

LEMMA OwnTarget ==
  ASSUME TypeOK, NEW t \in Threads, NEW label, NEW c, NEW x, Proceed(t, label, c, x)
  PROVE  req'[t].at = label /\ req'[t].commit = c /\ req'[t].target = x
  BY DEF Proceed, TypeOK, RequestsTypeOK

(* With nobody inside, memory and database agree on everything. *)
LEMMA NobodyChanges ==
  ASSUME TypeOK, PvsFree
  PROVE  \A x : ~Changing(x) /\ ~Adding(x)
  BY DEF Changing, Adding, TypeOK, LocksOK, PvsFree

(* What another thread is changing, it is still changing after the step. *)
LEMMA StillChanging ==
  ASSUME TypeOK, NEW t \in Threads, ThreadStep(t), NEW x
  PROVE  /\ Changing(x) => \/ Changing(x)'
                           \/ /\ req[t].at \in {"pushBranch", "eraseBranch", "pushTag", "eraseTag"}
                              /\ x = req[t].target
         /\ Adding(x) => \/ Adding(x)'
                         \/ req[t].at = "moveHead" /\ x = req[t].commit
  BY OthersKeep DEF Changing, Adding

(* Of the threads inside, only one changes something. *)
LEMMA OneChange ==
  ASSUME TypeOK, NEW t \in Threads, req[t].at \in InVersioning
  PROVE  /\ \A x : Changing(x) => x = req[t].target
         /\ \A c : Adding(c) => c = req[t].commit
  BY Alone DEF Changing, Adding

-----------------------------------------------------------------------------
(* The branches of a project that can be found, in memory and stored. *)
BranchAgrees(p, b) == Changing(b) \/ (b \in branchMap[p] <=> b \in BranchesInDatabase(p))

LEMMA CreatingAgrees ==
  ASSUME Definite, TypeOK, HistoryInv, ProjectsKnown, VersionsAgree,
         NEW t \in Threads, Creating(t), NEW p \in projectMap', NEW b \in BranchIds
  PROVE  BranchAgrees(p, b)'
<1>1. PICK q \in ProjectIds, x \in BranchIds, a \in Attributes : postProject(t, q, x, a)
  BY DEF Creating
<1>2. PICK o \in DbOutcomes : addBranchFromProject(q, x, o)
  BY <1>1 DEF postProject, createProject
<1>3. Applied(o) <=> Reported(o)
  BY AppliedIsReported
<1>4. /\ PvsFree /\ project[q] = Null /\ FreshBranch(x)
      /\ branchOf' = [branchOf EXCEPT ![x] = [project |-> q, name |-> MainName]]
      /\ projectMap' = projectMap \cup {q}
  BY <1>1, CreatingDoes
<1>5. x \notin branchDocs
  BY <1>4 DEF HistoryInv, FreshBlank
<1>6. /\ branchOf'[x].project = q
      /\ \A y \in BranchIds \ {x} : branchOf'[y] = branchOf[y]
  BY <1>4 DEF TypeOK, DatabaseTypeOK
<1>7. /\ branchDocs' = branchDocs \cup {y \in {x} : Reported(o)}
      /\ branchMap' = [branchMap EXCEPT ![q] = {y \in {x} : Reported(o)}]
  BY <1>2, <1>3 DEF addBranchFromProject, addBranch
<1>8. branchMap'[q] = {y \in {x} : Reported(o)}
      /\ \A r \in ProjectIds \ {q} : branchMap'[r] = branchMap[r]
  BY <1>7 DEF TypeOK, MemoryTypeOK
<1>9. p \in ProjectIds
  BY <1>4 DEF TypeOK, MemoryTypeOK
<1>10. CASE p = q
  <2>1. CASE b = x
    BY <1>5, <1>6, <1>7, <1>8, <1>10, <2>1 DEF BranchAgrees, BranchesInDatabase
  <2>2. CASE b # x
    <3>1. b \in branchDocs => branchOf[b].project # q
      BY <1>4 DEF ProjectsKnown, HistoryInv, FreshBlank
    <3> QED
      BY <1>6, <1>7, <1>8, <1>10, <2>2, <3>1 DEF BranchAgrees, BranchesInDatabase
  <2> QED
    BY <2>1, <2>2
<1>11. CASE p # q
  <2>1. b \in branchMap[p] <=> b \in branchDocs /\ branchOf[b].project = p
    BY <1>4, <1>9, <1>11, NobodyChanges DEF VersionsAgree, MapsAgree, BranchesInDatabase
  <2> QED
    BY <1>5, <1>6, <1>7, <1>8, <1>9, <1>11, <2>1 DEF BranchAgrees, BranchesInDatabase
<1> QED
  BY <1>10, <1>11

LEMMA BranchingAgrees ==
  ASSUME Definite, TypeOK, HistoryInv, VersionsAgree,
         NEW t \in Threads, Branching(t) \/ DeletingBranch(t),
         NEW p \in projectMap, NEW b \in BranchIds
  PROVE  BranchAgrees(p, b)'
<1>1. p \in ProjectIds
  BY DEF TypeOK, MemoryTypeOK
<1>2. PvsFree
  BY DEF Branching, postBranch, createBranch, DeletingBranch, deleteBranchRequest,
         deleteBranch
<1>3. b \in branchMap[p] <=> b \in branchDocs /\ branchOf[b].project = p
  BY <1>2, NobodyChanges DEF VersionsAgree, MapsAgree, BranchesInDatabase
<1>4. ASSUME NEW x \in BranchIds, NEW n \in Names, postBranch(t, x, n)
      PROVE  BranchAgrees(p, b)'
  <2>1. FreshBranch(x)
    BY <1>4, BranchingDoes
  <2>2. \A y \in BranchIds \ {x} : branchOf'[y] = branchOf[y]
    BY <1>4, BranchingDoes
  <2>3. branchMap' = branchMap
    BY <1>4 DEF postBranch, createBranch
  <2>4. PICK o \in DbOutcomes :
          /\ branchDocs' = IF Applied(o) THEN branchDocs \cup {x} ELSE branchDocs
          /\ IF Applied(o) THEN TRUE ELSE branchOf' = branchOf
          /\ IF Reported(o) THEN Proceed(t, "pushBranch", Null, x) ELSE TRUE
    BY <1>4 DEF postBranch, createBranch, addBranch
  <2>5. CASE Reported(o) /\ b = x
    <3>1. req'[t].at = "pushBranch" /\ req'[t].target = x
      BY <2>4, <2>5, OwnTarget
    <3> QED
      BY <2>5, <3>1 DEF BranchAgrees, Changing
  <2>6. CASE b # x
    BY <1>3, <2>2, <2>3, <2>4, <2>6 DEF BranchAgrees, BranchesInDatabase
  <2>7. CASE ~Reported(o)
    <3>1. branchDocs' = branchDocs /\ branchOf' = branchOf
      BY <2>4, <2>7, AppliedIsReported
    <3> QED
      BY <1>3, <2>3, <3>1 DEF BranchAgrees, BranchesInDatabase
  <2> QED
    BY <2>5, <2>6, <2>7
<1>5. ASSUME NEW x \in BranchIds, deleteBranchRequest(t, x)
      PROVE  BranchAgrees(p, b)'
  <2>1. branchMap' = branchMap /\ branchOf' = branchOf
    BY <1>5 DEF deleteBranchRequest, deleteBranch, objVars, pvsVars
  <2>2. PICK o \in DbOutcomes :
          /\ branchDocs' = IF Applied(o) THEN branchDocs \ {x} ELSE branchDocs
          /\ IF Reported(o) THEN Proceed(t, "eraseBranch", Null, x) ELSE TRUE
    BY <1>5 DEF deleteBranchRequest, deleteBranch, deleteBranchDoc
  <2>3. CASE Reported(o) /\ b = x
    <3>1. req'[t].at = "eraseBranch" /\ req'[t].target = x
      BY <2>2, <2>3, OwnTarget
    <3> QED
      BY <2>3, <3>1 DEF BranchAgrees, Changing
  <2>4. CASE ~Reported(o) \/ b # x
    <3>1. b \in branchDocs' <=> b \in branchDocs
      BY <2>2, <2>4, AppliedIsReported
    <3> QED
      BY <1>3, <2>1, <3>1 DEF BranchAgrees, BranchesInDatabase
  <2> QED
    BY <2>3, <2>4
<1> QED
  BY <1>4, <1>5 DEF Branching, DeletingBranch

LEMMA ErasingAgrees ==
  ASSUME TypeOK, BelongInv, GoneInv, VersionsAgree,
         NEW t \in Threads, PushBranch(t) \/ EraseBranch(t),
         NEW p \in projectMap, NEW b \in BranchIds
  PROVE  BranchAgrees(p, b)'
<1>1. p \in ProjectIds
  BY DEF TypeOK, MemoryTypeOK
<1>2. req[t].at \in {"pushBranch", "eraseBranch"} /\ branchDocs' = branchDocs
      /\ branchOf' = branchOf
  BY DEF PushBranch, EraseBranch, At, objVars, dbVars
<1>3. req[t].target \in BranchIds /\ branchOf[req[t].target].project = req[t].project
      /\ req[t].project \in ProjectIds
  BY <1>2 DEF TypeOK, RequestsTypeOK, RequestOK, BelongInv, RequestsBelong
<1>4. branchMap' = [branchMap EXCEPT ![req[t].project] =
                      IF req[t].at = "pushBranch" THEN @ \cup {req[t].target}
                                                  ELSE @ \ {req[t].target}]
  BY <1>2 DEF PushBranch, EraseBranch, At
<1>5. CASE b = req[t].target
  <2>1. b \in branchDocs <=> req[t].at = "pushBranch"
    BY <1>2, <1>5 DEF VersionsAgree, ChangesAgree, GoneInv, RequestsGone
  <2>2. CASE p = req[t].project
    <3>1. b \in branchMap'[p] <=> req[t].at = "pushBranch"
      BY <1>1, <1>2, <1>4, <1>5, <2>2 DEF TypeOK, MemoryTypeOK
    <3> QED
      BY <1>2, <1>3, <1>5, <2>1, <2>2, <3>1 DEF BranchAgrees, BranchesInDatabase
  <2>3. CASE p # req[t].project
    <3>1. b \notin branchMap'[p]
      BY <1>1, <1>3, <1>4, <1>5, <2>3 DEF BelongInv, MapsBelong, TypeOK, MemoryTypeOK
    <3> QED
      BY <1>2, <1>3, <1>5, <2>3, <3>1 DEF BranchAgrees, BranchesInDatabase
  <2> QED
    BY <2>2, <2>3
<1>6. CASE b # req[t].target
  <2>1. b \in branchMap[p] <=> b \in BranchesInDatabase(p)
    BY <1>2, <1>6, OneChange DEF VersionsAgree, MapsAgree
  <2>2. b \in branchMap'[p] <=> b \in branchMap[p]
    BY <1>1, <1>3, <1>4, <1>6 DEF TypeOK, MemoryTypeOK
  <2> QED
    BY <1>2, <2>1, <2>2 DEF BranchAgrees, BranchesInDatabase
<1> QED
  BY <1>5, <1>6

LEMMA ForgettingKeeps ==
  ASSUME TypeOK, LiveInv, NEW t \in Threads, ForgetProject(t), NEW p \in projectMap
  PROVE  /\ PvsFree /\ p \in ProjectIds
         /\ branchMap'[p] = branchMap[p] /\ commitMap'[p] = commitMap[p]
         /\ tagMap'[p] = tagMap[p]
<1>1. p # req[t].project /\ p \in ProjectIds
  BY DEF ForgetProject, At, LiveInv, TypeOK, MemoryTypeOK
<1> QED
  BY <1>1 DEF ForgetProject, forgetProject, TypeOK, MemoryTypeOK

LEMMA ProjectMapOnlyGrowsByCreating ==
  ASSUME NEW t \in Threads, ThreadStep(t), ~Creating(t)
  PROVE  projectMap' \subseteq projectMap
  BY Assigners DEF deleteProjectWithId, deleteProject

LEMMA BranchesAgreeStep ==
  ASSUME Definite, TypeOK, HistoryInv, BelongInv, LiveInv, GoneInv, ProjectsKnown,
         VersionsAgree, NEW t \in Threads, ThreadStep(t),
         NEW p \in projectMap', NEW b \in BranchIds
  PROVE  BranchAgrees(p, b)'
<1>1. CASE Creating(t)
  BY <1>1, CreatingAgrees
<1>2. CASE ~Creating(t)
  <2>1. p \in projectMap
    BY <1>2, ProjectMapOnlyGrowsByCreating
  <2>2. CASE Branching(t) \/ DeletingBranch(t)
    BY <2>1, <2>2, BranchingAgrees
  <2>3. CASE PushBranch(t) \/ EraseBranch(t)
    BY <2>1, <2>3, ErasingAgrees
  <2>4. CASE ~(Branching(t) \/ DeletingBranch(t) \/ PushBranch(t) \/ EraseBranch(t))
    <3>1. branchOf' = branchOf /\ branchDocs' = branchDocs
          /\ branchMap'[p] = branchMap[p]
      BY <1>2, <2>1, <2>4, Assigners, ForgettingKeeps
    <3>2. Changing(b) => Changing(b)'
      <4>1. req[t].at \notin {"pushBranch", "eraseBranch"}
        BY <2>4, StepsInside
      <4>2. req[t].at \in {"pushTag", "eraseTag"} => b # req[t].target
        BY DEF TypeOK, RequestsTypeOK, RequestOK
      <4> QED
        BY <4>1, <4>2, StillChanging
    <3> QED
      BY <2>1, <3>1, <3>2 DEF BranchAgrees, BranchesInDatabase, VersionsAgree, MapsAgree
  <2> QED
    BY <2>2, <2>3, <2>4
<1> QED
  BY <1>1, <1>2

-----------------------------------------------------------------------------
(* The same for the commits. *)
CommitAgrees(p, c) == Adding(c) \/ (c \in commitMap[p] <=> c \in CommitsInDatabase(p))

LEMMA CommittingAgrees ==
  ASSUME Definite, TypeOK, BelongInv, VersionsAgree, NEW t \in Threads, Committing(t),
         NEW p \in projectMap, NEW c \in CommitIds
  PROVE  CommitAgrees(p, c)'
<1>1. PICK b \in BranchIds, x \in CommitIds : postCommit(t, b, x) \/ postMerge(t, b, x)
  BY DEF Committing
<1>2. PICK requested : StoreCommit(t, b, x, requested)
  BY <1>1 DEF postCommit, postMerge, createCommit, mergeIntoBranch
<1>3. PICK o \in DbOutcomes :
        /\ commitDocs' = IF Applied(o) THEN commitDocs \cup {x} ELSE commitDocs
        /\ IF Applied(o) THEN TRUE ELSE commitOf' = commitOf
        /\ IF Reported(o) THEN Proceed(t, "moveHead", x, b) ELSE TRUE
  BY <1>2 DEF StoreCommit, addCommit
<1>4. commitMap' = commitMap /\ PvsFree
  BY <1>1 DEF postCommit, postMerge, createCommit, mergeIntoBranch, StoreCommit, pvsVars
<1>5. c \in commitMap[p] <=> c \in commitDocs /\ commitOf[c].project = p
  BY <1>4, NobodyChanges DEF VersionsAgree, MapsAgree, CommitsInDatabase
<1>6. \A d \in CommitIds \ {x} : commitOf'[d] = commitOf[d]
  BY <1>1, CommittingDoes
<1>7. CASE Reported(o) /\ c = x
  <2>1. req'[t].at = "moveHead" /\ req'[t].commit = x
    BY <1>3, <1>7, OwnTarget
  <2> QED
    BY <1>7, <2>1 DEF CommitAgrees, Adding
<1>8. CASE c # x
  BY <1>3, <1>4, <1>5, <1>6, <1>8 DEF CommitAgrees, CommitsInDatabase
<1>9. CASE ~Reported(o)
  <2>1. commitDocs' = commitDocs /\ commitOf' = commitOf
    BY <1>3, <1>9, AppliedIsReported
  <2> QED
    BY <1>4, <1>5, <2>1 DEF CommitAgrees, CommitsInDatabase
<1> QED
  BY <1>7, <1>8, <1>9

LEMMA MovingAgrees ==
  ASSUME TypeOK, ClosedInv, BelongInv, VersionsAgree, NEW t \in Threads, MoveHead(t),
         NEW p \in projectMap, NEW c \in CommitIds
  PROVE  CommitAgrees(p, c)'
<1>1. p \in ProjectIds
  BY DEF TypeOK, MemoryTypeOK
<1>2. req[t].at = "moveHead" /\ commitDocs' = commitDocs /\ commitOf' = commitOf
      /\ commitMap' = [commitMap EXCEPT ![req[t].project] = @ \cup {req[t].commit}]
  BY DEF MoveHead, At, objVars
<1>3. req[t].commit \in commitDocs /\ commitOf[req[t].commit].project = req[t].project
      /\ req[t].project \in ProjectIds
  BY <1>2 DEF TypeOK, RequestsTypeOK, RequestOK, BelongInv, RequestsBelong,
              SameProject, ClosedInv, RequestsStored
<1>4. CASE c = req[t].commit
  <2>1. p # req[t].project => c \notin commitMap[p]
    BY <1>1, <1>3, <1>4 DEF BelongInv, MapsBelong, SameProject
  <2> QED
    BY <1>1, <1>2, <1>3, <1>4, <2>1
    DEF CommitAgrees, CommitsInDatabase, TypeOK, MemoryTypeOK
<1>5. CASE c # req[t].commit
  <2>1. c \in commitMap[p] <=> c \in CommitsInDatabase(p)
    BY <1>2, <1>5, OneChange DEF VersionsAgree, MapsAgree
  <2> QED
    BY <1>1, <1>2, <1>3, <1>5, <2>1
    DEF CommitAgrees, CommitsInDatabase, TypeOK, MemoryTypeOK
<1> QED
  BY <1>4, <1>5

LEMMA CommitsAgreeStep ==
  ASSUME Definite, TypeOK, ClosedInv, BelongInv, LiveInv, ProjectsKnown,
         VersionsAgree, NEW t \in Threads, ThreadStep(t),
         NEW p \in projectMap', NEW c \in CommitIds
  PROVE  CommitAgrees(p, c)'
<1>1. CASE Creating(t)
  <2>1. PICK q \in ProjectIds, x \in BranchIds, a \in Attributes : postProject(t, q, x, a)
    BY <1>1 DEF Creating
  <2>2. /\ PvsFree /\ project[q] = Null /\ projectMap' = projectMap \cup {q}
        /\ commitMap'[q] = {} /\ \A r \in ProjectIds \ {q} : commitMap'[r] = commitMap[r]
    BY <2>1, CreatingDoes
  <2>3. commitDocs' = commitDocs /\ commitOf' = commitOf
    BY <2>1 DEF postProject, createProject
  <2>4. CASE p = q
    BY <2>2, <2>3, <2>4 DEF ProjectsKnown, CommitAgrees, CommitsInDatabase
  <2>5. CASE p # q
    <3>1. p \in projectMap /\ p \in ProjectIds
      BY <2>2, <2>5 DEF TypeOK, MemoryTypeOK
    <3>2. c \in commitMap[p] <=> c \in CommitsInDatabase(p)
      BY <2>2, <3>1, NobodyChanges DEF VersionsAgree, MapsAgree
    <3> QED
      BY <2>2, <2>3, <2>5, <3>1, <3>2 DEF CommitAgrees, CommitsInDatabase
  <2> QED
    BY <2>4, <2>5
<1>2. CASE ~Creating(t)
  <2>1. p \in projectMap
    BY <1>2, ProjectMapOnlyGrowsByCreating
  <2>2. CASE Committing(t)
    BY <2>1, <2>2, CommittingAgrees
  <2>3. CASE MoveHead(t)
    BY <2>1, <2>3, MovingAgrees
  <2>4. CASE ~(Committing(t) \/ MoveHead(t))
    <3>1. commitOf' = commitOf /\ commitDocs' = commitDocs
          /\ commitMap'[p] = commitMap[p]
      BY <1>2, <2>1, <2>4, Assigners, ForgettingKeeps
    <3>2. Adding(c) => Adding(c)'
      BY <2>4, StepsInside, StillChanging
    <3> QED
      BY <2>1, <3>1, <3>2 DEF CommitAgrees, CommitsInDatabase, VersionsAgree, MapsAgree
  <2> QED
    BY <2>2, <2>3, <2>4
<1> QED
  BY <1>1, <1>2

-----------------------------------------------------------------------------
(* And for the tags. *)
TagAgrees(p, g) == Changing(g) \/ (g \in tagMap[p] <=> g \in TagsInDatabase(p))

LEMMA TaggingAgrees ==
  ASSUME Definite, TypeOK, BelongInv, VersionsAgree,
         NEW t \in Threads, Tagging(t) \/ DeletingTag(t),
         NEW p \in projectMap, NEW g \in TagIds
  PROVE  TagAgrees(p, g)'
<1>1. PvsFree
  BY DEF Tagging, postTag, createTag, DeletingTag, deleteTagRequest, deleteTag
<1>2. g \in tagMap[p] <=> g \in tagDocs /\ tagOf[g].project = p
  BY <1>1, NobodyChanges DEF VersionsAgree, MapsAgree, TagsInDatabase
<1>3. ASSUME NEW x \in TagIds, NEW n \in Names, postTag(t, x, n)
      PROVE  TagAgrees(p, g)'
  <2>1. \A y \in TagIds \ {x} : tagOf'[y] = tagOf[y]
    BY <1>3, TaggingDoes
  <2>2. tagMap' = tagMap
    BY <1>3 DEF postTag, createTag, pvsVars
  <2>3. PICK o \in DbOutcomes :
          /\ tagDocs' = IF Applied(o) THEN tagDocs \cup {x} ELSE tagDocs
          /\ IF Applied(o) THEN TRUE ELSE tagOf' = tagOf
          /\ IF Reported(o) THEN Proceed(t, "pushTag", Null, x) ELSE TRUE
    BY <1>3 DEF postTag, createTag, addTag
  <2>4. CASE Reported(o) /\ g = x
    <3>1. req'[t].at = "pushTag" /\ req'[t].target = x
      BY <2>3, <2>4, OwnTarget
    <3> QED
      BY <2>4, <3>1 DEF TagAgrees, Changing
  <2>5. CASE g # x
    BY <1>2, <2>1, <2>2, <2>3, <2>5 DEF TagAgrees, TagsInDatabase
  <2>6. CASE ~Reported(o)
    <3>1. tagDocs' = tagDocs /\ tagOf' = tagOf
      BY <2>3, <2>6, AppliedIsReported
    <3> QED
      BY <1>2, <2>2, <3>1 DEF TagAgrees, TagsInDatabase
  <2> QED
    BY <2>4, <2>5, <2>6
<1>4. ASSUME NEW x \in TagIds, deleteTagRequest(t, x)
      PROVE  TagAgrees(p, g)'
  <2>1. tagMap' = tagMap /\ tagOf' = tagOf
    BY <1>4 DEF deleteTagRequest, deleteTag, objVars, pvsVars
  <2>2. PICK o \in DbOutcomes :
          /\ tagDocs' = IF Applied(o) THEN tagDocs \ {x} ELSE tagDocs
          /\ IF Reported(o) THEN Proceed(t, "eraseTag", Null, x) ELSE TRUE
    BY <1>4 DEF deleteTagRequest, deleteTag, deleteTagDoc
  <2>3. CASE Reported(o) /\ g = x
    <3>1. req'[t].at = "eraseTag" /\ req'[t].target = x
      BY <2>2, <2>3, OwnTarget
    <3> QED
      BY <2>3, <3>1 DEF TagAgrees, Changing
  <2>4. CASE ~Reported(o) \/ g # x
    <3>1. g \in tagDocs' <=> g \in tagDocs
      BY <2>2, <2>4, AppliedIsReported
    <3> QED
      BY <1>2, <2>1, <3>1 DEF TagAgrees, TagsInDatabase
  <2> QED
    BY <2>3, <2>4
<1> QED
  BY <1>3, <1>4 DEF Tagging, DeletingTag

LEMMA ErasingTagAgrees ==
  ASSUME TypeOK, BelongInv, GoneInv, VersionsAgree,
         NEW t \in Threads, PushTag(t) \/ EraseTag(t),
         NEW p \in projectMap, NEW g \in TagIds
  PROVE  TagAgrees(p, g)'
<1>1. p \in ProjectIds
  BY DEF TypeOK, MemoryTypeOK
<1>2. req[t].at \in {"pushTag", "eraseTag"} /\ tagDocs' = tagDocs /\ tagOf' = tagOf
  BY DEF PushTag, EraseTag, At, objVars, dbVars
<1>3. req[t].target \in TagIds /\ tagOf[req[t].target].project = req[t].project
      /\ req[t].project \in ProjectIds
  BY <1>2 DEF TypeOK, RequestsTypeOK, RequestOK, BelongInv, RequestsBelong
<1>4. tagMap' = [tagMap EXCEPT ![req[t].project] =
                   IF req[t].at = "pushTag" THEN @ \cup {req[t].target}
                                            ELSE @ \ {req[t].target}]
  BY <1>2 DEF PushTag, EraseTag, At
<1>5. CASE g = req[t].target
  <2>1. g \in tagDocs <=> req[t].at = "pushTag"
    BY <1>2, <1>5 DEF VersionsAgree, ChangesAgree, GoneInv, RequestsGone
  <2>2. CASE p = req[t].project
    <3>1. g \in tagMap'[p] <=> req[t].at = "pushTag"
      BY <1>1, <1>2, <1>4, <1>5, <2>2 DEF TypeOK, MemoryTypeOK
    <3> QED
      BY <1>2, <1>3, <1>5, <2>1, <2>2, <3>1 DEF TagAgrees, TagsInDatabase
  <2>3. CASE p # req[t].project
    <3>1. g \notin tagMap'[p]
      BY <1>1, <1>3, <1>4, <1>5, <2>3 DEF BelongInv, MapsBelong, TypeOK, MemoryTypeOK
    <3> QED
      BY <1>2, <1>3, <1>5, <2>3, <3>1 DEF TagAgrees, TagsInDatabase
  <2> QED
    BY <2>2, <2>3
<1>6. CASE g # req[t].target
  <2>1. g \in tagMap[p] <=> g \in TagsInDatabase(p)
    BY <1>2, <1>6, OneChange DEF VersionsAgree, MapsAgree
  <2>2. g \in tagMap'[p] <=> g \in tagMap[p]
    BY <1>1, <1>3, <1>4, <1>6 DEF TypeOK, MemoryTypeOK
  <2> QED
    BY <1>2, <2>1, <2>2 DEF TagAgrees, TagsInDatabase
<1> QED
  BY <1>5, <1>6

LEMMA TagsAgreeStep ==
  ASSUME Definite, TypeOK, BelongInv, LiveInv, GoneInv, VersionsAgree,
         NEW t \in Threads, ThreadStep(t), NEW p \in projectMap', NEW g \in TagIds
  PROVE  TagAgrees(p, g)'
<1>1. CASE Creating(t)
  <2>1. PICK q \in ProjectIds, x \in BranchIds, a \in Attributes : postProject(t, q, x, a)
    BY <1>1 DEF Creating
  <2>2. PvsFree /\ project[q] = Null /\ projectMap' = projectMap \cup {q}
    BY <2>1, CreatingDoes
  <2>3. tagDocs' = tagDocs /\ tagOf' = tagOf /\ tagMap' = tagMap
    BY <2>1 DEF postProject, createProject, addBranchFromProject
  <2>4. CASE p = q
    <3>1. ~FreshTag(g) => tagOf[g].project # p
      BY <2>2, <2>4 DEF BelongInv, TagsBelong
    <3>2. FreshTag(g) => g \notin tagDocs /\ g \notin tagMap[p]
      BY <2>4 DEF BelongInv, TagsBelong
    <3>3. g \in tagMap[p] => tagOf[g].project = p
      BY <2>4 DEF BelongInv, MapsBelong
    <3> QED
      BY <2>3, <3>1, <3>2, <3>3 DEF TagAgrees, TagsInDatabase
  <2>5. CASE p # q
    <3>1. g \in tagMap[p] <=> g \in TagsInDatabase(p)
      BY <2>2, <2>5, NobodyChanges DEF VersionsAgree, MapsAgree
    <3> QED
      BY <2>3, <3>1 DEF TagAgrees, TagsInDatabase
  <2> QED
    BY <2>4, <2>5
<1>2. CASE ~Creating(t)
  <2>1. p \in projectMap
    BY <1>2, ProjectMapOnlyGrowsByCreating
  <2>2. CASE Tagging(t) \/ DeletingTag(t)
    BY <2>1, <2>2, TaggingAgrees
  <2>3. CASE PushTag(t) \/ EraseTag(t)
    BY <2>1, <2>3, ErasingTagAgrees
  <2>4. CASE ~(Tagging(t) \/ DeletingTag(t) \/ PushTag(t) \/ EraseTag(t))
    <3>1. tagOf' = tagOf /\ tagDocs' = tagDocs /\ tagMap'[p] = tagMap[p]
      BY <1>2, <2>1, <2>4, Assigners, ForgettingKeeps
    <3>2. Changing(g) => Changing(g)'
      <4>1. req[t].at \notin {"pushTag", "eraseTag"}
        BY <2>4, StepsInside
      <4>2. req[t].at \in {"pushBranch", "eraseBranch"} => g # req[t].target
        BY DEF TypeOK, RequestsTypeOK, RequestOK
      <4> QED
        BY <4>1, <4>2, StillChanging
    <3> QED
      BY <2>1, <3>1, <3>2 DEF TagAgrees, TagsInDatabase, VersionsAgree, MapsAgree
  <2> QED
    BY <2>2, <2>3, <2>4
<1> QED
  BY <1>1, <1>2

-----------------------------------------------------------------------------
(* The heads of the stored branches, and what is about to enter the maps. *)
LEMMA HeadsAgreeStep ==
  ASSUME Definite, TypeOK, HistoryInv, VersionsAgree, NEW t \in Threads, ThreadStep(t)
  PROVE  HeadsAgree'
<1> SUFFICES ASSUME NEW b \in branchDocs'
             PROVE  head'[b] = docHead'[b]
  BY DEF HeadsAgree
<1>1. b \in BranchIds
  BY StepTypeOK DEF TypeOK, DatabaseTypeOK
<1>2. CASE MoveHead(t)
  <2>1. PICK o \in DbOutcomes :
          /\ docHead' = IF Applied(o) /\ req[t].target \in branchDocs
                        THEN [docHead EXCEPT ![req[t].target] = req[t].commit]
                        ELSE docHead
          /\ head' = IF Reported(o) THEN [head EXCEPT ![req[t].target] = req[t].commit]
                     ELSE head
    BY <1>2 DEF MoveHead, updateBranch
  <2>2. b \in branchDocs
    BY <1>2, MoveHeadDoes
  <2> QED
    BY <1>1, <2>1, <2>2, AppliedIsReported
    DEF VersionsAgree, HeadsAgree, TypeOK, DatabaseTypeOK, MemoryTypeOK
<1>3. ASSUME NEW x \in BranchIds, NEW n \in Names, postBranch(t, x, n)
      PROVE  head'[b] = docHead'[b]
  <2>1. PICK o \in DbOutcomes :
          /\ branchDocs' = IF Applied(o) THEN branchDocs \cup {x} ELSE branchDocs
          /\ docHead' = IF Applied(o) THEN [docHead EXCEPT ![x] = req[t].commit]
                        ELSE docHead
          /\ head' = IF Reported(o) THEN [head EXCEPT ![x] = req[t].commit] ELSE head
    BY <1>3 DEF postBranch, createBranch, addBranch
  <2> QED
    BY <1>1, <2>1, AppliedIsReported
    DEF VersionsAgree, HeadsAgree, TypeOK, DatabaseTypeOK, MemoryTypeOK
<1>4. ASSUME NEW p \in ProjectIds, NEW x \in BranchIds, NEW a \in Attributes,
             postProject(t, p, x, a)
      PROVE  head'[b] = docHead'[b]
  <2>1. PICK o \in DbOutcomes :
          /\ branchDocs' = IF Applied(o) THEN branchDocs \cup {x} ELSE branchDocs
          /\ docHead' = IF Applied(o) THEN [docHead EXCEPT ![x] = Null] ELSE docHead
          /\ head' = [head EXCEPT ![x] = Null]
    BY <1>4 DEF postProject, createProject, addBranchFromProject, addBranch
  <2>2. CASE b = x
    <3>1. b \notin branchDocs
      BY <1>4, <2>2, CreatingDoes DEF HistoryInv, FreshBlank
    <3> QED
      BY <1>1, <2>1, <2>2, <3>1 DEF TypeOK, DatabaseTypeOK, MemoryTypeOK
  <2>3. CASE b # x
    BY <1>1, <2>1, <2>3 DEF VersionsAgree, HeadsAgree, TypeOK, DatabaseTypeOK, MemoryTypeOK
  <2> QED
    BY <2>2, <2>3
<1>5. CASE ~(MoveHead(t) \/ Branching(t) \/ Creating(t))
  <2>1. head' = head /\ docHead' = docHead
    BY <1>5, Assigners
  <2>2. b \in branchDocs
    BY <1>5, Assigners DEF DeletingBranch, deleteBranchRequest, deleteBranch, deleteBranchDoc
  <2> QED
    BY <2>1, <2>2 DEF VersionsAgree, HeadsAgree
<1> QED
  BY <1>2, <1>3, <1>4, <1>5 DEF Branching, Creating

LEMMA ChangesAgreeStep ==
  ASSUME TypeOK, VersionsAgree, NEW t \in Threads, ThreadStep(t)
  PROVE  ChangesAgree'
<1>1. ASSUME NEW u \in Threads \ {t}
      PROVE  /\ req'[u].at = "pushBranch" => req'[u].target \in branchDocs'
             /\ req'[u].at = "pushTag" => req'[u].target \in tagDocs'
  <2>1. req'[u] = req[u]
    BY OthersKeep
  <2>2. ASSUME req[u].at \in InVersioning
        PROVE  branchDocs \subseteq branchDocs' /\ tagDocs \subseteq tagDocs'
    <3>1. ~PvsFree
      BY <2>2 DEF TypeOK, LocksOK, PvsFree
    <3>2. ~DeletingBranch(t) /\ ~DeletingTag(t)
      BY <3>1 DEF DeletingBranch, deleteBranchRequest, deleteBranch, DeletingTag,
                  deleteTagRequest, deleteTag
    <3>3. ~Branching(t) /\ ~Creating(t) /\ ~Tagging(t)
      BY <3>1 DEF Branching, postBranch, createBranch, Tagging, postTag, createTag,
                  Creating, postProject, createProject, addBranchFromProject
    <3> QED
      BY <3>2, <3>3, Assigners
  <2> QED
    BY <2>1, <2>2 DEF VersionsAgree, ChangesAgree
<1>2. PICK r : req' = [req EXCEPT ![t] = r] /\ Becomes(t, r)
  BY RequestBecomes
<1>3. req'[t] = r /\ req'[t] \in Request /\ RequestOK(req'[t])
  BY <1>2, StepTypeOK DEF TypeOK, RequestsTypeOK
<1>4. ASSUME r.at = "pushBranch"
      PROVE  r.target \in branchDocs'
  <2>1. PICK n \in Names : postBranch(t, r.target, n)
    BY <1>4, <1>2 DEF Becomes
  <2>2. r.target \in BranchIds
    BY <1>3, <1>4 DEF RequestOK
  <2>3. \/ req'[t].at = "idle"
        \/ branchDocs' = branchDocs \cup {r.target}
    BY <2>1, <2>2, BranchingDoes
  <2> QED
    BY <1>3, <1>4, <2>3
<1>5. ASSUME r.at = "pushTag"
      PROVE  r.target \in tagDocs'
  <2>1. PICK n \in Names : postTag(t, r.target, n)
    BY <1>5, <1>2 DEF Becomes
  <2>2. r.target \in TagIds
    BY <1>3, <1>5 DEF RequestOK
  <2>3. \/ req'[t].at = "idle"
        \/ tagDocs' = tagDocs \cup {r.target}
    BY <2>1, <2>2, TaggingDoes
  <2> QED
    BY <1>3, <1>5, <2>3
<1> QED
  BY <1>1, <1>3, <1>4, <1>5 DEF ChangesAgree

LEMMA VersionsAgreeStep ==
  ASSUME Definite, TypeOK, ClosedInv, HistoryInv, BelongInv, LiveInv, GoneInv,
         ProjectsKnown, VersionsAgree, NEW t \in Threads, ThreadStep(t)
  PROVE  VersionsAgree'
<1>1. \A p \in projectMap', b \in BranchIds : BranchAgrees(p, b)'
  BY BranchesAgreeStep
<1>2. \A p \in projectMap', c \in CommitIds : CommitAgrees(p, c)'
  BY CommitsAgreeStep
<1>3. \A p \in projectMap', g \in TagIds : TagAgrees(p, g)'
  BY TagsAgreeStep
<1>4. MapsAgree'
  BY <1>1, <1>2, <1>3 DEF MapsAgree, BranchAgrees, CommitAgrees, TagAgrees
<1> QED
  BY <1>4, HeadsAgreeStep, ChangesAgreeStep DEF VersionsAgree

LEMMA RestartVersionsAgree ==
  ASSUME TypeOK, BelongInv, GoneInv, ProjectsKnown, Restart
  PROVE  VersionsAgree' /\ ProjectsKnown' /\ DocumentsFound'
<1>1. /\ UNCHANGED <<objVars, dbVars>>
      /\ req' = [u \in Threads |-> IdleRequest]
      /\ branchMap' = getAllBranches /\ commitMap' = getAllCommits
      /\ tagMap' = getAllTags /\ projectMap' = getAllProjects
      /\ head' = [b \in BranchIds |-> IF b \in branchDocs THEN docHead[b] ELSE head[b]]
      /\ project' = [p \in ProjectIds |->
                      IF p \in getAllProjects THEN projectDoc[p] ELSE project[p]]
  BY DEF Restart, LoadVersioning, LoadProjects
<1>2. MapsAgree'
  <2> SUFFICES ASSUME NEW p \in getAllProjects
               PROVE  /\ \A b \in branchMap'[p] : b \in BranchesInDatabase(p)'
                      /\ \A b \in BranchesInDatabase(p)' : b \in branchMap'[p]
                      /\ \A c \in commitMap'[p] : c \in CommitsInDatabase(p)'
                      /\ \A c \in CommitsInDatabase(p)' : c \in commitMap'[p]
                      /\ \A g \in tagMap'[p] : g \in TagsInDatabase(p)'
                      /\ \A g \in TagsInDatabase(p)' : g \in tagMap'[p]
    BY <1>1 DEF MapsAgree
  <2> QED
    BY <1>1 DEF getAllProjects, getAllBranches, getAllCommits, getAllTags,
                BranchesInDatabase, CommitsInDatabase, TagsInDatabase, objVars, dbVars
<1>3. HeadsAgree'
  BY <1>1 DEF HeadsAgree, dbVars, TypeOK, DatabaseTypeOK
<1>4. ChangesAgree'
  BY <1>1 DEF ChangesAgree
<1>5. \A p \in ProjectIds : project[p] # Null => project'[p] # Null
  BY <1>1 DEF getAllProjects
<1>6. ProjectsKnown'
  <2>1. \A b \in BranchIds : ~FreshBranch(b)' => project'[branchOf'[b].project] # Null
    BY <1>1, <1>5 DEF ProjectsKnown, FreshBranch, objVars, TypeOK, DatabaseTypeOK
  <2>2. \A c \in commitDocs' : project'[commitOf'[c].project] # Null
    BY <1>1, <1>5 DEF ProjectsKnown, objVars, dbVars, TypeOK, DatabaseTypeOK,
                      BelongInv, CommitsBelong, FreshCommit
  <2> QED
    BY <2>1, <2>2 DEF ProjectsKnown
<1>7. DocumentsFound'
  BY <1>1 DEF DocumentsFound, getAllProjects, dbVars
<1> QED
  BY <1>2, <1>3, <1>4, <1>6, <1>7 DEF VersionsAgree

-----------------------------------------------------------------------------
(* The fields of the projects.  Only one thread at a time changes them. *)
Acting(t) ==
  \/ Creating(t) \/ Updating(t) \/ AddProjectDoc(t) \/ WriteProject(t)
  \/ restoreDefaultBranch(t) \/ deleteProjectWithId(t)

LEMMA OneRewrites ==
  ASSUME TypeOK, NEW t \in Threads, ThreadStep(t), Acting(t)
  PROVE  /\ \A u \in Threads \ {t} :
              /\ req[u].at \notin {"writeProject", "restoreDefault"}
              /\ req'[u].at \notin {"writeProject", "restoreDefault"}
         /\ \A p : Rewriting(p) => /\ req[t].at \in {"writeProject", "restoreDefault"}
                                   /\ p = req[t].project
<1>1. SpsFree \/ req[t].at \in InProjects
  BY DEF Acting, Creating, postProject, createProject, Updating, putProject,
         changeProject, changeOwner, changeOwnership, AddProjectDoc, WriteProject,
         restoreDefaultBranch, deleteProjectWithId, deleteProject, At
<1>2. \A u \in Threads \ {t} : req[u].at \notin {"writeProject", "restoreDefault"}
  BY <1>1, Alone
<1> QED
  BY <1>2, OthersKeep DEF Rewriting

FieldsOf(r) ==
  /\ r.at \in {"writeProject", "restoreDefault"} =>
       projectDoc[r.project] = Null \/ projectDoc[r.project] = r.old
  /\ r.at = "writeProject" /\ r.target = Null =>
       project[r.project].defaultBranch = r.old.defaultBranch
  /\ r.at = "restoreDefault" =>
       project[r.project].attributes = r.old.attributes

(* The step of a thread that changes fields leaves them in agreement if    *)
(* it does so for the project it is about, and takes care of its request.  *)
LEMMA ActingAgrees ==
  ASSUME TypeOK, FieldsAgree, NEW t \in Threads, ThreadStep(t), Acting(t),
         NEW q \in ProjectIds,
         req[t].at \in {"writeProject", "restoreDefault"} => q = req[t].project,
         \A p \in ProjectIds \ {q} : project'[p] = project[p] /\ projectDoc'[p] = projectDoc[p],
         projectDoc'[q] = Null \/ Rewriting(q)' \/ project'[q] = projectDoc'[q],
         FieldsOf(req[t])'
  PROVE  FieldsAgree'
<1>1. \A p \in ProjectIds :
        projectDoc'[p] = Null \/ Rewriting(p)' \/ project'[p] = projectDoc'[p]
  BY OneRewrites DEF FieldsAgree
<1>2. \A u \in Threads : FieldsOf(req[u])'
  BY OneRewrites DEF FieldsOf
<1> QED
  BY <1>1, <1>2 DEF FieldsAgree, FieldsOf

LEMMA RecordOfFields ==
  ASSUME NEW x \in ProjectFields, NEW y \in ProjectFields
  PROVE  x.defaultBranch = y.defaultBranch /\ x.attributes = y.attributes => x = y
  OBVIOUS

LEMMA CreatingFields ==
  ASSUME TypeOK, GoneInv, FieldsAgree, NEW t \in Threads, ThreadStep(t), Creating(t)
  PROVE  FieldsAgree'
<1>1. PICK p \in ProjectIds, b \in BranchIds, a \in Attributes : postProject(t, p, b, a)
  BY DEF Creating
<1>2. /\ project[p] = Null
      /\ project' = [project EXCEPT ![p] = [defaultBranch |-> b, attributes |-> a]]
  BY <1>1, CreatingDoes
<1>3. projectDoc' = projectDoc /\ projectDoc[p] = Null
  BY <1>1, <1>2 DEF postProject, createProject, GoneInv, DocumentsKnown
<1>4. req[t].at = "idle" /\ req'[t].at \in {"addProject", "idle"}
  BY <1>1 DEF postProject, createProject, At, TypeOK, RequestsTypeOK
<1>5. \A q \in ProjectIds \ {p} : project'[q] = project[q]
  BY <1>2 DEF TypeOK, MemoryTypeOK
<1>6. FieldsOf(req[t])'
  BY <1>4 DEF FieldsOf
<1> QED
  BY <1>3, <1>4, <1>5, <1>6, ActingAgrees DEF Acting

LEMMA UpdatingFields ==
  ASSUME TypeOK, FieldsAgree, NEW t \in Threads, ThreadStep(t), Updating(t)
  PROVE  FieldsAgree'
<1>1. req[t].at = "project" /\ SpsFree /\ req[t].project \in ProjectIds
      /\ project[req[t].project] \in ProjectFields
  BY DEF Updating, putProject, changeProject, changeOwner, changeOwnership, At, TypeOK,
         RequestsTypeOK, RequestOK, MemoryTypeOK
<1>2. PICK b, fields :
        /\ ChangeInMemory(t, b, fields)
        /\ b = Null => fields.defaultBranch = project[req[t].project].defaultBranch
  <2>1. ASSUME NEW a \in Attributes,
               ChangeInMemory(t, Null, [project[req[t].project] EXCEPT !.attributes = a])
        PROVE  \E b, fields :
                 /\ ChangeInMemory(t, b, fields)
                 /\ b = Null => fields.defaultBranch = project[req[t].project].defaultBranch
    <3> DEFINE f == [project[req[t].project] EXCEPT !.attributes = a]
    <3>1. f.defaultBranch = project[req[t].project].defaultBranch
      BY <1>1
    <3>2. ChangeInMemory(t, Null, f)
      BY <2>1
    <3> HIDE DEF f
    <3> QED
      BY <3>1, <3>2
  <2>2. ASSUME NEW a \in Attributes, NEW x \in BranchIds \cup {Null},
               replaceDefaultBranch(req[t].project, x),
               ChangeInMemory(t, x, [defaultBranch |-> x, attributes |-> a])
        PROVE  \E b, fields :
                 /\ ChangeInMemory(t, b, fields)
                 /\ b = Null => fields.defaultBranch = project[req[t].project].defaultBranch
    <3>1. x # Null
      BY <1>1, <2>2 DEF replaceDefaultBranch, storedBranch, TypeOK, MemoryTypeOK
    <3> QED
      BY <2>2, <3>1
  <2> QED
    BY <2>1, <2>2 DEF Updating, putProject, changeProject, changeOwner, changeOwnership
<1>0. PICK p \in ProjectIds : p = req[t].project
  BY <1>1
<1>3. /\ project' = [project EXCEPT ![p] = fields] /\ projectDoc' = projectDoc
      /\ req' = [req EXCEPT ![t] = [at |-> "writeProject", project |-> p,
                                    commit |-> Null, target |-> b, old |-> project[p]]]
  BY <1>0, <1>2 DEF ChangeInMemory, dbVars
<1>4. /\ req'[t].at = "writeProject" /\ req'[t].project = p /\ req'[t].target = b
      /\ req'[t].old = project[p]
  BY <1>3 DEF TypeOK, RequestsTypeOK
<1>5. project'[p] = fields /\ \A q \in ProjectIds \ {p} : project'[q] = project[q]
  BY <1>0, <1>1, <1>3 DEF TypeOK, MemoryTypeOK
<1>6. projectDoc[p] = Null \/ projectDoc[p] = project[p]
  <2>1. ~Rewriting(p)
    BY <1>0, <1>1, OneRewrites DEF Acting
  <2> QED
    BY <1>0, <1>1, <2>1 DEF FieldsAgree
<1>7. FieldsOf(req[t])'
  BY <1>0, <1>2, <1>3, <1>4, <1>5, <1>6 DEF FieldsOf
<1>8. Rewriting(p)'
  BY <1>0, <1>4 DEF Rewriting
<1> QED
  BY <1>0, <1>1, <1>3, <1>5, <1>7, <1>8, ActingAgrees DEF Acting

LEMMA WritingFields ==
  ASSUME Definite, TypeOK, FieldsAgree, NEW t \in Threads, ThreadStep(t), WriteProject(t)
  PROVE  FieldsAgree'
<1>0. PICK p \in ProjectIds : p = req[t].project
  BY DEF WriteProject, restoreDefaultBranch, At, TypeOK, RequestsTypeOK, RequestOK
<1>1. /\ req[t].at = "writeProject" /\ p \in ProjectIds
      /\ project[p] \in ProjectFields /\ req[t].old \in ProjectFields
      /\ req[t] \in Request
  BY <1>0 DEF WriteProject, At, TypeOK, RequestsTypeOK, RequestOK, MemoryTypeOK
<1>2. PICK o \in DbOutcomes :
        /\ updateProject(p, project[p], o)
        /\ project' = [project EXCEPT ![p] =
             IF Reported(o) THEN @
             ELSE [project[p] EXCEPT !.attributes = req[t].old.attributes]]
        /\ IF Reported(o) \/ req[t].target = Null THEN Respond(t)
           ELSE req' = [req EXCEPT ![t].at = "restoreDefault"]
  BY <1>0 DEF WriteProject
<1>3. \A q \in ProjectIds \ {p} : project'[q] = project[q] /\ projectDoc'[q] = projectDoc[q]
  BY <1>0, <1>1, <1>2 DEF updateProject, TypeOK, MemoryTypeOK, DatabaseTypeOK
<1>4. projectDoc[p] = Null \/ projectDoc[p] = req[t].old
  BY <1>0, <1>1 DEF FieldsAgree
<1>5. CASE Reported(o)
  <2>1. projectDoc'[p] = Null \/ projectDoc'[p] = project[p]
    BY <1>0, <1>1, <1>2, <1>5, AppliedIsReported DEF updateProject, TypeOK, DatabaseTypeOK
  <2>2. project'[p] = project[p]
    BY <1>0, <1>1, <1>2, <1>5 DEF TypeOK, MemoryTypeOK
  <2>3. req'[t].at = "idle"
    BY <1>0, <1>2, <1>5 DEF Respond, TypeOK, RequestsTypeOK
  <2>4. FieldsOf(req[t])'
    BY <2>3 DEF FieldsOf
  <2> QED
    BY <1>0, <1>1, <1>3, <2>1, <2>2, <2>4, ActingAgrees DEF Acting
<1>6. CASE ~Reported(o)
  <2>1. projectDoc'[p] = projectDoc[p]
    BY <1>0, <1>2, <1>6, AppliedIsReported DEF updateProject
  <2>2. project'[p] = [project[p] EXCEPT !.attributes = req[t].old.attributes]
    BY <1>0, <1>1, <1>2, <1>6 DEF TypeOK, MemoryTypeOK
  <2>3. /\ project'[p] \in ProjectFields
        /\ project'[p].attributes = req[t].old.attributes
        /\ project'[p].defaultBranch = project[p].defaultBranch
    BY <1>0, <1>1, <2>2
  <2>4. CASE req[t].target = Null
    <3>1. project[p].defaultBranch = req[t].old.defaultBranch
      BY <1>0, <1>1, <2>4 DEF FieldsAgree
    <3>2. project'[p] = req[t].old
      BY <1>0, <1>1, <2>3, <3>1, RecordOfFields
    <3>3. req'[t].at = "idle"
      BY <1>0, <1>2, <2>4 DEF Respond, TypeOK, RequestsTypeOK
    <3>4. FieldsOf(req[t])'
      BY <3>3 DEF FieldsOf
    <3> QED
      BY <1>0, <1>1, <1>3, <1>4, <2>1, <3>2, <3>4, ActingAgrees DEF Acting
  <2>5. CASE req[t].target # Null
    <3>1. /\ req'[t].at = "restoreDefault" /\ req'[t].project = p
          /\ req'[t].old = req[t].old
      BY <1>0, <1>1, <1>2, <1>6, <2>5 DEF TypeOK, RequestsTypeOK
    <3>2. FieldsOf(req[t])'
      BY <1>4, <2>1, <2>3, <3>1 DEF FieldsOf
    <3>3. Rewriting(p)'
      BY <3>1 DEF Rewriting
    <3> QED
      BY <1>0, <1>1, <1>3, <3>2, <3>3, ActingAgrees DEF Acting
  <2> QED
    BY <2>4, <2>5
<1> QED
  BY <1>5, <1>6

LEMMA RestoringFields ==
  ASSUME TypeOK, FieldsAgree, NEW t \in Threads, ThreadStep(t), restoreDefaultBranch(t)
  PROVE  FieldsAgree'
<1>0. PICK p \in ProjectIds : p = req[t].project
  BY DEF WriteProject, restoreDefaultBranch, At, TypeOK, RequestsTypeOK, RequestOK
<1>1. /\ req[t].at = "restoreDefault" /\ p \in ProjectIds
      /\ project[p] \in ProjectFields /\ req[t].old \in ProjectFields
  BY <1>0 DEF restoreDefaultBranch, At, TypeOK, RequestsTypeOK, RequestOK, MemoryTypeOK
<1>2. /\ project' = [project EXCEPT ![p] = [@ EXCEPT !.defaultBranch = req[t].old.defaultBranch]]
      /\ projectDoc' = projectDoc /\ Respond(t)
  BY <1>0 DEF restoreDefaultBranch, PutBackDefault, dbVars
<1>3. /\ project'[p] = [project[p] EXCEPT !.defaultBranch = req[t].old.defaultBranch]
      /\ \A q \in ProjectIds \ {p} : project'[q] = project[q]
  BY <1>0, <1>1, <1>2 DEF TypeOK, MemoryTypeOK
<1>4. project[p].attributes = req[t].old.attributes
  BY <1>0, <1>1 DEF FieldsAgree
<1>5. /\ project'[p] \in ProjectFields
      /\ project'[p].attributes = req[t].old.attributes
      /\ project'[p].defaultBranch = req[t].old.defaultBranch
  BY <1>0, <1>1, <1>3, <1>4
<1>6. project'[p] = req[t].old
  BY <1>0, <1>1, <1>5, RecordOfFields
<1>7. projectDoc[p] = Null \/ projectDoc[p] = req[t].old
  BY <1>0, <1>1 DEF FieldsAgree
<1>8. req'[t].at = "idle"
  BY <1>0, <1>2 DEF Respond, TypeOK, RequestsTypeOK
<1>9. FieldsOf(req[t])'
  BY <1>8 DEF FieldsOf
<1> QED
  BY <1>0, <1>1, <1>2, <1>3, <1>6, <1>7, <1>9, ActingAgrees DEF Acting

LEMMA FieldsAgreeStep ==
  ASSUME Definite, TypeOK, GoneInv, FieldsAgree, NEW t \in Threads, ThreadStep(t)
  PROVE  FieldsAgree'
<1>1. CASE AddProjectDoc(t)
  <2>1. req[t].at = "addProject" /\ req[t].project \in ProjectIds /\ project' = project
        /\ Respond(t)
    BY <1>1 DEF AddProjectDoc, At, pvsVars, TypeOK, RequestsTypeOK, RequestOK
  <2>2. /\ \A q \in ProjectIds \ {req[t].project} : projectDoc'[q] = projectDoc[q]
        /\ projectDoc'[req[t].project] \in {projectDoc[req[t].project], project[req[t].project]}
    BY <1>1 DEF AddProjectDoc, addProject, TypeOK, DatabaseTypeOK
  <2>3. ~Rewriting(req[t].project)
    BY <1>1, <2>1, OneRewrites DEF Acting
  <2>4. req'[t].at = "idle"
    BY <2>1 DEF Respond, TypeOK, RequestsTypeOK
  <2>5. FieldsOf(req[t])'
    BY <2>4 DEF FieldsOf
  <2>6. projectDoc'[req[t].project] = Null \/ project'[req[t].project] = projectDoc'[req[t].project]
    BY <2>1, <2>2, <2>3 DEF FieldsAgree
  <2> QED
    BY <1>1, <2>1, <2>2, <2>5, <2>6, ActingAgrees DEF Acting
<1>2. CASE deleteProjectWithId(t)
  <2>1. req[t].at = "project" /\ req[t].project \in ProjectIds /\ project' = project
    BY <1>2 DEF deleteProjectWithId, deleteProject, At, pvsVars, TypeOK, RequestsTypeOK,
                RequestOK
  <2>2. /\ \A q \in ProjectIds \ {req[t].project} : projectDoc'[q] = projectDoc[q]
        /\ projectDoc'[req[t].project] \in {projectDoc[req[t].project], Null}
    BY <1>2 DEF deleteProjectWithId, deleteProject, deleteProjectDoc, TypeOK,
                DatabaseTypeOK
  <2>3. ~Rewriting(req[t].project)
    BY <1>2, <2>1, OneRewrites DEF Acting
  <2>4. req'[t].at \in {"forget", "idle"}
    BY <1>2 DEF deleteProjectWithId, deleteProject, Proceed, Respond, TypeOK,
                RequestsTypeOK
  <2>5. FieldsOf(req[t])'
    BY <2>4 DEF FieldsOf
  <2>6. projectDoc'[req[t].project] = Null \/ project'[req[t].project] = projectDoc'[req[t].project]
    BY <2>1, <2>2, <2>3 DEF FieldsAgree
  <2> QED
    BY <1>2, <2>1, <2>2, <2>5, <2>6, ActingAgrees DEF Acting
<1>3. CASE ~Acting(t)
  <2>1. project' = project /\ projectDoc' = projectDoc
    BY <1>3, Assigners DEF Acting
  <2>2. req[t].at \notin {"writeProject", "restoreDefault"}
    BY <1>3, StepsInside DEF Acting
  <2>3. PICK r : req' = [req EXCEPT ![t] = r] /\ Becomes(t, r)
    BY RequestBecomes
  <2>4. r.at \notin {"writeProject", "restoreDefault"}
    BY <1>3, <2>2, <2>3 DEF Becomes, Acting
  <2>5. req'[t] = r
    BY <2>3 DEF TypeOK, RequestsTypeOK
  <2>6. \A q : Rewriting(q) => Rewriting(q)'
    BY <2>2, OthersKeep DEF Rewriting
  <2>7. \A q \in ProjectIds :
          projectDoc'[q] = Null \/ Rewriting(q)' \/ project'[q] = projectDoc'[q]
    BY <2>1, <2>6 DEF FieldsAgree
  <2>8. \A u \in Threads : FieldsOf(req[u])'
    BY <2>1, <2>4, <2>5, OthersKeep DEF FieldsAgree, FieldsOf
  <2> QED
    BY <2>7, <2>8 DEF FieldsAgree, FieldsOf
<1> QED
  BY <1>1, <1>2, <1>3, CreatingFields, UpdatingFields, WritingFields, RestoringFields
  DEF Acting

LEMMA RestartFields ==
  ASSUME TypeOK, Restart
  PROVE  FieldsAgree'
<1>1. /\ projectDoc' = projectDoc
      /\ req' = [u \in Threads |-> IdleRequest]
      /\ project' = [p \in ProjectIds |->
                      IF p \in getAllProjects THEN projectDoc[p] ELSE project[p]]
  BY DEF Restart, LoadProjects, dbVars
<1> QED
  BY <1>1 DEF FieldsAgree, getAllProjects

-----------------------------------------------------------------------------
(* The names.  A new name is compared with those in memory, and these are  *)
(* those in the database too, because the lock is held.                    *)
BranchesOf(p) == branchMap[p] \cup BranchesInDatabase(p)
TagsOf(p) == tagMap[p] \cup TagsInDatabase(p)

(* The branches of a project stay the same, or some go, but for the one a  *)
(* thread creates.                                                         *)
LEMMA BranchesOfGrow ==
  ASSUME TypeOK, HistoryInv, BelongInv, ProjectsKnown, VersionsAgree,
         NEW t \in Threads, ThreadStep(t), NEW p \in projectMap', NEW b \in BranchesOf(p)',
         b \notin BranchesOf(p) \/ p \notin projectMap
  PROVE  \/ \E n \in Names : /\ postBranch(t, b, n) /\ p = req[t].project
                             /\ branchOf'[b].name = n /\ p \in projectMap
         \/ \E a \in Attributes : postProject(t, p, b, a)
<1>1. p \in ProjectIds /\ b \in BranchIds
  BY StepTypeOK DEF TypeOK, MemoryTypeOK, DatabaseTypeOK, BranchesOf, BranchesInDatabase
<1>2. CASE Creating(t)
  <2>1. PICK q \in ProjectIds, x \in BranchIds, a \in Attributes : postProject(t, q, x, a)
    BY <1>2 DEF Creating
  <2>2. FreshBranch(x) /\ project[q] = Null /\ projectMap' = projectMap \cup {q}
    BY <2>1, CreatingDoes
  <2>3. branchDocs' \subseteq branchDocs \cup {x}
    BY <2>1, CreatingDoes
  <2>4. branchMap'[q] \subseteq {x} /\ (p # q => branchMap'[p] = branchMap[p])
    BY <1>1, <2>1, CreatingDoes
  <2>5. branchOf'[x].project = q /\ \A y \in BranchIds \ {x} : branchOf'[y] = branchOf[y]
    BY <2>1, CreatingDoes DEF TypeOK, DatabaseTypeOK
  <2>6. CASE p # q
    <3>1. b \in branchMap[p] \/ (b \in branchDocs' /\ branchOf'[b].project = p)
      BY <2>4, <2>6 DEF BranchesOf, BranchesInDatabase
    <3>2. b # x \/ b \in branchMap[p]
      BY <2>5, <2>6, <3>1
    <3>3. b \in BranchesOf(p)
      BY <1>1, <2>3, <2>5, <3>1, <3>2 DEF BranchesOf, BranchesInDatabase
    <3> QED
      BY <2>2, <2>6, <3>3
  <2>7. CASE p = q /\ b # x
    <3>1. b \in branchDocs /\ branchOf[b].project = q
      BY <1>1, <2>3, <2>4, <2>5, <2>7 DEF BranchesOf, BranchesInDatabase
    <3> QED
      BY <1>1, <2>2, <3>1 DEF ProjectsKnown, HistoryInv, FreshBlank
  <2>8. CASE p = q /\ b = x
    BY <2>1, <2>8
  <2> QED
    BY <2>6, <2>7, <2>8
<1>3. CASE ~Creating(t)
  <2>1. p \in projectMap
    BY <1>3, ProjectMapOnlyGrowsByCreating
  <2>2. b \notin branchMap[p] /\ b \notin BranchesInDatabase(p)
    BY <2>1 DEF BranchesOf
  <2>3. ASSUME b \in branchMap'[p]
        PROVE  FALSE
    <3>1. PushBranch(t) /\ p = req[t].project /\ b = req[t].target
      BY <1>1, <1>3, <2>2, <2>3, MapsGrow DEF Creating
    <3>2. req[t].at = "pushBranch"
      BY <3>1 DEF PushBranch, At
    <3>3. b \in branchDocs /\ branchOf[b].project = p
      BY <3>1, <3>2 DEF VersionsAgree, ChangesAgree, BelongInv, RequestsBelong
    <3> QED
      BY <2>2, <3>3 DEF BranchesInDatabase
  <2>4. b \in branchDocs' /\ branchOf'[b].project = p
    BY <2>3 DEF BranchesOf, BranchesInDatabase
  <2>5. CASE Branching(t)
    <3>1. PICK x \in BranchIds, n \in Names : postBranch(t, x, n)
      BY <2>5 DEF Branching
    <3>2. \A y \in BranchIds \ {x} : branchOf'[y] = branchOf[y]
      BY <3>1, BranchingDoes
    <3>3. \/ UNCHANGED <<branchOf, branchDocs>>
          \/ /\ branchOf'[x] = [project |-> req[t].project, name |-> n]
             /\ branchDocs' = branchDocs \cup {x}
      BY <3>1, BranchingDoes
    <3>4. b = x /\ branchOf'[x] = [project |-> req[t].project, name |-> n]
      BY <1>1, <2>2, <2>4, <3>2, <3>3 DEF BranchesInDatabase
    <3> QED
      BY <2>1, <2>4, <3>1, <3>4
  <2>6. CASE ~Branching(t)
    <3>1. branchOf' = branchOf /\ branchDocs' \subseteq branchDocs
      BY <1>3, <2>6, Assigners DEF DeletingBranch, deleteBranchRequest, deleteBranch,
                                   deleteBranchDoc
    <3> QED
      BY <2>2, <2>4, <3>1 DEF BranchesInDatabase
  <2> QED
    BY <2>5, <2>6
<1> QED
  BY <1>2, <1>3

LEMMA NamesOfBranchesKept ==
  ASSUME TypeOK, HistoryInv, BelongInv, NEW t \in Threads, ThreadStep(t),
         NEW p \in ProjectIds, NEW b \in BranchesOf(p)
  PROVE  branchOf'[b] = branchOf[b] /\ ~FreshBranch(b)
<1>1. b \in BranchIds /\ branchOf[b].project = p
  BY DEF BranchesOf, BranchesInDatabase, BelongInv, MapsBelong, TypeOK, DatabaseTypeOK,
         MemoryTypeOK
<1> QED
  BY <1>1, Stable DEF FreshBranch

LEMMA BranchNamesStep ==
  ASSUME TypeOK, HistoryInv, BelongInv, ProjectsKnown, VersionsAgree, NamesDiffer,
         NEW t \in Threads, ThreadStep(t), NEW p \in projectMap',
         NEW b1 \in BranchesOf(p)', NEW b2 \in BranchesOf(p)', b1 # b2
  PROVE  branchOf'[b1].name # branchOf'[b2].name
<1>1. p \in ProjectIds
  BY StepTypeOK DEF TypeOK, MemoryTypeOK
<1>2. ASSUME NEW b \in BranchesOf(p)', NEW x \in BranchesOf(p)', b # x,
             NEW n \in Names, postBranch(t, b, n), branchOf'[b].name = n,
             p = req[t].project, p \in projectMap
      PROVE  branchOf'[x].name # n
  <2>1. x \in BranchesOf(p)
    <3>1. b \in BranchIds /\ x \in BranchIds
      BY StepTypeOK DEF TypeOK, MemoryTypeOK, DatabaseTypeOK, BranchesOf, BranchesInDatabase
    <3>2. \A y \in BranchIds \ {b} : branchOf'[y] = branchOf[y]
      BY <1>2, <3>1, BranchingDoes
    <3>3. branchMap' = branchMap /\ branchDocs' \subseteq branchDocs \cup {b}
      BY <1>2 DEF postBranch, createBranch, addBranch
    <3> QED
      BY <1>2, <3>1, <3>2, <3>3 DEF BranchesOf, BranchesInDatabase
  <2>2. PvsFree /\ \A y \in branchMap[p] : branchOf[y].name # n
    BY <1>2 DEF postBranch, createBranch, BranchNameTaken
  <2>3. x \in BranchIds
    BY <1>1, <2>1 DEF BranchesOf, BranchesInDatabase, TypeOK, MemoryTypeOK, DatabaseTypeOK
  <2>4. x \in branchMap[p]
    BY <1>2, <2>1, <2>2, <2>3, NobodyChanges DEF BranchesOf, VersionsAgree, MapsAgree
  <2> QED
    BY <1>1, <2>1, <2>2, <2>4, NamesOfBranchesKept
<1>3. ASSUME NEW b \in BranchesOf(p)', NEW x \in BranchesOf(p)', b # x,
             NEW a \in Attributes, postProject(t, p, b, a)
      PROVE  FALSE
  <2>1. b \in BranchIds /\ x \in BranchIds
    BY StepTypeOK DEF TypeOK, MemoryTypeOK, DatabaseTypeOK, BranchesOf, BranchesInDatabase
  <2>2. project[p] = Null /\ branchMap'[p] \subseteq {b}
    BY <1>1, <1>3, <2>1, CreatingDoes
  <2>3. branchDocs' \subseteq branchDocs \cup {b}
    BY <1>1, <1>3, <2>1, CreatingDoes
  <2>4. branchOf' = [branchOf EXCEPT ![b] = [project |-> p, name |-> MainName]]
    BY <1>1, <1>3, <2>1, CreatingDoes
  <2>5. branchOf'[x] = branchOf[x]
    BY <1>3, <2>1, <2>4 DEF TypeOK, DatabaseTypeOK
  <2>6. x \in branchDocs /\ branchOf[x].project = p
    BY <1>3, <2>2, <2>3, <2>5 DEF BranchesOf, BranchesInDatabase
  <2> QED
    BY <2>1, <2>2, <2>6 DEF ProjectsKnown, HistoryInv, FreshBlank
<1>4. CASE p \in projectMap /\ b1 \in BranchesOf(p) /\ b2 \in BranchesOf(p)
  BY <1>1, <1>4, NamesOfBranchesKept DEF NamesDiffer, DifferentNames, BranchesOf
<1> QED
  BY <1>2, <1>3, <1>4, BranchesOfGrow

LEMMA TagNamesStep ==
  ASSUME TypeOK, BelongInv, ProjectsKnown, VersionsAgree, NamesDiffer,
         NEW t \in Threads, ThreadStep(t), NEW p \in projectMap',
         NEW g1 \in TagsOf(p)', NEW g2 \in TagsOf(p)', g1 # g2
  PROVE  tagOf'[g1].name # tagOf'[g2].name
<1>1. p \in ProjectIds /\ g1 \in TagIds /\ g2 \in TagIds
  BY StepTypeOK DEF TypeOK, MemoryTypeOK, DatabaseTypeOK, TagsOf, TagsInDatabase
<1>2. \A g \in TagsOf(p) : g \in TagIds /\ tagOf[g].project = p /\ ~FreshTag(g)
  BY <1>1 DEF TagsOf, TagsInDatabase, BelongInv, MapsBelong, TypeOK, DatabaseTypeOK,
              MemoryTypeOK, FreshTag
<1>3. \A g \in TagsOf(p) : tagOf'[g] = tagOf[g]
  BY <1>2, Stable
<1>4. CASE Tagging(t)
  <2>1. PICK x \in TagIds, n \in Names : postTag(t, x, n)
    BY <1>4 DEF Tagging
  <2>2. /\ PvsFree /\ \A y \in tagMap[req[t].project] : tagOf[y].name # n
        /\ tagMap' = tagMap /\ req[t].at = "commit"
    BY <2>1 DEF postTag, createTag, TagNameTaken, pvsVars, At
  <2>3. \A y \in TagIds \ {x} : tagOf'[y] = tagOf[y]
    BY <2>1, TaggingDoes
  <2>4. \/ UNCHANGED <<tagOf, tagDocs>>
        \/ /\ tagOf'[x] = [project |-> req[t].project, name |-> n,
                           commit |-> req[t].commit]
           /\ tagDocs' = tagDocs \cup {x}
    BY <2>1, TaggingDoes
  <2>5. FreshTag(x) /\ x \notin TagsOf(p)
    BY <1>2, <2>1, TaggingDoes
  <2>6. p \in projectMap
    BY <2>2, ProjectMapOnlyGrowsByCreating DEF Creating, postProject, At
  <2>7. TagsOf(p) = tagMap[p]
    BY <1>1, <1>2, <2>2, <2>6, NobodyChanges DEF TagsOf, TagsInDatabase, VersionsAgree, MapsAgree
  <2>8. ASSUME NEW g \in TagsOf(p)', g # x
        PROVE  g \in TagsOf(p)
    <3>1. g \in TagIds
      BY <1>1, StepTypeOK DEF TypeOK, MemoryTypeOK, DatabaseTypeOK, TagsOf, TagsInDatabase
    <3> QED
      BY <2>2, <2>3, <2>4, <2>8, <3>1 DEF TagsOf, TagsInDatabase
  <2>9. ASSUME x \in TagsOf(p)'
        PROVE  p = req[t].project /\ tagOf'[x].name = n
    BY <2>2, <2>4, <2>5, <2>9 DEF TagsOf, TagsInDatabase
  <2>10. ASSUME NEW g \in TagsOf(p)', g # x, x \in TagsOf(p)'
         PROVE  tagOf'[g].name # tagOf'[x].name
    BY <1>3, <2>2, <2>7, <2>8, <2>9, <2>10
  <2>11. CASE g1 # x /\ g2 # x
    BY <1>3, <2>6, <2>8, <2>11 DEF NamesDiffer, DifferentNames, TagsOf
  <2> QED
    BY <2>10, <2>11
<1>5. CASE ~Tagging(t)
  <2>1. tagOf' = tagOf /\ tagDocs' \subseteq tagDocs
    BY <1>5, Assigners DEF DeletingTag, deleteTagRequest, deleteTag, deleteTagDoc
  <2>2. \A g \in tagMap'[p] \ tagMap[p] : g \in tagDocs /\ tagOf[g].project = p
    <3> SUFFICES ASSUME NEW g \in tagMap'[p] \ tagMap[p]
                 PROVE  g \in tagDocs /\ tagOf[g].project = p
      OBVIOUS
    <3>1. PushTag(t) /\ p = req[t].project /\ g = req[t].target
      BY <1>1, MapsGrow
    <3> QED
      BY <3>1 DEF PushTag, At, VersionsAgree, ChangesAgree, BelongInv, RequestsBelong
  <2>3. TagsOf(p)' \subseteq TagsOf(p)
    BY <2>1, <2>2 DEF TagsOf, TagsInDatabase
  <2>4. CASE p \in projectMap
    BY <2>1, <2>3, <2>4 DEF NamesDiffer, DifferentNames, TagsOf
  <2>5. CASE p \notin projectMap
    <3>1. project[p] = Null
      BY <2>5, ProjectMapGrows
    <3> QED
      BY <1>2, <2>3, <3>1 DEF BelongInv, TagsBelong
  <2> QED
    BY <2>4, <2>5
<1> QED
  BY <1>4, <1>5

LEMMA NamesDifferStep ==
  ASSUME TypeOK, HistoryInv, BelongInv, ProjectsKnown, VersionsAgree, NamesDiffer,
         NEW t \in Threads, ThreadStep(t)
  PROVE  NamesDiffer'
  BY BranchNamesStep, TagNamesStep DEF NamesDiffer, DifferentNames, BranchesOf, TagsOf

LEMMA RestartNames ==
  ASSUME TypeOK, DocumentsFound, NamesDiffer, Restart
  PROVE  NamesDiffer'
<1>1. /\ UNCHANGED <<objVars, dbVars>>
      /\ branchMap' = getAllBranches /\ tagMap' = getAllTags /\ projectMap' = getAllProjects
  BY DEF Restart, LoadVersioning, LoadProjects
<1>2. ASSUME NEW p \in getAllProjects
      PROVE  /\ p \in projectMap
             /\ \A b \in (branchMap[p] \cup BranchesInDatabase(p))' : b \in BranchesInDatabase(p)
             /\ \A g \in (tagMap[p] \cup TagsInDatabase(p))' : g \in TagsInDatabase(p)
  BY <1>1, <1>2 DEF getAllProjects, getAllBranches, getAllTags, BranchesInDatabase,
                    TagsInDatabase, objVars, dbVars, DocumentsFound
<1> QED
  BY <1>1, <1>2 DEF NamesDiffer, DifferentNames, objVars

-----------------------------------------------------------------------------
AgreementInv ==
  ProjectsKnown /\ DocumentsFound /\ VersionsAgree /\ FieldsAgree /\ NamesDiffer

LEMMA AgreementInvariant ==
  ASSUME Definite
  PROVE  Spec => []AgreementInv
<1>1. Init => AgreementInv
  BY DEF Init, InitDatabase, InitRequests, InitVersioning, InitProjects, AgreementInv,
         ProjectsKnown, DocumentsFound, VersionsAgree, MapsAgree, HeadsAgree,
         ChangesAgree, FieldsAgree, NamesDiffer, FreshBranch
<1>2. TypeOK /\ ClosedInv /\ HistoryInv /\ BelongInv /\ LiveInv /\ GoneInv /\ AgreementInv
        /\ [Next]_vars => AgreementInv'
  <2> SUFFICES ASSUME TypeOK, ClosedInv, HistoryInv, BelongInv, LiveInv, GoneInv,
                      AgreementInv, [Next]_vars
               PROVE  AgreementInv'
    OBVIOUS
  <2>1. CASE UNCHANGED vars
    BY <2>1
    DEF vars, objVars, dbVars, pvsVars, reqVars, AgreementInv, ProjectsKnown,
        DocumentsFound, VersionsAgree, MapsAgree, HeadsAgree, ChangesAgree, FieldsAgree,
        NamesDiffer, FreshBranch, Changing, Adding, Rewriting, DifferentNames,
        BranchesInDatabase, CommitsInDatabase, TagsInDatabase
  <2>2. ASSUME NEW t \in Threads, ThreadStep(t)
        PROVE  AgreementInv'
    BY <2>2, ProjectsKnownStep, DocumentsFoundStep, VersionsAgreeStep, FieldsAgreeStep,
       NamesDifferStep DEF AgreementInv
  <2>3. CASE Restart
    BY <2>3, RestartVersionsAgree, RestartFields, RestartNames DEF AgreementInv
  <2> QED
    BY <2>1, <2>2, <2>3 DEF Next
<1> QED
  BY <1>1, <1>2, TypeCorrect, ClosedInvariant, HistoryInvariant, BelongInvariant,
     LiveInvariant, GoneInvariant, PTL DEF Spec

(* As long as a write the driver throws for has had no effect: whenever no *)
(* writer is inside a service, memory is what the database holds, for      *)
(* every project whose creation reached the database, its branches, their  *)
(* heads, its commits and its tags.  A refused write is rolled back, and   *)
(* requests that overlap do not mix their changes up.                      *)
THEOREM MemoryAgrees ==
  ASSUME Definite
  PROVE  Spec => []MemoryFollowsDatabase
<1>1. TypeOK /\ AgreementInv => MemoryFollowsDatabase
  <2> SUFFICES ASSUME TypeOK, AgreementInv, NEW p \in projectMap, projectDoc[p] # Null
               PROVE  /\ SpsFree => ProjectFollows(p)
                      /\ PvsFree => VersionsFollow(p)
    BY DEF MemoryFollowsDatabase
  <2>0. p \in ProjectIds
    BY DEF TypeOK, MemoryTypeOK
  <2>1. ASSUME SpsFree
        PROVE  ProjectFollows(p)
    <3>1. ~Rewriting(p)
      BY <2>1 DEF Rewriting, SpsFree, TypeOK, LocksOK
    <3> QED
      BY <2>0, <3>1 DEF AgreementInv, FieldsAgree, ProjectFollows
  <2>2. ASSUME PvsFree
        PROVE  VersionsFollow(p)
    <3>1. \A x : ~Changing(x) /\ ~Adding(x)
      BY <2>2, NobodyChanges
    <3>2. branchMap[p] = BranchesInDatabase(p)
      BY <2>0, <3>1 DEF AgreementInv, VersionsAgree, MapsAgree, BranchesInDatabase,
                        TypeOK, MemoryTypeOK, DatabaseTypeOK
    <3>3. commitMap[p] = CommitsInDatabase(p)
      BY <2>0, <3>1 DEF AgreementInv, VersionsAgree, MapsAgree, CommitsInDatabase,
                        TypeOK, MemoryTypeOK, DatabaseTypeOK
    <3>4. tagMap[p] = TagsInDatabase(p)
      BY <2>0, <3>1 DEF AgreementInv, VersionsAgree, MapsAgree, TagsInDatabase,
                        TypeOK, MemoryTypeOK, DatabaseTypeOK
    <3>5. \A b \in branchMap[p] : head[b] = docHead[b]
      BY <3>2 DEF AgreementInv, VersionsAgree, HeadsAgree, BranchesInDatabase
    <3> QED
      BY <2>0, <3>2, <3>3, <3>4, <3>5
      DEF VersionsFollow, getAllBranches, getAllCommits, getAllTags,
          BranchesInDatabase, CommitsInDatabase, TagsInDatabase
  <2> QED
    BY <2>1, <2>2
<1> QED
  BY <1>1, TypeCorrect, AgreementInvariant, PTL

(* Under the same hypothesis the branches of a project have different      *)
(* names, and so have its tags: of two requests that create the same name  *)
(* at once, one is refused, and a restart brings no second one back.       *)
THEOREM NamesUnique ==
  ASSUME Definite
  PROVE  Spec => []UniqueNames
<1>1. AgreementInv => UniqueNames
  BY DEF AgreementInv, NamesDiffer, DifferentNames, UniqueNames
<1> QED
  BY <1>1, AgreementInvariant, PTL

(* The same for the server with its queries and digital twins.             *)
THEOREM ServicesAgree ==
  ASSUME Definite
  PROVE  SpecServices => [](MemoryFollowsDatabase /\ UniqueNames)
  BY ServicesImplementModel, MemoryAgrees, NamesUnique, PTL

-----------------------------------------------------------------------------
(* The default branch of a project that has a document, or is about to get *)
(* it, is among its branches, and no thread is deleting it.                *)
Known(p) ==
  projectDoc[p] # Null \/ \E t \in Threads : req[t].at = "addProject" /\ req[t].project = p
DefaultKept(p) ==
  /\ project[p].defaultBranch \in branchMap[p]
  /\ \A t \in Threads : req[t].at = "eraseBranch" /\ req[t].project = p =>
                          req[t].target # project[p].defaultBranch
DefaultInv == \A p \in projectMap : Known(p) => DefaultKept(p)

(* Which steps make a project known. *)
LEMMA KnownStep ==
  ASSUME TypeOK, DocumentsFound, NEW t \in Threads, ThreadStep(t),
         NEW p \in projectMap', Known(p)'
  PROVE  \/ p \in projectMap /\ Known(p)
         \/ /\ p \in ProjectIds /\ req'[t].at = "addProject"
            /\ \E b \in BranchIds, a \in Attributes : postProject(t, p, b, a)
<1>0. p \in ProjectIds
  BY StepTypeOK DEF TypeOK, MemoryTypeOK
<1>1. CASE projectDoc[p] # Null
  BY <1>0, <1>1 DEF Known, DocumentsFound
<1>2. CASE projectDoc[p] = Null /\ projectDoc'[p] # Null
  <2>1. ~WriteProject(t) /\ ~deleteProjectWithId(t)
    BY <1>0, <1>2 DEF WriteProject, updateProject, deleteProjectWithId, deleteProject,
                      deleteProjectDoc, TypeOK, DatabaseTypeOK
  <2>2. AddProjectDoc(t)
    BY <1>2, <2>1, Assigners
  <2>3. p = req[t].project /\ req[t].at = "addProject"
    BY <1>0, <1>2, <2>2 DEF AddProjectDoc, addProject, At, TypeOK, DatabaseTypeOK
  <2> QED
    BY <2>3 DEF Known, DocumentsFound
<1>3. ASSUME NEW u \in Threads, req'[u].at = "addProject", req'[u].project = p, u # t
      PROVE  p \in projectMap /\ Known(p)
  BY <1>3, OthersKeep DEF Known, DocumentsFound
<1>4. ASSUME req'[t].at = "addProject", req'[t].project = p
      PROVE  \E b \in BranchIds, a \in Attributes : postProject(t, p, b, a)
  <2>1. PICK r : req' = [req EXCEPT ![t] = r] /\ Becomes(t, r)
    BY RequestBecomes
  <2>2. req'[t] = r
    BY <2>1 DEF TypeOK, RequestsTypeOK
  <2> QED
    BY <1>4, <2>1, <2>2 DEF Becomes
<1> QED
  BY <1>0, <1>1, <1>2, <1>3, <1>4 DEF Known

(* A new project has the branch it was created with. *)
LEMMA NewDefault ==
  ASSUME TypeOK, DocumentsFound, NEW t \in Threads, ThreadStep(t), NEW p \in ProjectIds,
         NEW b \in BranchIds, NEW a \in Attributes, postProject(t, p, b, a),
         req'[t].at = "addProject"
  PROVE  /\ DefaultKept(p)' /\ project'[p].defaultBranch = b
         /\ b \in branchDocs' /\ branchOf'[b].project = p
         /\ projectDoc'[p] = Null
<1>1. PICK o \in DbOutcomes : /\ addBranchFromProject(p, b, o)
                              /\ Reported(o) \/ Respond(t)
  BY DEF postProject, createProject, Respond
<1>2. Reported(o)
  BY <1>1 DEF Respond, TypeOK, RequestsTypeOK
<1>3. branchMap'[p] = {b} /\ b \in branchDocs'
  BY <1>1, <1>2 DEF addBranchFromProject, addBranch, Reported, Applied, TypeOK, MemoryTypeOK
<1>4. project[p] = Null /\ project'[p].defaultBranch = b /\ branchOf'[b].project = p
  BY CreatingDoes DEF TypeOK, MemoryTypeOK, DatabaseTypeOK
<1>5. \A u \in Threads : req'[u].at # "eraseBranch" \/ req'[u].project # p
  <2> SUFFICES ASSUME NEW u \in Threads, u # t, req[u].at = "eraseBranch"
               PROVE  req[u].project # p
    BY OthersKeep
  <2> QED
    BY <1>4 DEF TypeOK, RequestsTypeOK
<1>6. projectDoc' = projectDoc /\ projectDoc[p] = Null
  <2>1. projectDoc' = projectDoc
    BY DEF postProject, createProject
  <2>2. p \notin projectMap
    BY <1>4 DEF TypeOK, MemoryTypeOK
  <2> QED
    BY <2>1, <2>2 DEF DocumentsFound
<1> QED
  BY <1>3, <1>4, <1>5, <1>6 DEF DefaultKept

(* No step takes the default branch away, but an update may choose another *)
(* one, and putting back the old one after a failed write is left out.     *)
LEMMA DefaultStays ==
  ASSUME TypeOK, NEW t \in Threads, ThreadStep(t), ~restoreDefaultBranch(t),
         NEW p \in projectMap
  PROVE  \/ project'[p].defaultBranch = project[p].defaultBranch
         \/ /\ "updateProject" \in Operations /\ PvsFree
            /\ project'[p].defaultBranch \in branchMap[p]
            /\ branchMap' = branchMap /\ req'[t].at = "writeProject"
<1>0. p \in ProjectIds /\ project[p] \in ProjectFields /\ project[p] # Null
  BY DEF TypeOK, MemoryTypeOK
<1>1. CASE Creating(t)
  <2>1. PICK q \in ProjectIds : /\ project[q] = Null
                                /\ \E f : project' = [project EXCEPT ![q] = f]
    BY <1>1, CreatingDoes DEF Creating
  <2> QED
    BY <1>0, <2>1 DEF TypeOK, MemoryTypeOK
<1>2. CASE WriteProject(t)
  <2>1. PICK o \in DbOutcomes :
          project' = [project EXCEPT ![req[t].project] =
            IF Reported(o) THEN @
            ELSE [project[req[t].project] EXCEPT !.attributes = req[t].old.attributes]]
    BY <1>2 DEF WriteProject
  <2> QED
    BY <1>0, <2>1 DEF TypeOK, MemoryTypeOK
<1>3. CASE Updating(t)
  <2>1. ASSUME NEW b, NEW fields, ChangeInMemory(t, b, fields),
               \/ fields.defaultBranch = project[req[t].project].defaultBranch
               \/ /\ "updateProject" \in Operations
                  /\ PvsFree /\ fields.defaultBranch \in branchMap[req[t].project]
        PROVE  \/ project'[p].defaultBranch = project[p].defaultBranch
               \/ /\ "updateProject" \in Operations /\ PvsFree
                  /\ project'[p].defaultBranch \in branchMap[p]
                  /\ branchMap' = branchMap /\ req'[t].at = "writeProject"
    <3>1. /\ project' = [project EXCEPT ![req[t].project] = fields]
          /\ branchMap' = branchMap
          /\ req' = [req EXCEPT ![t] = [at |-> "writeProject", project |-> req[t].project,
                       commit |-> Null, target |-> b, old |-> project[req[t].project]]]
      BY <2>1 DEF ChangeInMemory
    <3>2. req'[t].at = "writeProject"
      BY <3>1 DEF TypeOK, RequestsTypeOK
    <3> QED
      BY <1>0, <2>1, <3>1, <3>2 DEF TypeOK, MemoryTypeOK
  <2>2. req[t].at = "project" /\ project[req[t].project] \in ProjectFields
    BY <1>3 DEF Updating, putProject, changeOwner, At, TypeOK, RequestsTypeOK, RequestOK,
                MemoryTypeOK
  <2>3. ASSUME NEW a \in Attributes,
               ChangeInMemory(t, Null, [project[req[t].project] EXCEPT !.attributes = a])
        PROVE  \/ project'[p].defaultBranch = project[p].defaultBranch
               \/ /\ "updateProject" \in Operations /\ PvsFree
                  /\ project'[p].defaultBranch \in branchMap[p]
                  /\ branchMap' = branchMap /\ req'[t].at = "writeProject"
    BY <2>1, <2>2, <2>3
  <2>4. ASSUME NEW b, NEW a \in Attributes, "updateProject" \in Operations,
               replaceDefaultBranch(req[t].project, b),
               ChangeInMemory(t, b, [defaultBranch |-> b, attributes |-> a])
        PROVE  \/ project'[p].defaultBranch = project[p].defaultBranch
               \/ /\ "updateProject" \in Operations /\ PvsFree
                  /\ project'[p].defaultBranch \in branchMap[p]
                  /\ branchMap' = branchMap /\ req'[t].at = "writeProject"
    BY <2>1, <2>4 DEF replaceDefaultBranch, storedBranch
  <2> QED
    BY <1>3, <2>3, <2>4 DEF Updating, putProject, changeProject, changeOwner, changeOwnership
<1>4. CASE project' = project
  BY <1>4
<1> QED
  BY <1>1, <1>2, <1>3, <1>4, Assigners

LEMMA DefaultKeptStep ==
  ASSUME TypeOK, LiveInv, NEW t \in Threads, ThreadStep(t), ~restoreDefaultBranch(t),
         NEW p \in projectMap, DefaultKept(p)
  PROVE  DefaultKept(p)'
<1>0. p \in ProjectIds /\ project[p] # Null
  BY DEF TypeOK, MemoryTypeOK
<1>1. PICK r : req' = [req EXCEPT ![t] = r] /\ Becomes(t, r)
  BY RequestBecomes
<1>2. req'[t] = r
  BY <1>1 DEF TypeOK, RequestsTypeOK
<1>3. CASE /\ PvsFree /\ project'[p].defaultBranch \in branchMap[p]
           /\ branchMap' = branchMap /\ req'[t].at = "writeProject"
  <2>1. \A u \in Threads : req'[u].at # "eraseBranch"
    BY <1>3, OthersKeep DEF PvsFree, TypeOK, LocksOK
  <2> QED
    BY <1>3, <2>1 DEF DefaultKept
<1>4. CASE project'[p].defaultBranch = project[p].defaultBranch
  <2> DEFINE d == project[p].defaultBranch
  <2>1. d \in branchMap'[p]
    <3>1. CASE PushBranch(t)
      BY <1>0, <3>1 DEF PushBranch, DefaultKept, TypeOK, MemoryTypeOK
    <3>2. CASE EraseBranch(t)
      BY <1>0, <3>2 DEF EraseBranch, At, DefaultKept, TypeOK, MemoryTypeOK
    <3>3. CASE Creating(t)
      BY <1>0, <3>3, CreatingDoes DEF Creating, DefaultKept
    <3>4. CASE ForgetProject(t)
      BY <3>4, ForgettingKeeps DEF DefaultKept
    <3> QED
      BY <3>1, <3>2, <3>3, <3>4, Assigners DEF DefaultKept
  <2>2. ASSUME NEW u \in Threads, req'[u].at = "eraseBranch", req'[u].project = p
        PROVE  req'[u].target # d
    <3>1. CASE u # t
      BY <2>2, <3>1, OthersKeep DEF DefaultKept
    <3>2. CASE u = t
      <4>1. deleteBranchRequest(t, r.target) /\ r.project = req[t].project
        BY <1>1, <1>2, <2>2, <3>2 DEF Becomes
      <4> QED
        BY <1>2, <2>2, <3>2, <4>1 DEF deleteBranchRequest, deleteBranch, IsDefaultBranch
    <3> QED
      BY <3>1, <3>2
  <2> QED
    BY <1>4, <2>1, <2>2 DEF DefaultKept
<1> QED
  BY <1>3, <1>4, DefaultStays

LEMMA DefaultStep ==
  ASSUME TypeOK, LiveInv, DocumentsFound, DefaultInv, NEW t \in Threads, ThreadStep(t),
         ~restoreDefaultBranch(t)
  PROVE  DefaultInv'
<1> SUFFICES ASSUME NEW p \in projectMap', Known(p)'
             PROVE  DefaultKept(p)'
  BY DEF DefaultInv
<1> QED
  BY KnownStep, NewDefault, DefaultKeptStep DEF DefaultInv

LEMMA DocumentsFoundInvariant == Spec => []DocumentsFound
<1>1. Init => DocumentsFound
  BY DEF Init, InitDatabase, InitRequests, DocumentsFound
<1>2. TypeOK /\ DocumentsFound /\ [Next]_vars => DocumentsFound'
  <2> SUFFICES ASSUME TypeOK, DocumentsFound, [Next]_vars
               PROVE  DocumentsFound'
    OBVIOUS
  <2>1. CASE UNCHANGED vars
    BY <2>1 DEF vars, dbVars, reqVars, DocumentsFound
  <2>2. CASE Restart
    BY <2>2 DEF Restart, LoadProjects, getAllProjects, dbVars, DocumentsFound
  <2> QED
    BY <2>1, <2>2, DocumentsFoundStep DEF Next
<1> QED
  BY <1>1, <1>2, TypeCorrect, PTL DEF Spec

LEMMA KeptIsStored == DocumentsFound /\ DefaultInv => DefaultBranchStored
  BY DEF DefaultInv, DefaultKept, Known, DefaultBranchStored

(* While writes succeed and the process lives, the default branch of a     *)
(* project is one of its branches, however updates, deletions of branches  *)
(* and deletions of projects overlap: a branch that is being deleted is    *)
(* not made the default, and the default is not deleted.                   *)
THEOREM DefaultIsStored ==
  ASSUME DbOutcomes = {"ok"}, MaxRestarts = 0
  PROVE  Spec => []DefaultBranchStored
<1> DEFINE NothingPutBack == \A t \in Threads : req[t].at # "restoreDefault"
<1>1. Init => NothingPutBack /\ DefaultInv
  BY DEF Init, InitProjects, InitRequests, DefaultInv
<1>2. TypeOK /\ LiveInv /\ DocumentsFound /\ NothingPutBack /\ DefaultInv /\ [Next]_vars
        => NothingPutBack' /\ DefaultInv'
  <2> SUFFICES ASSUME TypeOK, LiveInv, DocumentsFound, NothingPutBack, DefaultInv,
                      [Next]_vars
               PROVE  NothingPutBack' /\ DefaultInv'
    OBVIOUS
  <2>1. CASE UNCHANGED vars
    BY <2>1 DEF vars, dbVars, pvsVars, reqVars, DefaultInv, DefaultKept, Known
  <2>2. ~Restart
    BY DEF Restart, TypeOK, RequestsTypeOK
  <2>3. ASSUME NEW t \in Threads, ThreadStep(t)
        PROVE  NothingPutBack' /\ DefaultInv'
    <3>1. PICK r : req' = [req EXCEPT ![t] = r] /\ Becomes(t, r)
      BY <2>3, RequestBecomes
    <3>2. req'[t] = r
      BY <3>1 DEF TypeOK, RequestsTypeOK
    <3>3. WriteProject(t) => req'[t].at = "idle"
      BY DEF WriteProject, Reported, Respond, TypeOK, RequestsTypeOK
    <3>4. r.at # "restoreDefault"
      BY <3>1, <3>2, <3>3 DEF Becomes
    <3>5. ~restoreDefaultBranch(t)
      BY DEF restoreDefaultBranch, At
    <3> QED
      BY <2>3, <3>2, <3>4, <3>5, OthersKeep, DefaultStep
  <2> QED
    BY <2>1, <2>2, <2>3 DEF Next
<1> HIDE DEF NothingPutBack
<1> QED
  BY <1>1, <1>2, TypeCorrect, LiveInvariant, DocumentsFoundInvariant, KeptIsStored, PTL
  DEF Spec

-----------------------------------------------------------------------------
(* Without updates of projects, nothing changes a default branch, in       *)
(* memory or in the documents.                                             *)
OnlyOwners ==
  \A t \in Threads : /\ req[t].at # "restoreDefault"
                     /\ req[t].at = "writeProject" => req[t].target = Null
DefaultFixed(p) ==
  LET d == project[p].defaultBranch
  IN  /\ d \in branchDocs /\ branchOf[d].project = p
      /\ projectDoc[p] # Null => projectDoc[p].defaultBranch = d
FixedInv == OnlyOwners /\ \A p \in projectMap : Known(p) => DefaultFixed(p)

LEMMA OnlyOwnersStep ==
  ASSUME "updateProject" \notin Operations, TypeOK, OnlyOwners,
         NEW t \in Threads, ThreadStep(t)
  PROVE  OnlyOwners'
<1>1. PICK r : req' = [req EXCEPT ![t] = r] /\ Becomes(t, r)
  BY RequestBecomes
<1>2. req'[t] = r
  BY <1>1 DEF TypeOK, RequestsTypeOK
<1>3. r.at # "restoreDefault"
  <2>1. WriteProject(t) => req'[t].at = "idle"
    BY DEF WriteProject, At, OnlyOwners, Respond, TypeOK, RequestsTypeOK
  <2> QED
    BY <1>1, <1>2, <2>1 DEF Becomes
<1>4. r.at = "writeProject" => r.target = Null
  <2>1. ASSUME NEW a \in Attributes, changeOwner(t, a)
        PROVE  req'[t].target = Null
    BY <2>1 DEF changeOwner, changeOwnership, ChangeInMemory, TypeOK, RequestsTypeOK
  <2>2. r.at = "writeProject" => Updating(t)
    BY <1>1 DEF Becomes
  <2> QED
    BY <1>2, <2>1, <2>2 DEF Updating, putProject
<1> QED
  BY <1>2, <1>3, <1>4, OthersKeep DEF OnlyOwners

LEMMA DefaultFixedStep ==
  ASSUME "updateProject" \notin Operations, TypeOK, BelongInv, NEW t \in Threads,
         ThreadStep(t), ~restoreDefaultBranch(t),
         NEW p \in projectMap, DefaultFixed(p), DefaultKept(p)
  PROVE  DefaultFixed(p)'
<1> DEFINE d == project[p].defaultBranch
<1>0. p \in ProjectIds /\ d \in BranchIds /\ d \in branchMap[p]
  BY DEF TypeOK, MemoryTypeOK, DefaultKept
<1>1. project'[p].defaultBranch = d
  BY DefaultStays
<1>2. branchOf'[d].project = p
  BY <1>0, Stable DEF DefaultFixed, FreshBranch
<1>3. d \in branchDocs'
  <2>1. ASSUME NEW b \in BranchIds, deleteBranchRequest(t, b)
        PROVE  b # d
    <3>1. /\ b \in branchMap[req[t].project] /\ b # project[req[t].project].defaultBranch
          /\ req[t].project \in ProjectIds
      BY <2>1 DEF deleteBranchRequest, deleteBranch, storedBranch, IsDefaultBranch, At,
                  TypeOK, RequestsTypeOK, RequestOK
    <3>2. branchOf[b].project = req[t].project
      BY <3>1 DEF BelongInv, MapsBelong
    <3> QED
      BY <3>1, <3>2 DEF DefaultFixed
  <2>2. DeletingBranch(t) => d \in branchDocs'
    BY <2>1 DEF DeletingBranch, deleteBranchRequest, deleteBranch, deleteBranchDoc,
                DefaultFixed
  <2>3. Branching(t) => branchDocs \subseteq branchDocs'
    BY DEF Branching, postBranch, createBranch, addBranch
  <2>4. Creating(t) => branchDocs \subseteq branchDocs'
    BY DEF Creating, postProject, createProject, addBranchFromProject, addBranch
  <2> QED
    BY <2>2, <2>3, <2>4, Assigners DEF DefaultFixed
<1>4. projectDoc'[p] # Null => projectDoc'[p].defaultBranch = d
  <2>1. \/ projectDoc'[p] \in {projectDoc[p], Null}
        \/ projectDoc'[p] = project[p]
    <3>1. AddProjectDoc(t) => projectDoc'[p] \in {projectDoc[p], project[p]}
      BY <1>0 DEF AddProjectDoc, addProject, TypeOK, DatabaseTypeOK
    <3>2. WriteProject(t) => projectDoc'[p] \in {projectDoc[p], project[p]}
      BY <1>0 DEF WriteProject, updateProject, TypeOK, DatabaseTypeOK
    <3>3. deleteProjectWithId(t) => projectDoc'[p] \in {projectDoc[p], Null}
      BY <1>0 DEF deleteProjectWithId, deleteProject, deleteProjectDoc, TypeOK, DatabaseTypeOK
    <3> QED
      BY <3>1, <3>2, <3>3, Assigners
  <2> QED
    BY <2>1 DEF DefaultFixed
<1> QED
  BY <1>1, <1>2, <1>3, <1>4 DEF DefaultFixed

LEMMA RestartDefault ==
  ASSUME TypeOK, DocumentsFound, FixedInv, Restart
  PROVE  DefaultInv' /\ FixedInv'
<1>1. /\ projectMap' = getAllProjects /\ branchMap' = getAllBranches
      /\ project' = [p \in ProjectIds |->
                      IF p \in getAllProjects THEN projectDoc[p] ELSE project[p]]
      /\ req' = [t \in Threads |-> IdleRequest]
      /\ UNCHANGED <<objVars, dbVars>>
  BY DEF Restart, LoadVersioning, LoadProjects
<1>2. ASSUME NEW p \in projectMap'
      PROVE  DefaultKept(p)' /\ DefaultFixed(p)'
  <2>1. p \in ProjectIds /\ projectDoc[p] # Null /\ project'[p] = projectDoc[p]
    BY <1>1 DEF getAllProjects
  <2>2. DefaultFixed(p)
    BY <2>1 DEF DocumentsFound, FixedInv, Known
  <2>3. DefaultFixed(p)'
    BY <1>1, <2>1, <2>2 DEF DefaultFixed, objVars, dbVars
  <2>4. project'[p].defaultBranch \in branchMap'[p]
    BY <1>1, <2>1, <2>2 DEF DefaultFixed, getAllBranches
  <2> QED
    BY <1>1, <2>3, <2>4 DEF DefaultKept
<1>3. OnlyOwners'
  BY <1>1 DEF OnlyOwners
<1> QED
  BY <1>2, <1>3 DEF DefaultInv, FixedInv

(* It is the update of a project, and nothing else, that may leave a       *)
(* project without its default branch: where clients send none, the        *)
(* default branch stays whatever the outcomes of the writes, those without *)
(* an answer included, and whenever the process dies.                      *)
THEOREM DefaultOutlastsFailures ==
  ASSUME "updateProject" \notin Operations
  PROVE  Spec => []DefaultBranchStored
<1>1. Init => DefaultInv /\ FixedInv
  BY DEF Init, InitProjects, InitRequests, DefaultInv, FixedInv, OnlyOwners
<1>2. TypeOK /\ LiveInv /\ BelongInv /\ DocumentsFound /\ DefaultInv /\ FixedInv /\ [Next]_vars
        => DefaultInv' /\ FixedInv'
  <2> SUFFICES ASSUME TypeOK, LiveInv, BelongInv, DocumentsFound, DefaultInv, FixedInv,
                      [Next]_vars
               PROVE  DefaultInv' /\ FixedInv'
    OBVIOUS
  <2>1. CASE UNCHANGED vars
    BY <2>1 DEF vars, objVars, dbVars, pvsVars, reqVars, DefaultInv, DefaultKept, Known,
                FixedInv, OnlyOwners, DefaultFixed
  <2>2. ASSUME NEW t \in Threads, ThreadStep(t)
        PROVE  DefaultInv' /\ FixedInv'
    <3>1. ~restoreDefaultBranch(t)
      BY DEF restoreDefaultBranch, At, FixedInv, OnlyOwners
    <3>2. DefaultInv'
      BY <2>2, <3>1, DefaultStep
    <3>3. ASSUME NEW p \in projectMap', Known(p)'
          PROVE  DefaultFixed(p)'
      <4>1. CASE p \in projectMap /\ Known(p)
        BY <2>2, <3>1, <4>1, DefaultFixedStep DEF DefaultInv, FixedInv
      <4>2. ASSUME p \in ProjectIds, req'[t].at = "addProject", NEW b \in BranchIds,
                   NEW a \in Attributes, postProject(t, p, b, a)
            PROVE  DefaultFixed(p)'
        BY <2>2, <4>2, NewDefault DEF DefaultFixed
      <4> QED
        BY <2>2, <3>3, <4>1, <4>2, KnownStep
    <3>4. OnlyOwners'
      BY <2>2, OnlyOwnersStep DEF FixedInv
    <3> QED
      BY <3>2, <3>3, <3>4 DEF FixedInv
  <2>3. CASE Restart
    BY <2>3, RestartDefault
  <2> QED
    BY <2>1, <2>2, <2>3 DEF Next
<1> QED
  BY <1>1, <1>2, TypeCorrect, LiveInvariant, BelongInvariant, DocumentsFoundInvariant,
     KeptIsStored, PTL DEF Spec

(* Both for the server with its queries and digital twins, whose writes    *)
(* may fail: DbOutcomes are those of projects and versions.                *)
THEOREM ServicesKeepDefault ==
  ASSUME \/ DbOutcomes = {"ok"} /\ MaxRestarts = 0
         \/ "updateProject" \notin Operations
  PROVE  SpecServices => []DefaultBranchStored
<1>1. CASE DbOutcomes = {"ok"} /\ MaxRestarts = 0
  <2>1. Spec => []DefaultBranchStored
    BY <1>1, DefaultIsStored
  <2> QED
    BY <2>1, ServicesImplementModel, PTL
<1>2. CASE "updateProject" \notin Operations
  <2>1. Spec => []DefaultBranchStored
    BY <1>2, DefaultOutlastsFailures
  <2> QED
    BY <2>1, ServicesImplementModel, PTL
<1> QED
  BY <1>1, <1>2
=============================================================================
