--------------------------- MODULE RetentionProofs ---------------------------
(***************************************************************************)
(* What is deleted stays deleted, what can be found resolves, and the      *)
(* server implements VersionStore, for any number of threads, requests     *)
(* under way, failed writes and restarts.                                  *)
(*                                                                         *)
(* The proofs do not split on the actions again and again: the lemmas of   *)
(* the first part say, variable by variable, what a step of a thread may   *)
(* do to it, and what holds when a request enters a critical section.  The *)
(* invariants follow from these.                                           *)
(***************************************************************************)
EXTENDS ModelServerProofs

USE DbOutcomesAssumption, NullAssumption, ThreadsAssumption, IdsAssumption
USE DEF Unlocked, InVersioning, InProjects, ProjectFields, IdleRequest, Request

-----------------------------------------------------------------------------
(* The actions of a thread, by what they are for. *)
Committing(t) ==
  \E b \in BranchIds, c \in CommitIds : postCommit(t, b, c) \/ postMerge(t, b, c)
Branching(t) == \E b \in BranchIds, n \in Names : postBranch(t, b, n)
Tagging(t) == \E g \in TagIds, n \in Names : postTag(t, g, n)
Creating(t) ==
  \E p \in ProjectIds, b \in BranchIds, a \in Attributes : postProject(t, p, b, a)
Updating(t) ==
  \/ \E b \in BranchIds \cup {Null}, a \in Attributes : putProject(t, b, a)
  \/ \E a \in Attributes : changeOwner(t, a)
DeletingBranch(t) == \E b \in BranchIds : deleteBranchRequest(t, b)
DeletingTag(t) == \E g \in TagIds : deleteTagRequest(t, g)
LookingUp(t) ==
  \/ \E c \in CommitIds : findCommit(t, c)
  \/ \E p \in ProjectIds : withProject(t, p)
  \/ getProjects(t) \/ Answer(t)

(* Which actions assign to which variables. *)
LEMMA Assigners ==
  ASSUME NEW t \in Threads, ThreadStep(t)
  PROVE  /\ branchOf' = branchOf \/ Branching(t) \/ Creating(t)
         /\ commitOf' = commitOf \/ Committing(t)
         /\ tagOf' = tagOf \/ Tagging(t)
         /\ projectDoc' = projectDoc \/ AddProjectDoc(t) \/ WriteProject(t)
              \/ deleteProjectWithId(t)
         /\ branchDocs' = branchDocs \/ Branching(t) \/ Creating(t) \/ DeletingBranch(t)
         /\ docHead' = docHead \/ Branching(t) \/ Creating(t) \/ MoveHead(t)
         /\ commitDocs' = commitDocs \/ Committing(t)
         /\ tagDocs' = tagDocs \/ Tagging(t) \/ DeletingTag(t)
         /\ branchMap' = branchMap \/ PushBranch(t) \/ EraseBranch(t) \/ Creating(t)
              \/ ForgetProject(t)
         /\ head' = head \/ MoveHead(t) \/ Branching(t) \/ Creating(t)
         /\ commitMap' = commitMap \/ MoveHead(t) \/ Creating(t) \/ ForgetProject(t)
         /\ commitIndex' = commitIndex \/ MoveHead(t) \/ ForgetProject(t)
         /\ tagMap' = tagMap \/ PushTag(t) \/ EraseTag(t) \/ ForgetProject(t)
         /\ project' = project \/ Creating(t) \/ Updating(t) \/ WriteProject(t)
              \/ restoreDefaultBranch(t)
         /\ projectMap' = projectMap \/ Creating(t) \/ deleteProjectWithId(t)
         /\ acked' = acked \/ MoveHead(t)
         /\ deleted' = deleted \/ EraseBranch(t) \/ EraseTag(t) \/ ForgetProject(t)
<1> USE DEF ThreadStep, VersioningStep, ProjectStep, Committing, Branching, Tagging,
            Creating, Updating, DeletingBranch, DeletingTag, LookingUp,
            findCommit, getCommitById, postCommit, createCommit, postMerge,
            mergeIntoBranch, StoreCommit, MoveHead, postBranch, createBranch,
            PushBranch, deleteBranchRequest, deleteBranch, EraseBranch, postTag,
            createTag, PushTag, deleteTagRequest, deleteTag, EraseTag, withProject,
            getProjectById, postProject, createProject, addBranchFromProject,
            AddProjectDoc, putProject, changeProject, replaceDefaultBranch,
            changeOwner, changeOwnership, ChangeInMemory, WriteProject,
            restoreDefaultBranch, deleteProjectWithId, deleteProject, ForgetProject,
            forgetProject, DeleteQueriesFails, getProjects, Answer,
            objVars, dbVars, pvsVars, reqVars, clientVars, outerVars
<1>1. /\ branchOf' = branchOf \/ Branching(t) \/ Creating(t)
      /\ commitOf' = commitOf \/ Committing(t)
      /\ tagOf' = tagOf \/ Tagging(t)
  OBVIOUS
<1>2. /\ projectDoc' = projectDoc \/ AddProjectDoc(t) \/ WriteProject(t)
           \/ deleteProjectWithId(t)
      /\ branchDocs' = branchDocs \/ Branching(t) \/ Creating(t) \/ DeletingBranch(t)
      /\ docHead' = docHead \/ Branching(t) \/ Creating(t) \/ MoveHead(t)
  OBVIOUS
<1>3. /\ commitDocs' = commitDocs \/ Committing(t)
      /\ tagDocs' = tagDocs \/ Tagging(t) \/ DeletingTag(t)
  OBVIOUS
<1>4. /\ branchMap' = branchMap \/ PushBranch(t) \/ EraseBranch(t) \/ Creating(t)
           \/ ForgetProject(t)
      /\ head' = head \/ MoveHead(t) \/ Branching(t) \/ Creating(t)
      /\ commitMap' = commitMap \/ MoveHead(t) \/ Creating(t) \/ ForgetProject(t)
  OBVIOUS
<1>5. /\ commitIndex' = commitIndex \/ MoveHead(t) \/ ForgetProject(t)
      /\ tagMap' = tagMap \/ PushTag(t) \/ EraseTag(t) \/ ForgetProject(t)
      /\ project' = project \/ Creating(t) \/ Updating(t) \/ WriteProject(t)
           \/ restoreDefaultBranch(t)
  OBVIOUS
<1>6. /\ projectMap' = projectMap \/ Creating(t) \/ deleteProjectWithId(t)
      /\ acked' = acked \/ MoveHead(t)
      /\ deleted' = deleted \/ EraseBranch(t) \/ EraseTag(t) \/ ForgetProject(t)
  OBVIOUS
<1> QED
  BY <1>1, <1>2, <1>3, <1>4, <1>5, <1>6

-----------------------------------------------------------------------------
(* The request of the thread that takes the step becomes r; where r enters *)
(* a critical section, it is the action named that brought it there.       *)
Becomes(t, r) ==
  \/ r = IdleRequest \/ (r = req[t] /\ r.at = "idle")
  \/ /\ r.at = "project" /\ r.commit = Null
     /\ \E p \in ProjectIds : withProject(t, p) /\ r.project = p
  \/ /\ r.at = "addProject" /\ r.commit = Null
     /\ \E b \in BranchIds, a \in Attributes : postProject(t, r.project, b, a)
  \/ /\ r.project = req[t].project
     /\ \/ r.at = "commit" /\ findCommit(t, r.commit)
        \/ r.at = "moveHead" /\ (\/ postCommit(t, r.target, r.commit)
                                 \/ postMerge(t, r.target, r.commit))
        \/ r.at = "restoreDefault" /\ WriteProject(t) /\ r.commit = req[t].commit
        \/ /\ r.commit = Null
           /\ \/ r.at = "pushBranch" /\ \E n \in Names : postBranch(t, r.target, n)
              \/ r.at = "eraseBranch" /\ deleteBranchRequest(t, r.target)
              \/ r.at = "pushTag" /\ \E n \in Names : postTag(t, r.target, n)
              \/ r.at = "eraseTag" /\ deleteTagRequest(t, r.target)
              \/ r.at = "writeProject" /\ Updating(t)
              \/ r.at = "forget" /\ deleteProjectWithId(t)

LEMMA RequestBecomes ==
  ASSUME TypeOK, NEW t \in Threads, ThreadStep(t)
  PROVE  \E r : req' = [req EXCEPT ![t] = r] /\ Becomes(t, r)
<1> DEFINE G == \E r : req' = [req EXCEPT ![t] = r] /\ Becomes(t, r)
<1>0. req = [req EXCEPT ![t] = req[t]]
  BY DEF TypeOK, RequestsTypeOK
<1>1. ASSUME Respond(t)
      PROVE  G
  BY <1>1 DEF Respond, Becomes
<1>2. ASSUME NEW c \in CommitIds, findCommit(t, c)
      PROVE  G
  <2> DEFINE r == [at |-> "commit", project |-> req[t].project, commit |-> c,
                   target |-> Null, old |-> Null]
  <2>1. req' = [req EXCEPT ![t] = r]
    BY <1>2 DEF findCommit, getCommitById, Proceed
  <2>2. r.at = "commit" /\ r.project = req[t].project /\ r.commit = c
    OBVIOUS
  <2> HIDE DEF r
  <2> QED
    BY <1>2, <2>1, <2>2 DEF Becomes
<1>3. ASSUME NEW p \in ProjectIds, withProject(t, p)
      PROVE  G
  BY <1>3 DEF withProject, getProjectById, Becomes
<1>4. ASSUME NEW b \in BranchIds, NEW c \in CommitIds,
             postCommit(t, b, c) \/ postMerge(t, b, c)
      PROVE  G
  <2>1. Proceed(t, "moveHead", c, b) \/ Respond(t)
    BY <1>4 DEF postCommit, createCommit, postMerge, mergeIntoBranch, StoreCommit
  <2> QED
    BY <1>1, <1>4, <2>1 DEF Proceed, Becomes
<1>5. ASSUME NEW b \in BranchIds, NEW n \in Names, postBranch(t, b, n)
      PROVE  G
  <2>1. Proceed(t, "pushBranch", Null, b) \/ Respond(t)
    BY <1>5 DEF postBranch, createBranch
  <2> QED
    BY <1>1, <1>5, <2>1 DEF Proceed, Becomes
<1>6. ASSUME NEW b \in BranchIds, deleteBranchRequest(t, b)
      PROVE  G
  <2>1. Proceed(t, "eraseBranch", Null, b) \/ Respond(t)
    BY <1>6 DEF deleteBranchRequest, deleteBranch
  <2> QED
    BY <1>1, <1>6, <2>1 DEF Proceed, Becomes
<1>7. ASSUME NEW g \in TagIds, NEW n \in Names, postTag(t, g, n)
      PROVE  G
  <2>1. Proceed(t, "pushTag", Null, g) \/ Respond(t)
    BY <1>7 DEF postTag, createTag
  <2> QED
    BY <1>1, <1>7, <2>1 DEF Proceed, Becomes
<1>8. ASSUME NEW g \in TagIds, deleteTagRequest(t, g)
      PROVE  G
  <2>1. Proceed(t, "eraseTag", Null, g) \/ Respond(t)
    BY <1>8 DEF deleteTagRequest, deleteTag
  <2> QED
    BY <1>1, <1>8, <2>1 DEF Proceed, Becomes
<1>9. ASSUME NEW p \in ProjectIds, NEW b \in BranchIds, NEW a \in Attributes,
             postProject(t, p, b, a)
      PROVE  G
  <2> DEFINE r == [IdleRequest EXCEPT !.at = "addProject", !.project = p]
  <2>1. req' = [req EXCEPT ![t] = r] \/ Respond(t)
    BY <1>9 DEF postProject, createProject, Respond
  <2>2. r.at = "addProject" /\ r.commit = Null /\ r.project = p
    OBVIOUS
  <2> HIDE DEF r
  <2> QED
    BY <1>1, <1>9, <2>1, <2>2 DEF Becomes
<1>10. ASSUME Updating(t)
       PROVE  G
  <2>1. PICK b, fields : ChangeInMemory(t, b, fields)
    BY <1>10 DEF Updating, putProject, changeProject, changeOwner, changeOwnership
  <2> DEFINE r == [at |-> "writeProject", project |-> req[t].project,
                   commit |-> Null, target |-> b, old |-> project[req[t].project]]
  <2>2. req' = [req EXCEPT ![t] = r]
    BY <2>1 DEF ChangeInMemory
  <2>3. r.at = "writeProject" /\ r.project = req[t].project /\ r.commit = Null
    OBVIOUS
  <2> HIDE DEF r
  <2> QED
    BY <1>10, <2>2, <2>3 DEF Becomes
<1>11. ASSUME WriteProject(t)
       PROVE  G
  <2> DEFINE r == [req[t] EXCEPT !.at = "restoreDefault"]
  <2>1. req' = [req EXCEPT ![t] = r] \/ Respond(t)
    BY <1>11 DEF WriteProject
  <2>2. r.at = "restoreDefault" /\ r.project = req[t].project /\ r.commit = req[t].commit
    BY DEF TypeOK, RequestsTypeOK
  <2> HIDE DEF r
  <2> QED
    BY <1>1, <1>11, <2>1, <2>2 DEF Becomes
<1>12. ASSUME deleteProjectWithId(t)
       PROVE  G
  <2>1. Proceed(t, "forget", Null, Null) \/ Respond(t)
    BY <1>12 DEF deleteProjectWithId, deleteProject
  <2> QED
    BY <1>1, <1>12, <2>1 DEF Proceed, Becomes
<1>13. ASSUME getProjects(t)
       PROVE  G
  BY <1>0, <1>13 DEF getProjects, At, reqVars, Becomes
<1>14. ASSUME \/ MoveHead(t) \/ PushBranch(t) \/ EraseBranch(t) \/ PushTag(t)
              \/ EraseTag(t) \/ AddProjectDoc(t) \/ restoreDefaultBranch(t)
              \/ ForgetProject(t) \/ DeleteQueriesFails(t) \/ Answer(t)
       PROVE  G
  BY <1>1, <1>14 DEF MoveHead, PushBranch, EraseBranch, PushTag, EraseTag,
                     AddProjectDoc, restoreDefaultBranch, ForgetProject,
                     DeleteQueriesFails, Answer
<1>15. ASSUME VersioningStep(t)
       PROVE  G
  BY <1>2, <1>4, <1>5, <1>6, <1>7, <1>8, <1>14, <1>15 DEF VersioningStep
<1>16. ASSUME ProjectStep(t)
       PROVE  G
  BY <1>3, <1>9, <1>10, <1>11, <1>12, <1>13, <1>14, <1>16 DEF ProjectStep, Updating
<1> QED
  BY <1>14, <1>15, <1>16 DEF ThreadStep

-----------------------------------------------------------------------------
(* What the actions that issue an object, or move a head, do. *)

LEMMA CommittingDoes ==
  ASSUME TypeOK, NEW t \in Threads, NEW b \in BranchIds, NEW c \in CommitIds,
         postCommit(t, b, c) \/ postMerge(t, b, c)
  PROVE  /\ PvsFree /\ req[t].project \in ProjectIds /\ b \in branchMap[req[t].project]
         /\ FreshCommit(c)
         /\ \A d \in CommitIds \ {c} : commitOf'[d] = commitOf[d]
         /\ \/ commitOf' = commitOf /\ commitDocs' = commitDocs /\ req'[t].at = "idle"
            \/ /\ commitOf'[c].project = req[t].project
               /\ commitDocs' = commitDocs \cup {c}
               /\ \A x \in commitOf'[c].previous :
                    \/ x = head[b] /\ x # Null
                    \/ x = req[t].commit /\ req[t].at = "commit"
<1>1. req[t].project \in ProjectIds
  BY DEF TypeOK, RequestsTypeOK, RequestOK, postCommit, postMerge, At
<1>2. PICK requested \in SUBSET {req[t].commit} :
        /\ requested # {} => req[t].at = "commit"
        /\ PvsFree /\ storedBranch(req[t].project, b) /\ StoreCommit(t, b, c, requested)
  BY DEF postCommit, createCommit, postMerge, mergeIntoBranch, At
<1>3. PICK o \in DbOutcomes :
        /\ addCommit(c, o)
        /\ commitOf' = IF Applied(o)
                       THEN [commitOf EXCEPT ![c] =
                              [project |-> req[t].project,
                               previous |-> PreviousOf(b, requested)]]
                       ELSE commitOf
        /\ Reported(o) \/ Respond(t)
  BY <1>2 DEF StoreCommit
<1>4. CASE Applied(o)
  <2>1. commitOf'[c] = [project |-> req[t].project, previous |-> PreviousOf(b, requested)]
    BY <1>3, <1>4 DEF TypeOK, DatabaseTypeOK
  <2>2. \A x \in PreviousOf(b, requested) :
          \/ x = head[b] /\ x # Null
          \/ x = req[t].commit /\ req[t].at = "commit"
    BY <1>2 DEF PreviousOf
  <2> QED
    BY <1>1, <1>2, <1>3, <1>4, <2>1, <2>2
    DEF StoreCommit, storedBranch, addCommit, TypeOK, DatabaseTypeOK
<1>5. CASE ~Applied(o)
  <2>1. Respond(t)
    BY <1>3, <1>5 DEF Applied, Reported
  <2> QED
    BY <1>1, <1>2, <1>3, <1>5, <2>1
    DEF StoreCommit, storedBranch, addCommit, Respond, TypeOK, RequestsTypeOK
<1> QED
  BY <1>4, <1>5

LEMMA MoveHeadDoes ==
  ASSUME TypeOK, NEW t \in Threads, MoveHead(t)
  PROVE  /\ req[t].at = "moveHead"
         /\ req[t].project \in ProjectIds /\ req[t].target \in BranchIds
         /\ req[t].commit \in CommitIds
         /\ UNCHANGED <<branchOf, commitOf, tagOf, branchMap, branchDocs, commitDocs>>
         /\ \A p \in ProjectIds : commitMap'[p] \subseteq
              commitMap[p] \cup {c \in {req[t].commit} : p = req[t].project}
         /\ commitIndex' = commitIndex \cup {req[t].commit}
         /\ \A b \in BranchIds :
              /\ \/ head'[b] = head[b]
                 \/ b = req[t].target /\ head'[b] = req[t].commit
              /\ \/ docHead'[b] = docHead[b]
                 \/ b = req[t].target /\ docHead'[b] = req[t].commit
<1>1. /\ req[t].at = "moveHead"
      /\ req[t].project \in ProjectIds /\ req[t].target \in BranchIds
      /\ req[t].commit \in CommitIds
  BY DEF TypeOK, RequestsTypeOK, RequestOK, MoveHead, At
<1>2. /\ UNCHANGED <<branchOf, commitOf, tagOf, branchMap, branchDocs, commitDocs>>
      /\ commitIndex' = commitIndex \cup {req[t].commit}
      /\ \A p \in ProjectIds : commitMap'[p] \subseteq
           commitMap[p] \cup {c \in {req[t].commit} : p = req[t].project}
  BY DEF MoveHead, objVars, TypeOK, MemoryTypeOK
<1>3. PICK o \in DbOutcomes :
        /\ updateBranch(req[t].target, req[t].commit, o)
        /\ head' = IF Reported(o) THEN [head EXCEPT ![req[t].target] = req[t].commit]
                   ELSE head
  BY DEF MoveHead
<1>4. \A b \in BranchIds :
        /\ \/ head'[b] = head[b]
           \/ b = req[t].target /\ head'[b] = req[t].commit
        /\ \/ docHead'[b] = docHead[b]
           \/ b = req[t].target /\ docHead'[b] = req[t].commit
  BY <1>1, <1>3 DEF updateBranch, TypeOK, DatabaseTypeOK, MemoryTypeOK
<1> QED
  BY <1>1, <1>2, <1>4

LEMMA BranchingDoes ==
  ASSUME TypeOK, NEW t \in Threads, NEW b \in BranchIds, NEW n \in Names,
         postBranch(t, b, n)
  PROVE  /\ PvsFree /\ req[t].at = "commit"
         /\ req[t].project \in ProjectIds /\ req[t].commit \in CommitIds
         /\ FreshBranch(b)
         /\ \A x \in BranchIds \ {b} : /\ branchOf'[x] = branchOf[x]
                                       /\ head'[x] = head[x]
                                       /\ docHead'[x] = docHead[x]
         /\ \/ UNCHANGED <<branchOf, head, docHead, branchDocs>> /\ req'[t].at = "idle"
            \/ /\ branchOf'[b] = [project |-> req[t].project, name |-> n]
               /\ branchDocs' = branchDocs \cup {b}
               /\ docHead'[b] = req[t].commit
               /\ \/ head'[b] = req[t].commit
                  \/ head' = head /\ req'[t].at = "idle"
<1>1. /\ req[t].at = "commit" /\ PvsFree /\ FreshBranch(b)
      /\ req[t].project \in ProjectIds /\ req[t].commit \in CommitIds
  BY DEF TypeOK, RequestsTypeOK, RequestOK, postBranch, createBranch, At
<1>2. PICK o \in DbOutcomes :
        /\ addBranch(b, req[t].commit, o)
        /\ branchOf' = IF Applied(o)
                       THEN [branchOf EXCEPT ![b] =
                              [project |-> req[t].project, name |-> n]]
                       ELSE branchOf
        /\ head' = IF Reported(o) THEN [head EXCEPT ![b] = req[t].commit] ELSE head
        /\ Reported(o) \/ Respond(t)
  BY DEF postBranch, createBranch
<1>3. Reported(o) => Applied(o)
  BY DEF Reported, Applied
<1>4. Respond(t) => req'[t].at = "idle"
  BY DEF Respond, TypeOK, RequestsTypeOK
<1> QED
  BY <1>1, <1>2, <1>3, <1>4 DEF addBranch, TypeOK, DatabaseTypeOK, MemoryTypeOK

LEMMA TaggingDoes ==
  ASSUME TypeOK, NEW t \in Threads, NEW g \in TagIds, NEW n \in Names,
         postTag(t, g, n)
  PROVE  /\ PvsFree /\ req[t].at = "commit"
         /\ req[t].project \in ProjectIds /\ req[t].commit \in CommitIds
         /\ project[req[t].project] # Null
         /\ FreshTag(g)
         /\ \A x \in TagIds \ {g} : tagOf'[x] = tagOf[x]
         /\ \/ UNCHANGED <<tagOf, tagDocs>> /\ req'[t].at = "idle"
            \/ /\ tagOf'[g] = [project |-> req[t].project, name |-> n,
                               commit |-> req[t].commit]
               /\ tagDocs' = tagDocs \cup {g}
<1>1. /\ req[t].at = "commit" /\ PvsFree /\ FreshTag(g)
      /\ req[t].project \in ProjectIds /\ req[t].commit \in CommitIds
      /\ project[req[t].project] # Null
  BY DEF TypeOK, RequestsTypeOK, RequestOK, postTag, createTag, At
<1>2. PICK o \in DbOutcomes :
        /\ addTag(g, o)
        /\ tagOf' = IF Applied(o)
                    THEN [tagOf EXCEPT ![g] = [project |-> req[t].project,
                                               name |-> n, commit |-> req[t].commit]]
                    ELSE tagOf
        /\ Reported(o) \/ Respond(t)
  BY DEF postTag, createTag
<1>3. Reported(o) => Applied(o)
  BY DEF Reported, Applied
<1>4. Respond(t) => req'[t].at = "idle"
  BY DEF Respond, TypeOK, RequestsTypeOK
<1> QED
  BY <1>1, <1>2, <1>3, <1>4 DEF addTag, TypeOK, DatabaseTypeOK

LEMMA CreatingDoes ==
  ASSUME TypeOK, NEW t \in Threads, NEW p \in ProjectIds, NEW b \in BranchIds,
         NEW a \in Attributes, postProject(t, p, b, a)
  PROVE  /\ PvsFree /\ SpsFree /\ project[p] = Null /\ FreshBranch(b)
         /\ branchOf' = [branchOf EXCEPT ![b] = [project |-> p, name |-> MainName]]
         /\ projectMap' = projectMap \cup {p}
         /\ project' = [project EXCEPT ![p] = [defaultBranch |-> b, attributes |-> a]]
         /\ branchMap'[p] \subseteq {b} /\ commitMap'[p] = {}
         /\ \A q \in ProjectIds \ {p} :
              branchMap'[q] = branchMap[q] /\ commitMap'[q] = commitMap[q]
         /\ head' = [head EXCEPT ![b] = Null]
         /\ \A x \in BranchIds \ {b} : docHead'[x] = docHead[x]
         /\ \/ UNCHANGED <<branchDocs, docHead>> /\ req'[t].at = "idle"
            \/ branchDocs' = branchDocs \cup {b} /\ docHead'[b] = Null
<1>1. PICK o \in DbOutcomes :
        /\ addBranchFromProject(p, b, o)
        /\ Reported(o) \/ Respond(t)
  BY DEF postProject, createProject, Respond
<1>2. Reported(o) => Applied(o)
  BY DEF Reported, Applied
<1>3. Respond(t) => req'[t].at = "idle"
  BY DEF Respond, TypeOK, RequestsTypeOK
<1>4. /\ SpsFree /\ project[p] = Null /\ FreshBranch(b)
      /\ branchOf' = [branchOf EXCEPT ![b] = [project |-> p, name |-> MainName]]
      /\ projectMap' = projectMap \cup {p}
      /\ project' = [project EXCEPT ![p] = [defaultBranch |-> b, attributes |-> a]]
  BY DEF postProject, createProject
<1>5. /\ PvsFree /\ head' = [head EXCEPT ![b] = Null]
      /\ branchMap'[p] \subseteq {b} /\ commitMap'[p] = {}
      /\ \A q \in ProjectIds \ {p} :
           branchMap'[q] = branchMap[q] /\ commitMap'[q] = commitMap[q]
  BY <1>1 DEF addBranchFromProject, TypeOK, MemoryTypeOK
<1>6. /\ \A x \in BranchIds \ {b} : docHead'[x] = docHead[x]
      /\ \/ UNCHANGED <<branchDocs, docHead>> /\ req'[t].at = "idle"
         \/ branchDocs' = branchDocs \cup {b} /\ docHead'[b] = Null
  BY <1>1, <1>2, <1>3 DEF addBranchFromProject, addBranch, TypeOK, DatabaseTypeOK
<1> QED
  BY <1>4, <1>5, <1>6

(* What an object was built with never changes again. *)
LEMMA Stable ==
  ASSUME TypeOK, NEW t \in Threads, ThreadStep(t)
  PROVE  /\ \A b \in BranchIds : FreshBranch(b) \/ branchOf'[b] = branchOf[b]
         /\ \A c \in CommitIds : FreshCommit(c) \/ commitOf'[c] = commitOf[c]
         /\ \A g \in TagIds : FreshTag(g) \/ tagOf'[g] = tagOf[g]
         /\ \A p \in ProjectIds : project[p] # Null => project'[p] # Null
<1>1. \A b \in BranchIds : FreshBranch(b) \/ branchOf'[b] = branchOf[b]
  <2>1. Branching(t) => \A b \in BranchIds : FreshBranch(b) \/ branchOf'[b] = branchOf[b]
    BY BranchingDoes DEF Branching
  <2>2. Creating(t) => \A b \in BranchIds : FreshBranch(b) \/ branchOf'[b] = branchOf[b]
    BY CreatingDoes DEF Creating, TypeOK, DatabaseTypeOK
  <2> QED
    BY <2>1, <2>2, Assigners
<1>2. \A c \in CommitIds : FreshCommit(c) \/ commitOf'[c] = commitOf[c]
  BY CommittingDoes, Assigners DEF Committing
<1>3. \A g \in TagIds : FreshTag(g) \/ tagOf'[g] = tagOf[g]
  BY TaggingDoes, Assigners DEF Tagging
<1>4. \A p \in ProjectIds : project[p] # Null => project'[p] # Null
  <2>1. Creating(t) => \A p \in ProjectIds : project[p] # Null => project'[p] # Null
    BY CreatingDoes DEF Creating, TypeOK, MemoryTypeOK
  <2>2. ASSUME NEW p \in ProjectIds, project[p] # Null, Updating(t)
        PROVE  project'[p] # Null
    <3>1. req[t].project \in ProjectIds /\ project[req[t].project] \in ProjectFields
      BY <2>2 DEF Updating, putProject, changeOwner, At, TypeOK, RequestsTypeOK,
                  RequestOK, MemoryTypeOK
    <3>2. PICK fields \in ProjectFields :
            project' = [project EXCEPT ![req[t].project] = fields]
      BY <2>2, <3>1 DEF Updating, putProject, changeProject, replaceDefaultBranch,
           storedBranch, changeOwner, changeOwnership, ChangeInMemory, TypeOK, MemoryTypeOK
    <3> QED
      BY <2>2, <3>1, <3>2 DEF TypeOK, MemoryTypeOK
  <2>3. ASSUME NEW p \in ProjectIds, project[p] # Null,
               WriteProject(t) \/ restoreDefaultBranch(t)
        PROVE  project'[p] # Null
    BY <2>3 DEF WriteProject, restoreDefaultBranch, PutBackDefault, At, TypeOK,
                RequestsTypeOK, RequestOK, MemoryTypeOK
  <2> QED
    BY <2>1, <2>2, <2>3, Assigners
<1> QED
  BY <1>1, <1>2, <1>3, <1>4
-----------------------------------------------------------------------------
(* Everything that refers to something refers to it within one project.    *)
SameProject(c, p) == commitOf[c].project = p
CommitsBelong ==
  \A c \in commitDocs :
    /\ ~FreshCommit(c)
    /\ \A x \in commitOf[c].previous : SameProject(x, commitOf[c].project)
BranchesBelong ==
  \A b \in BranchIds :
    /\ head[b] # Null => SameProject(head[b], branchOf[b].project)
    /\ b \in branchDocs /\ docHead[b] # Null =>
         SameProject(docHead[b], branchOf[b].project)
TagsBelong ==
  \A g \in TagIds :
    IF FreshTag(g)
    THEN g \notin tagDocs /\ \A p \in ProjectIds : g \notin tagMap[p]
    ELSE /\ tagOf[g].commit \in commitDocs /\ SameProject(tagOf[g].commit, tagOf[g].project)
         /\ project[tagOf[g].project] # Null
MapsBelong ==
  \A p \in ProjectIds :
    /\ \A c \in commitMap[p] : SameProject(c, p)
    /\ \A b \in branchMap[p] : branchOf[b].project = p
    /\ \A g \in tagMap[p] : tagOf[g].project = p
RequestsBelong ==
  \A t \in Threads :
    /\ req[t].commit # Null => SameProject(req[t].commit, req[t].project)
    /\ req[t].at \in {"pushBranch", "eraseBranch", "moveHead"} =>
         branchOf[req[t].target].project = req[t].project
    /\ req[t].at \in {"pushTag", "eraseTag"} =>
         tagOf[req[t].target].project = req[t].project

BelongInv ==
  CommitsBelong /\ BranchesBelong /\ TagsBelong /\ MapsBelong /\ RequestsBelong

-----------------------------------------------------------------------------
(* In a project that can be found, what may be looked up is in the index.  *)
IndexedInMaps(p) ==
  /\ commitMap[p] \subseteq commitIndex
  /\ \A c \in commitMap[p] : commitOf[c].previous \subseteq commitIndex
  /\ \A b \in branchMap[p] : head[b] # Null => head[b] \in commitIndex
  /\ \A g \in tagMap[p] : tagOf[g].commit \in commitIndex
IndexedByRequest(r) ==
  /\ r.at = "commit" => r.commit \in commitIndex
  /\ r.at = "moveHead" => commitOf[r.commit].previous \subseteq commitIndex
  /\ r.at = "pushBranch" /\ head[r.target] # Null => head[r.target] \in commitIndex
  /\ r.at = "pushTag" => tagOf[r.target].commit \in commitIndex

LiveInv ==
  /\ \A p \in projectMap : IndexedInMaps(p)
  /\ \A t \in Threads :
       /\ req[t].project \in projectMap => IndexedByRequest(req[t])
       /\ req[t].at = "forget" => req[t].project \notin projectMap

-----------------------------------------------------------------------------
(* What was answered as deleted is nowhere, and no request puts it back.   *)
GoneProject(p) == project[p] # Null /\ p \notin projectMap /\ projectDoc[p] = Null
GoneBranch(b) ==
  ~FreshBranch(b) /\ b \notin branchDocs /\ \A p \in ProjectIds : b \notin branchMap[p]
GoneTag(g) ==
  ~FreshTag(g) /\ g \notin tagDocs /\ \A p \in ProjectIds : g \notin tagMap[p]

DeletedGone ==
  /\ \A p \in deleted \cap ProjectIds : GoneProject(p)
  /\ \A b \in deleted \cap BranchIds : GoneBranch(b)
  /\ \A g \in deleted \cap TagIds : GoneTag(g)
DocumentsKnown == \A p \in ProjectIds : projectDoc[p] # Null => project[p] # Null
RequestsGone ==
  \A t \in Threads :
    /\ req[t].at = "forget" => GoneProject(req[t].project)
    /\ req[t].at = "addProject" => /\ req[t].project \notin deleted
                                   /\ projectDoc[req[t].project] = Null
    /\ req[t].at \in {"pushBranch", "moveHead"} => req[t].target \notin deleted
    /\ req[t].at = "pushTag" => req[t].target \notin deleted
    /\ req[t].at = "eraseBranch" =>
         req[t].target \notin branchDocs /\ ~FreshBranch(req[t].target)
    /\ req[t].at = "eraseTag" =>
         req[t].target \notin tagDocs /\ ~FreshTag(req[t].target)

GoneInv == DeletedGone /\ DocumentsKnown /\ RequestsGone

-----------------------------------------------------------------------------
(* References stay within one project. *)

LEMMA StoredKept ==
  ASSUME TypeOK, BelongInv, NEW t \in Threads, ThreadStep(t)
  PROVE  /\ commitDocs \subseteq commitDocs'
         /\ \A c \in commitDocs : commitOf'[c] = commitOf[c]
<1>1. \A c \in commitDocs : c \in CommitIds /\ ~FreshCommit(c)
  BY DEF TypeOK, DatabaseTypeOK, BelongInv, CommitsBelong
<1>2. commitDocs \subseteq commitDocs'
  BY Assigners, CommittingDoes DEF Committing
<1> QED
  BY <1>1, <1>2, Stable

LEMMA CommitsBelongStep ==
  ASSUME TypeOK, ClosedInv, BelongInv, NEW t \in Threads, ThreadStep(t)
  PROVE  CommitsBelong'
<1>1. \A c \in commitDocs :
        /\ commitOf'[c] = commitOf[c] /\ ~FreshCommit(c)
        /\ \A x \in commitOf[c].previous :
             SameProject(x, commitOf[c].project) /\ commitOf'[x] = commitOf[x]
  BY StoredKept DEF BelongInv, CommitsBelong, ClosedInv, PreviousStored
<1>2. CASE commitDocs' = commitDocs
  BY <1>1, <1>2 DEF CommitsBelong, SameProject, FreshCommit
<1>3. CASE Committing(t)
  <2>1. PICK b \in BranchIds, c \in CommitIds : postCommit(t, b, c) \/ postMerge(t, b, c)
    BY <1>3 DEF Committing
  <2>2. CASE commitDocs' = commitDocs
    BY <1>2, <2>2
  <2>3. CASE /\ commitOf'[c].project = req[t].project
             /\ commitDocs' = commitDocs \cup {c}
             /\ \A x \in commitOf'[c].previous :
                  \/ x = head[b] /\ x # Null
                  \/ x = req[t].commit /\ req[t].at = "commit"
    <3>1. req[t].project \in ProjectIds /\ b \in branchMap[req[t].project]
      BY <2>1, CommittingDoes
    <3>2. head[b] # Null => head[b] \in commitDocs /\ SameProject(head[b], req[t].project)
      BY <3>1 DEF BelongInv, BranchesBelong, MapsBelong, ClosedInv, HeadsStored
    <3>3. req[t].at = "commit" =>
            req[t].commit \in commitDocs /\ SameProject(req[t].commit, req[t].project)
      BY DEF BelongInv, RequestsBelong, ClosedInv, RequestsStored, TypeOK,
             RequestsTypeOK, RequestOK
    <3>4. \A x \in commitOf'[c].previous : commitOf'[x].project = req[t].project
      BY <1>1, <2>3, <3>2, <3>3 DEF SameProject
    <3> QED
      BY <1>1, <2>3, <3>1, <3>4 DEF CommitsBelong, SameProject, FreshCommit
  <2> QED
    BY <2>1, <2>2, <2>3, CommittingDoes
<1> QED
  BY <1>2, <1>3, Assigners

LEMMA BranchesBelongStep ==
  ASSUME TypeOK, ClosedInv, HistoryInv, BelongInv, NEW t \in Threads, ThreadStep(t)
  PROVE  BranchesBelong'
<1> DEFINE OK(b) ==
      /\ head'[b] # Null => commitOf'[head'[b]].project = branchOf'[b].project
      /\ b \in branchDocs' /\ docHead'[b] # Null =>
           commitOf'[docHead'[b]].project = branchOf'[b].project
<1>1. ASSUME NEW b \in BranchIds, head'[b] = head[b],
             b \in branchDocs' => b \in branchDocs, docHead'[b] = docHead[b]
      PROVE  OK(b)
  <2>1. CASE FreshBranch(b)
    BY <1>1, <2>1 DEF HistoryInv, FreshBlank
  <2>2. CASE ~FreshBranch(b)
    BY <1>1, <2>2, Stable, StoredKept
    DEF BelongInv, BranchesBelong, SameProject, ClosedInv, HeadsStored
  <2> QED
    BY <2>1, <2>2
<1>2. ASSUME MoveHead(t), NEW b \in BranchIds
      PROVE  OK(b)
  <2>1. CASE b # req[t].target
    BY <1>1, <1>2, <2>1, MoveHeadDoes
  <2>2. CASE b = req[t].target
    <3>1. /\ commitOf[req[t].commit].project = branchOf[b].project
          /\ commitOf' = commitOf /\ branchOf' = branchOf /\ branchDocs' = branchDocs
      BY <1>2, <2>2, MoveHeadDoes DEF BelongInv, RequestsBelong, SameProject
    <3> QED
      BY <1>2, <3>1, MoveHeadDoes DEF BelongInv, BranchesBelong, SameProject
  <2> QED
    BY <2>1, <2>2
<1>3. ASSUME Branching(t), NEW b \in BranchIds
      PROVE  OK(b)
  <2>1. PICK x \in BranchIds, n \in Names : postBranch(t, x, n)
    BY <1>3 DEF Branching
  <2>2. /\ req[t].at = "commit" /\ req[t].commit \in CommitIds
        /\ FreshBranch(x) /\ req[t].project \in ProjectIds
        /\ \A y \in BranchIds \ {x} : head'[y] = head[y] /\ docHead'[y] = docHead[y]
        /\ \/ UNCHANGED <<branchOf, head, docHead, branchDocs>>
           \/ /\ branchOf'[x].project = req[t].project
              /\ branchDocs' = branchDocs \cup {x}
              /\ docHead'[x] = req[t].commit
              /\ head'[x] \in {req[t].commit, head[x]}
    <3>1. /\ req[t].at = "commit" /\ req[t].commit \in CommitIds
          /\ FreshBranch(x) /\ req[t].project \in ProjectIds
      BY <2>1, BranchingDoes
    <3>2. \A y \in BranchIds \ {x} : head'[y] = head[y] /\ docHead'[y] = docHead[y]
      BY <2>1, BranchingDoes
    <3>3. \/ UNCHANGED <<branchOf, head, docHead, branchDocs>>
          \/ /\ branchOf'[x] = [project |-> req[t].project, name |-> n]
             /\ branchDocs' = branchDocs \cup {x}
             /\ docHead'[x] = req[t].commit
             /\ head'[x] = req[t].commit \/ head' = head
      BY <2>1, BranchingDoes
    <3> QED
      BY <3>1, <3>2, <3>3
  <2>3. CASE b = x
    <3>1. commitOf'[req[t].commit].project = req[t].project
      BY <2>2, StoredKept
      DEF BelongInv, RequestsBelong, SameProject, ClosedInv, RequestsStored
    <3>2. head[b] = Null /\ b \notin branchDocs
      BY <2>2, <2>3 DEF HistoryInv, FreshBlank
    <3> QED
      BY <2>2, <2>3, <3>1, <3>2
  <2>4. CASE b # x
    BY <1>1, <2>2, <2>4
  <2> QED
    BY <2>3, <2>4
<1>4. ASSUME Creating(t), NEW b \in BranchIds
      PROVE  OK(b)
  <2>1. PICK p \in ProjectIds, x \in BranchIds, a \in Attributes : postProject(t, p, x, a)
    BY <1>4 DEF Creating
  <2>2. CASE b = x
    <3>1. b \notin branchDocs
      BY <2>1, <2>2, CreatingDoes DEF HistoryInv, FreshBlank
    <3>2. head'[b] = Null
      BY <2>1, <2>2, CreatingDoes DEF TypeOK, MemoryTypeOK
    <3> QED
      BY <2>1, <2>2, <3>1, <3>2, CreatingDoes
  <2>3. CASE b # x
    <3>1. head'[b] = head[b] /\ docHead'[b] = docHead[b]
      BY <2>1, <2>3, CreatingDoes DEF TypeOK, MemoryTypeOK
    <3>2. b \in branchDocs' => b \in branchDocs
      BY <2>1, <2>3, CreatingDoes
    <3> QED
      BY <1>1, <3>1, <3>2
  <2> QED
    BY <2>2, <2>3
<1>5. ASSUME DeletingBranch(t) \/ branchDocs' = branchDocs, head' = head,
             docHead' = docHead, NEW b \in BranchIds
      PROVE  OK(b)
  <2>1. branchDocs' \subseteq branchDocs
    BY <1>5 DEF DeletingBranch, deleteBranchRequest, deleteBranch, deleteBranchDoc
  <2> QED
    BY <1>1, <1>5, <2>1
<1>6. \A b \in BranchIds : OK(b)
  BY <1>2, <1>3, <1>4, <1>5, Assigners
<1> QED
  BY <1>6 DEF BranchesBelong, SameProject

(* What a step may add to the maps. *)
LEMMA MapsGrow ==
  ASSUME TypeOK, NEW t \in Threads, ThreadStep(t), NEW p \in ProjectIds
  PROVE  /\ \A c \in commitMap'[p] \ commitMap[p] :
              MoveHead(t) /\ p = req[t].project /\ c = req[t].commit
         /\ \A b \in branchMap'[p] \ branchMap[p] :
              \/ PushBranch(t) /\ p = req[t].project /\ b = req[t].target
              \/ \E a \in Attributes : postProject(t, p, b, a)
         /\ \A g \in tagMap'[p] \ tagMap[p] :
              PushTag(t) /\ p = req[t].project /\ g = req[t].target
         /\ ForgetProject(t) /\ p = req[t].project =>
              commitMap'[p] = {} /\ branchMap'[p] = {} /\ tagMap'[p] = {}
<1> USE DEF TypeOK, MemoryTypeOK
<1>1. \A c \in commitMap'[p] \ commitMap[p] :
        MoveHead(t) /\ p = req[t].project /\ c = req[t].commit
  <2>1. Creating(t) => commitMap'[p] \subseteq commitMap[p]
    BY CreatingDoes DEF Creating
  <2>2. ForgetProject(t) => commitMap'[p] \subseteq commitMap[p]
    BY DEF ForgetProject, forgetProject
  <2>3. MoveHead(t) => \A c \in commitMap'[p] \ commitMap[p] :
          p = req[t].project /\ c = req[t].commit
    BY MoveHeadDoes
  <2> QED
    BY <2>1, <2>2, <2>3, Assigners
<1>2. \A b \in branchMap'[p] \ branchMap[p] :
        \/ PushBranch(t) /\ p = req[t].project /\ b = req[t].target
        \/ \E a \in Attributes : postProject(t, p, b, a)
  <2>1. ASSUME Creating(t), NEW b \in branchMap'[p] \ branchMap[p]
        PROVE  \E a \in Attributes : postProject(t, p, b, a)
    BY <2>1, CreatingDoes DEF Creating
  <2>2. ForgetProject(t) \/ EraseBranch(t) => branchMap'[p] \subseteq branchMap[p]
    BY DEF ForgetProject, forgetProject, EraseBranch
  <2>3. PushBranch(t) => \A b \in branchMap'[p] \ branchMap[p] :
          p = req[t].project /\ b = req[t].target
    BY DEF PushBranch
  <2> QED
    BY <2>1, <2>2, <2>3, Assigners
<1>3. \A g \in tagMap'[p] \ tagMap[p] :
        PushTag(t) /\ p = req[t].project /\ g = req[t].target
  <2>1. ForgetProject(t) \/ EraseTag(t) => tagMap'[p] \subseteq tagMap[p]
    BY DEF ForgetProject, forgetProject, EraseTag
  <2>2. PushTag(t) => \A g \in tagMap'[p] \ tagMap[p] :
          p = req[t].project /\ g = req[t].target
    BY DEF PushTag
  <2> QED
    BY <2>1, <2>2, Assigners
<1>4. ForgetProject(t) /\ p = req[t].project =>
        commitMap'[p] = {} /\ branchMap'[p] = {} /\ tagMap'[p] = {}
  BY DEF ForgetProject, forgetProject
<1> QED
  BY <1>1, <1>2, <1>3, <1>4

LEMMA StepTypeOK ==
  ASSUME TypeOK, NEW t \in Threads, ThreadStep(t)
  PROVE  TypeOK'
  BY NextTypeOK DEF Next

(* The critical sections exclude each other. *)
LEMMA Alone ==
  ASSUME TypeOK, NEW t \in Threads, NEW u \in Threads, u # t
  PROVE  /\ PvsFree \/ req[t].at \in InVersioning => req[u].at \notin InVersioning
         /\ SpsFree \/ req[t].at \in InProjects => req[u].at \notin InProjects
  BY DEF TypeOK, LocksOK, PvsFree, SpsFree

LEMMA MapsBelongStep ==
  ASSUME TypeOK, ClosedInv, HistoryInv, BelongInv, NEW t \in Threads, ThreadStep(t)
  PROVE  MapsBelong'
<1> SUFFICES ASSUME NEW p \in ProjectIds
             PROVE  /\ \A c \in commitMap'[p] : commitOf'[c].project = p
                    /\ \A b \in branchMap'[p] : branchOf'[b].project = p
                    /\ \A g \in tagMap'[p] : tagOf'[g].project = p
  BY DEF MapsBelong, SameProject
<1>1. ASSUME NEW c \in commitMap'[p]
      PROVE  commitOf'[c].project = p
  <2>1. CASE c \in commitMap[p]
    <3>1. commitOf[c].project = p /\ ~FreshCommit(c) /\ c \in CommitIds
      BY <2>1 DEF BelongInv, MapsBelong, SameProject, FreshCommit, TypeOK, MemoryTypeOK
    <3> QED
      BY <3>1, Stable
  <2>2. CASE c \notin commitMap[p]
    <3>1. MoveHead(t) /\ p = req[t].project /\ c = req[t].commit
      BY <2>2, MapsGrow
    <3>2. commitOf' = commitOf /\ c \in CommitIds
      BY <3>1, MoveHeadDoes
    <3> QED
      BY <3>1, <3>2 DEF BelongInv, RequestsBelong, SameProject
  <2> QED
    BY <2>1, <2>2
<1>2. ASSUME NEW b \in branchMap'[p]
      PROVE  branchOf'[b].project = p
  <2>1. CASE b \in branchMap[p]
    <3>1. branchOf[b].project = p /\ ~FreshBranch(b) /\ b \in BranchIds
      BY <2>1 DEF BelongInv, MapsBelong, FreshBranch, TypeOK, MemoryTypeOK
    <3> QED
      BY <3>1, Stable
  <2>2. ASSUME PushBranch(t), p = req[t].project, b = req[t].target
        PROVE  branchOf'[b].project = p
    <3>1. req[t].at = "pushBranch" /\ branchOf' = branchOf
      BY <2>2 DEF PushBranch, At, objVars
    <3> QED
      BY <2>2, <3>1 DEF BelongInv, RequestsBelong
  <2>3. ASSUME NEW a \in Attributes, postProject(t, p, b, a), b \in BranchIds
        PROVE  branchOf'[b].project = p
    BY <2>3, CreatingDoes DEF TypeOK, DatabaseTypeOK
  <2>4. b \in BranchIds
    BY StepTypeOK DEF TypeOK, MemoryTypeOK
  <2> QED
    BY <2>1, <2>2, <2>3, <2>4, MapsGrow
<1>3. ASSUME NEW g \in tagMap'[p]
      PROVE  tagOf'[g].project = p
  <2>1. CASE g \in tagMap[p]
    <3>1. tagOf[g].project = p /\ ~FreshTag(g) /\ g \in TagIds
      BY <2>1 DEF BelongInv, MapsBelong, FreshTag, TypeOK, MemoryTypeOK
    <3> QED
      BY <3>1, Stable
  <2>2. CASE g \notin tagMap[p]
    <3>1. PushTag(t) /\ p = req[t].project /\ g = req[t].target
      BY <2>2, MapsGrow
    <3>2. req[t].at = "pushTag" /\ tagOf' = tagOf
      BY <3>1 DEF PushTag, At, objVars
    <3> QED
      BY <3>1, <3>2 DEF BelongInv, RequestsBelong
  <2> QED
    BY <2>1, <2>2
<1> QED
  BY <1>1, <1>2, <1>3

LEMMA TagsBelongStep ==
  ASSUME TypeOK, ClosedInv, BelongInv, NEW t \in Threads, ThreadStep(t)
  PROVE  TagsBelong'
<1>1. ASSUME NEW g \in TagIds, ~FreshTag(g)
      PROVE  /\ tagOf'[g] = tagOf[g]
             /\ tagOf[g].commit \in commitDocs'
             /\ commitOf'[tagOf[g].commit].project = tagOf[g].project
             /\ project'[tagOf[g].project] # Null
  <2>1. tagOf[g].project \in ProjectIds
    BY <1>1 DEF FreshTag, TypeOK, DatabaseTypeOK
  <2> QED
    BY <1>1, <2>1, Stable, StoredKept DEF BelongInv, TagsBelong, SameProject
<1>2. ASSUME NEW g \in TagIds, FreshTag(g), NEW p \in ProjectIds
      PROVE  g \notin tagMap'[p]
  <2>1. PushTag(t) => tagOf[req[t].target].project \in ProjectIds
    BY DEF BelongInv, RequestsBelong, PushTag, At, TypeOK, RequestsTypeOK, RequestOK
  <2> QED
    BY <1>2, <2>1, MapsGrow DEF BelongInv, TagsBelong, FreshTag
<1>3. ASSUME NEW g \in TagIds, FreshTag(g), tagOf'[g] = tagOf[g], g \in tagDocs'
      PROVE  FALSE
  <2>1. g \notin tagDocs
    BY <1>3 DEF BelongInv, TagsBelong
  <2>2. Tagging(t) \/ DeletingTag(t)
    BY <1>3, <2>1, Assigners
  <2>3. ~DeletingTag(t)
    BY <1>3, <2>1 DEF DeletingTag, deleteTagRequest, deleteTag, deleteTagDoc
  <2>4. PICK x \in TagIds, n \in Names : postTag(t, x, n)
    BY <2>2, <2>3 DEF Tagging
  <2>5. \/ tagDocs' = tagDocs
        \/ /\ tagOf'[x] = [project |-> req[t].project, name |-> n,
                            commit |-> req[t].commit]
           /\ tagDocs' = tagDocs \cup {x}
    BY <2>4, TaggingDoes
  <2>6. req[t].project \in ProjectIds
    BY <2>4, TaggingDoes
  <2> QED
    BY <1>3, <2>1, <2>5, <2>6 DEF FreshTag
<1>4. ASSUME NEW g \in TagIds, FreshTag(g), tagOf'[g] # tagOf[g]
      PROVE  /\ ~FreshTag(g)'
             /\ tagOf'[g].commit \in commitDocs'
             /\ commitOf'[tagOf'[g].commit].project = tagOf'[g].project
             /\ project'[tagOf'[g].project] # Null
  <2>1. PICK x \in TagIds, n \in Names : postTag(t, x, n)
    BY <1>4, Assigners DEF Tagging
  <2>2. \A y \in TagIds \ {x} : tagOf'[y] = tagOf[y]
    BY <2>1, TaggingDoes
  <2>3. tagOf'[g] = [project |-> req[t].project, name |-> n, commit |-> req[t].commit]
    BY <1>4, <2>1, <2>2, TaggingDoes
  <2>4. req[t].project \in ProjectIds /\ req[t].commit \in CommitIds
    BY <2>1, TaggingDoes
  <2>6. project'[req[t].project] # Null
    BY <2>1, TaggingDoes, Stable
  <2>5. /\ req[t].commit \in commitDocs'
        /\ commitOf'[req[t].commit].project = req[t].project
    BY <2>4, StoredKept
    DEF BelongInv, RequestsBelong, SameProject, ClosedInv, RequestsStored
  <2> QED
    BY <2>3, <2>4, <2>5, <2>6 DEF FreshTag
<1> QED
  BY <1>1, <1>2, <1>3, <1>4 DEF TagsBelong, SameProject, FreshTag

(* What a request holds keeps its project. *)
LEMMA HeldBelongs ==
  ASSUME TypeOK, ClosedInv, BelongInv, NEW t \in Threads, ThreadStep(t), NEW u \in Threads
  PROVE  /\ req[u].commit # Null => commitOf'[req[u].commit].project = req[u].project
         /\ req[u].at \in {"pushBranch", "eraseBranch", "moveHead"} =>
              branchOf'[req[u].target].project = req[u].project
         /\ req[u].at \in {"pushTag", "eraseTag"} =>
              tagOf'[req[u].target].project = req[u].project
<1>1. req[u].at # "idle" => req[u].project \in ProjectIds
  BY DEF TypeOK, RequestsTypeOK, RequestOK
<1>2. req[u].commit # Null => commitOf'[req[u].commit].project = req[u].project
  BY StoredKept
  DEF BelongInv, RequestsBelong, SameProject, ClosedInv, RequestsStored
<1>3. ASSUME req[u].at \in {"pushBranch", "eraseBranch", "moveHead"}
      PROVE  branchOf'[req[u].target].project = req[u].project
  <2>1. req[u].target \in BranchIds /\ branchOf[req[u].target].project = req[u].project
    BY <1>3 DEF BelongInv, RequestsBelong, TypeOK, RequestsTypeOK, RequestOK
  <2>2. ~FreshBranch(req[u].target)
    BY <1>1, <1>3, <2>1 DEF FreshBranch
  <2> QED
    BY <2>1, <2>2, Stable
<1>4. ASSUME req[u].at \in {"pushTag", "eraseTag"}
      PROVE  tagOf'[req[u].target].project = req[u].project
  <2>1. req[u].target \in TagIds /\ tagOf[req[u].target].project = req[u].project
    BY <1>4 DEF BelongInv, RequestsBelong, TypeOK, RequestsTypeOK, RequestOK
  <2>2. ~FreshTag(req[u].target)
    BY <1>1, <1>4, <2>1 DEF FreshTag
  <2> QED
    BY <2>1, <2>2, Stable
<1> QED
  BY <1>2, <1>3, <1>4

LEMMA RequestsBelongStep ==
  ASSUME TypeOK, ClosedInv, BelongInv, NEW t \in Threads, ThreadStep(t)
  PROVE  RequestsBelong'
<1> DEFINE OK(r) ==
      /\ r.commit # Null => commitOf'[r.commit].project = r.project
      /\ r.at \in {"pushBranch", "eraseBranch", "moveHead"} =>
           branchOf'[r.target].project = r.project
      /\ r.at \in {"pushTag", "eraseTag"} => tagOf'[r.target].project = r.project
<1>1. PICK r : req' = [req EXCEPT ![t] = r] /\ Becomes(t, r)
  BY RequestBecomes
<1>2. TypeOK' /\ req'[t] = r
  BY <1>1, StepTypeOK DEF TypeOK, RequestsTypeOK
<1>3. ASSUME r = IdleRequest
      PROVE  OK(r)
  BY <1>3
<1>4. ASSUME r.commit = Null, r.at \in {"project", "addProject", "writeProject", "forget"}
      PROVE  OK(r)
  BY <1>4
<1>5. ASSUME r.commit = req[t].commit, r.project = req[t].project,
             r.at \in {"idle", "restoreDefault"}
      PROVE  OK(r)
  BY <1>5, HeldBelongs
<1>6. ASSUME r.at = "commit", findCommit(t, r.commit), r.project = req[t].project
      PROVE  OK(r)
  BY <1>6 DEF findCommit, getCommitById, OwnedBy, objVars
<1>7. ASSUME r.at = "moveHead", postCommit(t, r.target, r.commit)
                                  \/ postMerge(t, r.target, r.commit),
             r.project = req[t].project
      PROVE  OK(r)
  <2>1. r.target \in BranchIds /\ r.commit \in CommitIds
    BY <1>2, <1>7 DEF TypeOK, RequestsTypeOK, RequestOK
  <2>2. req[t].project \in ProjectIds /\ r.target \in branchMap[req[t].project]
    BY <1>7, <2>1, CommittingDoes
  <2>3. branchOf[r.target].project = req[t].project
    BY <2>2 DEF BelongInv, MapsBelong
  <2>4. branchOf'[r.target] = branchOf[r.target]
    BY <2>1, <2>2, <2>3, Stable DEF FreshBranch
  <2>5. commitOf'[r.commit].project = req[t].project
    BY <1>2, <1>7, <2>1, CommittingDoes
  <2> QED
    BY <1>7, <2>3, <2>4, <2>5
<1>8. ASSUME r.at = "pushBranch", NEW n \in Names, postBranch(t, r.target, n),
             r.project = req[t].project, r.commit = Null
      PROVE  OK(r)
  <2>1. r.target \in BranchIds
    BY <1>2, <1>8 DEF TypeOK, RequestsTypeOK, RequestOK
  <2>2. \/ req'[t].at = "idle"
        \/ branchOf'[r.target] = [project |-> req[t].project, name |-> n]
    BY <1>8, <2>1, BranchingDoes
  <2> QED
    BY <1>2, <1>8, <2>2
<1>9. ASSUME r.at = "eraseBranch", deleteBranchRequest(t, r.target),
             r.project = req[t].project, r.commit = Null
      PROVE  OK(r)
  <2>1. /\ branchOf' = branchOf /\ r.target \in branchMap[req[t].project]
        /\ req[t].at = "project"
    BY <1>9 DEF deleteBranchRequest, deleteBranch, storedBranch, objVars, At
  <2>2. req[t].project \in ProjectIds
    BY <2>1 DEF TypeOK, RequestsTypeOK, RequestOK
  <2> QED
    BY <1>9, <2>1, <2>2 DEF BelongInv, MapsBelong
<1>10. ASSUME r.at = "pushTag", NEW n \in Names, postTag(t, r.target, n),
              r.project = req[t].project, r.commit = Null
       PROVE  OK(r)
  <2>1. r.target \in TagIds
    BY <1>2, <1>10 DEF TypeOK, RequestsTypeOK, RequestOK
  <2>2. \/ req'[t].at = "idle"
        \/ tagOf'[r.target] = [project |-> req[t].project, name |-> n,
                               commit |-> req[t].commit]
    BY <1>10, <2>1, TaggingDoes
  <2> QED
    BY <1>2, <1>10, <2>2
<1>11. ASSUME r.at = "eraseTag", deleteTagRequest(t, r.target),
              r.project = req[t].project, r.commit = Null
       PROVE  OK(r)
  <2>1. /\ tagOf' = tagOf /\ r.target \in tagMap[req[t].project]
        /\ req[t].at = "project"
    BY <1>11 DEF deleteTagRequest, deleteTag, objVars, At
  <2>2. req[t].project \in ProjectIds
    BY <2>1 DEF TypeOK, RequestsTypeOK, RequestOK
  <2> QED
    BY <1>11, <2>1, <2>2 DEF BelongInv, MapsBelong
<1>12. OK(r)
  BY <1>1, <1>3, <1>4, <1>5, <1>6, <1>7, <1>8, <1>9, <1>10, <1>11 DEF Becomes
<1>13. \A u \in Threads \ {t} : req'[u] = req[u]
  BY <1>1 DEF TypeOK, RequestsTypeOK
<1>14. \A u \in Threads : OK(req'[u])
  BY <1>2, <1>12, <1>13, HeldBelongs
<1> QED
  BY <1>14 DEF RequestsBelong, SameProject

LEMMA RestartBelong ==
  ASSUME TypeOK, ClosedInv, HistoryInv, BelongInv, Restart
  PROVE  BelongInv'
<1>1. UNCHANGED <<branchOf, commitOf, tagOf, projectDoc, branchDocs, docHead,
                  commitDocs, tagDocs>>
  BY DEF Restart, objVars, dbVars
<1>2. CommitsBelong' /\ BranchesBelong'
  BY <1>1 DEF BelongInv, CommitsBelong, BranchesBelong, SameProject, FreshCommit, Restart,
              LoadVersioning
<1>3. TagsBelong'
  <2>1. \A p \in ProjectIds : project[p] # Null => project'[p] # Null
    BY DEF Restart, LoadProjects, getAllProjects
  <2> QED
    BY <1>1, <2>1 DEF BelongInv, TagsBelong, SameProject, FreshTag, Restart,
                      LoadVersioning, getAllTags, TypeOK, DatabaseTypeOK
<1>4. MapsBelong'
  BY <1>1 DEF MapsBelong, SameProject, Restart, LoadVersioning, getAllTags,
              getAllBranches, getAllCommits
<1>5. RequestsBelong'
  BY DEF RequestsBelong, Restart
<1> QED
  BY <1>2, <1>3, <1>4, <1>5 DEF BelongInv

LEMMA BelongInvariant == Spec => []BelongInv
<1>1. Init => BelongInv
  BY DEF Init, InitDatabase, InitRequests, InitVersioning, BelongInv, CommitsBelong,
         BranchesBelong, TagsBelong, MapsBelong, RequestsBelong, FreshTag
<1>2. TypeOK /\ ClosedInv /\ HistoryInv /\ BelongInv /\ [Next]_vars => BelongInv'
  <2> SUFFICES ASSUME TypeOK, ClosedInv, HistoryInv, BelongInv, [Next]_vars
               PROVE  BelongInv'
    OBVIOUS
  <2>1. CASE UNCHANGED vars
    BY <2>1 DEF vars, objVars, dbVars, pvsVars, reqVars, BelongInv, CommitsBelong,
                BranchesBelong, TagsBelong, MapsBelong, RequestsBelong, SameProject,
                FreshCommit, FreshTag
  <2>2. ASSUME NEW t \in Threads, ThreadStep(t)
        PROVE  BelongInv'
    BY <2>2, CommitsBelongStep, BranchesBelongStep, TagsBelongStep, MapsBelongStep,
       RequestsBelongStep DEF BelongInv
  <2> QED
    BY <2>1, <2>2, RestartBelong DEF Next
<1> QED
  BY <1>1, <1>2, TypeCorrect, ClosedInvariant, HistoryInvariant, PTL DEF Spec

-----------------------------------------------------------------------------
(* What can be found resolves. *)

LEMMA ProjectMapGrows ==
  ASSUME TypeOK, NEW t \in Threads, ThreadStep(t)
  PROVE  \A p \in projectMap' \ projectMap : p \in ProjectIds /\ project[p] = Null
<1>1. Creating(t) => \A p \in projectMap' \ projectMap : p \in ProjectIds /\ project[p] = Null
  BY CreatingDoes DEF Creating
<1>2. deleteProjectWithId(t) => projectMap' \subseteq projectMap
  BY DEF deleteProjectWithId, deleteProject
<1> QED
  BY <1>1, <1>2, Assigners

(* Only a project that cannot be found any more is forgotten. *)
LEMMA IndexKept ==
  ASSUME TypeOK, BelongInv, LiveInv, NEW t \in Threads, ThreadStep(t),
         NEW x \in commitIndex, commitOf[x].project \in projectMap
  PROVE  x \in commitIndex'
<1>1. MoveHead(t) => x \in commitIndex'
  BY MoveHeadDoes
<1>2. ASSUME ForgetProject(t)
      PROVE  x \in commitIndex'
  <2>1. req[t].at = "forget" /\ req[t].project \in ProjectIds
    BY <1>2 DEF ForgetProject, At, TypeOK, RequestsTypeOK, RequestOK
  <2>2. req[t].project \notin projectMap
    BY <2>1 DEF LiveInv
  <2>3. x \notin commitMap[req[t].project]
    BY <2>1, <2>2 DEF BelongInv, MapsBelong, SameProject
  <2> QED
    BY <1>2, <2>3 DEF ForgetProject, forgetProject
<1> QED
  BY <1>1, <1>2, Assigners

(* A project that is created while the maps still hold something of it     *)
(* would be found with dangling references: it never exists twice.         *)
LEMMA CreatedResolves ==
  ASSUME TypeOK, BelongInv, NEW t \in Threads, ThreadStep(t), Creating(t),
         NEW p \in projectMap' \ projectMap
  PROVE  IndexedInMaps(p)'
<1>1. PICK q \in ProjectIds, b \in BranchIds, a \in Attributes : postProject(t, q, b, a)
  BY DEF Creating
<1>2. p = q /\ project[p] = Null
  BY <1>1, CreatingDoes
<1>3. commitMap'[p] = {} /\ branchMap'[p] \subseteq {b} /\ head' = [head EXCEPT ![b] = Null]
  BY <1>1, <1>2, CreatingDoes
<1>4. tagMap' = tagMap
  BY <1>1 DEF postProject, createProject, addBranchFromProject
<1>5. tagMap[p] = {}
  <2> SUFFICES ASSUME NEW g \in tagMap[p]
               PROVE  FALSE
    OBVIOUS
  <2>1. g \in TagIds /\ tagOf[g].project = p
    BY <1>1, <1>2 DEF TypeOK, MemoryTypeOK, BelongInv, MapsBelong
  <2> QED
    BY <1>1, <1>2, <2>1 DEF BelongInv, TagsBelong, FreshTag
<1>6. \A x \in branchMap'[p] : head'[x] = Null
  BY <1>3 DEF TypeOK, MemoryTypeOK
<1> QED
  BY <1>3, <1>4, <1>5, <1>6 DEF IndexedInMaps

LEMMA MapsResolve ==
  ASSUME TypeOK, ClosedInv, HistoryInv, BelongInv, LiveInv, NEW t \in Threads,
         ThreadStep(t), NEW p \in projectMap, p \in projectMap'
  PROVE  IndexedInMaps(p)'
<1>1. p \in ProjectIds /\ IndexedInMaps(p)
  BY DEF TypeOK, MemoryTypeOK, LiveInv
<1>2. \A x \in commitIndex : SameProject(x, p) => x \in commitIndex'
  BY IndexKept DEF SameProject
<1>3. \A c \in commitDocs : SameProject(c, p) =>
        \A x \in commitOf[c].previous : SameProject(x, p)
  BY DEF BelongInv, CommitsBelong, SameProject
<1>4. ASSUME NEW c \in commitMap'[p]
      PROVE  c \in commitIndex' /\ commitOf'[c].previous \subseteq commitIndex'
  <2>1. CASE c \in commitMap[p]
    <3>1. c \in commitIndex /\ commitOf[c].previous \subseteq commitIndex
      BY <1>1, <2>1 DEF IndexedInMaps
    <3>2. c \in commitDocs /\ SameProject(c, p)
      BY <1>1, <2>1, <3>1 DEF ClosedInv, IndexStored, BelongInv, MapsBelong
    <3> QED
      BY <1>2, <1>3, <3>1, <3>2, StoredKept
  <2>2. CASE c \notin commitMap[p]
    <3>1. MoveHead(t) /\ p = req[t].project /\ c = req[t].commit
      BY <1>1, <2>2, MapsGrow
    <3>2. /\ req[t].at = "moveHead" /\ c \in CommitIds /\ commitOf' = commitOf
          /\ commitIndex' = commitIndex \cup {c}
      BY <3>1, MoveHeadDoes
    <3>3. commitOf[c].previous \subseteq commitIndex
      BY <3>1, <3>2 DEF LiveInv, IndexedByRequest
    <3> QED
      BY <3>2, <3>3
  <2> QED
    BY <2>1, <2>2
<1>5. ASSUME NEW b \in branchMap'[p], head'[b] # Null
      PROVE  head'[b] \in commitIndex'
  <2>1. CASE b \in branchMap[p] /\ head'[b] = head[b]
    <3>1. head[b] \in commitIndex
      BY <1>1, <1>5, <2>1 DEF IndexedInMaps
    <3>2. SameProject(head[b], p)
      BY <1>1, <1>5, <2>1 DEF BelongInv, MapsBelong, BranchesBelong, TypeOK, MemoryTypeOK
    <3> QED
      BY <1>2, <2>1, <3>1, <3>2
  <2>2. CASE b \in branchMap[p] /\ head'[b] # head[b]
    <3>1. b \in BranchIds /\ ~FreshBranch(b)
      BY <1>1, <2>2 DEF BelongInv, MapsBelong, FreshBranch, TypeOK, MemoryTypeOK
    <3>2. ~Branching(t)
      BY <2>2, <3>1, BranchingDoes DEF Branching
    <3>3. Creating(t) => head'[b] = head[b]
      BY <3>1, CreatingDoes DEF Creating, TypeOK, MemoryTypeOK
    <3>4. MoveHead(t)
      BY <2>2, <3>2, <3>3, Assigners
    <3> QED
      BY <2>2, <3>1, <3>4, MoveHeadDoes
  <2>3. ASSUME PushBranch(t), p = req[t].project, b = req[t].target
        PROVE  head'[b] \in commitIndex'
    <3>1. req[t].at = "pushBranch" /\ head' = head /\ commitIndex' = commitIndex
      BY <2>3 DEF PushBranch, At
    <3> QED
      BY <1>5, <2>3, <3>1 DEF LiveInv, IndexedByRequest
  <2>4. ASSUME NEW a \in Attributes, postProject(t, p, b, a), b \in BranchIds
        PROVE  FALSE
    BY <1>1, <2>4, CreatingDoes DEF TypeOK, MemoryTypeOK
  <2>5. b \in BranchIds
    BY <1>1, StepTypeOK DEF TypeOK, MemoryTypeOK
  <2> QED
    BY <1>1, <2>1, <2>2, <2>3, <2>4, <2>5, MapsGrow
<1>6. ASSUME NEW g \in tagMap'[p]
      PROVE  tagOf'[g].commit \in commitIndex'
  <2>1. CASE g \in tagMap[p]
    <3>1. g \in TagIds /\ tagOf[g].project = p /\ ~FreshTag(g)
      BY <1>1, <2>1 DEF BelongInv, MapsBelong, FreshTag, TypeOK, MemoryTypeOK
    <3>2. tagOf[g].commit \in commitIndex /\ SameProject(tagOf[g].commit, p)
      BY <1>1, <2>1, <3>1 DEF IndexedInMaps, BelongInv, TagsBelong
    <3> QED
      BY <1>2, <3>1, <3>2, Stable
  <2>2. CASE g \notin tagMap[p]
    <3>1. PushTag(t) /\ p = req[t].project /\ g = req[t].target
      BY <1>1, <2>2, MapsGrow
    <3>2. req[t].at = "pushTag" /\ tagOf' = tagOf /\ commitIndex' = commitIndex
      BY <3>1 DEF PushTag, At, objVars
    <3> QED
      BY <3>1, <3>2 DEF LiveInv, IndexedByRequest
  <2> QED
    BY <2>1, <2>2
<1> QED
  BY <1>4, <1>5, <1>6 DEF IndexedInMaps

(* What the request of another thread holds still resolves. *)
LEMMA HeldResolves ==
  ASSUME TypeOK, ClosedInv, HistoryInv, BelongInv, LiveInv, NEW t \in Threads,
         ThreadStep(t), NEW u \in Threads \ {t}, req'[u] = req[u], req[u].at # "idle"
  PROVE  /\ req[u].project \in projectMap' => IndexedByRequest(req[u])'
         /\ req[u].at = "forget" => req[u].project \notin projectMap'
<1> DEFINE r == req[u]
<1>1. r.project \in ProjectIds /\ project[r.project] # Null /\ RequestOK(r)
  BY DEF TypeOK, RequestsTypeOK, RequestOK
<1>2. r.project \in projectMap' => r.project \in projectMap
  BY <1>1, ProjectMapGrows
<1>3. r.at = "forget" => r.project \notin projectMap'
  BY <1>2 DEF LiveInv
<1>4. ASSUME r.project \in projectMap'
      PROVE  /\ r.at = "commit" => r.commit \in commitIndex'
             /\ r.at = "moveHead" => commitOf'[r.commit].previous \subseteq commitIndex'
             /\ r.at = "pushBranch" /\ head'[r.target] # Null =>
                  head'[r.target] \in commitIndex'
             /\ r.at = "pushTag" => tagOf'[r.target].commit \in commitIndex'
  <2>1. IndexedByRequest(r) /\ r.project \in projectMap
    BY <1>2, <1>4 DEF LiveInv
  <2>2. \A x \in commitIndex : SameProject(x, r.project) => x \in commitIndex'
    BY <2>1, IndexKept DEF SameProject
  <2>3. r.commit # Null => r.commit \in commitDocs /\ SameProject(r.commit, r.project)
    BY DEF ClosedInv, RequestsStored, BelongInv, RequestsBelong
  <2>4. r.at = "commit" => r.commit \in commitIndex'
    BY <1>1, <2>1, <2>2, <2>3 DEF IndexedByRequest, RequestOK
  <2>5. ASSUME r.at = "moveHead"
        PROVE  commitOf'[r.commit].previous \subseteq commitIndex'
    <3>1. r.commit \in commitDocs /\ SameProject(r.commit, r.project)
      BY <1>1, <2>3, <2>5 DEF RequestOK
    <3>2. \A x \in commitOf[r.commit].previous : SameProject(x, r.project)
      BY <3>1 DEF BelongInv, CommitsBelong, SameProject
    <3> QED
      BY <2>1, <2>2, <2>5, <3>1, <3>2, StoredKept DEF IndexedByRequest
  <2>6. ASSUME r.at = "pushBranch", head'[r.target] # Null
        PROVE  head'[r.target] \in commitIndex'
    <3>1. ~PvsFree /\ req[t].at \notin InVersioning
      BY <2>6, Alone
    <3>2. head' = head
      BY <3>1, Assigners DEF MoveHead, At, Branching, postBranch, createBranch, Creating,
         postProject, createProject, addBranchFromProject
    <3>3. head[r.target] \in commitIndex
      BY <2>1, <2>6, <3>2 DEF IndexedByRequest
    <3>4. r.target \in BranchIds /\ branchOf[r.target].project = r.project
      BY <1>1, <2>6 DEF RequestOK, BelongInv, RequestsBelong
    <3>5. SameProject(head[r.target], r.project)
      BY <2>6, <3>2, <3>4 DEF BelongInv, BranchesBelong
    <3> QED
      BY <2>2, <3>2, <3>3, <3>5
  <2>7. ASSUME r.at = "pushTag"
        PROVE  tagOf'[r.target].commit \in commitIndex'
    <3>1. r.target \in TagIds /\ tagOf[r.target].project = r.project
      BY <1>1, <2>7 DEF RequestOK, BelongInv, RequestsBelong
    <3>2. ~FreshTag(r.target)
      BY <1>1, <3>1 DEF FreshTag
    <3>3. SameProject(tagOf[r.target].commit, r.project)
      BY <3>1, <3>2 DEF BelongInv, TagsBelong
    <3> QED
      BY <2>1, <2>2, <2>7, <3>1, <3>2, <3>3, Stable DEF IndexedByRequest
  <2> QED
    BY <2>4, <2>5, <2>6, <2>7
<1> QED
  BY <1>3, <1>4 DEF IndexedByRequest

(* What a request gets hold of resolves. *)
LEMMA BecomesResolves ==
  ASSUME TypeOK, ClosedInv, HistoryInv, BelongInv, LiveInv, NEW t \in Threads,
         ThreadStep(t), NEW r, req' = [req EXCEPT ![t] = r], Becomes(t, r)
  PROVE  /\ r.project \in projectMap' => IndexedByRequest(r)'
         /\ r.at = "forget" => r.project \notin projectMap'
<1>1. TypeOK' /\ req'[t] = r
  BY StepTypeOK DEF TypeOK, RequestsTypeOK
<1>2. RequestOK(r)
  BY <1>1 DEF TypeOK, RequestsTypeOK, RequestOK, ProjectFields
<1>3. req[t].at # "idle" /\ req[t].project \in projectMap' => IndexedByRequest(req[t])
  BY ProjectMapGrows DEF TypeOK, RequestsTypeOK, LiveInv
<1>4. ASSUME r.at = "commit", findCommit(t, r.commit)
      PROVE  r.commit \in commitIndex'
  BY <1>4 DEF findCommit, getCommitById, pvsVars
<1>5. ASSUME r.at = "moveHead", r.project = req[t].project, r.project \in projectMap',
             postCommit(t, r.target, r.commit) \/ postMerge(t, r.target, r.commit)
      PROVE  commitOf'[r.commit].previous \subseteq commitIndex'
  <2>1. r.target \in BranchIds /\ r.commit \in CommitIds
    BY <1>2, <1>5 DEF RequestOK
  <2>2. commitIndex' = commitIndex /\ req[t].at # "idle"
    BY <1>5 DEF postCommit, createCommit, postMerge, mergeIntoBranch, StoreCommit,
                pvsVars, At
  <2>3. r.project \in projectMap
    BY <1>5, <2>2, ProjectMapGrows DEF TypeOK, RequestsTypeOK
  <2>4. r.target \in branchMap[r.project]
    BY <1>5, <2>1, CommittingDoes
  <2>5. head[r.target] # Null => head[r.target] \in commitIndex
    BY <2>3, <2>4 DEF LiveInv, IndexedInMaps
  <2>6. req[t].at = "commit" => req[t].commit \in commitIndex
    BY <1>3, <1>5, <2>2 DEF IndexedByRequest
  <2>7. \A x \in commitOf'[r.commit].previous :
          \/ x = head[r.target] /\ x # Null
          \/ x = req[t].commit /\ req[t].at = "commit"
    BY <1>1, <1>5, <2>1, CommittingDoes
  <2> QED
    BY <2>2, <2>5, <2>6, <2>7
<1>6. ASSUME r.at = "pushBranch", r.project = req[t].project, r.project \in projectMap',
             NEW n \in Names, postBranch(t, r.target, n)
      PROVE  head'[r.target] \in commitIndex'
  <2>1. r.target \in BranchIds
    BY <1>2, <1>6 DEF RequestOK
  <2>2. head'[r.target] = req[t].commit \/ req'[t].at = "idle"
    BY <1>6, <2>1, BranchingDoes
  <2>3. commitIndex' = commitIndex /\ req[t].at = "commit"
    BY <1>6 DEF postBranch, createBranch, At
  <2> QED
    BY <1>1, <1>3, <1>6, <2>2, <2>3 DEF IndexedByRequest
<1>7. ASSUME r.at = "pushTag", r.project = req[t].project, r.project \in projectMap',
             NEW n \in Names, postTag(t, r.target, n)
      PROVE  tagOf'[r.target].commit \in commitIndex'
  <2>1. r.target \in TagIds
    BY <1>2, <1>7 DEF RequestOK
  <2>2. \/ req'[t].at = "idle"
        \/ tagOf'[r.target] = [project |-> req[t].project, name |-> n,
                               commit |-> req[t].commit]
    BY <1>7, <2>1, TaggingDoes
  <2>3. commitIndex' = commitIndex /\ req[t].at = "commit"
    BY <1>7 DEF postTag, createTag, At, pvsVars
  <2> QED
    BY <1>1, <1>3, <1>7, <2>2, <2>3 DEF IndexedByRequest
<1>8. ASSUME r.at = "forget", r.project = req[t].project, deleteProjectWithId(t)
      PROVE  r.project \notin projectMap'
  <2>1. PICK o \in DbOutcomes :
          /\ projectMap' = IF Reported(o) THEN projectMap \ {req[t].project} ELSE projectMap
          /\ Reported(o) \/ Respond(t)
    BY <1>8 DEF deleteProjectWithId, deleteProject
  <2>2. ~Respond(t)
    BY <1>1, <1>8 DEF Respond, TypeOK, RequestsTypeOK
  <2> QED
    BY <1>8, <2>1, <2>2
<1>9. CASE r.at \in {"idle", "project", "addProject", "restoreDefault", "eraseBranch",
                     "eraseTag", "writeProject"}
  BY <1>9 DEF IndexedByRequest
<1> QED
  BY <1>4, <1>5, <1>6, <1>7, <1>8, <1>9 DEF Becomes, IndexedByRequest

LEMMA StepLive ==
  ASSUME TypeOK, ClosedInv, HistoryInv, BelongInv, LiveInv, NEW t \in Threads,
         ThreadStep(t)
  PROVE  LiveInv'
<1>1. \A p \in projectMap' : IndexedInMaps(p)'
  <2> SUFFICES ASSUME NEW p \in projectMap'
               PROVE  IndexedInMaps(p)'
    OBVIOUS
  <2>1. CASE p \in projectMap
    BY <2>1, MapsResolve
  <2>2. CASE p \notin projectMap
    <3>1. Creating(t)
      BY <2>2, Assigners DEF deleteProjectWithId, deleteProject
    <3> QED
      BY <2>2, <3>1, CreatedResolves
  <2> QED
    BY <2>1, <2>2
<1>2. PICK r : req' = [req EXCEPT ![t] = r] /\ Becomes(t, r)
  BY RequestBecomes
<1>3. req'[t] = r /\ \A u \in Threads \ {t} : req'[u] = req[u]
  BY <1>2 DEF TypeOK, RequestsTypeOK
<1>4. /\ req'[t].project \in projectMap' => IndexedByRequest(req[t])'
      /\ req'[t].at = "forget" => req'[t].project \notin projectMap'
  BY <1>2, <1>3, BecomesResolves DEF IndexedByRequest
<1>5. ASSUME NEW u \in Threads \ {t}
      PROVE  /\ req'[u].project \in projectMap' => IndexedByRequest(req[u])'
             /\ req'[u].at = "forget" => req'[u].project \notin projectMap'
  <2>1. CASE req[u].at = "idle"
    BY <1>3, <2>1 DEF IndexedByRequest
  <2>2. CASE req[u].at # "idle"
    BY <1>3, <2>2, HeldResolves
  <2> QED
    BY <2>1, <2>2
<1> QED
  BY <1>1, <1>4, <1>5 DEF LiveInv

LEMMA RestartLive ==
  ASSUME TypeOK, ClosedInv, BelongInv, Restart
  PROVE  LiveInv'
<1>1. UNCHANGED <<branchOf, commitOf, tagOf, branchDocs, docHead, commitDocs, tagDocs>>
  BY DEF Restart, objVars, dbVars
<1>2. commitDocs \subseteq commitIndex'
  <2> SUFFICES ASSUME NEW c \in commitDocs
               PROVE  c \in commitIndex'
    OBVIOUS
  <2>1. commitOf[c].project \in ProjectIds
    BY DEF TypeOK, DatabaseTypeOK, BelongInv, CommitsBelong, FreshCommit
  <2>2. c \in getAllCommits[commitOf[c].project]
    BY <2>1 DEF getAllCommits
  <2> QED
    BY <2>1, <2>2 DEF Restart, LoadVersioning
<1>3. projectMap' \subseteq ProjectIds
  BY DEF Restart, LoadProjects, getAllProjects
<1>4. ASSUME NEW p \in ProjectIds
      PROVE  IndexedInMaps(p)'
  <2>1. /\ commitMap'[p] \subseteq commitDocs
        /\ branchMap'[p] \subseteq branchDocs
        /\ tagMap'[p] \subseteq tagDocs
    BY DEF Restart, LoadVersioning, getAllCommits, getAllBranches, getAllTags
  <2>2. \A b \in branchDocs : b \in BranchIds /\ head'[b] = docHead[b]
    BY DEF Restart, LoadVersioning, TypeOK, DatabaseTypeOK
  <2> QED
    BY <1>1, <1>2, <2>1, <2>2
    DEF IndexedInMaps, ClosedInv, PreviousStored, HeadsStored, TagsStored
<1>5. \A t \in Threads : req'[t].at = "idle"
  BY DEF Restart
<1> QED
  BY <1>3, <1>4, <1>5 DEF LiveInv, IndexedByRequest

LEMMA LiveInvariant == Spec => []LiveInv
<1>1. Init => LiveInv
  BY DEF Init, InitRequests, InitProjects, LiveInv, IndexedByRequest
<1>2. TypeOK /\ ClosedInv /\ HistoryInv /\ BelongInv /\ LiveInv /\ [Next]_vars => LiveInv'
  <2> SUFFICES ASSUME TypeOK, ClosedInv, HistoryInv, BelongInv, LiveInv, [Next]_vars
               PROVE  LiveInv'
    OBVIOUS
  <2>1. CASE UNCHANGED vars
    BY <2>1 DEF vars, objVars, pvsVars, reqVars, LiveInv, IndexedInMaps, IndexedByRequest
  <2> QED
    BY <2>1, StepLive, RestartLive DEF Next
<1> QED
  BY <1>1, <1>2, TypeCorrect, ClosedInvariant, HistoryInvariant, BelongInvariant, PTL
  DEF Spec

(* In a project that can be found, commits, heads and tags resolve through *)
(* getCommitById to commits of this project: no request that is under way  *)
(* while the project or another one is deleted or created, and no restart, *)
(* leaves a reference behind that does not.                                *)
THEOREM ReferencesResolve == Spec => []LiveReferencesResolve
<1>1. TypeOK /\ ClosedInv /\ BelongInv /\ LiveInv => LiveReferencesResolve
  <2> SUFFICES ASSUME TypeOK, ClosedInv, BelongInv, LiveInv, NEW p \in projectMap
               PROVE  /\ \A c \in commitMap[p] :
                           Resolves(p, c) /\ \A x \in commitOf[c].previous : Resolves(p, x)
                      /\ \A b \in branchMap[p] : head[b] # Null => Resolves(p, head[b])
                      /\ \A g \in tagMap[p] : Resolves(p, tagOf[g].commit)
    BY DEF LiveReferencesResolve
  <2>1. p \in ProjectIds /\ IndexedInMaps(p)
    BY DEF TypeOK, MemoryTypeOK, LiveInv
  <2>2. ASSUME NEW c \in commitMap[p]
        PROVE  Resolves(p, c) /\ \A x \in commitOf[c].previous : Resolves(p, x)
    BY <2>1, <2>2
    DEF Resolves, IndexedInMaps, BelongInv, MapsBelong, CommitsBelong, SameProject,
        ClosedInv, IndexStored
  <2>3. ASSUME NEW b \in branchMap[p], head[b] # Null
        PROVE  Resolves(p, head[b])
    BY <2>1, <2>3
    DEF Resolves, IndexedInMaps, BelongInv, MapsBelong, BranchesBelong, SameProject,
        TypeOK, MemoryTypeOK
  <2>4. ASSUME NEW g \in tagMap[p]
        PROVE  Resolves(p, tagOf[g].commit)
    <3>1. g \in TagIds /\ tagOf[g].project = p /\ ~FreshTag(g)
      BY <2>1, <2>4 DEF BelongInv, MapsBelong, FreshTag, TypeOK, MemoryTypeOK
    <3> QED
      BY <2>1, <2>4, <3>1 DEF Resolves, IndexedInMaps, BelongInv, TagsBelong, SameProject
  <2> QED
    BY <2>2, <2>3, <2>4
<1> QED
  BY <1>1, TypeCorrect, ClosedInvariant, BelongInvariant, LiveInvariant, PTL

-----------------------------------------------------------------------------
(* What is deleted stays deleted. *)

LEMMA GoneProjectKept ==
  ASSUME TypeOK, NEW t \in Threads, ThreadStep(t), NEW p \in ProjectIds, GoneProject(p),
         AddProjectDoc(t) => req[t].project # p
  PROVE  GoneProject(p)'
<1>1. project'[p] # Null
  BY Stable DEF GoneProject
<1>2. p \notin projectMap'
  BY ProjectMapGrows DEF GoneProject
<1>3. projectDoc'[p] = Null
  <2>1. AddProjectDoc(t) => projectDoc'[p] = projectDoc[p]
    BY DEF AddProjectDoc, addProject, TypeOK, DatabaseTypeOK
  <2>2. WriteProject(t) => projectDoc'[p] = Null
    BY DEF WriteProject, updateProject, GoneProject, TypeOK, DatabaseTypeOK
  <2>3. deleteProjectWithId(t) => projectDoc'[p] = Null
    BY DEF deleteProjectWithId, deleteProject, deleteProjectDoc, GoneProject, TypeOK,
           DatabaseTypeOK
  <2> QED
    BY <2>1, <2>2, <2>3, Assigners DEF GoneProject
<1> QED
  BY <1>1, <1>2, <1>3 DEF GoneProject

LEMMA BranchDocsGrow ==
  ASSUME TypeOK, NEW t \in Threads, ThreadStep(t)
  PROVE  \A b \in branchDocs' \ branchDocs : FreshBranch(b)
<1>1. Branching(t) => \A b \in branchDocs' \ branchDocs : FreshBranch(b)
  <2> SUFFICES ASSUME NEW x \in BranchIds, NEW n \in Names, postBranch(t, x, n)
               PROVE  \A b \in branchDocs' \ branchDocs : FreshBranch(b)
    BY DEF Branching
  <2>1. FreshBranch(x) /\ branchDocs' \subseteq branchDocs \cup {x}
    BY BranchingDoes
  <2> QED
    BY <2>1
<1>2. Creating(t) => \A b \in branchDocs' \ branchDocs : FreshBranch(b)
  <2> SUFFICES ASSUME NEW p \in ProjectIds, NEW x \in BranchIds, NEW a \in Attributes,
                      postProject(t, p, x, a)
               PROVE  \A b \in branchDocs' \ branchDocs : FreshBranch(b)
    BY DEF Creating
  <2>1. FreshBranch(x) /\ branchDocs' \subseteq branchDocs \cup {x}
    BY CreatingDoes
  <2> QED
    BY <2>1
<1>3. DeletingBranch(t) => branchDocs' \subseteq branchDocs
  BY DEF DeletingBranch, deleteBranchRequest, deleteBranch, deleteBranchDoc
<1> QED
  BY <1>1, <1>2, <1>3, Assigners

LEMMA TagDocsGrow ==
  ASSUME TypeOK, NEW t \in Threads, ThreadStep(t)
  PROVE  \A g \in tagDocs' \ tagDocs : FreshTag(g)
<1>1. Tagging(t) => \A g \in tagDocs' \ tagDocs : FreshTag(g)
  <2> SUFFICES ASSUME NEW x \in TagIds, NEW n \in Names, postTag(t, x, n)
               PROVE  \A g \in tagDocs' \ tagDocs : FreshTag(g)
    BY DEF Tagging
  <2>1. FreshTag(x) /\ tagDocs' \subseteq tagDocs \cup {x}
    BY TaggingDoes
  <2> QED
    BY <2>1
<1>2. DeletingTag(t) => tagDocs' \subseteq tagDocs
  BY DEF DeletingTag, deleteTagRequest, deleteTag, deleteTagDoc
<1> QED
  BY <1>1, <1>2, Assigners

LEMMA GoneBranchKept ==
  ASSUME TypeOK, NEW t \in Threads, ThreadStep(t), NEW b \in BranchIds, GoneBranch(b),
         PushBranch(t) => req[t].target # b
  PROVE  GoneBranch(b)'
<1>1. ~FreshBranch(b)'
  BY Stable DEF GoneBranch, FreshBranch
<1>2. b \notin branchDocs'
  BY BranchDocsGrow DEF GoneBranch
<1>3. ASSUME NEW p \in ProjectIds
      PROVE  b \notin branchMap'[p]
  BY MapsGrow, CreatingDoes DEF GoneBranch
<1> QED
  BY <1>1, <1>2, <1>3 DEF GoneBranch

LEMMA GoneTagKept ==
  ASSUME TypeOK, NEW t \in Threads, ThreadStep(t), NEW g \in TagIds, GoneTag(g),
         PushTag(t) => req[t].target # g
  PROVE  GoneTag(g)'
<1>1. ~FreshTag(g)'
  BY Stable DEF GoneTag, FreshTag
<1>2. g \notin tagDocs'
  BY TagDocsGrow DEF GoneTag
<1>3. ASSUME NEW p \in ProjectIds
      PROVE  g \notin tagMap'[p]
  BY MapsGrow DEF GoneTag
<1> QED
  BY <1>1, <1>2, <1>3 DEF GoneTag

(* What clients are told is deleted, and when. *)
LEMMA DeletedGrows ==
  ASSUME TypeOK, NEW t \in Threads, ThreadStep(t)
  PROVE  /\ deleted \subseteq deleted'
         /\ \A x \in deleted' \ deleted :
              \/ EraseBranch(t) /\ req[t].at = "eraseBranch" /\ x = req[t].target
                   /\ x \in BranchIds /\ x \notin ProjectIds \cup TagIds
              \/ EraseTag(t) /\ req[t].at = "eraseTag" /\ x = req[t].target
                   /\ x \in TagIds /\ x \notin ProjectIds \cup BranchIds
              \/ ForgetProject(t) /\ req[t].at = "forget" /\ x = req[t].project
                   /\ x \in ProjectIds /\ x \notin BranchIds \cup TagIds
<1>1. ASSUME EraseBranch(t)
      PROVE  /\ req[t].at = "eraseBranch" /\ deleted' = deleted \cup {req[t].target}
             /\ req[t].target \in BranchIds
  BY <1>1 DEF EraseBranch, At, TypeOK, RequestsTypeOK, RequestOK
<1>2. ASSUME EraseTag(t)
      PROVE  /\ req[t].at = "eraseTag" /\ deleted' = deleted \cup {req[t].target}
             /\ req[t].target \in TagIds
  BY <1>2 DEF EraseTag, At, TypeOK, RequestsTypeOK, RequestOK
<1>3. ASSUME ForgetProject(t)
      PROVE  /\ req[t].at = "forget" /\ deleted' = deleted \cup {req[t].project}
             /\ req[t].project \in ProjectIds
  BY <1>3 DEF ForgetProject, At, TypeOK, RequestsTypeOK, RequestOK
<1>4. CASE deleted' = deleted
  BY <1>4
<1>5. CASE EraseBranch(t)
  BY <1>1, <1>5
<1>6. CASE EraseTag(t)
  BY <1>2, <1>6
<1>7. CASE ForgetProject(t)
  BY <1>3, <1>7
<1> QED
  BY <1>4, <1>5, <1>6, <1>7, Assigners

LEMMA DeletedGoneStep ==
  ASSUME TypeOK, BelongInv, GoneInv, NEW t \in Threads, ThreadStep(t)
  PROVE  DeletedGone'
<1>1. ASSUME NEW p \in ProjectIds, p \in deleted'
      PROVE  GoneProject(p)'
  <2>1. GoneProject(p)
    BY <1>1, DeletedGrows DEF GoneInv, DeletedGone, RequestsGone
  <2>2. AddProjectDoc(t) => req[t].project # p
    <3> SUFFICES ASSUME AddProjectDoc(t)
                 PROVE  req[t].project # p
      OBVIOUS
    <3>1. req[t].at = "addProject"
      BY DEF AddProjectDoc, At
    <3>2. p \in deleted
      BY <1>1, <3>1, DeletedGrows
    <3> QED
      BY <3>1, <3>2 DEF GoneInv, RequestsGone
  <2> QED
    BY <2>1, <2>2, GoneProjectKept
<1>2. ASSUME NEW b \in BranchIds, b \in deleted'
      PROVE  GoneBranch(b)'
  <2>1. CASE b \in deleted
    <3>1. PushBranch(t) => req[t].target # b
      BY <2>1 DEF PushBranch, At, GoneInv, RequestsGone
    <3> QED
      BY <2>1, <3>1, GoneBranchKept DEF GoneInv, DeletedGone
  <2>2. CASE b \notin deleted
    <3>1. EraseBranch(t) /\ req[t].at = "eraseBranch" /\ b = req[t].target
      BY <1>2, <2>2, DeletedGrows
    <3>2. /\ b \notin branchDocs /\ ~FreshBranch(b)
          /\ branchOf[b].project = req[t].project /\ req[t].project \in ProjectIds
      BY <3>1 DEF GoneInv, RequestsGone, BelongInv, RequestsBelong, TypeOK,
                  RequestsTypeOK, RequestOK
    <3>3. branchOf' = branchOf /\ branchDocs' = branchDocs
      BY <3>1 DEF EraseBranch, objVars, dbVars
    <3>4. \A p \in ProjectIds : b \notin branchMap'[p]
      BY <3>1, <3>2 DEF EraseBranch, BelongInv, MapsBelong, TypeOK, MemoryTypeOK
    <3> QED
      BY <3>2, <3>3, <3>4 DEF GoneBranch, FreshBranch
  <2> QED
    BY <2>1, <2>2
<1>3. ASSUME NEW g \in TagIds, g \in deleted'
      PROVE  GoneTag(g)'
  <2>1. CASE g \in deleted
    <3>1. PushTag(t) => req[t].target # g
      BY <2>1 DEF PushTag, At, GoneInv, RequestsGone
    <3> QED
      BY <2>1, <3>1, GoneTagKept DEF GoneInv, DeletedGone
  <2>2. CASE g \notin deleted
    <3>1. EraseTag(t) /\ req[t].at = "eraseTag" /\ g = req[t].target
      BY <1>3, <2>2, DeletedGrows
    <3>2. /\ g \notin tagDocs /\ ~FreshTag(g)
          /\ tagOf[g].project = req[t].project /\ req[t].project \in ProjectIds
      BY <3>1 DEF GoneInv, RequestsGone, BelongInv, RequestsBelong, TypeOK,
                  RequestsTypeOK, RequestOK
    <3>3. tagOf' = tagOf /\ tagDocs' = tagDocs
      BY <3>1 DEF EraseTag, objVars, dbVars
    <3>4. \A p \in ProjectIds : g \notin tagMap'[p]
      BY <3>1, <3>2 DEF EraseTag, BelongInv, MapsBelong, TypeOK, MemoryTypeOK
    <3> QED
      BY <3>2, <3>3, <3>4 DEF GoneTag, FreshTag
  <2> QED
    BY <2>1, <2>2
<1> QED
  BY <1>1, <1>2, <1>3 DEF DeletedGone

LEMMA DocumentsKnownStep ==
  ASSUME TypeOK, GoneInv, NEW t \in Threads, ThreadStep(t)
  PROVE  DocumentsKnown'
<1> SUFFICES ASSUME NEW p \in ProjectIds, projectDoc'[p] # Null
             PROVE  project'[p] # Null
  BY DEF DocumentsKnown
<1>1. CASE projectDoc[p] # Null
  BY <1>1, Stable DEF GoneInv, DocumentsKnown
<1>2. CASE projectDoc[p] = Null
  <2>1. ~WriteProject(t) /\ ~deleteProjectWithId(t)
    BY <1>2 DEF WriteProject, updateProject, deleteProjectWithId, deleteProject,
                deleteProjectDoc, TypeOK, DatabaseTypeOK
  <2>2. AddProjectDoc(t)
    BY <1>2, <2>1, Assigners
  <2>3. p = req[t].project /\ req[t].at = "addProject"
    BY <1>2, <2>2 DEF AddProjectDoc, addProject, At, TypeOK, DatabaseTypeOK
  <2> QED
    BY <2>3, Stable DEF TypeOK, RequestsTypeOK
<1> QED
  BY <1>1, <1>2

(* What the request of another thread counts on while it is in a critical  *)
(* section is not changed.                                                 *)
LEMMA HeldGone ==
  ASSUME TypeOK, BelongInv, GoneInv, NEW t \in Threads, ThreadStep(t),
         NEW u \in Threads \ {t}, NEW r, r = req[u]
  PROVE  /\ r.at = "forget" => GoneProject(r.project)'
         /\ r.at = "addProject" => r.project \notin deleted' /\ projectDoc'[r.project] = Null
         /\ r.at \in {"pushBranch", "moveHead", "pushTag"} => r.target \notin deleted'
         /\ r.at = "eraseBranch" => r.target \notin branchDocs' /\ ~FreshBranch(r.target)'
         /\ r.at = "eraseTag" => r.target \notin tagDocs' /\ ~FreshTag(r.target)'
<1>1. RequestOK(r) /\ (r.at # "idle" => r.project \in ProjectIds)
  BY DEF TypeOK, RequestsTypeOK, RequestOK
<1>2. ASSUME r.at = "forget"
      PROVE  GoneProject(r.project)'
  <2>1. ~AddProjectDoc(t)
    BY <1>2, Alone DEF AddProjectDoc, At
  <2> QED
    BY <1>1, <1>2, <2>1, GoneProjectKept DEF GoneInv, RequestsGone
<1>3. ASSUME r.at = "addProject"
      PROVE  r.project \notin deleted' /\ projectDoc'[r.project] = Null
  <2>1. ~SpsFree /\ req[t].at \notin InProjects
    BY <1>3, Alone
  <2>2. r.project \notin deleted'
    BY <1>1, <1>3, <2>1, DeletedGrows DEF GoneInv, RequestsGone
  <2>3. projectDoc' = projectDoc
    BY <2>1, Assigners DEF AddProjectDoc, WriteProject, At, deleteProjectWithId,
                           deleteProject
  <2> QED
    BY <1>3, <2>2, <2>3 DEF GoneInv, RequestsGone
<1>4. ASSUME r.at \in InVersioning
      PROVE  /\ deleted' = deleted /\ branchDocs' = branchDocs /\ tagDocs' = tagDocs
  <2>1. ~PvsFree /\ req[t].at \notin InVersioning
    BY <1>4, Alone
  <2>2. deleted' = deleted
    BY <2>1, Assigners DEF EraseBranch, EraseTag, ForgetProject, forgetProject, At
  <2>3. branchDocs' = branchDocs
    BY <2>1, Assigners DEF Branching, postBranch, createBranch, Creating, postProject,
                           createProject, addBranchFromProject, DeletingBranch,
                           deleteBranchRequest, deleteBranch
  <2>4. tagDocs' = tagDocs
    BY <2>1, Assigners DEF Tagging, postTag, createTag, DeletingTag, deleteTagRequest,
                           deleteTag
  <2> QED
    BY <2>2, <2>3, <2>4
<1>5. r.at \in {"pushBranch", "moveHead", "pushTag"} => r.target \notin deleted'
  BY <1>4 DEF GoneInv, RequestsGone
<1>6. ASSUME r.at = "eraseBranch"
      PROVE  r.target \notin branchDocs' /\ ~FreshBranch(r.target)'
  BY <1>1, <1>4, <1>6, Stable DEF GoneInv, RequestsGone, RequestOK, FreshBranch
<1>7. ASSUME r.at = "eraseTag"
      PROVE  r.target \notin tagDocs' /\ ~FreshTag(r.target)'
  BY <1>1, <1>4, <1>7, Stable DEF GoneInv, RequestsGone, RequestOK, FreshTag
<1> QED
  BY <1>2, <1>3, <1>5, <1>6, <1>7

LEMMA BecomesGone ==
  ASSUME TypeOK, BelongInv, GoneInv, NEW t \in Threads, ThreadStep(t), NEW r,
         req' = [req EXCEPT ![t] = r], Becomes(t, r)
  PROVE  /\ r.at = "forget" => GoneProject(r.project)'
         /\ r.at = "addProject" => r.project \notin deleted' /\ projectDoc'[r.project] = Null
         /\ r.at \in {"pushBranch", "moveHead", "pushTag"} => r.target \notin deleted'
         /\ r.at = "eraseBranch" => r.target \notin branchDocs' /\ ~FreshBranch(r.target)'
         /\ r.at = "eraseTag" => r.target \notin tagDocs' /\ ~FreshTag(r.target)'
<1>1. TypeOK' /\ req'[t] = r
  BY StepTypeOK DEF TypeOK, RequestsTypeOK
<1>2. RequestOK(r)
  BY <1>1 DEF TypeOK, RequestsTypeOK, RequestOK, ProjectFields
<1>3. ASSUME r.at # "idle"
      PROVE  deleted' = deleted
  <2>1. ~Respond(t)
    BY <1>1, <1>3 DEF Respond, TypeOK, RequestsTypeOK
  <2> QED
    BY <2>1, Assigners DEF EraseBranch, EraseTag, ForgetProject
<1>4. ASSUME r.at = "forget", r.project = req[t].project, deleteProjectWithId(t)
      PROVE  GoneProject(r.project)'
  <2>1. PICK o \in DbOutcomes :
          /\ deleteProjectDoc(req[t].project, o)
          /\ projectMap' = IF Reported(o) THEN projectMap \ {req[t].project} ELSE projectMap
          /\ Reported(o) \/ Respond(t)
    BY <1>4 DEF deleteProjectWithId, deleteProject
  <2>2. ~Respond(t)
    BY <1>1, <1>4 DEF Respond, TypeOK, RequestsTypeOK
  <2>3. Reported(o) /\ Applied(o)
    BY <2>1, <2>2 DEF Reported, Applied
  <2>4. req[t].project \in ProjectIds /\ project[req[t].project] # Null
    BY <1>4 DEF deleteProjectWithId, At, TypeOK, RequestsTypeOK, RequestOK
  <2>5. projectDoc'[req[t].project] = Null
    BY <2>1, <2>3, <2>4 DEF deleteProjectDoc, TypeOK, DatabaseTypeOK
  <2> QED
    BY <1>4, <2>1, <2>3, <2>4, <2>5, Stable DEF GoneProject
<1>5. ASSUME r.at = "addProject", NEW b \in BranchIds, NEW a \in Attributes,
             postProject(t, r.project, b, a)
      PROVE  r.project \notin deleted' /\ projectDoc'[r.project] = Null
  <2>1. r.project \in ProjectIds
    BY <1>2, <1>5 DEF RequestOK
  <2>2. project[r.project] = Null /\ projectDoc' = projectDoc
    BY <1>5 DEF postProject, createProject
  <2>3. r.project \notin deleted
    BY <2>1, <2>2 DEF GoneInv, DeletedGone, GoneProject
  <2> QED
    BY <1>3, <1>5, <2>1, <2>2, <2>3 DEF GoneInv, DocumentsKnown
<1>6. ASSUME r.at = "moveHead", postCommit(t, r.target, r.commit)
                                  \/ postMerge(t, r.target, r.commit)
      PROVE  r.target \notin deleted'
  <2>1. r.target \in BranchIds /\ r.commit \in CommitIds
    BY <1>2, <1>6 DEF RequestOK
  <2>2. req[t].project \in ProjectIds /\ r.target \in branchMap[req[t].project]
    BY <1>6, <2>1, CommittingDoes
  <2> QED
    BY <1>3, <1>6, <2>1, <2>2 DEF GoneInv, DeletedGone, GoneBranch
<1>7. ASSUME r.at = "pushBranch", NEW n \in Names, postBranch(t, r.target, n)
      PROVE  r.target \notin deleted'
  <2>1. r.target \in BranchIds
    BY <1>2, <1>7 DEF RequestOK
  <2>2. FreshBranch(r.target)
    BY <1>7 DEF postBranch, createBranch
  <2> QED
    BY <1>3, <1>7, <2>1, <2>2 DEF GoneInv, DeletedGone, GoneBranch
<1>8. ASSUME r.at = "pushTag", NEW n \in Names, postTag(t, r.target, n)
      PROVE  r.target \notin deleted'
  <2>1. r.target \in TagIds
    BY <1>2, <1>8 DEF RequestOK
  <2>2. FreshTag(r.target)
    BY <1>8 DEF postTag, createTag
  <2> QED
    BY <1>3, <1>8, <2>1, <2>2 DEF GoneInv, DeletedGone, GoneTag
<1>9. ASSUME r.at = "eraseBranch", deleteBranchRequest(t, r.target)
      PROVE  r.target \notin branchDocs' /\ ~FreshBranch(r.target)'
  <2>1. PICK o \in DbOutcomes : deleteBranchDoc(r.target, o) /\ (Reported(o) \/ Respond(t))
    BY <1>9 DEF deleteBranchRequest, deleteBranch
  <2>2. ~Respond(t)
    BY <1>1, <1>9 DEF Respond, TypeOK, RequestsTypeOK
  <2>3. r.target \notin branchDocs'
    BY <2>1, <2>2 DEF deleteBranchDoc, Reported, Applied
  <2>4. /\ r.target \in branchMap[req[t].project] /\ branchOf' = branchOf
        /\ req[t].project \in ProjectIds
    BY <1>9 DEF deleteBranchRequest, deleteBranch, storedBranch, objVars, At, TypeOK,
                RequestsTypeOK, RequestOK
  <2> QED
    BY <2>3, <2>4 DEF BelongInv, MapsBelong, FreshBranch
<1>10. ASSUME r.at = "eraseTag", deleteTagRequest(t, r.target)
       PROVE  r.target \notin tagDocs' /\ ~FreshTag(r.target)'
  <2>1. PICK o \in DbOutcomes : deleteTagDoc(r.target, o) /\ (Reported(o) \/ Respond(t))
    BY <1>10 DEF deleteTagRequest, deleteTag
  <2>2. ~Respond(t)
    BY <1>1, <1>10 DEF Respond, TypeOK, RequestsTypeOK
  <2>3. r.target \notin tagDocs'
    BY <2>1, <2>2 DEF deleteTagDoc, Reported, Applied
  <2>4. /\ r.target \in tagMap[req[t].project] /\ tagOf' = tagOf
        /\ req[t].project \in ProjectIds
    BY <1>10 DEF deleteTagRequest, deleteTag, objVars, At, TypeOK, RequestsTypeOK,
                 RequestOK
  <2> QED
    BY <2>3, <2>4 DEF BelongInv, MapsBelong, FreshTag
<1> QED
  BY <1>4, <1>5, <1>6, <1>7, <1>8, <1>9, <1>10 DEF Becomes

LEMMA RequestsGoneStep ==
  ASSUME TypeOK, BelongInv, GoneInv, NEW t \in Threads, ThreadStep(t)
  PROVE  RequestsGone'
<1>1. PICK r : req' = [req EXCEPT ![t] = r] /\ Becomes(t, r)
  BY RequestBecomes
<1>2. req'[t] = r /\ \A u \in Threads \ {t} : req'[u] = req[u]
  BY <1>1 DEF TypeOK, RequestsTypeOK
<1> DEFINE OK(q) ==
      /\ q.at = "forget" => /\ project'[q.project] # Null /\ q.project \notin projectMap'
                            /\ projectDoc'[q.project] = Null
      /\ q.at = "addProject" => q.project \notin deleted' /\ projectDoc'[q.project] = Null
      /\ q.at \in {"pushBranch", "moveHead", "pushTag"} => q.target \notin deleted'
      /\ q.at = "eraseBranch" =>
           q.target \notin branchDocs' /\ branchOf'[q.target].project # Null
      /\ q.at = "eraseTag" => q.target \notin tagDocs' /\ tagOf'[q.target].project # Null
<1>3. OK(r)
  BY <1>1, BecomesGone DEF GoneProject, FreshBranch, FreshTag
<1>4. \A u \in Threads \ {t} : OK(req[u])
  BY HeldGone DEF GoneProject, FreshBranch, FreshTag
<1>5. \A u \in Threads : OK(req'[u])
  BY <1>2, <1>3, <1>4
<1> QED
  BY <1>5 DEF RequestsGone, GoneProject, FreshBranch, FreshTag

LEMMA RestartGone ==
  ASSUME TypeOK, GoneInv, Restart
  PROVE  GoneInv'
<1>1. UNCHANGED <<branchOf, tagOf, projectDoc, branchDocs, tagDocs, deleted>>
  BY DEF Restart, objVars, dbVars
<1>2. /\ projectMap' = getAllProjects
      /\ branchMap' = getAllBranches /\ tagMap' = getAllTags
      /\ \A t \in Threads : req'[t].at = "idle"
  BY DEF Restart, LoadProjects, LoadVersioning
<1>3. \A p \in ProjectIds :
        project'[p] = IF projectDoc[p] # Null THEN projectDoc[p] ELSE project[p]
  BY DEF Restart, LoadProjects, getAllProjects
<1>4. DeletedGone'
  BY <1>1, <1>2, <1>3
  DEF GoneInv, DeletedGone, GoneProject, GoneBranch, GoneTag, FreshBranch, FreshTag,
      getAllProjects, getAllBranches, getAllTags
<1>5. DocumentsKnown'
  BY <1>1, <1>3 DEF DocumentsKnown
<1>6. RequestsGone'
  BY <1>2 DEF RequestsGone
<1> QED
  BY <1>4, <1>5, <1>6 DEF GoneInv

LEMMA GoneInvariant == Spec => []GoneInv
<1>1. Init => GoneInv
  BY DEF Init, InitDatabase, InitRequests, GoneInv, DeletedGone, DocumentsKnown,
         RequestsGone
<1>2. TypeOK /\ BelongInv /\ GoneInv /\ [Next]_vars => GoneInv'
  <2> SUFFICES ASSUME TypeOK, BelongInv, GoneInv, [Next]_vars
               PROVE  GoneInv'
    OBVIOUS
  <2>1. CASE UNCHANGED vars
    BY <2>1
    DEF vars, objVars, dbVars, pvsVars, reqVars, clientVars, GoneInv, DeletedGone,
        DocumentsKnown, RequestsGone, GoneProject, GoneBranch, GoneTag, FreshBranch,
        FreshTag
  <2>2. ASSUME NEW t \in Threads, ThreadStep(t)
        PROVE  GoneInv'
    BY <2>2, DeletedGoneStep, DocumentsKnownStep, RequestsGoneStep DEF GoneInv
  <2> QED
    BY <2>1, <2>2, RestartGone DEF Next
<1> QED
  BY <1>1, <1>2, TypeCorrect, BelongInvariant, PTL DEF Spec

(* What a client was told is deleted (a project, a branch or a tag) does   *)
(* not come back, neither by a request that was under way on another       *)
(* thread nor by a restart.                                                *)
THEOREM NothingComesBack == Spec => []DeletedStaysDeleted
<1>1. GoneInv => DeletedStaysDeleted
  BY DEF GoneInv, DeletedGone, GoneProject, GoneBranch, GoneTag, DeletedStaysDeleted
<1> QED
  BY <1>1, GoneInvariant, PTL

-----------------------------------------------------------------------------
(* The refinement: every step of a request, and every restart, is a step   *)
(* of the abstract store or changes nothing there.                         *)

USE DocumentsAssumption, MainNameAssumption

(* A project whose document is about to be written has its default branch  *)
(* in the database already, and no other request has found it yet.         *)
Created(t) ==
  LET p == req[t].project
  IN  /\ project[p].defaultBranch \in branchDocs
      /\ branchOf[project[p].defaultBranch].project = p
      /\ \A u \in Threads \ {t} : req[u].at = "idle" \/ req[u].project # p

CreationInv == \A t \in Threads : req[t].at = "addProject" => Created(t)

LEMMA HeldCreated ==
  ASSUME TypeOK, BelongInv, CreationInv, NEW t \in Threads, ThreadStep(t),
         NEW u \in Threads \ {t}, req[u].at = "addProject",
         NEW p, p = req[u].project
  PROVE  /\ project'[p].defaultBranch \in branchDocs'
         /\ branchOf'[project'[p].defaultBranch].project = p
         /\ \A v \in Threads \ {u} : req'[v].at = "idle" \/ req'[v].project # p
<1>1. p \in ProjectIds /\ project[p] \in ProjectFields
  BY DEF TypeOK, RequestsTypeOK, RequestOK, MemoryTypeOK
<1>2. ~SpsFree /\ req[t].at \notin InProjects
  BY Alone
<1>3. project' = project
  BY <1>2, Assigners
  DEF Creating, postProject, createProject, Updating, putProject, changeProject,
      changeOwner, changeOwnership, WriteProject, restoreDefaultBranch, At
<1> DEFINE b == project[p].defaultBranch
<1>4. /\ b \in BranchIds /\ b \in branchDocs /\ branchOf[b].project = p
      /\ \A v \in Threads \ {u} : req[v].at = "idle" \/ req[v].project # p
  BY <1>1 DEF CreationInv, Created
<1> HIDE DEF b
<1>5. branchOf'[b].project = p
  BY <1>1, <1>4, Stable DEF FreshBranch
<1>6. b \in branchDocs'
  <2>1. ASSUME NEW x \in BranchIds, deleteBranchRequest(t, x)
        PROVE  x # b
    <3>1. req[t].at = "project" /\ x \in branchMap[req[t].project]
      BY <2>1 DEF deleteBranchRequest, deleteBranch, storedBranch, At
    <3>2. req[t].project \in ProjectIds
      BY <3>1 DEF TypeOK, RequestsTypeOK, RequestOK
    <3>3. branchOf[x].project = req[t].project
      BY <3>1, <3>2 DEF BelongInv, MapsBelong
    <3> QED
      BY <1>4, <3>1, <3>3
  <2>2. DeletingBranch(t) => b \in branchDocs'
    BY <1>4, <2>1 DEF DeletingBranch, deleteBranchRequest, deleteBranch, deleteBranchDoc
  <2>3. Branching(t) => b \in branchDocs'
    BY <1>4 DEF Branching, postBranch, createBranch, addBranch
  <2>4. ~Creating(t)
    BY <1>2 DEF Creating, postProject, createProject
  <2> QED
    BY <1>4, <2>2, <2>3, <2>4, Assigners
<1>7. PICK r : req' = [req EXCEPT ![t] = r] /\ Becomes(t, r)
  BY RequestBecomes
<1>8. r.at = "idle" \/ r.project # p
  <2>1. ~\E q \in ProjectIds : withProject(t, q)
    BY <1>2 DEF withProject, getProjectById
  <2>2. ~\E q : \E x \in BranchIds, a \in Attributes : postProject(t, q, x, a)
    BY <1>2 DEF postProject, createProject
  <2>3. req[t].at # "idle" => req[t].project # p
    BY <1>4
  <2>4. CASE r.at # "idle" /\ r.project = req[t].project
    <3>1. req[t].at # "idle"
      BY <1>7, <2>4, <2>1, <2>2
      DEF Becomes, findCommit, postCommit, postMerge, WriteProject, postBranch,
          deleteBranchRequest, postTag, deleteTagRequest, Updating, putProject,
          changeOwner, deleteProjectWithId, At
    <3> QED
      BY <2>3, <2>4, <3>1
  <2> QED
    BY <1>7, <2>1, <2>2, <2>4 DEF Becomes
<1>9. \A v \in Threads \ {u} : req'[v].at = "idle" \/ req'[v].project # p
  BY <1>4, <1>7, <1>8 DEF TypeOK, RequestsTypeOK
<1> QED
  BY <1>3, <1>4, <1>5, <1>6, <1>9 DEF b

LEMMA BecomesCreated ==
  ASSUME TypeOK, NEW t \in Threads, ThreadStep(t), req'[t].at = "addProject",
         NEW p, p = req'[t].project
  PROVE  /\ project'[p].defaultBranch \in branchDocs'
         /\ branchOf'[project'[p].defaultBranch].project = p
         /\ \A v \in Threads \ {t} : req'[v].at = "idle" \/ req'[v].project # p
<1>1. PICK r : req' = [req EXCEPT ![t] = r] /\ Becomes(t, r)
  BY RequestBecomes
<1>2. r = req'[t]
  BY <1>1 DEF TypeOK, RequestsTypeOK
<1>3. PICK b \in BranchIds, a \in Attributes : postProject(t, p, b, a)
  BY <1>1, <1>2 DEF Becomes
<1>4. p \in ProjectIds
  BY StepTypeOK DEF TypeOK, RequestsTypeOK, RequestOK
<1>5. project[p] = Null
  BY <1>3, <1>4, CreatingDoes
<1>6. project' = [project EXCEPT ![p] = [defaultBranch |-> b, attributes |-> a]]
  BY <1>3, <1>4, CreatingDoes
<1>7. branchOf' = [branchOf EXCEPT ![b] = [project |-> p, name |-> MainName]]
  BY <1>3, <1>4, CreatingDoes
<1>8. b \in branchDocs'
  BY <1>2, <1>3, <1>4, CreatingDoes
<1>9. project'[p].defaultBranch = b /\ branchOf'[b].project = p
  BY <1>4, <1>6, <1>7 DEF TypeOK, MemoryTypeOK, DatabaseTypeOK
<1>10. \A v \in Threads \ {t} : req'[v].at = "idle" \/ req'[v].project # p
  BY <1>1, <1>5 DEF TypeOK, RequestsTypeOK
<1> QED
  BY <1>8, <1>9, <1>10

LEMMA CreationInvariant == Spec => []CreationInv
<1>1. Init => CreationInv
  BY DEF Init, InitRequests, CreationInv
<1>2. TypeOK /\ BelongInv /\ CreationInv /\ [Next]_vars => CreationInv'
  <2> SUFFICES ASSUME TypeOK, BelongInv, CreationInv, [Next]_vars
               PROVE  CreationInv'
    OBVIOUS
  <2>1. CASE UNCHANGED vars
    BY <2>1 DEF vars, objVars, dbVars, pvsVars, reqVars, CreationInv, Created
  <2>2. CASE Restart
    BY <2>2 DEF Restart, CreationInv
  <2>3. ASSUME NEW t \in Threads, ThreadStep(t)
        PROVE  CreationInv'
    <3> SUFFICES ASSUME NEW u \in Threads, req'[u].at = "addProject"
                 PROVE  Created(u)'
      BY DEF CreationInv
    <3>1. CASE u = t
      BY <2>3, <3>1, BecomesCreated DEF Created
    <3>2. CASE u # t
      <4>1. PICK r : req' = [req EXCEPT ![t] = r]
        BY <2>3, RequestBecomes
      <4>2. req'[u] = req[u]
        BY <3>2, <4>1 DEF TypeOK, RequestsTypeOK
      <4> QED
        BY <2>3, <3>2, <4>2, HeldCreated DEF Created
    <3> QED
      BY <3>1, <3>2
  <2> QED
    BY <2>1, <2>2, <2>3 DEF Next
<1> QED
  BY <1>1, <1>2, TypeCorrect, BelongInvariant, PTL DEF Spec

-----------------------------------------------------------------------------
(* The variables of the abstract store, as the refinement mapping gives    *)
(* them, and what their functions are applied to an identifier.            *)
StoreProjects == [p \in ProjectIds |-> StoredProject(p)]
StoreBranches == [b \in BranchIds |-> StoredBranch(b)]
StoreCommits == [c \in CommitIds |-> StoredCommit(c)]
StoreTags == [g \in TagIds |-> StoredTag(g)]

LEMMA StoredThere ==
  /\ \A p \in ProjectIds : StoreProjects[p] = projectDoc[p]
  /\ \A b \in BranchIds : /\ b \in branchDocs => StoreBranches[b] =
                               [project |-> branchOf[b].project,
                                name |-> branchOf[b].name, head |-> docHead[b]]
                          /\ b \notin branchDocs => StoreBranches[b] = Null
  /\ \A c \in CommitIds : /\ c \in commitDocs => StoreCommits[c] = commitOf[c]
                          /\ c \notin commitDocs => StoreCommits[c] = Null
  /\ \A g \in TagIds : /\ g \in tagDocs => StoreTags[g] = tagOf[g]
                       /\ g \notin tagDocs => StoreTags[g] = Null
  BY DEF StoreProjects, StoreBranches, StoreCommits, StoreTags, StoredProject,
         StoredBranch, StoredCommit, StoredTag

(* What stays in the store when the documents stay. *)
LEMMA StoreFrame ==
  ASSUME TypeOK, HistoryInv, BelongInv, NEW t \in Threads, ThreadStep(t)
  PROVE  /\ projectDoc' = projectDoc => StoreProjects' = StoreProjects
         /\ branchDocs' = branchDocs /\ docHead' = docHead => StoreBranches' = StoreBranches
         /\ commitDocs' = commitDocs => StoreCommits' = StoreCommits
         /\ tagDocs' = tagDocs => StoreTags' = StoreTags
<1>1. projectDoc' = projectDoc => StoreProjects' = StoreProjects
  BY DEF StoreProjects, StoredProject
<1>2. \A b \in branchDocs : b \in BranchIds /\ branchOf'[b] = branchOf[b]
  BY Stable DEF TypeOK, DatabaseTypeOK, HistoryInv, FreshBlank
<1>3. \A g \in tagDocs : g \in TagIds /\ tagOf'[g] = tagOf[g]
  BY Stable DEF TypeOK, DatabaseTypeOK, BelongInv, TagsBelong
<1>4. branchDocs' = branchDocs /\ docHead' = docHead => StoreBranches' = StoreBranches
  BY <1>2 DEF StoreBranches, StoredBranch
<1>5. commitDocs' = commitDocs => StoreCommits' = StoreCommits
  BY StoredKept DEF StoreCommits, StoredCommit
<1>6. tagDocs' = tagDocs => StoreTags' = StoreTags
  BY <1>3 DEF StoreTags, StoredTag
<1> QED
  BY <1>1, <1>4, <1>5, <1>6

LEMMA StoreStutters ==
  ASSUME StoreProjects' = StoreProjects, StoreBranches' = StoreBranches,
         StoreCommits' = StoreCommits, StoreTags' = StoreTags,
         acked' = acked, deleted' = deleted
  PROVE  UNCHANGED Store!storeVars
  BY DEF Store!storeVars, StoreProjects, StoreBranches, StoreCommits, StoreTags

(* The commits of a project, in the abstract store. *)
LEMMA CommitsOfStored ==
  ASSUME TypeOK, NEW p \in ProjectIds
  PROVE  Store!CommitsOf(p) = {c \in commitDocs : SameProject(c, p)}
<1>1. \A c \in commitDocs : c \in CommitIds /\ commitOf[c] # Null
  BY DEF TypeOK, DatabaseTypeOK
<1>2. Store!CommitsOf(p) = {c \in CommitIds : StoreCommits[c] # Null
                                                 /\ StoreCommits[c].project = p}
  BY DEF Store!CommitsOf, Store!Stored, StoreCommits
<1> QED
  BY <1>1, <1>2, StoredThere DEF SameProject

LEMMA CommittingStored ==
  ASSUME TypeOK, ClosedInv, HistoryInv, BelongInv, NEW t \in Threads, ThreadStep(t),
         NEW b \in BranchIds, NEW c \in CommitIds, postCommit(t, b, c) \/ postMerge(t, b, c)
  PROVE  Store!Next \/ UNCHANGED Store!storeVars
<1>1. UNCHANGED <<projectDoc, branchDocs, docHead, tagDocs, acked, deleted>>
  BY DEF postCommit, createCommit, postMerge, mergeIntoBranch, StoreCommit, clientVars
<1>2. /\ StoreProjects' = StoreProjects /\ StoreBranches' = StoreBranches
      /\ StoreTags' = StoreTags
  BY <1>1, StoreFrame
<1>3. /\ FreshCommit(c) /\ req[t].project \in ProjectIds
      /\ b \in branchMap[req[t].project]
  BY CommittingDoes
<1>4. CASE commitDocs' = commitDocs
  BY <1>1, <1>2, <1>4, StoreFrame, StoreStutters
<1>5. CASE /\ commitDocs' = commitDocs \cup {c}
           /\ commitOf'[c].project = req[t].project
           /\ \A x \in commitOf'[c].previous :
                \/ x = head[b] /\ x # Null
                \/ x = req[t].commit /\ req[t].at = "commit"
  <2> DEFINE p == req[t].project
             previous == commitOf'[c].previous
  <2>1. commitOf'[c] = [project |-> p, previous |-> previous] /\ previous \subseteq CommitIds
    BY <1>5, StepTypeOK DEF TypeOK, DatabaseTypeOK
  <2>2. c \notin commitDocs
    BY <1>3 DEF BelongInv, CommitsBelong
  <2>3. previous \subseteq Store!CommitsOf(p)
    <3>1. head[b] # Null => head[b] \in commitDocs /\ SameProject(head[b], p)
      BY <1>3 DEF BelongInv, BranchesBelong, MapsBelong, ClosedInv, HeadsStored
    <3>2. req[t].at = "commit" =>
            req[t].commit \in commitDocs /\ SameProject(req[t].commit, p)
      BY DEF BelongInv, RequestsBelong, ClosedInv, RequestsStored, TypeOK,
             RequestsTypeOK, RequestOK
    <3> QED
      BY <1>3, <1>5, <3>1, <3>2, CommitsOfStored
  <2>4. StoreCommits[c] = Null
    BY <2>2, StoredThere
  <2>5. StoreCommits' = [StoreCommits EXCEPT ![c] = [project |-> p, previous |-> previous]]
    <3>1. \A d \in CommitIds \ {c} : StoredCommit(d)' = StoredCommit(d)
      BY <1>5, StoredKept DEF StoredCommit
    <3>2. StoredCommit(c)' = [project |-> p, previous |-> previous]
      BY <1>5, <2>1 DEF StoredCommit
    <3> QED
      BY <3>1, <3>2 DEF StoreCommits
  <2> HIDE DEF previous
  <2>6. Store!AddCommit(c, p, previous)
    BY <1>1, <1>2, <2>3, <2>4, <2>5
    DEF Store!AddCommit, StoreProjects, StoreBranches, StoreCommits, StoreTags
  <2> QED
    BY <1>3, <2>1, <2>6 DEF Store!Next
<1> QED
  BY <1>4, <1>5, CommittingDoes

LEMMA BranchAdded ==
  ASSUME TypeOK, HistoryInv, BelongInv, GoneInv, NEW t \in Threads, ThreadStep(t),
         NEW b \in BranchIds, FreshBranch(b), NEW p \in ProjectIds, NEW n \in Names,
         NEW h \in CommitIds \cup {Null}, h # Null => h \in Store!CommitsOf(p),
         branchDocs' = branchDocs \cup {b},
         branchOf'[b] = [project |-> p, name |-> n], docHead'[b] = h,
         \A x \in BranchIds \ {b} : branchOf'[x] = branchOf[x] /\ docHead'[x] = docHead[x],
         UNCHANGED <<projectDoc, commitDocs, tagDocs, acked, deleted>>
  PROVE  Store!Next
<1>1. /\ StoreProjects' = StoreProjects /\ StoreCommits' = StoreCommits
      /\ StoreTags' = StoreTags
  BY StoreFrame
<1>2. StoreBranches[b] = Null
  BY StoredThere DEF HistoryInv, FreshBlank
<1>3. b \notin deleted
  BY DEF GoneInv, DeletedGone, GoneBranch
<1>4. StoreBranches' = [StoreBranches EXCEPT ![b] =
                         [project |-> p, name |-> n, head |-> h]]
  <2>1. \A x \in BranchIds \ {b} : StoredBranch(x)' = StoredBranch(x)
    BY DEF StoredBranch
  <2>2. StoredBranch(b)' = [project |-> p, name |-> n, head |-> h]
    BY DEF StoredBranch
  <2> QED
    BY <2>1, <2>2 DEF StoreBranches
<1>5. Store!AddBranch(b, p, n, h)
  BY <1>1, <1>2, <1>3, <1>4
  DEF Store!AddBranch, StoreProjects, StoreBranches, StoreCommits, StoreTags
<1> QED
  BY <1>5 DEF Store!Next

LEMMA BranchingStored ==
  ASSUME TypeOK, ClosedInv, HistoryInv, BelongInv, GoneInv, NEW t \in Threads,
         ThreadStep(t), NEW b \in BranchIds, NEW n \in Names, postBranch(t, b, n)
  PROVE  Store!Next \/ UNCHANGED Store!storeVars
<1>1. UNCHANGED <<projectDoc, commitDocs, tagDocs, acked, deleted>>
  BY DEF postBranch, createBranch, clientVars
<1>2. /\ req[t].at = "commit" /\ req[t].project \in ProjectIds
      /\ req[t].commit \in CommitIds /\ FreshBranch(b)
  BY BranchingDoes
<1>3. \A x \in BranchIds \ {b} : branchOf'[x] = branchOf[x] /\ docHead'[x] = docHead[x]
  BY BranchingDoes
<1>4. CASE UNCHANGED <<branchOf, head, docHead, branchDocs>>
  BY <1>1, <1>4, StoreFrame, StoreStutters
<1>5. CASE /\ branchOf'[b] = [project |-> req[t].project, name |-> n]
           /\ branchDocs' = branchDocs \cup {b}
           /\ docHead'[b] = req[t].commit
  <2>1. req[t].commit \in Store!CommitsOf(req[t].project)
    BY <1>2, CommitsOfStored
    DEF BelongInv, RequestsBelong, ClosedInv, RequestsStored
  <2> QED
    BY <1>1, <1>2, <1>3, <1>5, <2>1, BranchAdded
<1> QED
  BY <1>4, <1>5, BranchingDoes

LEMMA CreatingStored ==
  ASSUME TypeOK, HistoryInv, BelongInv, GoneInv, NEW t \in Threads, ThreadStep(t),
         NEW p \in ProjectIds, NEW b \in BranchIds, NEW a \in Attributes,
         postProject(t, p, b, a)
  PROVE  Store!Next \/ UNCHANGED Store!storeVars
<1>1. UNCHANGED <<projectDoc, commitDocs, tagDocs, acked, deleted>>
  BY DEF postProject, createProject, clientVars
<1>2. FreshBranch(b) /\ branchOf' = [branchOf EXCEPT ![b] = [project |-> p, name |-> MainName]]
  BY CreatingDoes
<1>3. \A x \in BranchIds \ {b} : docHead'[x] = docHead[x]
  BY CreatingDoes
<1>4. CASE UNCHANGED <<branchDocs, docHead>>
  BY <1>1, <1>4, StoreFrame, StoreStutters
<1>5. CASE branchDocs' = branchDocs \cup {b} /\ docHead'[b] = Null
  <2>1. /\ branchOf'[b] = [project |-> p, name |-> MainName]
        /\ \A x \in BranchIds \ {b} : branchOf'[x] = branchOf[x]
    BY <1>2 DEF TypeOK, DatabaseTypeOK
  <2>2. MainName \in Names /\ Null \in CommitIds \cup {Null}
    OBVIOUS
  <2> QED
    BY <1>1, <1>2, <1>3, <1>5, <2>1, <2>2, BranchAdded
<1> QED
  BY <1>4, <1>5, CreatingDoes

LEMMA DeletingBranchStored ==
  ASSUME TypeOK, HistoryInv, BelongInv, NEW t \in Threads, ThreadStep(t),
         NEW b \in BranchIds, deleteBranchRequest(t, b)
  PROVE  Store!Next \/ UNCHANGED Store!storeVars
<1>1. UNCHANGED <<branchOf, docHead, projectDoc, commitDocs, tagDocs, acked, deleted>>
  BY DEF deleteBranchRequest, deleteBranch, objVars, clientVars
<1>2. branchDocs' = branchDocs \/ branchDocs' = branchDocs \ {b}
  BY DEF deleteBranchRequest, deleteBranch, deleteBranchDoc
<1>3. /\ StoreProjects' = StoreProjects /\ StoreCommits' = StoreCommits
      /\ StoreTags' = StoreTags
  BY <1>1, StoreFrame
<1>4. CASE branchDocs' = branchDocs
  BY <1>1, <1>4, StoreFrame, StoreStutters
<1>5. CASE b \in branchDocs /\ branchDocs' = branchDocs \ {b}
  <2>1. StoreBranches[b] # Null
    <3>1. StoreBranches[b] = [project |-> branchOf[b].project, name |-> branchOf[b].name,
                              head |-> docHead[b]]
      BY <1>5, StoredThere
    <3> QED
      BY <3>1 DEF TypeOK, DatabaseTypeOK
  <2>2. StoreBranches' = [StoreBranches EXCEPT ![b] = Null]
    <3>1. \A x \in BranchIds \ {b} : StoredBranch(x)' = StoredBranch(x)
      BY <1>1, <1>5 DEF StoredBranch
    <3>2. StoredBranch(b)' = Null
      BY <1>5 DEF StoredBranch
    <3> QED
      BY <3>1, <3>2 DEF StoreBranches
  <2>3. Store!DropBranch(b)
    BY <1>1, <1>3, <2>1, <2>2
    DEF Store!DropBranch, StoreProjects, StoreBranches, StoreCommits, StoreTags
  <2> QED
    BY <2>3 DEF Store!Next
<1> QED
  BY <1>2, <1>4, <1>5

(* What is in the history of a stored commit is before it in the store. *)
LEMMA HistoryIsBefore ==
  ASSUME TypeOK, ClosedInv, NEW c \in commitDocs, NEW x, InHistory(x, c)
  PROVE  Store!Before(x, c)
<1>1. ASSUME NEW S \in SUBSET CommitIds, c \in S,
             \A y \in S \cap Store!Stored(StoreCommits) : StoreCommits[y].previous \subseteq S
      PROVE  x \in S
  <2> DEFINE K == S \cap commitDocs
  <2>1. \A y \in commitDocs : y \in CommitIds /\ commitOf[y] # Null
                                /\ StoreCommits[y] = commitOf[y]
    BY StoredThere DEF TypeOK, DatabaseTypeOK
  <2>2. commitDocs \subseteq Store!Stored(StoreCommits)
    BY <2>1 DEF Store!Stored, StoreCommits
  <2>3. K \in SUBSET CommitIds /\ c \in K
    BY <1>1
  <2>4. ClosedHistory(K)
    BY <1>1, <2>1, <2>2 DEF ClosedHistory, ClosedInv, PreviousStored
  <2>5. x \in K
    BY <2>3, <2>4 DEF InHistory
  <2> QED
    BY <2>5
<1>2. c # Null
  BY DEF TypeOK, DatabaseTypeOK
<1> QED
  BY <1>1, <1>2 DEF Store!Before, StoreCommits

LEMMA MovingStored ==
  ASSUME TypeOK, ClosedInv, HistoryInv, BelongInv, GoneInv, NEW t \in Threads,
         ThreadStep(t), MoveHead(t)
  PROVE  Store!Next \/ UNCHANGED Store!storeVars
<1>1. PICK b \in BranchIds, c \in CommitIds :
        b = req[t].target /\ c = req[t].commit /\ req[t].at = "moveHead"
  BY MoveHeadDoes
<1>2. PICK o \in DbOutcomes :
        /\ updateBranch(b, c, o)
        /\ acked' = IF Reported(o) THEN acked \cup {<<b, c>>} ELSE acked
  BY <1>1 DEF MoveHead
<1>3. UNCHANGED <<branchOf, commitOf, tagOf, projectDoc, branchDocs, commitDocs, tagDocs,
                  deleted>>
  BY DEF MoveHead, objVars
<1>4. /\ StoreProjects' = StoreProjects /\ StoreCommits' = StoreCommits
      /\ StoreTags' = StoreTags
  BY <1>3, StoreFrame
<1>5. c \in commitDocs /\ SameProject(c, branchOf[b].project) /\ b \notin deleted
  BY <1>1
  DEF ClosedInv, RequestsStored, BelongInv, RequestsBelong, SameProject, GoneInv,
      RequestsGone
<1>6. acked' \in {acked, acked \cup {<<b, c>>}} /\ (~Reported(o) => acked' = acked)
  BY <1>2
<1>7. ~FreshBranch(b) /\ Follows(c, b)
  BY <1>1 DEF HistoryInv, FreshBlank, NewHeadFollows
<1>8. CASE b \in branchDocs /\ Applied(o)
  <2>1. StoreBranches[b] = [project |-> branchOf[b].project, name |-> branchOf[b].name,
                            head |-> docHead[b]]
    BY <1>1, <1>8, StoredThere
  <2>2. StoreBranches[b] # Null
    BY <1>1, <2>1 DEF TypeOK, DatabaseTypeOK
  <2>3. c \in Store!CommitsOf(StoreBranches[b].project)
    <3>1. branchOf[b].project \in ProjectIds
      BY <1>1, <1>7 DEF FreshBranch, TypeOK, DatabaseTypeOK
    <3> QED
      BY <1>5, <2>1, <3>1, CommitsOfStored
  <2>4. ASSUME NEW x \in CommitIds, <<b, x>> \in acked
        PROVE  Store!Before(x, c)
    <3>1. InHistory(x, head[b])
      BY <2>4 DEF HistoryInv, AckedInHistory
    <3>2. head[b] \in commitOf[c].previous /\ c # Null
      BY <1>1, <1>7, <3>1 DEF Follows, InHistory
    <3>3. InHistory(x, c)
      BY <3>1, <3>2, HistoryGrows
    <3> QED
      BY <1>5, <3>3, HistoryIsBefore
  <2>5. StoreBranches' = [StoreBranches EXCEPT ![b].head = c]
    <3>1. docHead' = [docHead EXCEPT ![b] = c]
      BY <1>2, <1>8 DEF updateBranch
    <3>2. \A x \in BranchIds \ {b} : StoredBranch(x)' = StoredBranch(x)
      BY <1>3, <3>1 DEF StoredBranch, TypeOK, DatabaseTypeOK
    <3>3. StoredBranch(b)' = [project |-> branchOf[b].project, name |-> branchOf[b].name,
                              head |-> c]
      BY <1>1, <1>3, <1>8, <3>1 DEF StoredBranch, TypeOK, DatabaseTypeOK
    <3>4. [StoreBranches[b] EXCEPT !.head = c] =
            [project |-> branchOf[b].project, name |-> branchOf[b].name, head |-> c]
      BY <2>1
    <3> QED
      BY <1>1, <3>2, <3>3, <3>4 DEF StoreBranches
  <2>6. Store!MoveHead(b, c)
    BY <1>3, <1>4, <1>6, <2>2, <2>3, <2>4, <2>5
    DEF Store!MoveHead, StoreProjects, StoreBranches, StoreCommits, StoreTags
  <2> QED
    BY <1>1, <2>6 DEF Store!Next
<1>9. CASE ~(b \in branchDocs /\ Applied(o))
  <2>1. StoreBranches' = StoreBranches
    BY <1>2, <1>3, <1>9, StoreFrame DEF updateBranch
  <2>2. CASE acked' = acked
    BY <1>3, <1>4, <2>1, <2>2, StoreStutters
  <2>3. CASE acked' = acked \cup {<<b, c>>} /\ Reported(o)
    <3>1. b \notin branchDocs
      BY <1>9, <2>3 DEF Reported, Applied
    <3>2. StoreBranches[b] = Null
      BY <1>1, <3>1, StoredThere
    <3>3. c \in Store!Stored(StoreCommits)
      <4>1. StoreCommits[c] = commitOf[c] /\ commitOf[c] # Null
        BY <1>1, <1>5, StoredThere DEF TypeOK, DatabaseTypeOK
      <4> QED
        BY <1>1, <4>1 DEF Store!Stored, StoreCommits
    <3>4. Store!TellOfLostBranch(b, c)
      BY <1>3, <1>4, <1>5, <2>1, <2>3, <3>2, <3>3
      DEF Store!TellOfLostBranch, StoreProjects, StoreBranches, StoreCommits, StoreTags
    <3> QED
      BY <1>1, <3>4 DEF Store!Next
  <2> QED
    BY <1>6, <2>2, <2>3
<1> QED
  BY <1>8, <1>9

LEMMA TaggingStored ==
  ASSUME TypeOK, ClosedInv, HistoryInv, BelongInv, GoneInv, NEW t \in Threads,
         ThreadStep(t), NEW g \in TagIds, NEW n \in Names, postTag(t, g, n)
  PROVE  Store!Next \/ UNCHANGED Store!storeVars
<1>1. UNCHANGED <<projectDoc, branchDocs, docHead, commitDocs, acked, deleted>>
  BY DEF postTag, createTag, clientVars
<1>2. /\ req[t].at = "commit" /\ req[t].project \in ProjectIds
      /\ req[t].commit \in CommitIds /\ FreshTag(g)
  BY TaggingDoes
<1>3. \A x \in TagIds \ {g} : tagOf'[x] = tagOf[x]
  BY TaggingDoes
<1>4. /\ StoreProjects' = StoreProjects /\ StoreBranches' = StoreBranches
      /\ StoreCommits' = StoreCommits
  BY <1>1, StoreFrame
<1>5. CASE UNCHANGED <<tagOf, tagDocs>>
  BY <1>1, <1>4, <1>5, StoreFrame, StoreStutters
<1>6. CASE /\ tagOf'[g] = [project |-> req[t].project, name |-> n,
                           commit |-> req[t].commit]
           /\ tagDocs' = tagDocs \cup {g}
  <2>1. req[t].commit \in Store!CommitsOf(req[t].project)
    BY <1>2, CommitsOfStored
    DEF BelongInv, RequestsBelong, ClosedInv, RequestsStored
  <2>2. StoreTags[g] = Null
    BY <1>2, StoredThere DEF BelongInv, TagsBelong
  <2>3. g \notin deleted
    BY <1>2 DEF GoneInv, DeletedGone, GoneTag
  <2>4. StoreTags' = [StoreTags EXCEPT ![g] =
                       [project |-> req[t].project, name |-> n, commit |-> req[t].commit]]
    <3>1. \A x \in TagIds \ {g} : StoredTag(x)' = StoredTag(x)
      BY <1>3, <1>6 DEF StoredTag
    <3>2. StoredTag(g)' = [project |-> req[t].project, name |-> n,
                           commit |-> req[t].commit]
      BY <1>6 DEF StoredTag
    <3> QED
      BY <3>1, <3>2 DEF StoreTags
  <2>5. Store!AddTag(g, req[t].project, n, req[t].commit)
    BY <1>1, <1>4, <2>1, <2>2, <2>3, <2>4
    DEF Store!AddTag, StoreProjects, StoreBranches, StoreCommits, StoreTags
  <2> QED
    BY <1>2, <2>5 DEF Store!Next
<1> QED
  BY <1>5, <1>6, TaggingDoes

LEMMA DeletingTagStored ==
  ASSUME TypeOK, HistoryInv, BelongInv, NEW t \in Threads, ThreadStep(t),
         NEW g \in TagIds, deleteTagRequest(t, g)
  PROVE  Store!Next \/ UNCHANGED Store!storeVars
<1>1. UNCHANGED <<tagOf, docHead, projectDoc, commitDocs, branchDocs, acked, deleted>>
  BY DEF deleteTagRequest, deleteTag, objVars, clientVars
<1>2. tagDocs' = tagDocs \/ tagDocs' = tagDocs \ {g}
  BY DEF deleteTagRequest, deleteTag, deleteTagDoc
<1>3. /\ StoreProjects' = StoreProjects /\ StoreCommits' = StoreCommits
      /\ StoreBranches' = StoreBranches
  BY <1>1, StoreFrame
<1>4. CASE tagDocs' = tagDocs
  BY <1>1, <1>3, <1>4, StoreFrame, StoreStutters
<1>5. CASE g \in tagDocs /\ tagDocs' = tagDocs \ {g}
  <2>1. StoreTags[g] # Null
    <3>1. StoreTags[g] = tagOf[g]
      BY <1>5, StoredThere
    <3> QED
      BY <3>1 DEF TypeOK, DatabaseTypeOK
  <2>2. StoreTags' = [StoreTags EXCEPT ![g] = Null]
    <3>1. \A x \in TagIds \ {g} : StoredTag(x)' = StoredTag(x)
      BY <1>1, <1>5 DEF StoredTag
    <3>2. StoredTag(g)' = Null
      BY <1>5 DEF StoredTag
    <3> QED
      BY <3>1, <3>2 DEF StoreTags
  <2>3. Store!DropTag(g)
    BY <1>1, <1>3, <2>1, <2>2
    DEF Store!DropTag, StoreProjects, StoreBranches, StoreCommits, StoreTags
  <2> QED
    BY <2>3 DEF Store!Next
<1> QED
  BY <1>2, <1>4, <1>5

(* A step that assigns to no document and tells clients nothing. *)
LEMMA QuietStored ==
  ASSUME TypeOK, HistoryInv, BelongInv, NEW t \in Threads, ThreadStep(t),
         UNCHANGED <<dbVars, acked, deleted>>
  PROVE  UNCHANGED Store!storeVars
  BY StoreFrame, StoreStutters DEF dbVars

(* A client is told that x is deleted. *)
LEMMA GoneTold ==
  ASSUME TypeOK, HistoryInv, BelongInv, NEW t \in Threads, ThreadStep(t),
         NEW x \in ProjectIds \cup BranchIds \cup TagIds,
         x \in ProjectIds => projectDoc[x] = Null,
         x \notin branchDocs, x \notin tagDocs,
         UNCHANGED <<dbVars, acked>>, deleted' = deleted \cup {x}
  PROVE  Store!Next
<1>1. /\ StoreProjects' = StoreProjects /\ StoreBranches' = StoreBranches
      /\ StoreCommits' = StoreCommits /\ StoreTags' = StoreTags
  BY StoreFrame DEF dbVars
<1>2. x \notin Store!Stored(StoreProjects)
  BY DEF Store!Stored, StoreProjects, StoredProject
<1>3. x \notin Store!Stored(StoreBranches)
  BY DEF Store!Stored, StoreBranches, StoredBranch
<1>4. x \notin Store!Stored(StoreTags)
  BY DEF Store!Stored, StoreTags, StoredTag
<1>5. Store!TellGone(x)
  BY <1>1, <1>2, <1>3, <1>4
  DEF Store!TellGone, StoreProjects, StoreBranches, StoreCommits, StoreTags
<1> QED
  BY <1>5 DEF Store!Next

LEMMA TellingStored ==
  ASSUME TypeOK, HistoryInv, BelongInv, GoneInv, NEW t \in Threads, ThreadStep(t),
         EraseBranch(t) \/ EraseTag(t) \/ ForgetProject(t)
  PROVE  Store!Next
<1>1. UNCHANGED <<dbVars, acked>>
  BY DEF EraseBranch, EraseTag, ForgetProject
<1>2. CASE EraseBranch(t)
  <2>1. PICK x \in BranchIds : x = req[t].target /\ deleted' = deleted \cup {x}
                               /\ req[t].at = "eraseBranch"
    BY <1>2 DEF EraseBranch, At, TypeOK, RequestsTypeOK, RequestOK
  <2>2. x \notin branchDocs /\ x \notin tagDocs
    BY <2>1 DEF GoneInv, RequestsGone, TypeOK, DatabaseTypeOK
  <2> QED
    BY <1>1, <2>1, <2>2, GoneTold
<1>3. CASE EraseTag(t)
  <2>1. PICK x \in TagIds : x = req[t].target /\ deleted' = deleted \cup {x}
                            /\ req[t].at = "eraseTag"
    BY <1>3 DEF EraseTag, At, TypeOK, RequestsTypeOK, RequestOK
  <2>2. x \notin branchDocs /\ x \notin tagDocs
    BY <2>1 DEF GoneInv, RequestsGone, TypeOK, DatabaseTypeOK
  <2> QED
    BY <1>1, <2>1, <2>2, GoneTold
<1>4. CASE ForgetProject(t)
  <2>1. PICK x \in ProjectIds : x = req[t].project /\ deleted' = deleted \cup {x}
                                /\ req[t].at = "forget"
    BY <1>4 DEF ForgetProject, At, TypeOK, RequestsTypeOK, RequestOK
  <2>2. x \notin branchDocs /\ x \notin tagDocs /\ projectDoc[x] = Null
    BY <2>1 DEF GoneInv, RequestsGone, GoneProject, TypeOK, DatabaseTypeOK
  <2> QED
    BY <1>1, <2>1, <2>2, GoneTold
<1> QED
  BY <1>2, <1>3, <1>4

(* The steps that write a project document. *)
LEMMA ProjectStored ==
  ASSUME TypeOK, HistoryInv, BelongInv, NEW t \in Threads, ThreadStep(t),
         UNCHANGED <<branchDocs, docHead, commitDocs, tagDocs, acked, deleted>>,
         NEW p \in ProjectIds, NEW v \in ProjectFields \cup {Null},
         projectDoc' = [projectDoc EXCEPT ![p] = v],
         v = Null \/ projectDoc[p] # Null
           \/ (/\ p \notin deleted
               /\ v.defaultBranch \in branchDocs
               /\ branchOf[v.defaultBranch].project = p)
  PROVE  Store!Next \/ UNCHANGED Store!storeVars
<1>1. /\ StoreBranches' = StoreBranches /\ StoreCommits' = StoreCommits
      /\ StoreTags' = StoreTags
  BY StoreFrame
<1>2. StoreProjects[p] = projectDoc[p] /\ StoreProjects' = [StoreProjects EXCEPT ![p] = v]
  BY DEF StoreProjects, StoredProject, TypeOK, DatabaseTypeOK
<1>3. CASE projectDoc[p] # Null /\ v # Null
  <2>1. Store!ChangeProject(p, v)
    BY <1>1, <1>2, <1>3
    DEF Store!ChangeProject, StoreProjects, StoreBranches, StoreCommits, StoreTags
  <2> QED
    BY <1>3, <2>1 DEF Store!Next
<1>4. CASE projectDoc[p] # Null /\ v = Null
  <2>1. Store!DropProject(p)
    BY <1>1, <1>2, <1>4
    DEF Store!DropProject, StoreProjects, StoreBranches, StoreCommits, StoreTags
  <2> QED
    BY <2>1 DEF Store!Next
<1>5. CASE projectDoc[p] = Null /\ v = Null
  <2>1. projectDoc' = projectDoc
    BY <1>5 DEF TypeOK, DatabaseTypeOK
  <2> QED
    BY <1>1, <2>1, StoreFrame, StoreStutters
<1>6. CASE projectDoc[p] = Null /\ v # Null
  <2> DEFINE b == v.defaultBranch
  <2>1. v \in ProjectFields /\ b \in BranchIds
    BY <1>6
  <2>2. p \notin deleted /\ b \in branchDocs /\ branchOf[b].project = p
    BY <1>6
  <2> HIDE DEF b
  <2>3. StoreBranches[b] = [project |-> branchOf[b].project, name |-> branchOf[b].name,
                            head |-> docHead[b]]
    BY <2>1, <2>2, StoredThere
  <2>4. StoreBranches[b] # Null
    BY <2>1, <2>3 DEF TypeOK, DatabaseTypeOK
  <2>5. b \in Store!Stored(StoreBranches) /\ StoreBranches[b].project = p
    BY <2>1, <2>2, <2>3, <2>4 DEF Store!Stored, StoreBranches
  <2>6. Store!AddProject(p, v)
    BY <1>1, <1>2, <1>6, <2>2, <2>5
    DEF b, Store!AddProject, StoreProjects, StoreBranches, StoreCommits, StoreTags
  <2> QED
    BY <2>1, <2>6 DEF Store!Next
<1> QED
  BY <1>3, <1>4, <1>5, <1>6

LEMMA WritingStored ==
  ASSUME TypeOK, HistoryInv, BelongInv, GoneInv, CreationInv, NEW t \in Threads,
         ThreadStep(t), AddProjectDoc(t) \/ WriteProject(t) \/ deleteProjectWithId(t)
  PROVE  Store!Next \/ UNCHANGED Store!storeVars
<1>1. /\ UNCHANGED <<branchDocs, docHead, commitDocs, tagDocs, acked, deleted>>
      /\ req[t].at \in {"addProject", "writeProject", "project"}
  BY DEF AddProjectDoc, WriteProject, deleteProjectWithId, deleteProject, clientVars, At
<1>2. PICK p \in ProjectIds : p = req[t].project
  BY <1>1 DEF TypeOK, RequestsTypeOK, RequestOK
<1>3. project[p] \in ProjectFields
  BY <1>1, <1>2 DEF TypeOK, RequestsTypeOK, MemoryTypeOK
<1>4. CASE projectDoc' = projectDoc
  <2>1. UNCHANGED <<dbVars, acked, deleted>>
    BY <1>1, <1>4 DEF dbVars
  <2> QED
    BY <2>1, QuietStored
<1>5. CASE AddProjectDoc(t) /\ projectDoc' # projectDoc
  <2>1. projectDoc' = [projectDoc EXCEPT ![p] = project[p]]
    BY <1>2, <1>5 DEF AddProjectDoc, addProject
  <2>2. /\ p \notin deleted
        /\ project[p].defaultBranch \in branchDocs
        /\ branchOf[project[p].defaultBranch].project = p
    BY <1>2, <1>5 DEF AddProjectDoc, At, GoneInv, RequestsGone, CreationInv, Created
  <2> QED
    BY <1>1, <1>3, <2>1, <2>2, ProjectStored
<1>6. CASE WriteProject(t) /\ projectDoc' # projectDoc
  <2>1. projectDoc' = [projectDoc EXCEPT ![p] = project[p]] /\ projectDoc[p] # Null
    BY <1>2, <1>6 DEF WriteProject, updateProject
  <2> QED
    BY <1>1, <1>3, <2>1, ProjectStored
<1>7. CASE deleteProjectWithId(t) /\ projectDoc' # projectDoc
  <2>1. projectDoc' = [projectDoc EXCEPT ![p] = Null]
    BY <1>2, <1>7 DEF deleteProjectWithId, deleteProject, deleteProjectDoc
  <2>2. Null \in ProjectFields \cup {Null}
    OBVIOUS
  <2> QED
    BY <1>1, <2>1, <2>2, ProjectStored
<1> QED
  BY <1>4, <1>5, <1>6, <1>7

LEMMA RestartStored ==
  ASSUME Restart
  PROVE  UNCHANGED Store!storeVars
<1>1. UNCHANGED <<branchOf, commitOf, tagOf, projectDoc, branchDocs, docHead,
                  commitDocs, tagDocs, acked, deleted>>
  BY DEF Restart, objVars, dbVars
<1> QED
  BY <1>1, StoreStutters
  DEF StoreProjects, StoreBranches, StoreCommits, StoreTags, StoredProject, StoredBranch,
      StoredCommit, StoredTag

-----------------------------------------------------------------------------
StoreInv == TypeOK /\ ClosedInv /\ HistoryInv /\ BelongInv /\ GoneInv /\ CreationInv

LEMMA StepStored ==
  ASSUME StoreInv, NEW t \in Threads, ThreadStep(t)
  PROVE  Store!Next \/ UNCHANGED Store!storeVars
<1> USE DEF StoreInv
<1>1. CASE Committing(t)
  BY <1>1, CommittingStored DEF Committing
<1>2. CASE Branching(t)
  BY <1>2, BranchingStored DEF Branching
<1>3. CASE Creating(t)
  BY <1>3, CreatingStored DEF Creating
<1>4. CASE Tagging(t)
  BY <1>4, TaggingStored DEF Tagging
<1>5. CASE DeletingBranch(t)
  BY <1>5, DeletingBranchStored DEF DeletingBranch
<1>6. CASE DeletingTag(t)
  BY <1>6, DeletingTagStored DEF DeletingTag
<1>7. CASE MoveHead(t)
  BY <1>7, MovingStored
<1>8. CASE EraseBranch(t) \/ EraseTag(t) \/ ForgetProject(t)
  BY <1>8, TellingStored
<1>9. CASE AddProjectDoc(t) \/ WriteProject(t) \/ deleteProjectWithId(t)
  BY <1>9, WritingStored
<1>10. CASE UNCHANGED <<dbVars, acked, deleted>>
  BY <1>10, QuietStored
<1>11. \/ Committing(t) \/ Branching(t) \/ Creating(t) \/ Tagging(t) \/ DeletingBranch(t)
       \/ DeletingTag(t) \/ MoveHead(t) \/ EraseBranch(t) \/ EraseTag(t)
       \/ ForgetProject(t) \/ AddProjectDoc(t) \/ WriteProject(t)
       \/ deleteProjectWithId(t) \/ UNCHANGED <<dbVars, acked, deleted>>
  BY Assigners DEF dbVars
<1> QED
  BY <1>1, <1>2, <1>3, <1>4, <1>5, <1>6, <1>7, <1>8, <1>9, <1>10, <1>11

(* The server implements the abstract store: whatever the threads do at    *)
(* once, whichever writes fail and whenever the process dies, clients see  *)
(* a store that changes by whole steps, keeps what it told them and brings *)
(* nothing back that it told them is deleted.                              *)
THEOREM StoreImplemented == Spec => ImplementsStore
<1>1. Init => Store!Init
  <2> SUFFICES ASSUME Init
               PROVE  Store!Init
    OBVIOUS
  <2>1. /\ projectDoc = [p \in ProjectIds |-> Null] /\ branchDocs = {}
        /\ commitDocs = {} /\ tagDocs = {} /\ acked = {} /\ deleted = {}
    BY DEF Init, InitDatabase, InitRequests
  <2>2. \A p \in ProjectIds : StoredProject(p) = Null
    BY <2>1 DEF StoredProject
  <2>3. \A b \in BranchIds : StoredBranch(b) = Null
    BY <2>1 DEF StoredBranch
  <2>4. \A c \in CommitIds : StoredCommit(c) = Null
    BY <2>1 DEF StoredCommit
  <2>5. \A g \in TagIds : StoredTag(g) = Null
    BY <2>1 DEF StoredTag
  <2> QED
    BY <2>1, <2>2, <2>3, <2>4, <2>5 DEF Store!Init
<1>2. StoreInv /\ [Next]_vars => [Store!Next]_(Store!storeVars)
  <2> SUFFICES ASSUME StoreInv, [Next]_vars
               PROVE  Store!Next \/ UNCHANGED Store!storeVars
    OBVIOUS
  <2>1. CASE UNCHANGED vars
    <3>1. UNCHANGED <<branchOf, commitOf, tagOf, projectDoc, branchDocs, docHead,
                      commitDocs, tagDocs, acked, deleted>>
      BY <2>1 DEF vars, objVars, dbVars, reqVars, clientVars
    <3> QED
      BY <3>1, StoreStutters
      DEF StoreProjects, StoreBranches, StoreCommits, StoreTags, StoredProject,
          StoredBranch, StoredCommit, StoredTag
  <2> QED
    BY <2>1, StepStored, RestartStored DEF Next
<1>3. Spec => []StoreInv
  BY TypeCorrect, ClosedInvariant, HistoryInvariant, BelongInvariant, GoneInvariant,
     CreationInvariant, PTL DEF StoreInv
<1> QED
  BY <1>1, <1>2, <1>3, PTL DEF Spec, ImplementsStore, Store!Spec
=============================================================================
