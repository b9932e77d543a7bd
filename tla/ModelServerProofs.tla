------------------------- MODULE ModelServerProofs -------------------------
(***************************************************************************)
(* TypeOK holds in every reachable state of the model server, for any      *)
(* sets of identifiers, threads and operations and for any number of       *)
(* restarts.  TypeOK is inductive as it stands: the types of what a        *)
(* request holds (RequestOK) say which fields a step may rely on, and      *)
(* LocksOK says that a thread that is inside a service is alone there.     *)
(***************************************************************************)
EXTENDS ModelServerProperties, TLAPS

USE DbOutcomesAssumption, MainNameAssumption, NullAssumption, ThreadsAssumption
USE DEF Unlocked, InVersioning, InProjects, ProjectFields, IdleRequest, Request

LEMMA InitTypeOK == Init => TypeOK
  BY DEF Init, InitDatabase, InitRequests, InitVersioning, InitProjects, TypeOK,
         DatabaseTypeOK, MemoryTypeOK, RequestsTypeOK, LocksOK, RequestOK

-----------------------------------------------------------------------------
(* What a step does to the requests and the locks. *)

(* Thread t's request becomes r; nothing else of the requests is damaged. *)
LEMMA RequestStep ==
  ASSUME TypeOK, NEW t \in Threads, NEW r \in Request, RequestOK(r),
         req' = [req EXCEPT ![t] = r],
         r.at # "idle" => project'[r.project] # Null,
         \A p \in ProjectIds : project[p] # Null => project'[p] # Null,
         acked' \subseteq BranchIds \X CommitIds,
         deleted' \subseteq ProjectIds \cup BranchIds \cup TagIds,
         restarts' = restarts
  PROVE  RequestsTypeOK'
<1>1. req' \in [Threads -> Request]
  BY DEF TypeOK, RequestsTypeOK
<1>2. \A u \in Threads : req'[u] = IF u = t THEN r ELSE req[u]
  BY DEF TypeOK, RequestsTypeOK
<1>3. \A u \in Threads : RequestOK(req'[u])
  BY <1>2 DEF TypeOK, RequestsTypeOK
<1>4. \A u \in Threads : req'[u].at # "idle" => project'[req'[u].project] # Null
  BY <1>2, <1>3 DEF TypeOK, RequestsTypeOK, RequestOK
<1>5. restarts' \in Nat
  BY DEF TypeOK, RequestsTypeOK
<1> QED
  BY <1>1, <1>3, <1>4, <1>5 DEF RequestsTypeOK, RequestOK

(* Each lock follows the step thread t is at. *)
LEMMA LockStep ==
  ASSUME TypeOK, NEW t \in Threads, NEW r \in Request,
         req' = [req EXCEPT ![t] = r],
         \/ pvsLock' = pvsLock /\ (r.at \in InVersioning <=> req[t].at \in InVersioning)
         \/ /\ pvsLock \in {Null, t}
            /\ pvsLock' = IF r.at \in InVersioning THEN t ELSE Null,
         \/ spsLock' = spsLock /\ (r.at \in InProjects <=> req[t].at \in InProjects)
         \/ /\ spsLock \in {Null, t}
            /\ spsLock' = IF r.at \in InProjects THEN t ELSE Null
  PROVE  LocksOK'
<1>1. \A u \in Threads : req'[u] = IF u = t THEN r ELSE req[u]
  BY DEF TypeOK, RequestsTypeOK
<1> QED
  BY <1>1 DEF TypeOK, LocksOK

(* A change in the versioning service after its first database write: the *)
(* thread stays inside, or the exception has released the lock.           *)
LEMMA EnterVersioning ==
  ASSUME TypeOK, NEW t \in Threads, req[t].at \in {"project", "commit"},
         NEW l \in InVersioning, NEW c \in CommitIds \cup {Null},
         NEW x \in BranchIds \cup TagIds,
         NEW o, IF Reported(o) THEN Proceed(t, l, c, x) ELSE Respond(t),
         HoldPvsIf(t, o), PvsFree,
         l = "moveHead" => c \in CommitIds,
         l \in {"pushBranch", "eraseBranch", "moveHead"} => x \in BranchIds,
         l \in {"pushTag", "eraseTag"} => x \in TagIds,
         UNCHANGED <<project, spsLock, acked, deleted, restarts>>
  PROVE  RequestsTypeOK' /\ LocksOK'
<1> DEFINE r == IF Reported(o)
                THEN [at |-> l, project |-> req[t].project, commit |-> c,
                      target |-> x, old |-> Null]
                ELSE IdleRequest
<1>1. req' = [req EXCEPT ![t] = r]
  BY DEF Proceed, Respond
<1>2. req[t].project \in ProjectIds /\ project[req[t].project] # Null
  BY DEF TypeOK, RequestsTypeOK, RequestOK
<1>3. r \in Request /\ RequestOK(r)
  BY <1>2 DEF RequestOK
<1>4. r.at # "idle" => project'[r.project] # Null
  BY <1>2
<1>5. /\ pvsLock = Null
      /\ pvsLock' = IF r.at \in InVersioning THEN t ELSE Null
  BY DEF HoldPvsIf, PvsFree
<1>6. spsLock' = spsLock /\ (r.at \in InProjects <=> req[t].at \in InProjects)
  OBVIOUS
<1> HIDE DEF r
<1>7. RequestsTypeOK'
  BY <1>1, <1>3, <1>4, RequestStep DEF TypeOK, RequestsTypeOK
<1>8. LocksOK'
  BY <1>1, <1>3, <1>5, <1>6, LockStep
<1> QED
  BY <1>7, <1>8

(* The last step of a change in the versioning service. *)
LEMMA LeaveVersioning ==
  ASSUME TypeOK, NEW t \in Threads, req[t].at \in InVersioning,
         Respond(t), ReleasePvs,
         UNCHANGED <<project, spsLock, restarts>>,
         acked' \subseteq BranchIds \X CommitIds,
         deleted' \subseteq ProjectIds \cup BranchIds \cup TagIds
  PROVE  RequestsTypeOK' /\ LocksOK'
<1>1. IdleRequest \in Request /\ RequestOK(IdleRequest)
  BY DEF RequestOK
<1>2. pvsLock = t
  BY DEF TypeOK, LocksOK
<1>3. RequestsTypeOK'
  BY <1>1, RequestStep DEF Respond
<1>4. LocksOK'
  BY <1>1, <1>2, LockStep DEF Respond, ReleasePvs
<1> QED
  BY <1>3, <1>4

-----------------------------------------------------------------------------
(* The steps of the versioning service. *)

LEMMA StoreCommitType ==
  ASSUME TypeOK, NEW t \in Threads, NEW b \in BranchIds, NEW c \in CommitIds,
         NEW requested \in SUBSET CommitIds, req[t].at \in {"project", "commit"},
         PvsFree, storedBranch(req[t].project, b),
         StoreCommit(t, b, c, requested), UNCHANGED outerVars
  PROVE  TypeOK'
<1>1. req[t].project \in ProjectIds
  BY DEF TypeOK, RequestsTypeOK, RequestOK
<1>2. PreviousOf(b, requested) \in SUBSET CommitIds
  BY DEF TypeOK, MemoryTypeOK, PreviousOf
<1>3. DatabaseTypeOK'
  BY <1>1, <1>2 DEF TypeOK, DatabaseTypeOK, StoreCommit, addCommit, Applied
<1>4. MemoryTypeOK'
  BY DEF TypeOK, MemoryTypeOK, StoreCommit, pvsVars, outerVars
<1>5. RequestsTypeOK' /\ LocksOK'
  <2>1. PICK o \in DbOutcomes :
          /\ HoldPvsIf(t, o)
          /\ IF Reported(o) THEN Proceed(t, "moveHead", c, b) ELSE Respond(t)
    BY DEF StoreCommit
  <2> QED
    BY <2>1, EnterVersioning DEF StoreCommit, pvsVars, clientVars, outerVars
<1> QED
  BY <1>3, <1>4, <1>5 DEF TypeOK

LEMMA MoveHeadType ==
  ASSUME TypeOK, NEW t \in Threads, MoveHead(t), UNCHANGED outerVars
  PROVE  TypeOK'
<1>1. /\ req[t].project \in ProjectIds
      /\ req[t].target \in BranchIds
      /\ req[t].commit \in CommitIds
  BY DEF TypeOK, RequestsTypeOK, RequestOK, MoveHead, At
<1>2. DatabaseTypeOK'
  BY <1>1 DEF TypeOK, DatabaseTypeOK, MoveHead, updateBranch, objVars
<1>3. MemoryTypeOK'
  BY <1>1 DEF TypeOK, MemoryTypeOK, MoveHead, outerVars
<1>4. acked' \subseteq BranchIds \X CommitIds
  BY <1>1 DEF TypeOK, RequestsTypeOK, MoveHead
<1>5. RequestsTypeOK' /\ LocksOK'
  BY <1>4, LeaveVersioning DEF MoveHead, At, outerVars, TypeOK, RequestsTypeOK
<1> QED
  BY <1>2, <1>3, <1>5 DEF TypeOK

LEMMA CreateBranchType ==
  ASSUME TypeOK, NEW t \in Threads, NEW b \in BranchIds, NEW n \in Names,
         postBranch(t, b, n), UNCHANGED outerVars
  PROVE  TypeOK'
<1>1. req[t].project \in ProjectIds /\ req[t].commit \in CommitIds
  BY DEF TypeOK, RequestsTypeOK, RequestOK, postBranch, createBranch, At
<1>2. DatabaseTypeOK'
  BY <1>1 DEF TypeOK, DatabaseTypeOK, postBranch, createBranch, addBranch, Applied
<1>3. MemoryTypeOK'
  BY <1>1 DEF TypeOK, MemoryTypeOK, postBranch, createBranch, outerVars
<1>4. RequestsTypeOK' /\ LocksOK'
  <2>1. PICK o \in DbOutcomes :
          /\ HoldPvsIf(t, o)
          /\ IF Reported(o) THEN Proceed(t, "pushBranch", Null, b) ELSE Respond(t)
    BY DEF postBranch, createBranch
  <2> QED
    BY <2>1, EnterVersioning DEF postBranch, createBranch, At, clientVars, outerVars
<1> QED
  BY <1>2, <1>3, <1>4 DEF TypeOK

LEMMA DeleteBranchType ==
  ASSUME TypeOK, NEW t \in Threads, NEW b \in BranchIds,
         deleteBranchRequest(t, b), UNCHANGED outerVars
  PROVE  TypeOK'
<1>1. DatabaseTypeOK'
  BY DEF TypeOK, DatabaseTypeOK, deleteBranchRequest, deleteBranch, deleteBranchDoc,
         objVars
<1>2. MemoryTypeOK'
  BY DEF TypeOK, MemoryTypeOK, deleteBranchRequest, deleteBranch, pvsVars, outerVars
<1>3. RequestsTypeOK' /\ LocksOK'
  <2>1. PICK o \in DbOutcomes :
          /\ HoldPvsIf(t, o)
          /\ IF Reported(o) THEN Proceed(t, "eraseBranch", Null, b) ELSE Respond(t)
    BY DEF deleteBranchRequest, deleteBranch
  <2> QED
    BY <2>1, EnterVersioning DEF deleteBranchRequest, deleteBranch, At, pvsVars,
                                 clientVars, outerVars
<1> QED
  BY <1>1, <1>2, <1>3 DEF TypeOK

LEMMA CreateTagType ==
  ASSUME TypeOK, NEW t \in Threads, NEW g \in TagIds, NEW n \in Names,
         postTag(t, g, n), UNCHANGED outerVars
  PROVE  TypeOK'
<1>1. req[t].project \in ProjectIds /\ req[t].commit \in CommitIds
  BY DEF TypeOK, RequestsTypeOK, RequestOK, postTag, createTag, At
<1>2. DatabaseTypeOK'
  BY <1>1 DEF TypeOK, DatabaseTypeOK, postTag, createTag, addTag, Applied
<1>3. MemoryTypeOK'
  BY DEF TypeOK, MemoryTypeOK, postTag, createTag, pvsVars, outerVars
<1>4. RequestsTypeOK' /\ LocksOK'
  <2>1. PICK o \in DbOutcomes :
          /\ HoldPvsIf(t, o)
          /\ IF Reported(o) THEN Proceed(t, "pushTag", Null, g) ELSE Respond(t)
    BY DEF postTag, createTag
  <2> QED
    BY <2>1, EnterVersioning DEF postTag, createTag, At, pvsVars, clientVars, outerVars
<1> QED
  BY <1>2, <1>3, <1>4 DEF TypeOK

LEMMA DeleteTagType ==
  ASSUME TypeOK, NEW t \in Threads, NEW g \in TagIds,
         deleteTagRequest(t, g), UNCHANGED outerVars
  PROVE  TypeOK'
<1>1. DatabaseTypeOK'
  BY DEF TypeOK, DatabaseTypeOK, deleteTagRequest, deleteTag, deleteTagDoc, objVars
<1>2. MemoryTypeOK'
  BY DEF TypeOK, MemoryTypeOK, deleteTagRequest, deleteTag, pvsVars, outerVars
<1>3. RequestsTypeOK' /\ LocksOK'
  <2>1. PICK o \in DbOutcomes :
          /\ HoldPvsIf(t, o)
          /\ IF Reported(o) THEN Proceed(t, "eraseTag", Null, g) ELSE Respond(t)
    BY DEF deleteTagRequest, deleteTag
  <2> QED
    BY <2>1, EnterVersioning DEF deleteTagRequest, deleteTag, At, pvsVars, clientVars,
                                 outerVars
<1> QED
  BY <1>1, <1>2, <1>3 DEF TypeOK

(* The last steps of the changes of branches and tags. *)
LEMMA FinishType ==
  ASSUME TypeOK, NEW t \in Threads, UNCHANGED outerVars,
         PushBranch(t) \/ EraseBranch(t) \/ PushTag(t) \/ EraseTag(t)
  PROVE  TypeOK'
<1>1. req[t].project \in ProjectIds
  BY DEF TypeOK, RequestsTypeOK, RequestOK, PushBranch, EraseBranch, PushTag,
         EraseTag, At
<1>2. /\ PushBranch(t) \/ EraseBranch(t) => req[t].target \in BranchIds
      /\ PushTag(t) \/ EraseTag(t) => req[t].target \in TagIds
  BY DEF TypeOK, RequestsTypeOK, RequestOK, PushBranch, EraseBranch, PushTag,
         EraseTag, At
<1>3. UNCHANGED <<objVars, dbVars, project, projectMap, spsLock, acked, restarts>>
  BY DEF PushBranch, EraseBranch, PushTag, EraseTag, clientVars, outerVars
<1>4. DatabaseTypeOK'
  BY <1>3 DEF TypeOK, DatabaseTypeOK, objVars, dbVars
<1>5. MemoryTypeOK'
  <2>1. branchMap' \in [ProjectIds -> SUBSET BranchIds]
    BY <1>1, <1>2 DEF TypeOK, MemoryTypeOK, PushBranch, EraseBranch, PushTag, EraseTag
  <2>2. tagMap' \in [ProjectIds -> SUBSET TagIds]
    BY <1>1, <1>2 DEF TypeOK, MemoryTypeOK, PushBranch, EraseBranch, PushTag, EraseTag
  <2>3. UNCHANGED <<head, commitMap, commitIndex>>
    BY DEF PushBranch, EraseBranch, PushTag, EraseTag
  <2> QED
    BY <1>3, <2>1, <2>2, <2>3 DEF TypeOK, MemoryTypeOK
<1>6. deleted' \subseteq ProjectIds \cup BranchIds \cup TagIds
  BY <1>2 DEF TypeOK, RequestsTypeOK, PushBranch, EraseBranch, PushTag, EraseTag,
              clientVars
<1>7. RequestsTypeOK' /\ LocksOK'
  <2>1. req[t].at \in InVersioning /\ Respond(t) /\ ReleasePvs
    BY DEF PushBranch, EraseBranch, PushTag, EraseTag, At
  <2> QED
    BY <1>3, <1>6, <2>1, LeaveVersioning DEF TypeOK, RequestsTypeOK
<1> QED
  BY <1>4, <1>5, <1>7 DEF TypeOK

-----------------------------------------------------------------------------
(* The steps of the project service. *)

LEMMA GetProjectType ==
  ASSUME TypeOK, NEW t \in Threads, NEW p \in ProjectIds, withProject(t, p)
  PROVE  TypeOK'
<1> DEFINE r == [IdleRequest EXCEPT !.at = "project", !.project = p]
<1>1. DatabaseTypeOK' /\ MemoryTypeOK'
  BY DEF TypeOK, DatabaseTypeOK, MemoryTypeOK, withProject, getProjectById, objVars,
         dbVars, pvsVars
<1>2. r \in Request /\ RequestOK(r) /\ project[p] # Null
  BY DEF RequestOK, TypeOK, MemoryTypeOK, withProject, getProjectById
<1>3. RequestsTypeOK'
  BY <1>2, RequestStep DEF withProject, getProjectById, pvsVars, clientVars, TypeOK,
                           RequestsTypeOK
<1>4. LocksOK'
  BY <1>2, LockStep DEF withProject, getProjectById, At
<1> QED
  BY <1>1, <1>3, <1>4 DEF TypeOK

LEMMA CreateProjectType ==
  ASSUME TypeOK, NEW t \in Threads, NEW p \in ProjectIds, NEW b \in BranchIds,
         NEW a \in Attributes, postProject(t, p, b, a)
  PROVE  TypeOK'
<1>1. DatabaseTypeOK'
  BY DEF TypeOK, DatabaseTypeOK, postProject, createProject, addBranchFromProject,
         addBranch
<1>2. MemoryTypeOK'
  BY DEF TypeOK, MemoryTypeOK, postProject, createProject, addBranchFromProject
<1>3. RequestsTypeOK' /\ LocksOK'
  <2>1. PICK o \in DbOutcomes :
          /\ HoldSpsIf(t, o)
          /\ req' = [req EXCEPT ![t] =
                      IF Reported(o)
                      THEN [IdleRequest EXCEPT !.at = "addProject", !.project = p]
                      ELSE IdleRequest]
    BY DEF postProject, createProject
  <2> DEFINE r == IF Reported(o)
                  THEN [IdleRequest EXCEPT !.at = "addProject", !.project = p]
                  ELSE IdleRequest
  <2>2. r \in Request /\ RequestOK(r)
    BY DEF RequestOK
  <2>3. /\ r.at # "idle" => project'[r.project] # Null
        /\ \A q \in ProjectIds : project[q] # Null => project'[q] # Null
    BY DEF postProject, createProject, TypeOK, MemoryTypeOK
  <2>4. /\ spsLock = Null
        /\ spsLock' = IF r.at \in InProjects THEN t ELSE Null
        /\ pvsLock' = pvsLock /\ (r.at \in InVersioning <=> req[t].at \in InVersioning)
    BY <2>1 DEF postProject, createProject, SpsFree, HoldSpsIf, At
  <2>5. req' = [req EXCEPT ![t] = r]
    BY <2>1
  <2> HIDE DEF r
  <2>6. RequestsTypeOK'
    BY <2>2, <2>3, <2>5, RequestStep
    DEF postProject, createProject, clientVars, TypeOK, RequestsTypeOK
  <2>7. LocksOK'
    BY <2>2, <2>4, <2>5, LockStep
  <2> QED
    BY <2>6, <2>7
<1> QED
  BY <1>1, <1>2, <1>3 DEF TypeOK

LEMMA AddProjectDocType ==
  ASSUME TypeOK, NEW t \in Threads, AddProjectDoc(t)
  PROVE  TypeOK'
<1>1. req[t].project \in ProjectIds /\ project[req[t].project] \in ProjectFields
  BY DEF TypeOK, MemoryTypeOK, RequestsTypeOK, RequestOK, AddProjectDoc, At
<1>2. DatabaseTypeOK'
  BY <1>1 DEF TypeOK, DatabaseTypeOK, AddProjectDoc, addProject, objVars
<1>3. MemoryTypeOK'
  BY DEF TypeOK, MemoryTypeOK, AddProjectDoc, pvsVars
<1>4. IdleRequest \in Request /\ RequestOK(IdleRequest)
  BY DEF RequestOK
<1>5. RequestsTypeOK'
  BY <1>4, RequestStep
  DEF AddProjectDoc, Respond, pvsVars, clientVars, TypeOK, RequestsTypeOK
<1>6. spsLock = t
  BY DEF TypeOK, LocksOK, AddProjectDoc, At
<1>7. LocksOK'
  BY <1>4, <1>6, LockStep DEF AddProjectDoc, Respond, ReleaseSps, At
<1> QED
  BY <1>2, <1>3, <1>5, <1>7 DEF TypeOK

(* Both kinds of updates of a project begin with a change in memory. *)
LEMMA ChangeInMemoryType ==
  ASSUME TypeOK, NEW t \in Threads, NEW b \in BranchIds \cup {Null},
         NEW fields \in ProjectFields, At(t, "project"), SpsFree,
         ChangeInMemory(t, b, fields)
  PROVE  TypeOK'
<1>1. req[t].project \in ProjectIds /\ project[req[t].project] \in ProjectFields
  BY DEF TypeOK, MemoryTypeOK, RequestsTypeOK, RequestOK, At
<1> DEFINE r == [at |-> "writeProject", project |-> req[t].project,
                 commit |-> Null, target |-> b, old |-> project[req[t].project]]
<1>2. r \in Request /\ RequestOK(r)
  BY <1>1 DEF RequestOK
<1>3. req' = [req EXCEPT ![t] = r]
  BY DEF ChangeInMemory
<1>4. DatabaseTypeOK'
  BY DEF TypeOK, DatabaseTypeOK, ChangeInMemory, objVars, dbVars
<1>5. MemoryTypeOK'
  BY <1>1 DEF TypeOK, MemoryTypeOK, ChangeInMemory
<1>6. /\ project'[r.project] # Null
      /\ \A p \in ProjectIds : project[p] # Null => project'[p] # Null
  BY <1>1 DEF ChangeInMemory, TypeOK, MemoryTypeOK
<1>7. RequestsTypeOK'
  BY <1>2, <1>3, <1>6, RequestStep
  DEF ChangeInMemory, clientVars, TypeOK, RequestsTypeOK
<1>8. LocksOK'
  BY <1>2, <1>3, LockStep DEF ChangeInMemory, HoldSps, SpsFree, At
<1> QED
  BY <1>4, <1>5, <1>7, <1>8 DEF TypeOK

LEMMA UpdateProjectType ==
  ASSUME TypeOK, NEW t \in Threads, NEW a \in Attributes,
         \/ \E b \in BranchIds \cup {Null} : putProject(t, b, a)
         \/ changeOwner(t, a)
  PROVE  TypeOK'
<1>1. req[t].project \in ProjectIds /\ project[req[t].project] \in ProjectFields
  BY DEF TypeOK, MemoryTypeOK, RequestsTypeOK, RequestOK, At, putProject,
         changeProject, replaceDefaultBranch, changeOwner, changeOwnership
<1>2. ASSUME NEW b \in BranchIds \cup {Null}, putProject(t, b, a)
      PROVE  TypeOK'
  <2>1. PICK fields \in ProjectFields : ChangeInMemory(t, b, fields)
    BY <1>1, <1>2 DEF putProject, changeProject, replaceDefaultBranch, storedBranch,
                      TypeOK, MemoryTypeOK
  <2> QED
    BY <1>2, <2>1, ChangeInMemoryType DEF putProject, changeProject
<1>3. ASSUME changeOwner(t, a)
      PROVE  TypeOK'
  BY <1>1, <1>3, ChangeInMemoryType DEF changeOwner, changeOwnership
<1> QED
  BY <1>2, <1>3

LEMMA WriteProjectType ==
  ASSUME TypeOK, NEW t \in Threads, WriteProject(t)
  PROVE  TypeOK'
<1> DEFINE p == req[t].project
<1>1. /\ p \in ProjectIds /\ project[p] \in ProjectFields
      /\ req[t].target \in BranchIds \cup {Null}
      /\ req[t].old \in ProjectFields
  BY DEF TypeOK, MemoryTypeOK, RequestsTypeOK, RequestOK, WriteProject, At
<1>2. DatabaseTypeOK'
  BY <1>1 DEF TypeOK, DatabaseTypeOK, WriteProject, updateProject, objVars
<1>3. /\ project' \in [ProjectIds -> ProjectFields \cup {Null}]
      /\ \A q \in ProjectIds : project[q] # Null => project'[q] # Null
  BY <1>1 DEF TypeOK, MemoryTypeOK, WriteProject
<1>4. MemoryTypeOK'
  BY <1>3 DEF TypeOK, MemoryTypeOK, WriteProject
<1>5. spsLock = t
  BY DEF TypeOK, LocksOK, WriteProject, At
<1>6. RequestsTypeOK' /\ LocksOK'
  <2> DEFINE r == [req[t] EXCEPT !.at = "restoreDefault"]
  <2>1. CASE Respond(t) /\ ReleaseSps
    <3>1. IdleRequest \in Request /\ RequestOK(IdleRequest)
      BY DEF RequestOK
    <3>2. RequestsTypeOK'
      BY <1>3, <2>1, <3>1, RequestStep
      DEF Respond, WriteProject, clientVars, TypeOK, RequestsTypeOK
    <3>3. LocksOK'
      BY <1>5, <2>1, <3>1, LockStep DEF Respond, ReleaseSps, WriteProject, At
    <3> QED
      BY <3>2, <3>3
  <2>2. CASE req' = [req EXCEPT ![t].at = "restoreDefault"] /\ spsLock' = spsLock
                /\ req[t].target # Null
    <3>1. r \in Request /\ RequestOK(r) /\ r.project = p
      BY <1>1, <2>2 DEF RequestOK, TypeOK, RequestsTypeOK
    <3>2. req' = [req EXCEPT ![t] = r]
      BY <2>2
    <3>3. RequestsTypeOK'
      BY <1>1, <1>3, <3>1, <3>2, RequestStep
      DEF WriteProject, clientVars, TypeOK, RequestsTypeOK
    <3>4. LocksOK'
      BY <1>5, <2>2, <3>1, <3>2, LockStep DEF WriteProject, At
    <3> QED
      BY <3>3, <3>4
  <2> QED
    BY <2>1, <2>2 DEF WriteProject
<1> QED
  BY <1>2, <1>4, <1>6 DEF TypeOK

LEMMA RestoreDefaultType ==
  ASSUME TypeOK, NEW t \in Threads, restoreDefaultBranch(t)
  PROVE  TypeOK'
<1> DEFINE p == req[t].project
<1>1. /\ p \in ProjectIds /\ project[p] \in ProjectFields
      /\ req[t].old \in ProjectFields
  BY DEF TypeOK, MemoryTypeOK, RequestsTypeOK, RequestOK, restoreDefaultBranch, At
<1>2. DatabaseTypeOK'
  BY DEF TypeOK, DatabaseTypeOK, restoreDefaultBranch, objVars, dbVars
<1>3. PutBackDefault(project[p], req[t].old) \in ProjectFields
  BY <1>1 DEF PutBackDefault
<1>4. /\ project' \in [ProjectIds -> ProjectFields \cup {Null}]
      /\ \A q \in ProjectIds : project[q] # Null => project'[q] # Null
  BY <1>1, <1>3 DEF TypeOK, MemoryTypeOK, restoreDefaultBranch
<1>5. MemoryTypeOK'
  BY <1>4 DEF TypeOK, MemoryTypeOK, restoreDefaultBranch
<1>6. IdleRequest \in Request /\ RequestOK(IdleRequest)
  BY DEF RequestOK
<1>7. RequestsTypeOK'
  BY <1>4, <1>6, RequestStep
  DEF Respond, restoreDefaultBranch, clientVars, TypeOK, RequestsTypeOK
<1>8. spsLock = t
  BY DEF TypeOK, LocksOK, restoreDefaultBranch, At
<1>9. LocksOK'
  BY <1>6, <1>8, LockStep DEF Respond, ReleaseSps, restoreDefaultBranch, At
<1> QED
  BY <1>2, <1>5, <1>7, <1>9 DEF TypeOK

LEMMA DeleteProjectType ==
  ASSUME TypeOK, NEW t \in Threads, deleteProjectWithId(t)
  PROVE  TypeOK'
<1>1. req[t].project \in ProjectIds /\ project[req[t].project] # Null
  BY DEF TypeOK, RequestsTypeOK, RequestOK, deleteProjectWithId, deleteProject, At
<1>2. DatabaseTypeOK'
  BY DEF TypeOK, DatabaseTypeOK, deleteProjectWithId, deleteProject, deleteProjectDoc,
         objVars
<1>3. MemoryTypeOK'
  BY DEF TypeOK, MemoryTypeOK, deleteProjectWithId, deleteProject, pvsVars
<1>4. RequestsTypeOK' /\ LocksOK'
  <2>1. PICK o \in DbOutcomes :
          /\ HoldSpsIf(t, o)
          /\ IF Reported(o) THEN Proceed(t, "forget", Null, Null) ELSE Respond(t)
    BY DEF deleteProjectWithId, deleteProject
  <2> DEFINE r == IF Reported(o)
                  THEN [at |-> "forget", project |-> req[t].project, commit |-> Null,
                        target |-> Null, old |-> Null]
                  ELSE IdleRequest
  <2>2. r \in Request /\ RequestOK(r)
    BY <1>1 DEF RequestOK
  <2>3. req' = [req EXCEPT ![t] = r]
    BY <2>1 DEF Proceed, Respond
  <2>4. r.at # "idle" => project'[r.project] # Null
    BY <1>1 DEF deleteProjectWithId, deleteProject, pvsVars
  <2>5. /\ spsLock = Null
        /\ spsLock' = IF r.at \in InProjects THEN t ELSE Null
        /\ pvsLock' = pvsLock /\ (r.at \in InVersioning <=> req[t].at \in InVersioning)
    BY <2>1 DEF deleteProjectWithId, deleteProject, SpsFree, HoldSpsIf, At
  <2> HIDE DEF r
  <2>6. RequestsTypeOK'
    BY <2>2, <2>3, <2>4, RequestStep
    DEF deleteProjectWithId, deleteProject, pvsVars, clientVars, TypeOK, RequestsTypeOK
  <2>7. LocksOK'
    BY <2>2, <2>3, <2>5, LockStep
  <2> QED
    BY <2>6, <2>7
<1> QED
  BY <1>2, <1>3, <1>4 DEF TypeOK

(* The two ends of deleteProject after the project's document is gone. *)
LEMMA ForgetType ==
  ASSUME TypeOK, NEW t \in Threads, ForgetProject(t) \/ DeleteQueriesFails(t)
  PROVE  TypeOK'
<1>1. req[t].project \in ProjectIds /\ At(t, "forget")
  BY DEF TypeOK, RequestsTypeOK, RequestOK, ForgetProject, DeleteQueriesFails, At
<1>2. UNCHANGED <<objVars, dbVars, pvsLock, projectMap, acked, restarts, head, project>>
  BY DEF ForgetProject, DeleteQueriesFails, forgetProject, pvsVars, clientVars
<1>3. DatabaseTypeOK'
  BY <1>2 DEF TypeOK, DatabaseTypeOK, objVars, dbVars
<1>4. MemoryTypeOK'
  BY <1>1, <1>2 DEF TypeOK, MemoryTypeOK, ForgetProject, DeleteQueriesFails,
                    forgetProject, pvsVars
<1>5. deleted' \subseteq ProjectIds \cup BranchIds \cup TagIds
  BY <1>1 DEF TypeOK, RequestsTypeOK, ForgetProject, DeleteQueriesFails, clientVars
<1>6. IdleRequest \in Request /\ RequestOK(IdleRequest)
  BY DEF RequestOK
<1>7. Respond(t) /\ ReleaseSps
  BY DEF ForgetProject, DeleteQueriesFails
<1>8. RequestsTypeOK'
  BY <1>2, <1>5, <1>6, <1>7, RequestStep DEF Respond, TypeOK, RequestsTypeOK
<1>9. spsLock = t
  BY <1>1 DEF TypeOK, LocksOK, At
<1>10. LocksOK'
  BY <1>1, <1>2, <1>6, <1>7, <1>9, LockStep DEF Respond, ReleaseSps, At
<1> QED
  BY <1>3, <1>4, <1>8, <1>10 DEF TypeOK

-----------------------------------------------------------------------------
(* Looking a commit up, answering, restarting. *)

LEMMA GetCommitType ==
  ASSUME TypeOK, NEW t \in Threads, NEW c \in CommitIds,
         findCommit(t, c), UNCHANGED outerVars
  PROVE  TypeOK'
<1> DEFINE r == [at |-> "commit", project |-> req[t].project, commit |-> c,
                 target |-> Null, old |-> Null]
<1>1. req[t].project \in ProjectIds /\ project[req[t].project] # Null
  BY DEF TypeOK, RequestsTypeOK, RequestOK, findCommit, getCommitById, At
<1>2. r \in Request /\ RequestOK(r)
  BY <1>1 DEF RequestOK
<1>3. DatabaseTypeOK' /\ MemoryTypeOK'
  BY DEF TypeOK, DatabaseTypeOK, MemoryTypeOK, findCommit, getCommitById, objVars,
         dbVars, pvsVars, outerVars
<1>4. RequestsTypeOK'
  BY <1>1, <1>2, RequestStep
  DEF findCommit, getCommitById, Proceed, pvsVars, clientVars, TypeOK, RequestsTypeOK
<1>5. LocksOK'
  BY <1>2, LockStep DEF findCommit, getCommitById, Proceed, At, outerVars
<1> QED
  BY <1>3, <1>4, <1>5 DEF TypeOK

LEMMA AnswerType ==
  ASSUME TypeOK, NEW t \in Threads, Answer(t)
  PROVE  TypeOK'
<1>1. DatabaseTypeOK' /\ MemoryTypeOK'
  BY DEF TypeOK, DatabaseTypeOK, MemoryTypeOK, Answer, objVars, dbVars, pvsVars
<1>2. IdleRequest \in Request /\ RequestOK(IdleRequest)
  BY DEF RequestOK
<1>3. RequestsTypeOK'
  BY <1>2, RequestStep DEF Answer, Respond, pvsVars, clientVars, TypeOK, RequestsTypeOK
<1>4. LocksOK'
  BY <1>2, LockStep DEF Answer, Respond
<1> QED
  BY <1>1, <1>3, <1>4 DEF TypeOK

LEMMA RestartType ==
  ASSUME TypeOK, Restart
  PROVE  TypeOK'
<1>1. DatabaseTypeOK'
  BY DEF TypeOK, DatabaseTypeOK, Restart, objVars, dbVars
<1>2. MemoryTypeOK'
  BY DEF TypeOK, DatabaseTypeOK, MemoryTypeOK, Restart, LoadVersioning, LoadProjects,
         getAllProjects, getAllBranches, getAllCommits, getAllTags
<1>3. RequestsTypeOK'
  BY DEF TypeOK, RequestsTypeOK, RequestOK, Restart
<1>4. LocksOK'
  BY DEF LocksOK, Restart, LoadVersioning, LoadProjects
<1> QED
  BY <1>1, <1>2, <1>3, <1>4 DEF TypeOK

LEMMA StutterType ==
  ASSUME TypeOK, UNCHANGED vars
  PROVE  TypeOK'
  BY DEF TypeOK, DatabaseTypeOK, MemoryTypeOK, RequestsTypeOK, LocksOK,
         vars, objVars, dbVars, pvsVars, reqVars, clientVars

-----------------------------------------------------------------------------
LEMMA NextTypeOK ==
  ASSUME TypeOK, [Next]_vars
  PROVE  TypeOK'
<1>1. ASSUME NEW t \in Threads, VersioningStep(t)
      PROVE  TypeOK'
  <2>1. ASSUME NEW c \in CommitIds, findCommit(t, c), UNCHANGED outerVars
        PROVE  TypeOK'
    BY <2>1, GetCommitType
  <2>2. ASSUME NEW b \in BranchIds, NEW c \in CommitIds, UNCHANGED outerVars,
               postCommit(t, b, c) \/ postMerge(t, b, c)
        PROVE  TypeOK'
    <3>1. req[t].at = "commit" => {req[t].commit} \in SUBSET CommitIds
      BY DEF TypeOK, RequestsTypeOK, RequestOK
    <3> QED
      BY <2>2, <3>1, StoreCommitType DEF postCommit, createCommit, postMerge,
                                         mergeIntoBranch, At
  <2>3. ASSUME MoveHead(t), UNCHANGED outerVars
        PROVE  TypeOK'
    BY <2>3, MoveHeadType
  <2>4. ASSUME NEW b \in BranchIds, NEW n \in Names, postBranch(t, b, n),
               UNCHANGED outerVars
        PROVE  TypeOK'
    BY <2>4, CreateBranchType
  <2>5. ASSUME NEW b \in BranchIds, deleteBranchRequest(t, b), UNCHANGED outerVars
        PROVE  TypeOK'
    BY <2>5, DeleteBranchType
  <2>6. ASSUME NEW g \in TagIds, NEW n \in Names, postTag(t, g, n),
               UNCHANGED outerVars
        PROVE  TypeOK'
    BY <2>6, CreateTagType
  <2>7. ASSUME NEW g \in TagIds, deleteTagRequest(t, g), UNCHANGED outerVars
        PROVE  TypeOK'
    BY <2>7, DeleteTagType
  <2>8. ASSUME PushBranch(t) \/ EraseBranch(t) \/ PushTag(t) \/ EraseTag(t),
               UNCHANGED outerVars
        PROVE  TypeOK'
    BY <2>8, FinishType
  <2> QED
    BY <1>1, <2>1, <2>2, <2>3, <2>4, <2>5, <2>6, <2>7, <2>8 DEF VersioningStep
<1>2. ASSUME NEW t \in Threads, ProjectStep(t)
      PROVE  TypeOK'
  <2>1. ASSUME getProjects(t)
        PROVE  TypeOK'
    BY <2>1, StutterType DEF getProjects, vars
  <2> QED
    BY <1>2, <2>1, GetProjectType, CreateProjectType, AddProjectDocType,
       UpdateProjectType, WriteProjectType, RestoreDefaultType, DeleteProjectType,
       ForgetType
    DEF ProjectStep
<1>3. ASSUME NEW t \in Threads, Answer(t)
      PROVE  TypeOK'
  BY <1>3, AnswerType
<1> QED
  BY <1>1, <1>2, <1>3, RestartType, StutterType DEF Next, ThreadStep

(* The database, the maps, the requests in flight and the two locks keep   *)
(* their types, and a lock is held exactly by the thread inside its        *)
(* service: no exception path leaves one locked.                           *)
THEOREM TypeCorrect == Spec => []TypeOK
<1>1. Init => TypeOK
  BY InitTypeOK
<1>2. TypeOK /\ [Next]_vars => TypeOK'
  BY NextTypeOK
<1> QED
  BY <1>1, <1>2, PTL DEF Spec

-----------------------------------------------------------------------------
(***************************************************************************)
(* No acknowledged commit is lost, and what the database holds is whole,   *)
(* whatever the interleaving of the requests, the failures of the writes   *)
(* and the restarts.  The invariants of ModelServerProperties are not      *)
(* inductive; the two strengthenings below are.                            *)
(***************************************************************************)

-----------------------------------------------------------------------------
(* Everything that may become a reference in a document (what memory finds, *)
(* a head, a commit a request holds) is a stored commit already.            *)
IndexStored == commitIndex \subseteq commitDocs
HeadsStored == \A b \in BranchIds : /\ head[b] # Null => head[b] \in commitDocs
                                    /\ docHead[b] # Null => docHead[b] \in commitDocs
RequestsStored ==
  \A t \in Threads : req[t].commit # Null => req[t].commit \in commitDocs
PreviousStored == \A c \in commitDocs : commitOf[c].previous \subseteq commitDocs
TagsStored == \A g \in tagDocs : tagOf[g].commit \in commitDocs

ClosedInv ==
  IndexStored /\ HeadsStored /\ RequestsStored /\ PreviousStored /\ TagsStored

-----------------------------------------------------------------------------
(* An identifier that has not been issued is nowhere. *)
FreshBlank ==
  /\ \A c \in CommitIds : FreshCommit(c) => commitOf[c].previous = {}
  /\ \A b \in BranchIds : FreshBranch(b) =>
       /\ head[b] = Null
       /\ b \notin branchDocs
       /\ \A p \in ProjectIds : b \notin branchMap[p]
  /\ \A t \in Threads : req[t].at \in {"pushBranch", "moveHead"} =>
                          ~FreshBranch(req[t].target)

(* h is a head that may replace the head of b: it comes right after it. *)
Follows(h, b) == head[b] = Null \/ (h # Null /\ head[b] \in commitOf[h].previous)

(* The commit a thread is about to make the head follows the head. *)
NewHeadFollows ==
  \A t \in Threads : req[t].at = "moveHead" => Follows(req[t].commit, req[t].target)

(* A stored head that the process was not told about follows the head. *)
DocHeadFollows ==
  \A b \in branchDocs : docHead[b] = head[b] \/ Follows(docHead[b], b)

AckedInHistory ==
  \A a \in acked :
    /\ ~FreshBranch(a[1])
    /\ InHistory(a[2], head[a[1]])
    /\ a[1] \in branchDocs => InHistory(a[2], docHead[a[1]])

HistoryInv == FreshBlank /\ NewHeadFollows /\ DocHeadFollows /\ AckedInHistory

-----------------------------------------------------------------------------
LEMMA StoreCommitClosed ==
  ASSUME TypeOK, ClosedInv, NEW t \in Threads, NEW b \in BranchIds, NEW c \in CommitIds,
         NEW requested \in SUBSET commitDocs, StoreCommit(t, b, c, requested)
  PROVE  ClosedInv'
<1>1. PICK o \in DbOutcomes :
        /\ addCommit(c, o)
        /\ commitOf' = IF Applied(o)
                       THEN [commitOf EXCEPT ![c] =
                              [project |-> req[t].project,
                               previous |-> PreviousOf(b, requested)]]
                       ELSE commitOf
        /\ IF Reported(o) THEN Proceed(t, "moveHead", c, b) ELSE Respond(t)
  BY DEF StoreCommit
<1>2. PreviousOf(b, requested) \subseteq commitDocs
  BY DEF PreviousOf, ClosedInv, HeadsStored
<1>3. UNCHANGED <<tagOf, docHead, tagDocs, head, commitIndex>>
  BY DEF StoreCommit, pvsVars
<1>4. /\ commitDocs \subseteq commitDocs'
      /\ Reported(o) => c \in commitDocs'
  BY <1>1 DEF addCommit, Reported, Applied
<1>5. PreviousStored'
  BY <1>1, <1>2, <1>4 DEF ClosedInv, PreviousStored, addCommit, TypeOK, DatabaseTypeOK
<1>6. RequestsStored'
  BY <1>1, <1>4
  DEF ClosedInv, RequestsStored, Proceed, Respond, TypeOK, RequestsTypeOK
<1> QED
  BY <1>3, <1>4, <1>5, <1>6 DEF ClosedInv, IndexStored, HeadsStored, TagsStored

LEMMA MoveHeadClosed ==
  ASSUME TypeOK, ClosedInv, NEW t \in Threads, MoveHead(t)
  PROVE  ClosedInv'
<1>1. req[t].commit \in commitDocs
  BY DEF TypeOK, RequestsTypeOK, RequestOK, ClosedInv, RequestsStored, MoveHead, At
<1>2. UNCHANGED <<commitOf, tagOf, commitDocs, tagDocs>>
  BY DEF MoveHead, objVars
<1>3. HeadsStored'
  BY <1>1, <1>2
  DEF MoveHead, updateBranch, ClosedInv, HeadsStored, TypeOK, MemoryTypeOK,
      DatabaseTypeOK
<1>4. IndexStored'
  BY <1>1, <1>2 DEF MoveHead, ClosedInv, IndexStored
<1>5. RequestsStored'
  BY <1>2 DEF MoveHead, Respond, ClosedInv, RequestsStored, TypeOK, RequestsTypeOK
<1> QED
  BY <1>2, <1>3, <1>4, <1>5 DEF ClosedInv, PreviousStored, TagsStored

LEMMA CreateBranchClosed ==
  ASSUME TypeOK, ClosedInv, NEW t \in Threads, NEW b \in BranchIds, NEW n \in Names,
         postBranch(t, b, n)
  PROVE  ClosedInv'
<1>1. req[t].commit \in commitDocs
  BY DEF TypeOK, RequestsTypeOK, RequestOK, ClosedInv, RequestsStored, postBranch,
         createBranch, At
<1>2. UNCHANGED <<commitOf, tagOf, commitDocs, tagDocs, commitIndex>>
  BY DEF postBranch, createBranch
<1>3. HeadsStored'
  BY <1>1, <1>2
  DEF postBranch, createBranch, addBranch, ClosedInv, HeadsStored, TypeOK,
      MemoryTypeOK, DatabaseTypeOK
<1>4. RequestsStored'
  BY <1>2 DEF postBranch, createBranch, Proceed, Respond, ClosedInv, RequestsStored,
              TypeOK, RequestsTypeOK
<1> QED
  BY <1>2, <1>3, <1>4 DEF ClosedInv, IndexStored, PreviousStored, TagsStored

LEMMA CreateTagClosed ==
  ASSUME TypeOK, ClosedInv, NEW t \in Threads, NEW g \in TagIds, NEW n \in Names,
         postTag(t, g, n)
  PROVE  ClosedInv'
<1>1. req[t].commit \in commitDocs
  BY DEF TypeOK, RequestsTypeOK, RequestOK, ClosedInv, RequestsStored, postTag,
         createTag, At
<1>2. UNCHANGED <<commitOf, commitDocs, docHead, head, commitIndex>>
  BY DEF postTag, createTag, pvsVars
<1>3. TagsStored'
  BY <1>1, <1>2 DEF postTag, createTag, addTag, ClosedInv, TagsStored, TypeOK,
                    DatabaseTypeOK
<1>4. RequestsStored'
  BY <1>2 DEF postTag, createTag, Proceed, Respond, ClosedInv, RequestsStored, TypeOK,
              RequestsTypeOK
<1> QED
  BY <1>2, <1>3, <1>4 DEF ClosedInv, IndexStored, HeadsStored, PreviousStored

LEMMA CreateProjectClosed ==
  ASSUME TypeOK, ClosedInv, NEW t \in Threads, NEW p \in ProjectIds, NEW b \in BranchIds,
         NEW a \in Attributes, postProject(t, p, b, a)
  PROVE  ClosedInv'
<1>1. UNCHANGED <<commitOf, tagOf, commitDocs, tagDocs, commitIndex>>
  BY DEF postProject, createProject, addBranchFromProject
<1>2. HeadsStored'
  BY <1>1 DEF postProject, createProject, addBranchFromProject, addBranch, ClosedInv,
              HeadsStored, TypeOK, MemoryTypeOK, DatabaseTypeOK
<1>3. RequestsStored'
  BY <1>1 DEF postProject, createProject, ClosedInv, RequestsStored, TypeOK,
              RequestsTypeOK
<1> QED
  BY <1>1, <1>2, <1>3 DEF ClosedInv, IndexStored, PreviousStored, TagsStored

LEMMA RestartClosed ==
  ASSUME TypeOK, ClosedInv, Restart
  PROVE  ClosedInv'
<1>1. UNCHANGED <<commitOf, tagOf, commitDocs, tagDocs, docHead>>
  BY DEF Restart, objVars, dbVars
<1>2. IndexStored'
  BY <1>1 DEF Restart, LoadVersioning, getAllCommits, IndexStored
<1>3. HeadsStored'
  BY <1>1 DEF Restart, LoadVersioning, ClosedInv, HeadsStored
<1>4. RequestsStored'
  BY DEF Restart, RequestsStored
<1> QED
  BY <1>1, <1>2, <1>3, <1>4 DEF ClosedInv, PreviousStored, TagsStored

(* Every other step: no commit, head or tag document is added. *)
LEMMA OtherClosed ==
  ASSUME TypeOK, ClosedInv, NEW t \in Threads,
         \/ \E c \in CommitIds : findCommit(t, c)
         \/ PushBranch(t) \/ EraseBranch(t) \/ PushTag(t) \/ EraseTag(t)
         \/ \E b \in BranchIds : deleteBranchRequest(t, b)
         \/ \E g \in TagIds : deleteTagRequest(t, g)
         \/ \E p \in ProjectIds : withProject(t, p)
         \/ AddProjectDoc(t)
         \/ \E b \in BranchIds \cup {Null}, a \in Attributes : putProject(t, b, a)
         \/ \E a \in Attributes : changeOwner(t, a)
         \/ WriteProject(t) \/ restoreDefaultBranch(t) \/ deleteProjectWithId(t)
         \/ ForgetProject(t) \/ DeleteQueriesFails(t) \/ Answer(t)
  PROVE  ClosedInv'
<1>1. UNCHANGED <<commitOf, tagOf, commitDocs, head, docHead>>
  BY DEF findCommit, getCommitById, PushBranch, EraseBranch, PushTag, EraseTag,
         deleteBranchRequest, deleteBranch, deleteBranchDoc, deleteTagRequest,
         deleteTag, withProject, getProjectById, AddProjectDoc, putProject,
         changeProject, replaceDefaultBranch, changeOwner, changeOwnership,
         ChangeInMemory, WriteProject, restoreDefaultBranch, deleteProjectWithId,
         deleteProject, ForgetProject, forgetProject, DeleteQueriesFails, Answer,
         objVars, dbVars, pvsVars
<1>2. commitIndex' \subseteq commitIndex
  BY DEF findCommit, getCommitById, PushBranch, EraseBranch, PushTag, EraseTag,
         deleteBranchRequest, deleteBranch, deleteTagRequest, deleteTag, withProject,
         getProjectById, AddProjectDoc, putProject, changeProject,
         replaceDefaultBranch, changeOwner, changeOwnership, ChangeInMemory,
         WriteProject, restoreDefaultBranch, deleteProjectWithId, deleteProject,
         ForgetProject, forgetProject, DeleteQueriesFails, Answer, pvsVars
<1>3. tagDocs' \subseteq tagDocs
  BY DEF findCommit, getCommitById, PushBranch, EraseBranch, PushTag, EraseTag,
         deleteBranchRequest, deleteBranch, deleteTagRequest, deleteTag, deleteTagDoc,
         withProject, getProjectById, AddProjectDoc, putProject, changeProject,
         replaceDefaultBranch, changeOwner, changeOwnership, ChangeInMemory,
         WriteProject, restoreDefaultBranch, deleteProjectWithId, deleteProject,
         ForgetProject, DeleteQueriesFails, Answer, dbVars
<1>4. \A u \in Threads : req'[u].commit \in {Null, req[u].commit} \cup commitIndex
  <2>1. CASE \E c \in CommitIds : findCommit(t, c)
    BY <2>1 DEF findCommit, getCommitById, Proceed, TypeOK, RequestsTypeOK
  <2>2. CASE Respond(t)
    BY <2>2 DEF Respond, TypeOK, RequestsTypeOK
  <2>3. CASE \E l \in {"eraseBranch", "eraseTag", "forget"} :
               \E x \in BranchIds \cup TagIds \cup {Null} : Proceed(t, l, Null, x)
    BY <2>3 DEF Proceed, TypeOK, RequestsTypeOK
  <2>4. CASE \E p \in ProjectIds : withProject(t, p)
    <3>1. PICK p \in ProjectIds :
            req' = [req EXCEPT ![t] = [IdleRequest EXCEPT !.at = "project", !.project = p]]
      BY <2>4 DEF withProject, getProjectById
    <3>2. \A u \in Threads : req'[u].commit = IF u = t THEN Null ELSE req[u].commit
      BY <3>1 DEF TypeOK, RequestsTypeOK
    <3> QED
      BY <3>2
  <2>5. CASE WriteProject(t)
    BY <2>5 DEF WriteProject, Respond, TypeOK, RequestsTypeOK
  <2>6. CASE \E b \in BranchIds \cup {Null}, a \in Attributes : putProject(t, b, a)
    BY <2>6 DEF putProject, changeProject, replaceDefaultBranch, ChangeInMemory,
                TypeOK, RequestsTypeOK
  <2>7. CASE \E a \in Attributes : changeOwner(t, a)
    BY <2>7 DEF changeOwner, changeOwnership, ChangeInMemory, TypeOK, RequestsTypeOK
  <2>8. CASE \/ \E b \in BranchIds : deleteBranchRequest(t, b)
             \/ \E g \in TagIds : deleteTagRequest(t, g)
             \/ deleteProjectWithId(t)
    BY <2>2, <2>3, <2>8 DEF deleteBranchRequest, deleteBranch, deleteTagRequest,
                            deleteTag, deleteProjectWithId, deleteProject
  <2> QED
    BY <2>1, <2>2, <2>4, <2>5, <2>6, <2>7, <2>8
    DEF PushBranch, EraseBranch, PushTag, EraseTag, AddProjectDoc, restoreDefaultBranch,
        ForgetProject, DeleteQueriesFails, Answer
<1> QED
  BY <1>1, <1>2, <1>3, <1>4 DEF ClosedInv, IndexStored, HeadsStored, RequestsStored,
                                PreviousStored, TagsStored

LEMMA NextClosed ==
  ASSUME TypeOK, ClosedInv, [Next]_vars
  PROVE  ClosedInv'
<1>1. ASSUME NEW t \in Threads, NEW b \in BranchIds, NEW c \in CommitIds,
             postCommit(t, b, c) \/ postMerge(t, b, c)
      PROVE  ClosedInv'
  <2>1. req[t].at = "commit" => {req[t].commit} \in SUBSET commitDocs
    BY DEF TypeOK, RequestsTypeOK, RequestOK, ClosedInv, RequestsStored
  <2> QED
    BY <1>1, <2>1, StoreCommitClosed DEF postCommit, createCommit, postMerge,
                                         mergeIntoBranch, At
<1>2. ASSUME NEW t \in Threads, VersioningStep(t)
      PROVE  ClosedInv'
  BY <1>1, <1>2, MoveHeadClosed, CreateBranchClosed, CreateTagClosed, OtherClosed
  DEF VersioningStep
<1>3. ASSUME UNCHANGED vars
      PROVE  ClosedInv'
  BY <1>3 DEF vars, objVars, dbVars, pvsVars, reqVars, ClosedInv, IndexStored,
              HeadsStored, RequestsStored, PreviousStored, TagsStored
<1>4. ASSUME NEW t \in Threads, ProjectStep(t)
      PROVE  ClosedInv'
  <2>1. ASSUME getProjects(t)
        PROVE  ClosedInv'
    BY <1>3, <2>1 DEF getProjects, vars
  <2> QED
    BY <1>4, <2>1, CreateProjectClosed, OtherClosed DEF ProjectStep
<1>5. ASSUME NEW t \in Threads, Answer(t)
      PROVE  ClosedInv'
  BY <1>5, OtherClosed
<1> QED
  BY <1>2, <1>3, <1>4, <1>5, RestartClosed DEF Next, ThreadStep

LEMMA ClosedInvariant == Spec => []ClosedInv
<1>1. Init => ClosedInv
  BY DEF Init, InitDatabase, InitRequests, InitVersioning, ClosedInv, IndexStored,
         HeadsStored, RequestsStored, PreviousStored, TagsStored
<1>2. TypeOK /\ ClosedInv /\ [Next]_vars => ClosedInv'
  BY NextClosed
<1> QED
  BY <1>1, <1>2, TypeCorrect, PTL DEF Spec

(* At every moment, and so after every crash, the previous commits of a    *)
(* stored commit, the head of a stored branch and the commit of a stored   *)
(* tag are stored: the services write a commit before what refers to it.   *)
THEOREM DatabaseClosed == Spec => []DocumentsClosed
<1>1. TypeOK /\ ClosedInv => DocumentsClosed
  BY DEF TypeOK, DatabaseTypeOK, ClosedInv, HeadsStored, PreviousStored, TagsStored,
         DocumentsClosed
<1> QED
  BY <1>1, TypeCorrect, ClosedInvariant, PTL

-----------------------------------------------------------------------------
(* The second strengthening.  What a history gains when a new commit is    *)
(* built.                                                                  *)

(* A commit built from an unused identifier takes nothing out of any       *)
(* history.                                                                *)
LEMMA HistoryKept ==
  ASSUME NEW c \in CommitIds, NEW x, NEW h,
         commitOf[c].previous = {},
         \A d \in CommitIds \ {c} : commitOf'[d] = commitOf[d],
         InHistory(x, h)
  PROVE  InHistory(x, h)'
<1>1. ASSUME NEW S \in SUBSET CommitIds, h \in S,
             \A d \in S : commitOf'[d].previous \subseteq S
      PROVE  x \in S
  <2>1. ClosedHistory(S)
    BY <1>1 DEF ClosedHistory
  <2> QED
    BY <1>1, <2>1 DEF InHistory
<1> QED
  BY <1>1 DEF InHistory, ClosedHistory

(* What is before a previous commit of h is before h. *)
LEMMA HistoryGrows ==
  ASSUME NEW x, NEW g, NEW h, h # Null, g \in commitOf[h].previous, InHistory(x, g)
  PROVE  InHistory(x, h)
<1>1. ASSUME NEW S \in SUBSET CommitIds, h \in S, ClosedHistory(S)
      PROVE  x \in S
  <2>1. g \in S
    BY <1>1 DEF ClosedHistory
  <2> QED
    BY <1>1, <2>1 DEF InHistory
<1> QED
  BY <1>1 DEF InHistory

-----------------------------------------------------------------------------
(* A step that issues nothing and moves no head. *)
LEMMA HistoryFrame ==
  ASSUME TypeOK, HistoryInv,
         UNCHANGED <<branchOf, commitOf, head, docHead, acked>>,
         branchDocs' \subseteq branchDocs,
         \A p \in ProjectIds : \A b \in branchMap'[p] :
           b \in branchMap[p] \/ ~FreshBranch(b),
         \A u \in Threads :
           req'[u].at \in {"pushBranch", "moveHead"} => req'[u] = req[u]
  PROVE  HistoryInv'
<1>1. FreshBlank'
  BY DEF HistoryInv, FreshBlank, FreshCommit, FreshBranch, TypeOK, MemoryTypeOK
<1>2. NewHeadFollows'
  BY DEF HistoryInv, NewHeadFollows, Follows
<1>3. DocHeadFollows'
  BY DEF HistoryInv, DocHeadFollows, Follows
<1>4. AckedInHistory'
  BY DEF HistoryInv, AckedInHistory, FreshBranch, InHistory, ClosedHistory
<1> QED
  BY <1>1, <1>2, <1>3, <1>4 DEF HistoryInv

LEMMA OtherHistory ==
  ASSUME TypeOK, HistoryInv, NEW t \in Threads,
         \/ \E c \in CommitIds : findCommit(t, c)
         \/ PushBranch(t) \/ EraseBranch(t) \/ PushTag(t) \/ EraseTag(t)
         \/ \E b \in BranchIds : deleteBranchRequest(t, b)
         \/ \E g \in TagIds, n \in Names : postTag(t, g, n)
         \/ \E g \in TagIds : deleteTagRequest(t, g)
         \/ \E p \in ProjectIds : withProject(t, p)
         \/ AddProjectDoc(t)
         \/ \E b \in BranchIds \cup {Null}, a \in Attributes : putProject(t, b, a)
         \/ \E a \in Attributes : changeOwner(t, a)
         \/ WriteProject(t) \/ restoreDefaultBranch(t) \/ deleteProjectWithId(t)
         \/ ForgetProject(t) \/ DeleteQueriesFails(t) \/ Answer(t)
  PROVE  HistoryInv'
<1>1. UNCHANGED <<branchOf, commitOf, head, docHead, acked>>
  BY DEF findCommit, getCommitById, PushBranch, EraseBranch, PushTag, EraseTag,
         deleteBranchRequest, deleteBranch, postTag, createTag, deleteTagRequest,
         deleteTag, withProject, getProjectById, AddProjectDoc, putProject,
         changeProject, replaceDefaultBranch, changeOwner, changeOwnership,
         ChangeInMemory, WriteProject, restoreDefaultBranch, deleteProjectWithId,
         deleteProject, ForgetProject, forgetProject, DeleteQueriesFails, Answer,
         objVars, dbVars, pvsVars, clientVars
<1>2. branchDocs' \subseteq branchDocs
  BY DEF findCommit, getCommitById, PushBranch, EraseBranch, PushTag, EraseTag,
         deleteBranchRequest, deleteBranch, deleteBranchDoc, postTag, createTag,
         deleteTagRequest, deleteTag, withProject, getProjectById, AddProjectDoc,
         putProject, changeProject, replaceDefaultBranch, changeOwner, changeOwnership,
         ChangeInMemory, WriteProject, restoreDefaultBranch, deleteProjectWithId,
         deleteProject, ForgetProject, DeleteQueriesFails, Answer, dbVars
<1>3. ASSUME NEW p \in ProjectIds, NEW b \in branchMap'[p], b \notin branchMap[p]
      PROVE  ~FreshBranch(b)
  <2>1. \/ branchMap' = branchMap
        \/ PushBranch(t) \/ EraseBranch(t)
        \/ ForgetProject(t)
    BY DEF findCommit, getCommitById, PushTag, EraseTag, deleteBranchRequest,
           deleteBranch, postTag, createTag, deleteTagRequest, deleteTag, withProject,
           getProjectById, AddProjectDoc, putProject, changeProject,
           replaceDefaultBranch, changeOwner, changeOwnership, ChangeInMemory,
           WriteProject, restoreDefaultBranch, deleteProjectWithId, deleteProject,
           DeleteQueriesFails, Answer, pvsVars
  <2>2. req[t].at # "idle" => req[t].project \in ProjectIds
    BY DEF TypeOK, RequestsTypeOK, RequestOK
  <2>3. ~EraseBranch(t) /\ ~ForgetProject(t)
    BY <1>3, <2>2 DEF EraseBranch, ForgetProject, forgetProject, At, TypeOK,
                      MemoryTypeOK
  <2>4. PushBranch(t) /\ b = req[t].target
    BY <1>3, <2>1, <2>2, <2>3 DEF PushBranch, At, TypeOK, MemoryTypeOK
  <2> QED
    BY <2>4 DEF HistoryInv, FreshBlank, PushBranch, At
<1>4. ASSUME NEW u \in Threads, req'[u].at \in {"pushBranch", "moveHead"}
      PROVE  req'[u] = req[u]
  <2>1. \/ Respond(t)
        \/ \E l \in {"commit", "eraseBranch", "pushTag", "eraseTag", "forget"},
              c \in CommitIds \cup {Null}, x \in BranchIds \cup TagIds \cup {Null} :
             Proceed(t, l, c, x)
        \/ \E p \in ProjectIds : req' =
             [req EXCEPT ![t] = [IdleRequest EXCEPT !.at = "project", !.project = p]]
        \/ \E b \in BranchIds \cup {Null} : req' =
             [req EXCEPT ![t] = [at |-> "writeProject", project |-> req[t].project,
                                 commit |-> Null, target |-> b,
                                 old |-> project[req[t].project]]]
        \/ req' = [req EXCEPT ![t].at = "restoreDefault"]
    BY DEF findCommit, getCommitById, PushBranch, EraseBranch, PushTag, EraseTag,
           deleteBranchRequest, deleteBranch, postTag, createTag, deleteTagRequest,
           deleteTag, withProject, getProjectById, AddProjectDoc, putProject,
           changeProject, replaceDefaultBranch, changeOwner, changeOwnership,
           ChangeInMemory, WriteProject, restoreDefaultBranch, deleteProjectWithId,
           deleteProject, ForgetProject, DeleteQueriesFails, Answer
  <2>2. /\ u # t => req'[u] = req[u]
        /\ req'[t].at \notin {"pushBranch", "moveHead"}
    <3>1. CASE Respond(t)
      BY <3>1 DEF Respond, TypeOK, RequestsTypeOK
    <3>2. CASE \E l \in {"commit", "eraseBranch", "pushTag", "eraseTag", "forget"},
                  c \in CommitIds \cup {Null}, x \in BranchIds \cup TagIds \cup {Null} :
                 Proceed(t, l, c, x)
      BY <3>2 DEF Proceed, TypeOK, RequestsTypeOK
    <3>3. CASE \E p \in ProjectIds : req' =
                 [req EXCEPT ![t] = [IdleRequest EXCEPT !.at = "project", !.project = p]]
      <4>1. PICK p \in ProjectIds : req' =
              [req EXCEPT ![t] = [IdleRequest EXCEPT !.at = "project", !.project = p]]
        BY <3>3
      <4> QED
        BY <4>1 DEF TypeOK, RequestsTypeOK
    <3>4. CASE \E b \in BranchIds \cup {Null} : req' =
                 [req EXCEPT ![t] = [at |-> "writeProject", project |-> req[t].project,
                                     commit |-> Null, target |-> b,
                                     old |-> project[req[t].project]]]
      BY <3>4 DEF TypeOK, RequestsTypeOK
    <3>5. CASE req' = [req EXCEPT ![t].at = "restoreDefault"]
      BY <3>5 DEF TypeOK, RequestsTypeOK
    <3> QED
      BY <2>1, <3>1, <3>2, <3>3, <3>4, <3>5
  <2> QED
    BY <1>4, <2>2
<1> QED
  BY <1>1, <1>2, <1>3, <1>4, HistoryFrame

(* While the lock is free no thread is about to move a head. *)
LEMMA NobodyMovesHead ==
  ASSUME TypeOK, PvsFree, NEW t \in Threads
  PROVE  req[t].at \notin InVersioning
  BY DEF TypeOK, LocksOK, PvsFree

LEMMA StoreCommitHistory ==
  ASSUME TypeOK, HistoryInv, NEW t \in Threads, NEW b \in BranchIds, NEW c \in CommitIds,
         NEW requested \in SUBSET CommitIds, req[t].at \in {"project", "commit"},
         PvsFree, storedBranch(req[t].project, b), StoreCommit(t, b, c, requested)
  PROVE  HistoryInv'
<1>1. req[t].project \in ProjectIds
  BY DEF TypeOK, RequestsTypeOK, RequestOK
<1>2. PICK o \in DbOutcomes :
        /\ commitOf' = IF Applied(o)
                       THEN [commitOf EXCEPT ![c] =
                              [project |-> req[t].project,
                               previous |-> PreviousOf(b, requested)]]
                       ELSE commitOf
        /\ IF Reported(o) THEN Proceed(t, "moveHead", c, b) ELSE Respond(t)
  BY DEF StoreCommit
<1>3. UNCHANGED <<branchOf, head, branchMap, branchDocs, docHead, acked>>
  BY DEF StoreCommit, pvsVars, clientVars
<1>4. commitOf[c].previous = {}
  BY DEF StoreCommit, HistoryInv, FreshBlank
<1>5. \A d \in CommitIds \ {c} : commitOf'[d] = commitOf[d]
  BY <1>2 DEF TypeOK, DatabaseTypeOK
<1>6. Reported(o) => commitOf'[c].previous = PreviousOf(b, requested)
  BY <1>2 DEF Reported, Applied, TypeOK, DatabaseTypeOK
<1>7. ~FreshBranch(b)
  BY <1>1 DEF StoreCommit, storedBranch, HistoryInv, FreshBlank
<1>8. \A u \in Threads : req'[u].at \in {"pushBranch", "moveHead"} =>
        /\ u = t /\ Reported(o)
        /\ req'[u].commit = c /\ req'[u].target = b
  <2>1. \A u \in Threads : req[u].at \notin {"pushBranch", "moveHead"}
    BY NobodyMovesHead DEF StoreCommit
  <2> QED
    BY <1>2, <2>1 DEF Proceed, Respond, TypeOK, RequestsTypeOK
<1>9. FreshBlank'
  <2>1. \A d \in CommitIds : FreshCommit(d)' => commitOf'[d].previous = {}
    BY <1>1, <1>2, <1>4, <1>5
    DEF FreshCommit, HistoryInv, FreshBlank, TypeOK, DatabaseTypeOK
  <2> QED
    BY <1>3, <1>7, <1>8, <2>1 DEF HistoryInv, FreshBlank, FreshBranch
<1>10. NewHeadFollows'
  BY <1>3, <1>6, <1>8 DEF NewHeadFollows, Follows, PreviousOf
<1>11. DocHeadFollows'
  BY <1>3, <1>4, <1>5
  DEF HistoryInv, DocHeadFollows, Follows, TypeOK, DatabaseTypeOK
<1>12. AckedInHistory'
  <2>1. ASSUME NEW x, NEW h, InHistory(x, h)
        PROVE  InHistory(x, h)'
    BY <1>4, <1>5, <2>1, HistoryKept
  <2>2. ASSUME NEW a \in acked
        PROVE  /\ ~FreshBranch(a[1])'
               /\ InHistory(a[2], head[a[1]])'
               /\ a[1] \in branchDocs => InHistory(a[2], docHead[a[1]])'
    <3>1. PICK h : h = head[a[1]]
      OBVIOUS
    <3>2. PICK d : d = docHead[a[1]]
      OBVIOUS
    <3>3. InHistory(a[2], h)'
      BY <2>1, <3>1 DEF HistoryInv, AckedInHistory
    <3>4. a[1] \in branchDocs => InHistory(a[2], d)'
      BY <2>1, <3>2 DEF HistoryInv, AckedInHistory
    <3> QED
      BY <1>3, <3>1, <3>2, <3>3, <3>4
      DEF HistoryInv, AckedInHistory, FreshBranch, InHistory, ClosedHistory
  <2> QED
    BY <1>3, <2>2 DEF AckedInHistory
<1> QED
  BY <1>9, <1>10, <1>11, <1>12 DEF HistoryInv

LEMMA MoveHeadHistory ==
  ASSUME TypeOK, HistoryInv, NEW t \in Threads, MoveHead(t)
  PROVE  HistoryInv'
<1>0. PICK b \in BranchIds, c \in CommitIds : b = req[t].target /\ c = req[t].commit
  BY DEF TypeOK, RequestsTypeOK, RequestOK, MoveHead, At
<1>1. ~FreshBranch(b) /\ Follows(c, b)
  BY <1>0 DEF TypeOK, RequestsTypeOK, RequestOK, MoveHead, At, HistoryInv, FreshBlank,
         NewHeadFollows
<1>2. UNCHANGED <<branchOf, commitOf, branchDocs, branchMap>>
  BY DEF MoveHead, objVars
<1>3. PICK o \in DbOutcomes :
        /\ updateBranch(b, c, o)
        /\ head' = IF Reported(o) THEN [head EXCEPT ![b] = c] ELSE head
        /\ acked' = IF Reported(o) THEN acked \cup {<<b, c>>} ELSE acked
  BY <1>0 DEF MoveHead
<1>4. \A u \in Threads : req'[u].at \notin {"pushBranch", "moveHead"}
  <2>1. \A u \in Threads \ {t} : req[u].at \notin InVersioning
    BY DEF MoveHead, At, TypeOK, LocksOK
  <2> QED
    BY <2>1 DEF MoveHead, Respond, TypeOK, RequestsTypeOK
<1>5. \A x \in BranchIds \ {b} : head'[x] = head[x] /\ docHead'[x] = docHead[x]
  BY <1>1, <1>3 DEF updateBranch, TypeOK, DatabaseTypeOK, MemoryTypeOK
<1>6. head'[b] = IF Reported(o) THEN c ELSE head[b]
  BY <1>1, <1>3 DEF TypeOK, MemoryTypeOK
<1>7. b \in branchDocs =>
        docHead'[b] = IF Applied(o) THEN c ELSE docHead[b]
  BY <1>1, <1>3 DEF updateBranch, TypeOK, DatabaseTypeOK
<1>8. Reported(o) => Applied(o)
  BY DEF Reported, Applied
<1>9. FreshBlank'
  BY <1>1, <1>2, <1>4, <1>5 DEF HistoryInv, FreshBlank, FreshCommit, FreshBranch
<1>10. NewHeadFollows'
  BY <1>4 DEF NewHeadFollows
<1>11. DocHeadFollows'
  <2>1. ASSUME NEW x \in branchDocs, x # b
        PROVE  docHead'[x] = head'[x] \/ Follows(docHead[x], x)'
    BY <1>2, <1>5, <2>1 DEF HistoryInv, DocHeadFollows, Follows, TypeOK, DatabaseTypeOK
  <2>2. b \in branchDocs => docHead'[b] = head'[b] \/ Follows(docHead[b], b)'
    BY <1>1, <1>2, <1>6, <1>7, <1>8 DEF HistoryInv, DocHeadFollows, Follows
  <2> QED
    BY <1>2, <2>1, <2>2 DEF DocHeadFollows
<1>12. AckedInHistory'
  <2>1. InHistory(c, c)
    BY <1>1 DEF InHistory
  <2>2. ASSUME NEW a \in acked, a[1] = b
        PROVE  InHistory(a[2], c)
    <3>1. InHistory(a[2], head[b]) /\ head[b] # Null
      BY <2>2 DEF HistoryInv, AckedInHistory, InHistory
    <3>2. c # Null /\ head[b] \in commitOf[c].previous
      BY <1>1, <3>1 DEF Follows
    <3> QED
      BY <3>1, <3>2, HistoryGrows
  <2>3. ASSUME NEW a \in acked'
        PROVE  /\ a[1] \in BranchIds /\ ~FreshBranch(a[1])
               /\ InHistory(a[2], head'[a[1]])
               /\ a[1] \in branchDocs => InHistory(a[2], docHead'[a[1]])
    <3>1. CASE a \in acked /\ a[1] # b
      BY <1>5, <3>1 DEF HistoryInv, AckedInHistory, TypeOK, RequestsTypeOK
    <3>2. CASE a \in acked /\ a[1] = b
      BY <1>1, <1>6, <1>7, <2>2, <3>2 DEF HistoryInv, AckedInHistory
    <3>3. CASE a = <<b, c>> /\ Reported(o)
      BY <1>1, <1>6, <1>7, <1>8, <2>1, <3>3
    <3> QED
      BY <1>3, <3>1, <3>2, <3>3
  <2> QED
    BY <1>2, <2>3 DEF AckedInHistory, FreshBranch, InHistory, ClosedHistory
<1> QED
  BY <1>9, <1>10, <1>11, <1>12 DEF HistoryInv

(* A branch b is issued: where it was nowhere before, it is in at most its *)
(* own document and its project's entry now.                               *)
LEMMA IssueBranchHistory ==
  ASSUME TypeOK, HistoryInv, NEW b \in BranchIds, FreshBranch(b),
         UNCHANGED <<commitOf, acked>>,
         \A x \in BranchIds \ {b} :
           branchOf'[x] = branchOf[x] /\ head'[x] = head[x] /\ docHead'[x] = docHead[x],
         branchDocs' \subseteq branchDocs \cup {b},
         \A p \in ProjectIds : branchMap'[p] \subseteq branchMap[p] \cup {b},
         FreshBranch(b)' => /\ head'[b] = Null /\ b \notin branchDocs'
                            /\ \A p \in ProjectIds : b \notin branchMap'[p],
         b \in branchDocs' => head'[b] = Null \/ docHead'[b] = head'[b],
         \A u \in Threads :
           /\ req'[u].at # "moveHead"
           /\ req'[u].at = "pushBranch" => req'[u].target = b /\ ~FreshBranch(b)'
  PROVE  HistoryInv'
<1>1. FreshBlank'
  BY DEF HistoryInv, FreshBlank, FreshCommit, FreshBranch
<1>2. NewHeadFollows'
  BY DEF NewHeadFollows
<1>3. DocHeadFollows'
  BY DEF HistoryInv, DocHeadFollows, Follows, TypeOK, DatabaseTypeOK
<1>4. AckedInHistory'
  <2>1. ASSUME NEW a \in acked
        PROVE  a[1] \in BranchIds \ {b}
    BY DEF HistoryInv, AckedInHistory, TypeOK, RequestsTypeOK
  <2> QED
    BY <2>1 DEF HistoryInv, AckedInHistory, FreshBranch, InHistory, ClosedHistory
<1> QED
  BY <1>1, <1>2, <1>3, <1>4 DEF HistoryInv

LEMMA CreateBranchHistory ==
  ASSUME TypeOK, HistoryInv, NEW t \in Threads, NEW b \in BranchIds, NEW n \in Names,
         postBranch(t, b, n)
  PROVE  HistoryInv'
<1>1. req[t].project \in ProjectIds
  BY DEF TypeOK, RequestsTypeOK, RequestOK, postBranch, createBranch, At
<1>2. PICK o \in DbOutcomes :
        /\ addBranch(b, req[t].commit, o)
        /\ branchOf' = IF Applied(o)
                       THEN [branchOf EXCEPT ![b] =
                              [project |-> req[t].project, name |-> n]]
                       ELSE branchOf
        /\ head' = IF Reported(o) THEN [head EXCEPT ![b] = req[t].commit] ELSE head
        /\ IF Reported(o) THEN Proceed(t, "pushBranch", Null, b) ELSE Respond(t)
  BY DEF postBranch, createBranch
<1>3. FreshBranch(b) /\ UNCHANGED <<commitOf, acked, branchMap>>
  BY DEF postBranch, createBranch, clientVars
<1>4. /\ head[b] = Null /\ b \notin branchDocs
      /\ \A p \in ProjectIds : b \notin branchMap[p]
  BY <1>3 DEF HistoryInv, FreshBlank
<1>5. Reported(o) => Applied(o)
  BY DEF Reported, Applied
<1>6. Applied(o) => ~FreshBranch(b)'
  BY <1>1, <1>2 DEF FreshBranch, TypeOK, DatabaseTypeOK
<1>7. \A u \in Threads :
        /\ req'[u].at # "moveHead"
        /\ req'[u].at = "pushBranch" => req'[u].target = b /\ Reported(o)
  <2>1. \A u \in Threads : req[u].at \notin InVersioning
    BY NobodyMovesHead DEF postBranch, createBranch
  <2> QED
    BY <1>2, <2>1 DEF Proceed, Respond, TypeOK, RequestsTypeOK
<1>8. \A x \in BranchIds \ {b} :
        branchOf'[x] = branchOf[x] /\ head'[x] = head[x] /\ docHead'[x] = docHead[x]
  BY <1>2 DEF addBranch, TypeOK, DatabaseTypeOK, MemoryTypeOK
<1>9. branchDocs' = IF Applied(o) THEN branchDocs \cup {b} ELSE branchDocs
  BY <1>2 DEF addBranch
<1>10. Applied(o) => head'[b] = Null \/ docHead'[b] = head'[b]
  BY <1>2, <1>4 DEF addBranch, TypeOK, DatabaseTypeOK, MemoryTypeOK
<1>11. ~Applied(o) => head'[b] = Null
  BY <1>2, <1>4, <1>5
<1> QED
  BY <1>3, <1>4, <1>5, <1>6, <1>7, <1>8, <1>9, <1>10, <1>11, IssueBranchHistory

LEMMA CreateProjectHistory ==
  ASSUME TypeOK, HistoryInv, NEW t \in Threads, NEW p \in ProjectIds, NEW b \in BranchIds,
         NEW a \in Attributes, postProject(t, p, b, a)
  PROVE  HistoryInv'
<1>1. PICK o \in DbOutcomes :
        /\ addBranchFromProject(p, b, o)
        /\ req' = [req EXCEPT ![t] =
                    IF Reported(o)
                    THEN [IdleRequest EXCEPT !.at = "addProject", !.project = p]
                    ELSE IdleRequest]
  BY DEF postProject, createProject
<1>2. FreshBranch(b) /\ UNCHANGED <<commitOf, acked>>
  BY DEF postProject, createProject, clientVars
<1>3. ~FreshBranch(b)'
  BY DEF postProject, createProject, FreshBranch, TypeOK, DatabaseTypeOK
<1>4. head'[b] = Null
  BY <1>1 DEF addBranchFromProject, TypeOK, MemoryTypeOK
<1>5. \A u \in Threads : req'[u].at \notin {"moveHead", "pushBranch"}
  <2>1. \A u \in Threads : req[u].at \notin InVersioning
    BY <1>1, NobodyMovesHead DEF addBranchFromProject
  <2> QED
    BY <1>1, <2>1 DEF TypeOK, RequestsTypeOK
<1>6. \A x \in BranchIds \ {b} :
        branchOf'[x] = branchOf[x] /\ head'[x] = head[x] /\ docHead'[x] = docHead[x]
  BY <1>1 DEF postProject, createProject, addBranchFromProject, addBranch, TypeOK,
              DatabaseTypeOK, MemoryTypeOK
<1>7. /\ branchDocs' \subseteq branchDocs \cup {b}
      /\ \A q \in ProjectIds : branchMap'[q] \subseteq branchMap[q] \cup {b}
  BY <1>1 DEF addBranchFromProject, addBranch, TypeOK, MemoryTypeOK
<1> QED
  BY <1>2, <1>3, <1>4, <1>5, <1>6, <1>7, IssueBranchHistory

LEMMA RestartHistory ==
  ASSUME TypeOK, HistoryInv, Restart
  PROVE  HistoryInv'
<1>1. UNCHANGED <<branchOf, commitOf, branchDocs, docHead, acked>>
  BY DEF Restart, objVars, dbVars
<1>2. \A b \in BranchIds : head'[b] = IF b \in branchDocs THEN docHead[b] ELSE head[b]
  BY DEF Restart, LoadVersioning
<1>3. \A p \in ProjectIds : branchMap'[p] \subseteq branchDocs
  BY DEF Restart, LoadVersioning, getAllBranches
<1>4. \A u \in Threads : req'[u].at = "idle"
  BY DEF Restart
<1>5. FreshBlank'
  BY <1>1, <1>2, <1>3, <1>4 DEF HistoryInv, FreshBlank, FreshCommit, FreshBranch
<1>6. NewHeadFollows'
  BY <1>4 DEF NewHeadFollows
<1>7. DocHeadFollows'
  BY <1>1, <1>2 DEF DocHeadFollows, TypeOK, DatabaseTypeOK
<1>8. AckedInHistory'
  <2>1. ASSUME NEW a \in acked
        PROVE  a[1] \in BranchIds
    BY DEF TypeOK, RequestsTypeOK
  <2> QED
    BY <1>1, <1>2, <2>1
    DEF HistoryInv, AckedInHistory, FreshBranch, InHistory, ClosedHistory
<1> QED
  BY <1>5, <1>6, <1>7, <1>8 DEF HistoryInv

LEMMA NextHistory ==
  ASSUME TypeOK, HistoryInv, [Next]_vars
  PROVE  HistoryInv'
<1>1. ASSUME NEW t \in Threads, NEW b \in BranchIds, NEW c \in CommitIds,
             postCommit(t, b, c) \/ postMerge(t, b, c)
      PROVE  HistoryInv'
  <2>1. req[t].at = "commit" => {req[t].commit} \in SUBSET CommitIds
    BY DEF TypeOK, RequestsTypeOK, RequestOK
  <2> QED
    BY <1>1, <2>1, StoreCommitHistory DEF postCommit, createCommit, postMerge,
                                          mergeIntoBranch, At
<1>2. ASSUME NEW t \in Threads, VersioningStep(t)
      PROVE  HistoryInv'
  BY <1>1, <1>2, MoveHeadHistory, CreateBranchHistory, OtherHistory DEF VersioningStep
<1>3. ASSUME UNCHANGED vars
      PROVE  HistoryInv'
  BY <1>3, HistoryFrame DEF vars, objVars, dbVars, pvsVars, reqVars, clientVars
<1>4. ASSUME NEW t \in Threads, ProjectStep(t)
      PROVE  HistoryInv'
  <2>1. ASSUME getProjects(t)
        PROVE  HistoryInv'
    BY <1>3, <2>1 DEF getProjects, vars
  <2> QED
    BY <1>4, <2>1, CreateProjectHistory, OtherHistory DEF ProjectStep
<1>5. ASSUME NEW t \in Threads, Answer(t)
      PROVE  HistoryInv'
  BY <1>5, OtherHistory
<1> QED
  BY <1>2, <1>3, <1>4, <1>5, RestartHistory DEF Next, ThreadStep

LEMMA HistoryInvariant == Spec => []HistoryInv
<1>1. Init => HistoryInv
  BY DEF Init, InitDatabase, InitRequests, InitVersioning, HistoryInv, FreshBlank,
         NewHeadFollows, DocHeadFollows, AckedInHistory
<1>2. TypeOK /\ HistoryInv /\ [Next]_vars => HistoryInv'
  BY NextHistory
<1> QED
  BY <1>1, <1>2, TypeCorrect, PTL DEF Spec

(* A commit whose request was answered stays in the history of its branch, *)
(* in memory and in the database, through concurrent commits, writes that  *)
(* fail or whose answer is lost, and restarts.                             *)
THEOREM NoAckedCommitLost == Spec => []AckedCommitsReachable
<1>1. TypeOK /\ HistoryInv => AckedCommitsReachable
  BY DEF HistoryInv, AckedInHistory, AckedCommitsReachable
<1> QED
  BY <1>1, TypeCorrect, HistoryInvariant, PTL

-----------------------------------------------------------------------------
LEMMA StepAdvances ==
  ASSUME TypeOK, HistoryInv, Next, NEW p \in ProjectIds,
         NEW b \in branchMap[p], b \in branchMap'[p]
  PROVE  HeadAdvances(b)
<1>1. b \in BranchIds /\ ~FreshBranch(b)
  BY DEF TypeOK, MemoryTypeOK, HistoryInv, FreshBlank
<1>2. ASSUME head' = head
      PROVE  HeadAdvances(b)
  BY <1>2 DEF HeadAdvances
<1>3. ASSUME NEW t \in Threads, MoveHead(t)
      PROVE  HeadAdvances(b)
  <2>1. PICK x \in BranchIds, c \in CommitIds : x = req[t].target /\ c = req[t].commit
    BY <1>3 DEF TypeOK, RequestsTypeOK, RequestOK, MoveHead, At
  <2>2. Follows(c, x)
    BY <1>3, <2>1 DEF HistoryInv, NewHeadFollows, MoveHead, At
  <2>3. commitOf' = commitOf /\ (head' = head \/ head' = [head EXCEPT ![x] = c])
    BY <1>3, <2>1 DEF MoveHead, objVars
  <2> QED
    BY <1>1, <2>2, <2>3 DEF HeadAdvances, Follows, TypeOK, MemoryTypeOK
<1>4. ASSUME NEW t \in Threads, NEW x \in BranchIds, FreshBranch(x),
             NEW h, head' = [head EXCEPT ![x] = h]
      PROVE  HeadAdvances(b)
  BY <1>1, <1>4 DEF HeadAdvances, TypeOK, MemoryTypeOK
<1>5. ASSUME Restart
      PROVE  HeadAdvances(b)
  <2>1. /\ b \in branchDocs
        /\ head'[b] = docHead[b]
        /\ commitOf' = commitOf
    BY <1>1, <1>5 DEF Restart, LoadVersioning, getAllBranches, objVars
  <2> QED
    BY <2>1 DEF HistoryInv, DocHeadFollows, Follows, HeadAdvances
<1>6. ASSUME NEW t \in Threads, VersioningStep(t)
      PROVE  HeadAdvances(b)
  <2>1. ASSUME NEW x \in BranchIds, NEW n \in Names, postBranch(t, x, n)
        PROVE  HeadAdvances(b)
    BY <1>2, <1>4, <2>1 DEF postBranch, createBranch
  <2>2. \/ head' = head
        \/ MoveHead(t)
        \/ \E x \in BranchIds, n \in Names : postBranch(t, x, n)
    BY <1>6 DEF VersioningStep, findCommit, getCommitById, postCommit, createCommit,
                postMerge, mergeIntoBranch, StoreCommit, PushBranch,
                deleteBranchRequest, deleteBranch, EraseBranch, postTag, createTag,
                PushTag, deleteTagRequest, deleteTag, EraseTag, pvsVars
  <2> QED
    BY <1>2, <1>3, <2>1, <2>2
<1>7. ASSUME NEW t \in Threads, ProjectStep(t)
      PROVE  HeadAdvances(b)
  <2>1. ASSUME NEW q \in ProjectIds, NEW x \in BranchIds, NEW a \in Attributes,
               postProject(t, q, x, a)
        PROVE  HeadAdvances(b)
    BY <1>4, <2>1 DEF postProject, createProject, addBranchFromProject
  <2>2. \/ head' = head
        \/ \E q \in ProjectIds, x \in BranchIds, a \in Attributes :
             postProject(t, q, x, a)
    BY <1>7 DEF ProjectStep, withProject, getProjectById, AddProjectDoc, putProject,
                changeProject, replaceDefaultBranch, changeOwner, changeOwnership,
                ChangeInMemory, WriteProject, restoreDefaultBranch,
                deleteProjectWithId, deleteProject, ForgetProject, forgetProject,
                DeleteQueriesFails, getProjects, pvsVars
  <2> QED
    BY <1>2, <2>1, <2>2
<1>8. ASSUME NEW t \in Threads, Answer(t)
      PROVE  HeadAdvances(b)
  BY <1>2, <1>8 DEF Answer, pvsVars
<1> QED
  BY <1>5, <1>6, <1>7, <1>8 DEF Next, ThreadStep

(* A branch moves only to a commit that comes right after its head, and a  *)
(* restart does not take it back.                                          *)
THEOREM BranchesAdvance == Spec => HeadsAdvance
<1> DEFINE A == \A p \in projectMap \cap projectMap' :
                  \A b \in branchMap[p] \cap branchMap'[p] : HeadAdvances(b)
<1>1. TypeOK /\ HistoryInv /\ [Next]_vars => [A]_vars
  <2> SUFFICES ASSUME TypeOK, HistoryInv, Next
               PROVE  A
    OBVIOUS
  <2>1. projectMap \subseteq ProjectIds
    BY DEF TypeOK, MemoryTypeOK
  <2> QED
    BY <2>1, StepAdvances
<1> QED
  BY <1>1, TypeCorrect, HistoryInvariant, PTL DEF Spec, HeadsAdvance
=============================================================================
