---------------------------- MODULE ModelServer ----------------------------
(***************************************************************************)
(* The server for models: worker threads that call ServerProjectService    *)
(* and ProjectVersioningService, the database they both write to, and a    *)
(* process that may die between any two steps and start again from what    *)
(* the database holds.                                                     *)
(***************************************************************************)
EXTENDS CommitController, ProjectController

CONSTANT MaxRestarts    \* bound: how often the process dies

ASSUME MaxRestartsAssumption == MaxRestarts \in Nat

vars == <<objVars, dbVars, pvsVars, pvsLock, projectMap, spsLock, reqVars>>

Init ==
  /\ InitDatabase
  /\ InitRequests
  /\ InitVersioning
  /\ InitProjects

(* The request is answered without any change: it only read, it was        *)
(* refused, or what it asked for is not there (any more).                  *)
Answer(t) ==
  /\ req[t].at \in {"project", "commit"}
  /\ Respond(t)
  /\ UNCHANGED <<objVars, dbVars, pvsVars, pvsLock, projectMap, spsLock,
                 clientVars>>

(* The process dies and main starts it again: the services are built from  *)
(* the database, every request in flight is gone.                          *)
Restart ==
  /\ restarts < MaxRestarts
  /\ restarts' = restarts + 1
  /\ LoadVersioning
  /\ LoadProjects
  /\ req' = [t \in Threads |-> IdleRequest]
  /\ UNCHANGED <<objVars, dbVars, acked, deleted>>

(* ServerProjectService's own state, which a request inside the versioning *)
(* service does not touch.                                                *)
outerVars == <<projectMap, spsLock>>

VersioningStep(t) ==
  \/ \E c \in CommitIds : findCommit(t, c) /\ UNCHANGED outerVars
  \/ \E b \in BranchIds, c \in CommitIds : postCommit(t, b, c) /\ UNCHANGED outerVars
  \/ \E b \in BranchIds, c \in CommitIds : postMerge(t, b, c) /\ UNCHANGED outerVars
  \/ MoveHead(t) /\ UNCHANGED outerVars
  \/ \E b \in BranchIds, n \in Names : postBranch(t, b, n) /\ UNCHANGED outerVars
  \/ PushBranch(t) /\ UNCHANGED outerVars
  \/ \E b \in BranchIds : deleteBranchRequest(t, b) /\ UNCHANGED outerVars
  \/ EraseBranch(t) /\ UNCHANGED outerVars
  \/ \E g \in TagIds, n \in Names : postTag(t, g, n) /\ UNCHANGED outerVars
  \/ PushTag(t) /\ UNCHANGED outerVars
  \/ \E g \in TagIds : deleteTagRequest(t, g) /\ UNCHANGED outerVars
  \/ EraseTag(t) /\ UNCHANGED outerVars

ProjectStep(t) ==
  \/ \E p \in ProjectIds : withProject(t, p)
  \/ \E p \in ProjectIds, b \in BranchIds, a \in Attributes : postProject(t, p, b, a)
  \/ AddProjectDoc(t)
  \/ \E b \in BranchIds \cup {Null}, a \in Attributes : putProject(t, b, a)
  \/ \E a \in Attributes : changeOwner(t, a)
  \/ WriteProject(t)
  \/ restoreDefaultBranch(t)
  \/ deleteProjectWithId(t)
  \/ ForgetProject(t)
  \/ DeleteQueriesFails(t)
  \/ getProjects(t)

ThreadStep(t) == VersioningStep(t) \/ ProjectStep(t) \/ Answer(t)

Next == (\E t \in Threads : ThreadStep(t)) \/ Restart

Spec == Init /\ [][Next]_vars
=============================================================================
