------------------------------ MODULE Requests ------------------------------
(***************************************************************************)
(* The HTTP requests the server's worker threads are handling.  Drogon     *)
(* runs each request to its answer on one thread, and several threads run  *)
(* at once; what a request has looked up so far (a project, a commit) it   *)
(* keeps as a shared_ptr while other threads change the services.          *)
(*                                                                         *)
(* A request is decided step by step: which handler it belongs to is       *)
(* settled by the first step that only that handler takes, so a request    *)
(* that ends in an early return is any request that takes the Answer step. *)
(***************************************************************************)
EXTENDS ModelDatabase

CONSTANTS
  Threads,      \* the worker threads (app().setThreadNum in main.cpp)
  Operations    \* the kinds of requests the clients send

AllOperations ==
  {"createProject", "updateProject", "changeOwnership", "deleteProject",
   "createBranch", "deleteBranch", "createTag", "deleteTag",
   "createCommit", "mergeIntoBranch"}

ASSUME OperationsAssumption == Operations \subseteq AllOperations
ASSUME ThreadsAssumption == Null \notin Threads

VARIABLES
  req,        \* what each thread has looked up and how far its request is
  acked,      \* <<branch, commit>> of every commit a client was told exists
  deleted,    \* every object a client was told is deleted
  restarts,   \* how often the process has died and started again
  spsLock,    \* the thread that writes in ServerProjectService, or Null
  pvsLock     \* the thread that writes in ProjectVersioningService, or Null

clientVars == <<acked, deleted, restarts>>
reqVars == <<req, clientVars>>

(* Between the steps of these a thread holds no lock. *)
Unlocked == {"idle", "project", "commit"}
(* Inside ProjectVersioningService, its Mutex held. *)
InVersioning == {"pushBranch", "eraseBranch", "pushTag", "eraseTag", "moveHead"}
(* Inside ServerProjectService, its Mutex held. *)
InProjects == {"addProject", "writeProject", "restoreDefault", "forget"}

Request ==
  [ at : Unlocked \cup InVersioning \cup InProjects,
    project : ProjectIds \cup {Null},       \* what withProject returned
    commit : CommitIds \cup {Null},         \* the commit looked up or stored
    target : BranchIds \cup TagIds \cup {Null},  \* the branch or tag changed
    old : ProjectFields \cup {Null} ]       \* fields an update may put back

IdleRequest ==
  [at |-> "idle", project |-> Null, commit |-> Null, target |-> Null, old |-> Null]

InitRequests ==
  /\ req = [t \in Threads |-> IdleRequest]
  /\ acked = {}
  /\ deleted = {}
  /\ restarts = 0
  /\ spsLock = Null
  /\ pvsLock = Null

At(t, label) == req[t].at = label

(* Thread t answers its request and takes the next one. *)
Respond(t) == req' = [req EXCEPT ![t] = IdleRequest]

(* Thread t goes on with its request, holding commit c and target x. *)
Proceed(t, label, c, x) ==
  req' = [req EXCEPT ![t] = [at |-> label, project |-> req[t].project,
                             commit |-> c, target |-> x, old |-> Null]]
=============================================================================
