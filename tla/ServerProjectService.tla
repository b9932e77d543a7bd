------------------------ MODULE ServerProjectService ------------------------
(***************************************************************************)
(* The service that keeps the projects.  Its Mutex is taken before the one *)
(* of ProjectVersioningService, which it calls: a change that needs both   *)
(* in one step waits until both are free, and gives the inner lock back as *)
(* soon as the call returns while it still writes to the database.         *)
(***************************************************************************)
EXTENDS ProjectVersioningService

VARIABLE projectMap   \* ProjectMap: the projects that can be found

InitProjects == projectMap = {}

(* The constructor.  A project object is rebuilt from its document. *)
LoadProjects ==
  /\ projectMap' = getAllProjects
  /\ project' = [p \in ProjectIds |->
                   IF p \in getAllProjects THEN projectDoc[p] ELSE project[p]]
  /\ spsLock' = Null

SpsFree == spsLock = Null
HoldSps(t) == spsLock' = t
ReleaseSps == spsLock' = Null
HoldSpsIf(t, o) == spsLock' = IF Reported(o) THEN t ELSE Null

-----------------------------------------------------------------------------
(* The project is found, and the request keeps it. *)
getProjectById(t, p) ==
  /\ SpsFree
  /\ p \in projectMap
  /\ req' = [req EXCEPT ![t] = [IdleRequest EXCEPT !.at = "project", !.project = p]]
  /\ UNCHANGED <<objVars, dbVars, pvsVars, pvsLock, projectMap, spsLock, clientVars>>

(* storeNewProject: the project is in the map first, then its branch is    *)
(* stored, then (AddProjectDoc) the project; an exception of a write       *)
(* leaves what was done before it.                                         *)
createProject(t, p, b, a) ==
  /\ SpsFree
  /\ project[p] = Null /\ FreshBranch(b)
  /\ projectMap' = projectMap \cup {p}
  /\ project' = [project EXCEPT ![p] = [defaultBranch |-> b, attributes |-> a]]
  /\ branchOf' = [branchOf EXCEPT ![b] = [project |-> p, name |-> MainName]]
  /\ \E o \in DbOutcomes :
       /\ addBranchFromProject(p, b, o)
       /\ HoldSpsIf(t, o)
       /\ req' = [req EXCEPT ![t] =
                   IF Reported(o)
                   THEN [IdleRequest EXCEPT !.at = "addProject", !.project = p]
                   ELSE IdleRequest]
  /\ UNCHANGED <<commitOf, tagOf, projectDoc, commitDocs, tagDocs, pvsLock,
                 clientVars>>

AddProjectDoc(t) ==
  /\ At(t, "addProject")
  /\ \E o \in DbOutcomes : addProject(req[t].project, project[req[t].project], o)
  /\ ReleaseSps
  /\ Respond(t)
  /\ UNCHANGED <<objVars, branchDocs, docHead, commitDocs, tagDocs, pvsVars, pvsLock,
                 projectMap, clientVars>>

-----------------------------------------------------------------------------
(* Changing a project: memory first, then the document, and memory back if *)
(* the database reports a failure.                                         *)

ChangeInMemory(t, b, fields) ==
  LET p == req[t].project
  IN  /\ project' = [project EXCEPT ![p] = fields]
      /\ req' = [req EXCEPT ![t] = [at |-> "writeProject", project |-> p,
                                    commit |-> Null, target |-> b, old |-> project[p]]]
      /\ HoldSps(t)
      /\ UNCHANGED <<objVars, dbVars, branchMap, head, commitMap, commitIndex, tagMap,
                     pvsLock, projectMap, clientVars>>

(* updateProject, with a new default branch b or without (Null).           *)
(* replaceDefaultBranch has given its lock back when the project is        *)
(* written.                                                                *)
changeProject(t, b, a) ==
  LET p == req[t].project
  IN  /\ SpsFree
      /\ p \in projectMap
      /\ \/ /\ b = Null
            /\ ChangeInMemory(t, Null, [project[p] EXCEPT !.attributes = a])
         \/ /\ replaceDefaultBranch(p, b)
            /\ ChangeInMemory(t, b, [defaultBranch |-> b, attributes |-> a])

changeOwnership(t, a) ==
  LET p == req[t].project
  IN  /\ SpsFree
      /\ p \in projectMap
      /\ ChangeInMemory(t, Null, [project[p] EXCEPT !.attributes = a])

(* The write.  After a failure the attributes are put back at once, the    *)
(* default branch when the lock of the versioning service is free.         *)
WriteProject(t) ==
  LET p == req[t].project
      restored == [project[p] EXCEPT !.attributes = req[t].old.attributes]
  IN  /\ At(t, "writeProject")
      /\ \E o \in DbOutcomes :
           /\ updateProject(p, project[p], o)
           /\ project' = [project EXCEPT ![p] = IF Reported(o) THEN @ ELSE restored]
           /\ IF Reported(o) \/ req[t].target = Null
              THEN Respond(t) /\ ReleaseSps
              ELSE /\ req' = [req EXCEPT ![t].at = "restoreDefault"]
                   /\ UNCHANGED spsLock
      /\ UNCHANGED <<objVars, branchDocs, docHead, commitDocs, tagDocs,
                     branchMap, head, commitMap, commitIndex, tagMap, pvsLock,
                     projectMap, clientVars>>

(* Fault: the new default branch stays. *)
KeepDefault(current, old) == current

PutBackDefault(current, old) == [current EXCEPT !.defaultBranch = old.defaultBranch]

restoreDefaultBranch(t) ==
  /\ At(t, "restoreDefault") /\ PvsFree
  /\ project' = [project EXCEPT ![req[t].project] = PutBackDefault(@, req[t].old)]
  /\ ReleaseSps
  /\ Respond(t)
  /\ UNCHANGED <<objVars, dbVars, branchMap, head, commitMap, commitIndex, tagMap,
                 pvsLock, projectMap, clientVars>>

-----------------------------------------------------------------------------
(* deleteProject up to the database; if it reports a failure the project   *)
(* is put back before the lock is released.                                *)
deleteProject(t) ==
  LET p == req[t].project
  IN  /\ SpsFree
      /\ p \in projectMap
      /\ \E o \in DbOutcomes :
           /\ deleteProjectDoc(p, o)
           /\ projectMap' = IF Reported(o) THEN projectMap \ {p} ELSE projectMap
           /\ HoldSpsIf(t, o)
           /\ IF Reported(o) THEN Proceed(t, "forget", Null, Null) ELSE Respond(t)
      /\ UNCHANGED <<objVars, branchDocs, docHead, commitDocs, tagDocs, pvsVars,
                     pvsLock, clientVars>>

(* The rest of deleteProject: the queries of the project are deleted, then *)
(* the versioning service forgets it.                                      *)
ForgetProject(t) ==
  /\ At(t, "forget")
  /\ forgetProject(req[t].project)
  /\ deleted' = deleted \cup {req[t].project}
  /\ ReleaseSps
  /\ Respond(t)
  /\ UNCHANGED <<objVars, dbVars, pvsLock, projectMap, acked, restarts>>

(* The deletion of the queries throws: nothing more is done. *)
DeleteQueriesFails(t) ==
  /\ At(t, "forget")
  /\ QueryOutcomes # {"ok"}
  /\ ReleaseSps
  /\ Respond(t)
  /\ UNCHANGED <<objVars, dbVars, pvsVars, pvsLock, projectMap, clientVars>>
=============================================================================
