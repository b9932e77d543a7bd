-------------------------- MODULE ProjectController --------------------------
(***************************************************************************)
(* The handlers of the requests on projects.                               *)
(***************************************************************************)
EXTENDS ServerProjectService

(* Every request on a project begins with this lookup, and keeps the       *)
(* project it found.                                                       *)
withProject(t, p) == At(t, "idle") /\ getProjectById(t, p)

postProject(t, p, b, a) ==
  /\ "createProject" \in Operations
  /\ At(t, "idle")
  /\ createProject(t, p, b, a)

putProject(t, b, a) ==
  /\ "updateProject" \in Operations
  /\ At(t, "project")
  /\ changeProject(t, b, a)

changeOwner(t, a) ==
  /\ "changeOwnership" \in Operations
  /\ At(t, "project")
  /\ changeOwnership(t, a)

deleteProjectWithId(t) ==
  /\ "deleteProject" \in Operations
  /\ At(t, "project")
  /\ deleteProject(t)

(* Reads that keep nothing: the list of the projects. *)
getProjects(t) ==
  /\ At(t, "idle") /\ SpsFree
  /\ UNCHANGED <<objVars, dbVars, pvsVars, pvsLock, projectMap, spsLock, reqVars>>
=============================================================================
