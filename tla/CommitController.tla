-------------------------- MODULE CommitController --------------------------
(***************************************************************************)
(* The handlers of the requests on commits, branches and tags.  Each looks *)
(* up the project (withProject in ProjectController), then the commits     *)
(* that the request names, and calls the versioning service: between these *)
(* calls it holds no lock, so other requests run in between.               *)
(***************************************************************************)
EXTENDS ProjectVersioningService

(* A commit that the request names is looked up. *)
findCommit(t, c) == At(t, "project") /\ getCommitById(t, c)

(* With one previous commit requested, or without. *)
postCommit(t, b, c) ==
  /\ "createCommit" \in Operations
  /\ \/ At(t, "project") /\ createCommit(t, b, c, {})
     \/ At(t, "commit") /\ createCommit(t, b, c, {req[t].commit})

postMerge(t, b, c) ==
  /\ "mergeIntoBranch" \in Operations
  /\ At(t, "commit")
  /\ mergeIntoBranch(t, b, c, req[t].commit)

postBranch(t, b, n) ==
  /\ "createBranch" \in Operations
  /\ At(t, "commit")
  /\ createBranch(t, b, n, req[t].commit)

deleteBranchRequest(t, b) ==
  /\ "deleteBranch" \in Operations
  /\ At(t, "project")
  /\ deleteBranch(t, b)

postTag(t, g, n) ==
  /\ "createTag" \in Operations
  /\ At(t, "commit")
  /\ createTag(t, g, n, req[t].commit)

deleteTagRequest(t, g) ==
  /\ "deleteTag" \in Operations
  /\ At(t, "project")
  /\ deleteTag(t, g)
=============================================================================
