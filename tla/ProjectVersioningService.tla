---------------------- MODULE ProjectVersioningService ----------------------
(***************************************************************************)
(* The service that keeps the branches, commits and tags of all projects.  *)
(*                                                                         *)
(* Its Mutex is a shared_mutex: a lookup is one step that needs no writer  *)
(* inside, a change holds the lock from its first step to its last.  The   *)
(* steps of a change are separated where the process may die in between:   *)
(* the database write comes first, the maps follow.                        *)
(*                                                                         *)
(* What sysmllib's Versioning decides from the data (prepareCommit refuses *)
(* a commit, analyzeMerge finds conflicts) is left open: the request may   *)
(* always be answered without a change (Answer in ModelServer).            *)
(***************************************************************************)
EXTENDS Requests

VARIABLES
  branchMap,      \* ProjectIdBranchMap: the branches of each project
  head,           \* the head of each branch object
  commitMap,      \* ProjectIdCommitMap: the commits of each project
  commitIndex,    \* CommitIndex: every commit that can be found by its id
  tagMap,         \* ProjectIdTagMap: the tags of each project
  project         \* the fields of each Project object, Null before it exists

pvsVars == <<branchMap, head, commitMap, commitIndex, tagMap, project>>

InitVersioning ==
  /\ branchMap = [p \in ProjectIds |-> {}]
  /\ head = [b \in BranchIds |-> Null]
  /\ commitMap = [p \in ProjectIds |-> {}]
  /\ commitIndex = {}
  /\ tagMap = [p \in ProjectIds |-> {}]
  /\ project = [p \in ProjectIds |-> Null]

(* The constructor: the maps are what the database holds. *)
LoadVersioning ==
  /\ branchMap' = getAllBranches
  /\ head' = [b \in BranchIds |-> IF b \in branchDocs THEN docHead[b] ELSE head[b]]
  /\ commitMap' = getAllCommits
  /\ commitIndex' = UNION {getAllCommits[p] : p \in ProjectIds}
  /\ tagMap' = getAllTags
  /\ pvsLock' = Null

(* Fault: entering also waits for the lock of ServerProjectService. *)
NoWriterAnywhere == pvsLock = Null /\ spsLock = Null

PvsFree == pvsLock = Null

(* Fault: an exception leaves the lock locked. *)
HoldPvs(t, o) == pvsLock' = t

(* Fault: the lock is given up around the write, the names looked up are    *)
(* then old when the map is changed.                                        *)
GiveUpPvs(t, o) == pvsLock' = Null

(* The database answered: keep the lock for the next step, or leave. *)
HoldPvsIf(t, o) == pvsLock' = IF Reported(o) THEN t ELSE Null

ReleasePvs == pvsLock' = Null

-----------------------------------------------------------------------------
(* Lookups. *)

(* Fault: the branch the client found is not looked up again. *)
IssuedBranch(p, b) == branchOf[b] # Null /\ branchOf[b].project = p

storedBranch(p, b) == b \in branchMap[p]

(* Fault: a commit of any project is accepted. *)
OwnedByAny(c, p) == commitOf[c].project # Null

(* A commit is found only through the project it belongs to. *)
OwnedBy(c, p) == commitOf[c].project = p

getCommitById(t, c) ==
  /\ PvsFree
  /\ c \in commitIndex
  /\ OwnedBy(c, req[t].project)
  /\ Proceed(t, "commit", c, Null)
  /\ UNCHANGED <<objVars, dbVars, pvsVars, pvsLock, clientVars>>

-----------------------------------------------------------------------------
(* Commits. *)

(* Fault: previous commits named by the client replace the head. *)
RequestedInstead(b, requested) ==
  IF requested = {} /\ head[b] # Null THEN {head[b]} ELSE requested

PreviousOf(b, requested) ==
  requested \cup IF head[b] = Null THEN {} ELSE {head[b]}

(* storeCommitUnlocked up to addCommit: the commit reaches the database.  *)
StoreCommit(t, b, c, requested) ==
  /\ FreshCommit(c)
  /\ \E o \in DbOutcomes :
       /\ addCommit(c, o)
       /\ commitOf' = IF Applied(o)
                      THEN [commitOf EXCEPT ![c] =
                             [project |-> req[t].project,
                              previous |-> PreviousOf(b, requested)]]
                      ELSE commitOf
       /\ HoldPvsIf(t, o)
       /\ IF Reported(o) THEN Proceed(t, "moveHead", c, b) ELSE Respond(t)
  /\ UNCHANGED <<branchOf, tagOf, projectDoc, branchDocs, docHead, tagDocs,
                 pvsVars, clientVars>>

(* The branch is looked up again under the lock. *)
createCommit(t, b, c, requested) ==
  /\ PvsFree
  /\ storedBranch(req[t].project, b)
  /\ StoreCommit(t, b, c, requested)

(* So are the branch and the source of a merge. *)
mergeIntoBranch(t, b, c, source) ==
  /\ PvsFree
  /\ storedBranch(req[t].project, b)
  /\ source \in commitIndex
  /\ OwnedBy(source, req[t].project)
  /\ StoreCommit(t, b, c, {source})

(* storeCommitUnlocked from addCommit on: the commit can be found, and it *)
(* becomes the head unless the database refuses the branch.               *)
MoveHead(t) ==
  LET p == req[t].project
      b == req[t].target
      c == req[t].commit
  IN  /\ At(t, "moveHead")
      /\ commitMap' = [commitMap EXCEPT ![p] = @ \cup {c}]
      /\ commitIndex' = commitIndex \cup {c}
      /\ \E o \in DbOutcomes :
           /\ updateBranch(b, c, o)
           /\ head' = IF Reported(o) THEN [head EXCEPT ![b] = c] ELSE head
           /\ acked' = IF Reported(o) THEN acked \cup {<<b, c>>} ELSE acked
      /\ ReleasePvs
      /\ Respond(t)
      /\ UNCHANGED <<objVars, projectDoc, branchDocs, commitDocs, tagDocs,
                     branchMap, tagMap, project, deleted, restarts>>

-----------------------------------------------------------------------------
(* Branches. *)

BranchNameTaken(p, n) == \E x \in branchMap[p] : branchOf[x].name = n

(* createBranch up to addBranch. *)
createBranch(t, b, n, h) ==
  /\ PvsFree
  /\ ~BranchNameTaken(req[t].project, n)
  /\ FreshBranch(b)
  /\ \E o \in DbOutcomes :
       /\ addBranch(b, h, o)
       /\ branchOf' = IF Applied(o)
                      THEN [branchOf EXCEPT ![b] =
                             [project |-> req[t].project, name |-> n]]
                      ELSE branchOf
       /\ head' = IF Reported(o) THEN [head EXCEPT ![b] = h] ELSE head
       /\ HoldPvsIf(t, o)
       /\ IF Reported(o) THEN Proceed(t, "pushBranch", Null, b) ELSE Respond(t)
  /\ UNCHANGED <<commitOf, tagOf, projectDoc, commitDocs, tagDocs,
                 branchMap, commitMap, commitIndex, tagMap, project, clientVars>>

(* createBranch from addBranch on; the project's entry in the map is made *)
(* when there is none.                                                    *)
PushBranch(t) ==
  /\ At(t, "pushBranch")
  /\ branchMap' = [branchMap EXCEPT ![req[t].project] = @ \cup {req[t].target}]
  /\ ReleasePvs
  /\ Respond(t)
  /\ UNCHANGED <<objVars, dbVars, head, commitMap, commitIndex, tagMap, project,
                 clientVars>>

(* Fault: the stored default branch is compared, not the one in memory. *)
IsStoredDefault(p, b) == projectDoc[p] # Null /\ projectDoc[p].defaultBranch = b

IsDefaultBranch(p, b) == project[p].defaultBranch = b

(* deleteBranch up to the database; the default branch is refused. *)
deleteBranch(t, b) ==
  /\ PvsFree
  /\ storedBranch(req[t].project, b)
  /\ ~IsDefaultBranch(req[t].project, b)
  /\ \E o \in DbOutcomes :
       /\ deleteBranchDoc(b, o)
       /\ HoldPvsIf(t, o)
       /\ IF Reported(o) THEN Proceed(t, "eraseBranch", Null, b) ELSE Respond(t)
  /\ UNCHANGED <<objVars, projectDoc, docHead, commitDocs, tagDocs, pvsVars,
                 clientVars>>

EraseBranch(t) ==
  /\ At(t, "eraseBranch")
  /\ branchMap' = [branchMap EXCEPT ![req[t].project] = @ \ {req[t].target}]
  /\ deleted' = deleted \cup {req[t].target}
  /\ ReleasePvs
  /\ Respond(t)
  /\ UNCHANGED <<objVars, dbVars, head, commitMap, commitIndex, tagMap, project,
                 acked, restarts>>

-----------------------------------------------------------------------------
(* Tags. *)

TagNameTaken(p, n) == \E x \in tagMap[p] : tagOf[x].name = n

createTag(t, g, n, c) ==
  /\ PvsFree
  /\ ~TagNameTaken(req[t].project, n)
  /\ FreshTag(g)
  /\ \E o \in DbOutcomes :
       /\ addTag(g, o)
       /\ tagOf' = IF Applied(o)
                   THEN [tagOf EXCEPT ![g] = [project |-> req[t].project,
                                              name |-> n, commit |-> c]]
                   ELSE tagOf
       /\ HoldPvsIf(t, o)
       /\ IF Reported(o) THEN Proceed(t, "pushTag", Null, g) ELSE Respond(t)
  /\ UNCHANGED <<branchOf, commitOf, projectDoc, branchDocs, docHead, commitDocs,
                 pvsVars, clientVars>>

PushTag(t) ==
  /\ At(t, "pushTag")
  /\ tagMap' = [tagMap EXCEPT ![req[t].project] = @ \cup {req[t].target}]
  /\ ReleasePvs
  /\ Respond(t)
  /\ UNCHANGED <<objVars, dbVars, branchMap, head, commitMap, commitIndex, project,
                 clientVars>>

deleteTag(t, g) ==
  /\ PvsFree
  /\ g \in tagMap[req[t].project]
  /\ \E o \in DbOutcomes :
       /\ deleteTagDoc(g, o)
       /\ HoldPvsIf(t, o)
       /\ IF Reported(o) THEN Proceed(t, "eraseTag", Null, g) ELSE Respond(t)
  /\ UNCHANGED <<objVars, projectDoc, branchDocs, docHead, commitDocs, pvsVars,
                 clientVars>>

EraseTag(t) ==
  /\ At(t, "eraseTag")
  /\ tagMap' = [tagMap EXCEPT ![req[t].project] = @ \ {req[t].target}]
  /\ deleted' = deleted \cup {req[t].target}
  /\ ReleasePvs
  /\ Respond(t)
  /\ UNCHANGED <<objVars, dbVars, branchMap, head, commitMap, commitIndex, project,
                 acked, restarts>>

-----------------------------------------------------------------------------
(* What ServerProjectService calls while it holds its own lock: the effect *)
(* of each call on the maps.                                               *)

(* The branch may become the default branch: it is one of the project's.   *)
replaceDefaultBranch(p, b) == PvsFree /\ storedBranch(p, b)

(* The entries of a new project, with its default branch if the database   *)
(* took it; a new project has no commit, so the branch has no head.        *)
addBranchFromProject(p, b, o) ==
  /\ PvsFree
  /\ addBranch(b, Null, o)
  /\ branchMap' = [branchMap EXCEPT ![p] = IF Reported(o) THEN {b} ELSE {}]
  /\ commitMap' = [commitMap EXCEPT ![p] = {}]
  /\ head' = [head EXCEPT ![b] = Null]
  /\ UNCHANGED <<commitIndex, tagMap>>

(* Memory lets go of the project's commits, branches and tags; the links   *)
(* from the branches back to the project, which only keep it allocated,    *)
(* and the cached data of the commits are not modelled.                    *)
forgetProject(p) ==
  /\ PvsFree
  /\ commitIndex' = commitIndex \ commitMap[p]
  /\ commitMap' = [commitMap EXCEPT ![p] = {}]
  /\ branchMap' = [branchMap EXCEPT ![p] = {}]
  /\ tagMap' = [tagMap EXCEPT ![p] = {}]
  /\ UNCHANGED <<head, project>>
=============================================================================
