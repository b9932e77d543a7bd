--------------------------- MODULE ModelDatabase ---------------------------
(***************************************************************************)
(* The model collections of the MongoDB database (projects, branches,      *)
(* commits, tags) and the DataBaseController handlers that write and read  *)
(* them.  The database outlives the server process: no action of a restart *)
(* changes it.                                                             *)
(*                                                                         *)
(* Objects are identified by the random UUID they are built with.  What is *)
(* fixed when an object is built (a branch's project and name, a commit's  *)
(* project and previous commits, a tag's project, name and commit) is kept *)
(* once, in branchOf, commitOf and tagOf, for the object in memory and for *)
(* its document alike; an identifier whose entry has no project has not    *)
(* been issued.  What changes later (the head of a branch, the fields of a *)
(* project) is kept in memory and in the document separately.              *)
(***************************************************************************)
EXTENDS DatabaseWrites, Naturals

CONSTANTS
  ProjectIds, BranchIds, CommitIds, TagIds,  \* the UUIDs that may be issued
  Names,        \* names of branches and tags
  MainName,     \* the name of the branch every project is created with
  Attributes,   \* the values of a project's name, description and ownership
  QueryOutcomes \* the ways a write to the queries or twins may end

ASSUME MainNameAssumption == MainName \in Names
ASSUME QueryOutcomesAssumption == QueryOutcomes \subseteq Outcomes

VARIABLES
  branchOf, commitOf, tagOf,   \* what an object was built with
  projectDoc,                  \* the fields of each project document, or Null
  branchDocs, docHead,         \* the branch documents and the head in each
  commitDocs, tagDocs          \* the commit and tag documents

objVars == <<branchOf, commitOf, tagOf>>
dbVars == <<projectDoc, branchDocs, docHead, commitDocs, tagDocs>>

ProjectFields == [defaultBranch : BranchIds, attributes : Attributes]

ASSUME NullAssumption ==
  /\ Null \notin ProjectIds \cup BranchIds \cup CommitIds \cup TagIds \cup Names
  /\ Null \notin ProjectFields
(* An absent document is not a document. *)
ASSUME DocumentsAssumption ==
  /\ Null \notin [project : ProjectIds \cup {Null}, previous : SUBSET CommitIds]
  /\ Null \notin [project : ProjectIds \cup {Null}, name : Names \cup {Null},
                  head : CommitIds \cup {Null}]
  /\ Null \notin [project : ProjectIds \cup {Null}, name : Names \cup {Null},
                  commit : CommitIds \cup {Null}]
(* Objects of different kinds never have the same UUID. *)
ASSUME IdsAssumption ==
  /\ ProjectIds \cap BranchIds = {}
  /\ ProjectIds \cap TagIds = {}
  /\ BranchIds \cap TagIds = {}

(* Whether an identifier is still unused: UUIDs are never drawn twice. *)
FreshBranch(b) == branchOf[b].project = Null
FreshCommit(c) == commitOf[c].project = Null
FreshTag(g) == tagOf[g].project = Null

InitDatabase ==
  /\ branchOf = [b \in BranchIds |-> [project |-> Null, name |-> Null]]
  /\ commitOf = [c \in CommitIds |-> [project |-> Null, previous |-> {}]]
  /\ tagOf = [g \in TagIds |-> [project |-> Null, name |-> Null, commit |-> Null]]
  /\ projectDoc = [p \in ProjectIds |-> Null]
  /\ branchDocs = {}
  /\ docHead = [b \in BranchIds |-> Null]
  /\ commitDocs = {}
  /\ tagDocs = {}

-----------------------------------------------------------------------------
(* The handlers that write: each is one statement sent to the database. *)

addProject(p, fields, o) ==
  projectDoc' = IF Applied(o) THEN [projectDoc EXCEPT ![p] = fields] ELSE projectDoc

(* update_one without upsert: a document that is gone stays gone. *)
updateProject(p, fields, o) ==
  projectDoc' = IF Applied(o) /\ projectDoc[p] # Null
                THEN [projectDoc EXCEPT ![p] = fields] ELSE projectDoc

(* Fault: the filter matches no document. *)
deleteNoProject(p, o) == projectDoc' = projectDoc

deleteProjectDoc(p, o) ==
  projectDoc' = IF Applied(o) THEN [projectDoc EXCEPT ![p] = Null] ELSE projectDoc

(* Fault: the insertion is not acknowledged, and gets lost. *)
addBranchUnacknowledged(b, h, o) == UNCHANGED <<branchDocs, docHead>>

addBranch(b, h, o) ==
  /\ branchDocs' = IF Applied(o) THEN branchDocs \cup {b} ELSE branchDocs
  /\ docHead' = IF Applied(o) THEN [docHead EXCEPT ![b] = h] ELSE docHead

(* Fault: the new head is not written. *)
updateNothing(b, h, o) == docHead' = docHead

updateBranch(b, h, o) ==
  docHead' = IF Applied(o) /\ b \in branchDocs
             THEN [docHead EXCEPT ![b] = h] ELSE docHead

deleteBranchDoc(b, o) ==
  branchDocs' = IF Applied(o) THEN branchDocs \ {b} ELSE branchDocs

(* Fault: the insertion is not acknowledged, and gets lost. *)
addCommitUnacknowledged(c, o) == commitDocs' = commitDocs

addCommit(c, o) ==
  commitDocs' = IF Applied(o) THEN commitDocs \cup {c} ELSE commitDocs

addTag(g, o) == tagDocs' = IF Applied(o) THEN tagDocs \cup {g} ELSE tagDocs

deleteTagDoc(g, o) == tagDocs' = IF Applied(o) THEN tagDocs \ {g} ELSE tagDocs

-----------------------------------------------------------------------------
(* The handlers that read, called when the services are constructed. *)

getAllProjects == {p \in ProjectIds : projectDoc[p] # Null}

getAllBranches ==
  [p \in ProjectIds |-> {b \in branchDocs : branchOf[b].project = p}]

getAllCommits ==
  [p \in ProjectIds |-> {c \in commitDocs : commitOf[c].project = p}]

getAllTags ==
  [p \in ProjectIds |-> {g \in tagDocs : tagOf[g].project = p}]
=============================================================================
