---------------------------- MODULE VersionStore ----------------------------
(***************************************************************************)
(* What the server promises its clients about projects and versions, with  *)
(* neither threads nor memory nor failures: a durable store that changes   *)
(* by whole steps, and the record of what clients were told.  ModelServer  *)
(* implements it (Store in ModelServerProperties): a process that dies,    *)
(* starts again or has a write refused does nothing here.                  *)
(***************************************************************************)
CONSTANTS Null, ProjectIds, BranchIds, CommitIds, TagIds, Names, ProjectFields

VARIABLES
  projects,    \* the fields of each stored project, or Null
  branches,    \* project, name and head of each stored branch, or Null
  commits,     \* project and previous commits of each stored commit, or Null
  tags,        \* project, name and commit of each stored tag, or Null
  told,        \* <<branch, commit>>: the client was told that it is committed
  gone         \* what a client was told is deleted

storeVars == <<projects, branches, commits, tags, told, gone>>

Stored(f) == {x \in DOMAIN f : f[x] # Null}
CommitsOf(p) == {c \in Stored(commits) : commits[c].project = p}

(* c is h or before it: every set that holds h and, with a stored commit, *)
(* its previous commits holds c.                                          *)
Before(c, h) ==
  h # Null /\ \A S \in SUBSET CommitIds :
    h \in S /\ (\A x \in S \cap Stored(commits) : commits[x].previous \subseteq S)
      => c \in S

Init ==
  /\ projects = [p \in ProjectIds |-> Null]
  /\ branches = [b \in BranchIds |-> Null]
  /\ commits = [c \in CommitIds |-> Null]
  /\ tags = [g \in TagIds |-> Null]
  /\ told = {}
  /\ gone = {}

(* A project is stored after its default branch, and once only.            *)
AddProject(p, fields) ==
  /\ projects[p] = Null /\ p \notin gone
  /\ fields.defaultBranch \in Stored(branches)
  /\ branches[fields.defaultBranch].project = p
  /\ projects' = [projects EXCEPT ![p] = fields]
  /\ UNCHANGED <<branches, commits, tags, told, gone>>

ChangeProject(p, fields) ==
  /\ projects[p] # Null
  /\ projects' = [projects EXCEPT ![p] = fields]
  /\ UNCHANGED <<branches, commits, tags, told, gone>>

DropProject(p) ==
  /\ projects[p] # Null
  /\ projects' = [projects EXCEPT ![p] = Null]
  /\ UNCHANGED <<branches, commits, tags, told, gone>>

(* A branch starts at a commit of its project, or empty. *)
AddBranch(b, p, n, h) ==
  /\ branches[b] = Null /\ b \notin gone
  /\ h \in CommitsOf(p) \cup {Null}
  /\ branches' = [branches EXCEPT ![b] = [project |-> p, name |-> n, head |-> h]]
  /\ UNCHANGED <<projects, commits, tags, told, gone>>

DropBranch(b) ==
  /\ branches[b] # Null
  /\ branches' = [branches EXCEPT ![b] = Null]
  /\ UNCHANGED <<projects, commits, tags, told, gone>>

(* A commit never changes again, and follows commits of its own project.   *)
AddCommit(c, p, previous) ==
  /\ commits[c] = Null
  /\ previous \subseteq CommitsOf(p)
  /\ commits' = [commits EXCEPT ![c] = [project |-> p, previous |-> previous]]
  /\ UNCHANGED <<projects, branches, tags, told, gone>>

(* A branch moves to a commit that has in its history everything clients   *)
(* were told is on the branch; only now may a client be told of the commit.*)
MoveHead(b, c) ==
  /\ branches[b] # Null
  /\ c \in CommitsOf(branches[b].project)
  /\ \A x \in CommitIds : <<b, x>> \in told => Before(x, c)
  /\ branches' = [branches EXCEPT ![b].head = c]
  /\ told' \in {told, told \cup {<<b, c>>}}
  /\ UNCHANGED <<projects, commits, tags, gone>>

(* The branch is gone and the client is told of its commit all the same:   *)
(* the answer to its deletion was lost.                                    *)
TellOfLostBranch(b, c) ==
  /\ branches[b] = Null /\ b \notin gone
  /\ c \in Stored(commits)
  /\ told' = told \cup {<<b, c>>}
  /\ UNCHANGED <<projects, branches, commits, tags, gone>>

AddTag(g, p, n, c) ==
  /\ tags[g] = Null /\ g \notin gone
  /\ c \in CommitsOf(p)
  /\ tags' = [tags EXCEPT ![g] = [project |-> p, name |-> n, commit |-> c]]
  /\ UNCHANGED <<projects, branches, commits, told, gone>>

DropTag(g) ==
  /\ tags[g] # Null
  /\ tags' = [tags EXCEPT ![g] = Null]
  /\ UNCHANGED <<projects, branches, commits, told, gone>>

(* A client is told that x is deleted: it is, and stays so. *)
TellGone(x) ==
  /\ x \notin Stored(projects) \cup Stored(branches) \cup Stored(tags)
  /\ gone' = gone \cup {x}
  /\ UNCHANGED <<projects, branches, commits, tags, told>>

Next ==
  \/ \E p \in ProjectIds, fields \in ProjectFields :
       AddProject(p, fields) \/ ChangeProject(p, fields)
  \/ \E p \in ProjectIds : DropProject(p)
  \/ \E b \in BranchIds, p \in ProjectIds, n \in Names, h \in CommitIds \cup {Null} :
       AddBranch(b, p, n, h)
  \/ \E b \in BranchIds : DropBranch(b)
  \/ \E c \in CommitIds, p \in ProjectIds, previous \in SUBSET CommitIds :
       AddCommit(c, p, previous)
  \/ \E b \in BranchIds, c \in CommitIds : MoveHead(b, c) \/ TellOfLostBranch(b, c)
  \/ \E g \in TagIds, p \in ProjectIds, n \in Names, c \in CommitIds : AddTag(g, p, n, c)
  \/ \E g \in TagIds : DropTag(g)
  \/ \E x \in ProjectIds \cup BranchIds \cup TagIds : TellGone(x)

Spec == Init /\ [][Next]_storeVars
=============================================================================
