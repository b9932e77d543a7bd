-------------------------- MODULE DatabaseMigrator --------------------------
(***************************************************************************)
(* The migration of a stored database to the schema this binary reads, one *)
(* write at a time.  Every write may fail, or be applied without an answer *)
(* (the process then exits), and the process may be killed between any two *)
(* writes; the next start begins again with the first step of the          *)
(* migration.                                                              *)
(*                                                                         *)
(* Of a document only what a step reads or writes is kept.  A project has  *)
(* one branch and one commit here, under the same name.                    *)
(***************************************************************************)
EXTENDS Integers, Sequences, Functions, DatabaseWrites

CONSTANTS
  ProjectIds,    \* the projects, each with its branch and its commit
  Usernames,
  MaxFailures    \* bound: writes that fail, and kills

ASSUME MigratorAssumption ==
  MaxFailures \in Nat /\ Null \notin ProjectIds \cup Usernames

VARIABLES
  schema,      \* version in the collection "schema", Null without a document
  projects, branches, commits, users,   \* the documents, Null if absent
  step,        \* what the starting process does next
  todo,        \* the documents a loop, or a user's request, has still to write
  failures

documents == <<schema, projects, branches, commits, users>>

CURRENT_SCHEMA_VERSION == 3
NoRole == -1                 \* missing, or none of the four roles
Roles == {0, 1, 2, 100}

(* A random UUID is known by what it was drawn for and how many failures   *)
(* came before: a commit is completed again only after a failure, so no    *)
(* two draws agree.                                                        *)
Uuid(c, i) == <<c, i, failures>>
VersionIds == ProjectIds \X (1..2) \X (0..MaxFailures)
PayloadId == <<"payload">>   \* that of the payload, used for the version

Project == [preloaded : BOOLEAN, owned : BOOLEAN, isLibrary : BOOLEAN,
            defaultBranch : ProjectIds]
Branch == [owningProject : BOOLEAN, head : ProjectIds \cup {Null}]
DataVersion == [id : VersionIds \cup {Null, PayloadId},
                hasPayloadId : BOOLEAN, identity : BOOLEAN, commit : BOOLEAN]
User == [role : Roles \cup {NoRole}, group : {Null, "", "group"},
         mustChangePassword : BOOLEAN \cup {Null}, defaultPassword : BOOLEAN]

(* An absent document, or field, is none of the values it may have.        *)
ASSUME AbsenceAssumption ==
  /\ Null \notin Project \cup Branch \cup User \cup Seq(DataVersion)
  /\ Null \notin VersionIds \cup {PayloadId}
  /\ Null \notin BOOLEAN /\ Null \notin {"", "group"}
  /\ Null \notin 1..CURRENT_SCHEMA_VERSION + 1

Stored(collection) == {d \in DOMAIN collection : collection[d] # Null}

-----------------------------------------------------------------------------
(* A step of the start.  With its write acknowledged it goes on to the next*)
(* one; an exception ends the process.                                     *)
AtStep(s) == step = s
GoTo(s) == step' = s /\ todo' = {} /\ UNCHANGED failures
Exit == step' = "down" /\ todo' = {}
Fail == failures < MaxFailures /\ failures' = failures + 1 /\ Exit

After(o, s, rest) ==
  IF Reported(o) THEN step' = s /\ todo' = rest /\ UNCHANGED failures ELSE Fail

(* The documents of D that a statement on many of them reaches. *)
Reached(o, D) ==
  CASE Reported(o)   -> {D}
    [] ~Applied(o)   -> {{}}
    [] OTHER         -> SUBSET D

(* Every document of D is changed by the operator. *)
UpdateMany(o, collection, D, Change(_)) ==
  \E reached \in Reached(o, D) :
    collection' = [d \in DOMAIN collection |->
                     IF d \in reached THEN Change(collection[d]) ELSE collection[d]]

-----------------------------------------------------------------------------
(* run: which steps a database needs. *)
writeSchemaVersion ==
  /\ AtStep("writeSchema")
  /\ \E o \in DbOutcomes :
       /\ schema' = IF Applied(o) THEN CURRENT_SCHEMA_VERSION ELSE schema
       /\ After(o, "serving", {})
  /\ UNCHANGED <<projects, branches, commits, users>>

(* A missing document means version 1. *)
readSchemaVersion == IF schema = Null THEN 1 ELSE schema

(* Fault: what version 1 lacks is taken for done. *)
MigrateFrom2Only(version) == "owningProjects"

FirstStep(version) == IF version <= 1 THEN "libraries" ELSE "owningProjects"

PendingBranches == {b \in Stored(branches) : ~branches[b].owningProject}

run ==
  /\ AtStep("migrate")
  /\ \/ /\ readSchemaVersion > CURRENT_SCHEMA_VERSION
        /\ Exit /\ UNCHANGED failures
     \/ /\ readSchemaVersion = CURRENT_SCHEMA_VERSION
        /\ GoTo("serving")
     \/ /\ readSchemaVersion < CURRENT_SCHEMA_VERSION
        /\ step' = FirstStep(readSchemaVersion)
        /\ todo' = IF readSchemaVersion <= 1 THEN {} ELSE PendingBranches
        /\ UNCHANGED failures
  /\ UNCHANGED documents

-----------------------------------------------------------------------------
(* migrateFrom1To2.  The statements on users: role, group, then flag. *)
FlagLibraries ==
  /\ AtStep("libraries")
  /\ \E o \in DbOutcomes :
       /\ UpdateMany(o, projects,
                     {p \in Stored(projects) : projects[p].preloaded /\ ~projects[p].owned},
                     LAMBDA d : [d EXCEPT !.isLibrary = TRUE])
       /\ After(o, "roles", {})
  /\ UNCHANGED <<schema, branches, commits, users>>

FixUsers(label, next, Lacks(_), Fixed(_)) ==
  /\ AtStep(label)
  /\ \E o \in DbOutcomes :
       /\ UpdateMany(o, users, {u \in Stored(users) : Lacks(users[u])}, Fixed)
       /\ After(o, next, {})
  /\ UNCHANGED <<schema, projects, branches, commits>>

(* Fault: the roles are taken for consecutive. *)
FixToOneBelow ==
  FixUsers("roles", "groups", LAMBDA d : d.role \notin Roles,
           LAMBDA d : [d EXCEPT !.role = 3])

FixRoles ==
  FixUsers("roles", "groups", LAMBDA d : d.role \notin Roles, LAMBDA d : [d EXCEPT !.role = 0])

FixGroups ==
  FixUsers("groups", "flags", LAMBDA d : d.group = Null, LAMBDA d : [d EXCEPT !.group = ""])

(* Then the accounts with the default password are looked for. *)
FixFlags ==
  FixUsers("flags", "passwords", LAMBDA d : d.mustChangePassword = Null,
           LAMBDA d : [d EXCEPT !.mustChangePassword = FALSE])

FindDefaults ==
  /\ AtStep("passwords")
  /\ step' = "defaults"
  /\ todo' = {u \in Stored(users) : users[u].defaultPassword}
  /\ UNCHANGED <<documents, failures>>

FlagDefault(u) ==
  /\ AtStep("defaults") /\ u \in todo
  /\ \E o \in DbOutcomes :
       /\ users' = IF Applied(o) THEN [users EXCEPT ![u].mustChangePassword = TRUE] ELSE users
       /\ After(o, "defaults", todo \ {u})
  /\ UNCHANGED <<schema, projects, branches, commits>>

(* migrateFrom2To3 follows, with the branches it finds. *)
FindBranches ==
  /\ AtStep("defaults") /\ todo = {}
  /\ step' = "owningProjects"
  /\ todo' = PendingBranches
  /\ UNCHANGED <<documents, failures>>

-----------------------------------------------------------------------------
SetOwningProject(b) ==
  /\ AtStep("owningProjects") /\ b \in todo
  /\ \E o \in DbOutcomes :
       /\ branches' = IF Applied(o) THEN [branches EXCEPT ![b].owningProject = TRUE] ELSE branches
       /\ After(o, "owningProjects", todo \ {b})
  /\ UNCHANGED <<schema, projects, commits, users>>

(* Fault: every data version gets a new id. *)
NeedsNewId(v) == TRUE

NeedsId(v) == v.id \in {Null, PayloadId}

Completed(v, id) ==
  [v EXCEPT !.id = IF NeedsId(v) THEN id ELSE @,
            !.identity = @ \/ v.hasPayloadId,
            !.commit = TRUE]

Incomplete(v) == NeedsId(v) \/ (~v.identity /\ v.hasPayloadId) \/ ~v.commit

PendingCommits ==
  {c \in Stored(commits) : \E i \in DOMAIN commits[c] : Incomplete(commits[c][i])}

FindCommits ==
  /\ AtStep("owningProjects") /\ todo = {}
  /\ step' = "changes"
  /\ todo' = PendingCommits
  /\ UNCHANGED <<documents, failures>>

CompleteChange(c) ==
  /\ AtStep("changes") /\ c \in todo
  /\ \E o \in DbOutcomes :
       /\ commits' = IF Applied(o)
                     THEN [commits EXCEPT ![c] = [i \in DOMAIN @ |-> Completed(@[i], Uuid(c, i))]]
                     ELSE commits
       /\ After(o, "changes", todo \ {c})
  /\ UNCHANGED <<schema, projects, branches, users>>

FinishMigration ==
  /\ AtStep("changes") /\ todo = {}
  /\ GoTo("writeSchema")
  /\ UNCHANGED documents

MigrationStep ==
  \/ run
  \/ FlagLibraries \/ FixRoles \/ FixGroups \/ FixFlags
  \/ FindDefaults \/ \E u \in Usernames : FlagDefault(u)
  \/ FindBranches \/ \E b \in ProjectIds : SetOwningProject(b)
  \/ FindCommits \/ \E c \in ProjectIds : CompleteChange(c)
  \/ FinishMigration
  \/ writeSchemaVersion
=============================================================================
