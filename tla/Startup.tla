------------------------------ MODULE Startup ------------------------------
(***************************************************************************)
(* The start of the server: it recognises the database, initialises a new  *)
(* one with the library projects, migrates an old one, and serves.  One    *)
(* process at a time uses the database.  What users do to the documents    *)
(* while it serves is here only what a later start may meet.               *)
(***************************************************************************)
EXTENDS DatabaseMigrator, FiniteSetsExt

CONSTANT Library    \* the preloaded projects

ASSUME LibraryAssumption == Library \subseteq ProjectIds

VARIABLES
  debug,         \* whether the binary is a debug build
  collections,   \* those that were created
  dataVersions, elements   \* of which library projects they are stored

vars == <<documents, step, todo, failures, debug, collections, dataVersions, elements>>

(* In the order in which they are created. *)
CollectionNames ==
  <<"projects", "data_elements", "commits", "data_versions", "tags", "branches",
    "queries", "users", "digital_twins", "versions">>

(* The documents as this binary writes them.  A project names its default  *)
(* branch; the branch of a library project names its import commit as its  *)
(* head, that of a user's new project has no head.                         *)
NewProject(p) ==
  [preloaded |-> p \in Library, owned |-> p \notin Library, isLibrary |-> p \in Library,
   defaultBranch |-> p]
NewBranch(p) == [owningProject |-> TRUE, head |-> IF p \in Library THEN p ELSE Null]
NewVersion(p) ==
  [id |-> Uuid(p, 1), hasPayloadId |-> TRUE, identity |-> TRUE, commit |-> TRUE]

-----------------------------------------------------------------------------
(* The databases a start may find. *)

Nothing(S) == [d \in S |-> Null]

Empty ==
  /\ schema = Null /\ collections = {}
  /\ projects = Nothing(ProjectIds) /\ branches = Nothing(ProjectIds)
  /\ commits = Nothing(ProjectIds) /\ users = Nothing(Usernames)
  /\ dataVersions = {} /\ elements = {}

(* Data versions as earlier binaries wrote them: without an id or with that*)
(* of the payload, without identity and commit.                            *)
OldVersions(hasPayloadId) ==
  [id : IF hasPayloadId THEN {Null, PayloadId} ELSE {Null},
   hasPayloadId : {hasPayloadId}, identity : {FALSE}, commit : BOOLEAN]
OldChanges == {<<>>} \cup (OldVersions(TRUE) \X OldVersions(FALSE))

OldUsers(version) ==
  IF version = 1
  THEN [role : {NoRole, 1}, group : {Null, "group"}, mustChangePassword : {Null},
        defaultPassword : BOOLEAN]
  ELSE [role : {0}, group : {""}, mustChangePassword : {TRUE}, defaultPassword : BOOLEAN]

(* Of an earlier version, with the library projects, a project without an  *)
(* owner and users.                                                        *)
Old(version) ==
  /\ schema = IF version = 1 THEN Null ELSE version
  /\ collections = Range(CollectionNames)
  /\ projects = [p \in ProjectIds |->
                   [preloaded |-> p \in Library, owned |-> FALSE,
                    isLibrary |-> version > 1 /\ p \in Library, defaultBranch |-> p]]
  /\ branches = [p \in ProjectIds |-> [owningProject |-> FALSE, head |-> p]]
  /\ \E change \in OldChanges : commits = [p \in ProjectIds |-> change]
  /\ users \in [Usernames -> OldUsers(version)]
  /\ dataVersions = Library /\ elements = Library

(* Of a newer binary, which may look like anything. *)
Newer == \E version \in {1, 2} :
  /\ schema = CURRENT_SCHEMA_VERSION + 1
  /\ collections = Range(CollectionNames)
  /\ projects = Nothing(ProjectIds) /\ branches = Nothing(ProjectIds)
  /\ commits = Nothing(ProjectIds)
  /\ users \in [Usernames -> OldUsers(version)]
  /\ dataVersions = {} /\ elements = {}

Init ==
  /\ Empty \/ Old(1) \/ Old(2) \/ Newer
  /\ debug \in BOOLEAN
  /\ step = "down" /\ todo = {} /\ failures = 0

-----------------------------------------------------------------------------
(* checkDatabaseState *)

NoDocuments ==
  \A collection \in {projects, branches, commits, users} : Stored(collection) = {}

(* Fault: also a debug build refuses what a crash left behind. *)
NeverDropped == FALSE

MayBeDropped == debug /\ NoDocuments /\ dataVersions \cup elements = {}

Start ==
  /\ AtStep("down")
  /\ \/ /\ collections = {}
        /\ step' = "create" /\ todo' = DOMAIN CollectionNames
        /\ UNCHANGED failures
     \/ "versions" \in collections /\ GoTo("migrate")
     \/ /\ collections # {} /\ "versions" \notin collections
        /\ MayBeDropped
        /\ GoTo("drop")
  /\ UNCHANGED <<documents, debug, collections, dataVersions, elements>>

(* Anything else is not touched: the process exits, now and every time. *)
Unrecognised ==
  collections # {} /\ "versions" \notin collections /\ ~MayBeDropped

(* deleteDatabaseIfDebug swallows an exception. *)
DropDatabase ==
  /\ AtStep("drop")
  /\ \E o \in DbOutcomes :
       /\ collections' = IF Applied(o) THEN {} ELSE collections
       /\ IF Reported(o) THEN UNCHANGED failures
          ELSE failures < MaxFailures /\ failures' = failures + 1
  /\ step' = "create" /\ todo' = DOMAIN CollectionNames
  /\ UNCHANGED <<documents, debug, dataVersions, elements>>

-----------------------------------------------------------------------------
(* initializeDatabaseIfNotAvailable.  todo holds the places of the names   *)
(* that are left.  To create a collection that exists is an error.         *)
CreateCollection ==
  LET name == CollectionNames[Min(todo)]
  IN  /\ AtStep("create")
      /\ \/ /\ name \in collections
            /\ Exit /\ UNCHANGED <<collections, failures>>
         \/ /\ name \notin collections
            /\ \E o \in DbOutcomes :
                 /\ collections' = IF Applied(o) THEN collections \cup {name} ELSE collections
                 /\ IF todo = {Len(CollectionNames)}
                    THEN After(o, "addVersion", {})
                    ELSE After(o, "create", todo \ {Min(todo)})
      /\ UNCHANGED <<documents, debug, dataVersions, elements>>

(* The document of the version is not read again at a start. *)
addVersionToDatabase ==
  /\ AtStep("addVersion")
  /\ \E o \in DbOutcomes : After(o, "addProjects", {})
  /\ UNCHANGED <<documents, debug, collections, dataVersions, elements>>

InsertInto(collection, D, New(_)) ==
  [d \in DOMAIN collection |-> IF d \in D THEN New(d) ELSE collection[d]]

(* Fault: the projects that were written are taken for all of them. *)
GoOn(o, s) == After("ok", s, {})

(* insert_many is not atomic: it may stop after some documents.  Then it   *)
(* throws, and nothing that follows is written.                            *)
Inserted(o, s) == After(o, s, {})

addMultibleProjects ==
  /\ AtStep("addProjects")
  /\ \E o \in DbOutcomes :
       /\ \E reached \in Reached(o, Library) :
            projects' = InsertInto(projects, reached, NewProject)
       /\ Inserted(o, "addBranches")
  /\ UNCHANGED <<schema, branches, commits, users, debug, collections, dataVersions, elements>>

addMultibleBranches ==
  /\ AtStep("addBranches")
  /\ \E o \in DbOutcomes :
       /\ \E reached \in Reached(o, Library) :
            branches' = InsertInto(branches, reached, NewBranch)
       /\ Inserted(o, "addCommits")
  /\ UNCHANGED <<schema, projects, commits, users, debug, collections, dataVersions, elements>>

addMultibleCommits ==
  /\ AtStep("addCommits")
  /\ \E o \in DbOutcomes :
       /\ \E reached \in Reached(o, Library) :
            commits' = InsertInto(commits, reached, LAMBDA p : <<NewVersion(p)>>)
       /\ Inserted(o, "addDataVersions")
  /\ UNCHANGED <<schema, projects, branches, users, debug, collections, dataVersions, elements>>

addMultibleDataVersions ==
  /\ AtStep("addDataVersions")
  /\ \E o \in DbOutcomes :
       /\ dataVersions' \in Reached(o, Library)
       /\ Inserted(o, "addElements")
  /\ UNCHANGED <<documents, debug, collections, elements>>

addMultibleElements ==
  /\ AtStep("addElements")
  /\ \E o \in DbOutcomes :
       /\ elements' \in Reached(o, Library)
       /\ Inserted(o, "writeSchema")
  /\ UNCHANGED <<documents, debug, collections, dataVersions>>

InitialisationStep ==
  \/ Start \/ DropDatabase \/ CreateCollection \/ addVersionToDatabase
  \/ addMultibleProjects \/ addMultibleBranches \/ addMultibleCommits
  \/ addMultibleDataVersions \/ addMultibleElements

-----------------------------------------------------------------------------
(* While the server serves: users create projects of their own and commit  *)
(* to them, one write after the other, and choose another password than    *)
(* the default.  A write that fails is one that never comes.               *)
UserWrites(p) ==
  /\ AtStep("serving") /\ p \notin Library
  /\ UNCHANGED <<schema, users, step, failures, debug, collections, dataVersions, elements>>

UserCreatesBranch(p) ==
  /\ UserWrites(p) /\ branches[p] = Null
  /\ branches' = [branches EXCEPT ![p] = NewBranch(p)]
  /\ todo' = todo \cup {p}
  /\ UNCHANGED <<projects, commits>>

UserCreatesProject(p) ==
  /\ UserWrites(p) /\ p \in todo /\ projects[p] = Null
  /\ projects' = [projects EXCEPT ![p] = NewProject(p)]
  /\ todo' = todo \ {p}
  /\ UNCHANGED <<branches, commits>>

UserCommits(p) ==
  /\ UserWrites(p) /\ p \in Stored(projects) /\ commits[p] = Null
  /\ commits' = [commits EXCEPT ![p] = <<NewVersion(p)>>]
  /\ todo' = todo \cup {p}
  /\ UNCHANGED <<projects, branches>>

UserMovesHead(p) ==
  /\ UserWrites(p) /\ p \in todo /\ p \in Stored(commits)
  /\ branches' = [branches EXCEPT ![p].head = p]
  /\ todo' = todo \ {p}
  /\ UNCHANGED <<projects, commits>>

UserChangesPassword(u) ==
  /\ AtStep("serving") /\ u \in Stored(users)
  /\ users[u].mustChangePassword
  /\ users' = [users EXCEPT ![u].mustChangePassword = FALSE, ![u].defaultPassword = FALSE]
  /\ UNCHANGED <<schema, projects, branches, commits, step, todo, failures,
                 debug, collections, dataVersions, elements>>

(* The process ends, or is killed, at any point. *)
Kill ==
  /\ ~AtStep("down") /\ Fail
  /\ UNCHANGED <<documents, debug, collections, dataVersions, elements>>

StartStep ==
  \/ InitialisationStep
  \/ MigrationStep /\ UNCHANGED <<debug, collections, dataVersions, elements>>

Next ==
  \/ StartStep
  \/ \E p \in ProjectIds :
       UserCreatesBranch(p) \/ UserCreatesProject(p) \/ UserCommits(p) \/ UserMovesHead(p)
  \/ \E u \in Usernames : UserChangesPassword(u)
  \/ Kill

Spec == Init /\ [][Next]_vars
=============================================================================
