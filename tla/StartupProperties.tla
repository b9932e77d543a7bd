-------------------------- MODULE StartupProperties --------------------------
(***************************************************************************)
(* What the start of the server promises to the data it finds.             *)
(***************************************************************************)
EXTENDS Startup

(* The type invariant. *)
TypeOK ==
  /\ schema \in {Null} \cup 1..CURRENT_SCHEMA_VERSION + 1
  /\ projects \in [ProjectIds -> Project \cup {Null}]
  /\ branches \in [ProjectIds -> Branch \cup {Null}]
  /\ commits \in [ProjectIds -> {Null} \cup Seq(DataVersion)]
  /\ users \in [Usernames -> User \cup {Null}]
  /\ todo \subseteq ProjectIds \cup Usernames \cup DOMAIN CollectionNames
  /\ failures \in 0..MaxFailures
  /\ collections \subseteq Range(CollectionNames)
  /\ dataVersions \cup elements \subseteq Library

(* What this binary expects of the documents: exactly the preloaded        *)
(* projects are library projects, every branch knows its project, every    *)
(* data version has an id of its own, users have role, group and flag, and *)
(* a default password has to be changed.                                   *)
CurrentForm ==
  /\ \A p \in Stored(projects) : projects[p].isLibrary <=> p \in Library
  /\ \A b \in Stored(branches) : branches[b].owningProject
  /\ \A c \in Stored(commits), d \in Stored(commits) :
       \A i \in DOMAIN commits[c], j \in DOMAIN commits[d] :
         /\ commits[c][i].id \in VersionIds /\ commits[c][i].commit
         /\ commits[c][i].hasPayloadId => commits[c][i].identity
         /\ commits[c][i].id = commits[d][j].id => c = d /\ i = j
  /\ \A u \in Stored(users) :
       /\ users[u].role \in Roles /\ users[u].group # Null
       /\ users[u].defaultPassword => users[u].mustChangePassword = TRUE

(* The schema version is written last: a database that says it is current  *)
(* is, whatever was interrupted before, and only such a database is served.*)
SchemaTellsForm ==
  /\ AtStep("serving") => schema = CURRENT_SCHEMA_VERSION
  /\ schema = CURRENT_SCHEMA_VERSION => CurrentForm

(* The references of a project and of its default branch.                  *)
Resolves(p) ==
  /\ projects[p].defaultBranch \in Stored(branches)
  /\ branches[projects[p].defaultBranch].head \in Stored(commits) \cup {Null}

(* The documents are written in an order.  Users' projects are stored last *)
(* and heads moved last, so what they refer to is always there.  Library   *)
(* projects are stored first, before their default branch, and that before *)
(* its head: what an interrupted creation leaves of them reaches back to   *)
(* the project, an element to its data version and this to its commit, but *)
(* what was to be written next may be missing, then and ever after.  After *)
(* a creation that nothing interrupted nothing is missing.                 *)
WrittenInOrder ==
  /\ elements \subseteq dataVersions /\ dataVersions \subseteq Stored(commits)
  /\ Stored(commits) \subseteq Stored(branches) \cap Stored(projects)
  /\ Stored(branches) \cap Library \subseteq Stored(projects)
  /\ \A p \in Stored(projects) \ Library : Resolves(p)
  /\ AtStep("serving") /\ failures = 0 =>
       \A p \in Library :
         p \in Stored(projects) \cap elements /\ Resolves(p) /\ branches[p].head # Null

-----------------------------------------------------------------------------
(* No start loses or overwrites what is stored: documents stay and refer   *)
(* to what they referred to, an id that was given stays the id, a role     *)
(* stays when it is one, and only its user is freed from changing a        *)
(* password.  The database of a newer binary is not touched at all.        *)
NothingOverwritten == [][
  /\ \A p \in Stored(projects) :
       /\ projects'[p] # Null /\ projects'[p].owned = projects[p].owned
       /\ projects'[p].defaultBranch = projects[p].defaultBranch
  /\ \A b \in Stored(branches) :
       /\ branches'[b] # Null
       /\ branches[b].head # Null => branches'[b].head = branches[b].head
  /\ \A c \in Stored(commits) :
       /\ commits'[c] # Null /\ DOMAIN commits'[c] = DOMAIN commits[c]
       /\ \A i \in DOMAIN commits[c] :
            commits[c][i].id \in VersionIds => commits'[c][i].id = commits[c][i].id
  /\ \A u \in Stored(users) :
       /\ users'[u] # Null
       /\ users[u].role \in Roles => users'[u].role = users[u].role
       /\ users[u].group # Null => users'[u].group = users[u].group
       /\ users[u].mustChangePassword = TRUE /\ users'[u].mustChangePassword # TRUE =>
            AtStep("serving") /\ ~users'[u].defaultPassword
  /\ readSchemaVersion > CURRENT_SCHEMA_VERSION => UNCHANGED <<documents, collections>>
  ]_vars

(* A start is tried again, and each of its calls to the database ends. *)
FairSpec == Spec /\ WF_vars(StartStep)

(* Whatever was interrupted, the server is up in the end, unless the       *)
(* database is that of a newer binary, or a release build finds what a     *)
(* crash between the creation of two collections left behind.              *)
EventuallyServes ==
  <>(AtStep("serving") \/ readSchemaVersion > CURRENT_SCHEMA_VERSION \/ (~debug /\ Unrecognised))
=============================================================================
