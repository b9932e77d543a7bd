---------------------------- MODULE StartupProofs ----------------------------
(***************************************************************************)
(* Proofs about StartupProperties, for any database a start may find, any  *)
(* number of projects, users and failures.  A start is a long sequence of  *)
(* writes, each of which may be the last: the invariant says what every    *)
(* step of it can rely on, and what the next start finds.                  *)
(***************************************************************************)
EXTENDS StartupProperties, TLAPS

(* The steps of a start, each with those behind it in the migration.       *)
PastChanges == {"writeSchema", "serving"}
PastBranches == {"changes"} \cup PastChanges
PastDefaults == {"owningProjects"} \cup PastBranches
PastFlags == {"passwords", "defaults"} \cup PastDefaults
PastGroups == {"flags"} \cup PastFlags
PastRoles == {"groups"} \cup PastGroups
PastLibraries == {"roles"} \cup PastRoles

Adding == {"addBranches", "addCommits", "addDataVersions", "addElements"}
Empties == {"drop", "create", "addVersion", "addProjects"}
Steps == {"down", "migrate", "libraries"} \cup PastLibraries \cup Adding \cup Empties

-----------------------------------------------------------------------------
(* What is left of the database of a step that finds no documents, and of  *)
(* one that is not recognised.                                             *)
NoneStored ==
  /\ schema = Null
  /\ Stored(projects) = {} /\ Stored(branches) = {}
  /\ Stored(commits) = {} /\ Stored(users) = {}
  /\ dataVersions = {} /\ elements = {}

(* A library project, and no other, is preloaded and without an owner; an  *)
(* id says for which data version it was drawn.                            *)
Provenance ==
  /\ \A p \in Stored(projects) : /\ projects[p].preloaded <=> p \in Library
                                 /\ p \in Library => ~projects[p].owned
                                 /\ projects[p].isLibrary => p \in Library
  /\ \A c \in Stored(commits) :
       /\ DOMAIN commits[c] \subseteq 1..2
       /\ \A i \in DOMAIN commits[c] :
            commits[c][i].id \in VersionIds =>
              commits[c][i].id[1] = c /\ commits[c][i].id[2] = i

(* Which step finds what: the documents are written in this order, the     *)
(* version of the schema last.                                             *)
Order ==
  /\ step \in Steps
  /\ step = "create" => 10 \in todo /\ todo \subseteq DOMAIN CollectionNames
  /\ step \notin {"down", "drop", "create"} => "versions" \in collections
  /\ step \in Empties \/ "versions" \notin collections => NoneStored
  /\ step \in Adding => /\ schema = Null /\ Stored(users) = {}
                        /\ Library \subseteq Stored(projects)
  /\ step = "addBranches" => Stored(branches) = {}
  /\ step \in {"addBranches", "addCommits"} => Stored(commits) = {}
  /\ step \in Adding \ {"addBranches"} => Library \subseteq Stored(branches)
  /\ step \in {"addDataVersions", "addElements"} => Library \subseteq Stored(commits)
  /\ step \in {"addBranches", "addCommits", "addDataVersions"} => dataVersions = {}
  /\ step \in Adding => elements = {}
  /\ step = "addElements" => dataVersions = Library
  /\ schema \in {Null, 2, 3, 4}
  /\ step = "serving" => schema = 3
  /\ step \notin {"down", "migrate", "serving"} => schema \in {Null, 2}

(* What the documents refer to, by their names.                            *)
References ==
  /\ \A p \in Stored(projects) : projects[p].defaultBranch = p
  /\ \A b \in Stored(branches) :
       IF b \in Library THEN branches[b].head = b
       ELSE branches[b].head = Null \/ (branches[b].head = b /\ b \in Stored(commits))

(* The order of WrittenInOrder.                                            *)
Chain ==
  /\ elements \subseteq dataVersions /\ dataVersions \subseteq Stored(commits)
  /\ Stored(commits) \subseteq Stored(branches) \cap Stored(projects)
  /\ Stored(branches) \cap Library \subseteq Stored(projects)
  /\ Stored(projects) \ Library \subseteq Stored(branches)

NothingFailed ==
  failures = 0 =>
    /\ step = "create" => \A i \in todo : CollectionNames[i] \notin collections
    /\ step \notin Empties \cup Adding /\ "versions" \in collections =>
         Library \subseteq elements \/ schema = 4

-----------------------------------------------------------------------------
(* CurrentForm in its parts, each the work of one step of the migration.   *)
ProjectsForm == \A p \in Stored(projects) : projects[p].isLibrary <=> p \in Library
RolesForm == \A u \in Stored(users) : users[u].role \in Roles
GroupsForm == \A u \in Stored(users) : users[u].group # Null
FlagsForm == \A u \in Stored(users) : users[u].mustChangePassword # Null
DefaultFlagged(u) == users[u].defaultPassword => users[u].mustChangePassword = TRUE
DefaultsForm == \A u \in Stored(users) : DefaultFlagged(u)
BranchesForm == \A b \in Stored(branches) : branches[b].owningProject
Complete(c) ==
  \A i \in DOMAIN commits[c] :
    /\ commits[c][i].id \in VersionIds /\ commits[c][i].commit
    /\ commits[c][i].hasPayloadId => commits[c][i].identity
CommitsForm == \A c \in Stored(commits) : Complete(c)

(* Where the migration is, the parts behind it are done, and the loop it   *)
(* is in has only the documents of todo left.                              *)
Progress ==
  /\ step \in PastLibraries \cup Adding \/ schema \in {2, 3} => ProjectsForm
  /\ step \in PastRoles \/ schema \in {2, 3} => RolesForm
  /\ step \in PastGroups \/ schema \in {2, 3} => GroupsForm
  /\ step \in PastFlags \/ schema \in {2, 3} => FlagsForm
  /\ step = "defaults" =>
       todo \subseteq Stored(users) /\ \A u \in Stored(users) : DefaultFlagged(u) \/ u \in todo
  /\ step \in PastDefaults \/ schema \in {2, 3} => DefaultsForm
  /\ step = "owningProjects" =>
       /\ todo \subseteq Stored(branches)
       /\ \A b \in Stored(branches) : branches[b].owningProject \/ b \in todo
  /\ step \in PastBranches \cup Adding \/ schema = 3 => BranchesForm
  /\ step = "changes" =>
       todo \subseteq Stored(commits) /\ \A c \in Stored(commits) : Complete(c) \/ c \in todo
  /\ step \in PastChanges \cup Adding \/ schema = 3 => CommitsForm
  /\ step = "serving" => todo \subseteq Stored(branches)

StartupInv == TypeOK /\ Provenance /\ References /\ Order /\ Chain /\ NothingFailed /\ Progress

-----------------------------------------------------------------------------
(* How a write and the step it belongs to may end.                         *)
Crash == /\ step' = "down" /\ todo' = {}
         /\ failures' = failures + 1 /\ failures < MaxFailures

LEMMA AfterOf ==
  ASSUME NEW o \in DbOutcomes, NEW s, NEW rest, After(o, s, rest)
  PROVE  \/ Reported(o) /\ Applied(o) /\ step' = s /\ todo' = rest /\ failures' = failures
         \/ ~Reported(o) /\ Crash
  BY DEF After, Fail, Exit, Crash, Reported, Applied

LEMMA ReachedOf ==
  ASSUME NEW o \in DbOutcomes, NEW D, NEW reached \in Reached(o, D)
  PROVE  reached \subseteq D /\ (Reported(o) => reached = D)
<1>1. CASE Reported(o)
  BY <1>1, Zenon DEF Reached, Reported, Applied
<1>2. CASE ~Applied(o)
  BY <1>2 DEF Reached, Reported, Applied
<1>3. CASE ~Reported(o) /\ Applied(o)
  BY <1>3 DEF Reached
<1> QED  BY <1>1, <1>2, <1>3

(* The least element of a set of places.                                   *)
LEMMA MinOf ==
  ASSUME NEW S \in SUBSET (1..10), S # {}
  PROVE  Min(S) \in S /\ \A i \in S : Min(S) <= i
<1>1. \E i \in S : \A j \in S : i <= j
  <2> SUFFICES ASSUME \A i \in S : \E j \in S : j < i PROVE FALSE
    OBVIOUS
  <2>1. 1 \notin S  OBVIOUS
  <2>2. 2 \notin S  BY <2>1
  <2>3. 3 \notin S  BY <2>1, <2>2
  <2>4. 4 \notin S  BY <2>1, <2>2, <2>3
  <2>5. 5 \notin S  BY <2>1, <2>2, <2>3, <2>4
  <2>6. 6 \notin S  BY <2>1, <2>2, <2>3, <2>4, <2>5
  <2>7. 7 \notin S  BY <2>1, <2>2, <2>3, <2>4, <2>5, <2>6
  <2>8. 8 \notin S  BY <2>1, <2>2, <2>3, <2>4, <2>5, <2>6, <2>7
  <2>9. 9 \notin S  BY <2>1, <2>2, <2>3, <2>4, <2>5, <2>6, <2>7, <2>8
  <2>10. 10 \notin S  BY <2>1, <2>2, <2>3, <2>4, <2>5, <2>6, <2>7, <2>8, <2>9
  <2>11. PICK i \in S : TRUE  OBVIOUS
  <2>12. i \in 1..10  OBVIOUS
  <2> QED  BY <2>1, <2>2, <2>3, <2>4, <2>5, <2>6, <2>7, <2>8, <2>9, <2>10, <2>11, <2>12
<1> QED  BY <1>1 DEF Min

LEMMA CollectionsInOrder ==
  /\ DOMAIN CollectionNames = 1..10 /\ Len(CollectionNames) = 10
  /\ \A i \in 1..10 : /\ CollectionNames[i] \in Range(CollectionNames)
                      /\ CollectionNames[i] = "versions" <=> i = 10
  /\ \A i, j \in 1..10 : CollectionNames[i] = CollectionNames[j] => i = j
<1>1. DOMAIN CollectionNames = 1..10 /\ Len(CollectionNames) = 10
  BY DEF CollectionNames
<1>2. \A i \in 1..10 : CollectionNames[i] \in Range(CollectionNames)
  BY <1>1 DEF Range
<1>3. \A i \in 1..10 : CollectionNames[i] = "versions" <=> i = 10
  BY DEF CollectionNames
<1>4. \A i, j \in 1..10 : CollectionNames[i] = CollectionNames[j] => i = j
  BY DEF CollectionNames
<1> QED  BY <1>1, <1>2, <1>3, <1>4

(* What a step says of a collection it does not write stays true.          *)
LEMMA SameProjects ==
  ASSUME UNCHANGED projects
  PROVE  Stored(projects)' = Stored(projects) /\ (ProjectsForm' <=> ProjectsForm)
  BY DEF Stored, ProjectsForm
LEMMA SameBranches ==
  ASSUME UNCHANGED branches
  PROVE  Stored(branches)' = Stored(branches) /\ (BranchesForm' <=> BranchesForm)
  BY DEF Stored, BranchesForm
LEMMA SameCommits ==
  ASSUME UNCHANGED commits
  PROVE  /\ Stored(commits)' = Stored(commits) /\ (CommitsForm' <=> CommitsForm)
         /\ \A c : Complete(c)' <=> Complete(c)
  BY DEF Stored, CommitsForm, Complete
LEMMA SameUsers ==
  ASSUME UNCHANGED users
  PROVE  /\ Stored(users)' = Stored(users) /\ (RolesForm' <=> RolesForm)
         /\ (GroupsForm' <=> GroupsForm) /\ (FlagsForm' <=> FlagsForm)
         /\ (DefaultsForm' <=> DefaultsForm)
         /\ \A u : DefaultFlagged(u)' <=> DefaultFlagged(u)
  BY DEF Stored, RolesForm, GroupsForm, FlagsForm, DefaultsForm, DefaultFlagged

(* Documents that keep their references, and more commits to refer to.     *)
LEMMA SameReferences ==
  ASSUME References, Stored(projects)' = Stored(projects), Stored(branches)' = Stored(branches),
         Stored(commits) \subseteq Stored(commits)',
         \A p \in Stored(projects) : projects'[p].defaultBranch = projects[p].defaultBranch,
         \A b \in Stored(branches) : branches'[b].head = branches[b].head
  PROVE  References'
  BY DEF References

-----------------------------------------------------------------------------
(* NothingOverwritten of a step.                                           *)
Kept ==
  /\ \A p \in Stored(projects) :
       /\ projects'[p] # Null /\ projects'[p].owned = projects[p].owned
       /\ projects'[p].defaultBranch = projects[p].defaultBranch
  /\ \A b \in Stored(branches) :
       /\ branches'[b] # Null
       /\ branches[b].head # Null => branches'[b].head = branches[b].head
  /\ \A c \in Stored(commits) :
       /\ commits'[c] # Null /\ DOMAIN commits'[c] = DOMAIN commits[c]
       /\ \A i \in DOMAIN commits[c] :
            commits[c][i].id \in VersionIds => commits'[c][i].id = commits[c][i].id
  /\ \A u \in Stored(users) :
       /\ users'[u] # Null
       /\ users[u].role \in Roles => users'[u].role = users[u].role
       /\ users[u].group # Null => users'[u].group = users[u].group
       /\ users[u].mustChangePassword = TRUE /\ users'[u].mustChangePassword # TRUE =>
            AtStep("serving") /\ ~users'[u].defaultPassword
  /\ readSchemaVersion > CURRENT_SCHEMA_VERSION => UNCHANGED <<documents, collections>>

LEMMA NullSchema == Null # 1 /\ Null # 2 /\ Null # 3 /\ Null # 4
<1>1. Null \notin 1..CURRENT_SCHEMA_VERSION + 1
  BY AbsenceAssumption
<1> QED  BY <1>1 DEF CURRENT_SCHEMA_VERSION

LEMMA AbsentFlag == Null # TRUE /\ Null # FALSE
  BY AbsenceAssumption

(* The database of a newer binary is recognised by its schema.             *)
LEMMA NewerSchema ==
  ASSUME Order
  PROVE  readSchemaVersion > CURRENT_SCHEMA_VERSION <=> schema = 4
  BY NullSchema DEF Order, readSchemaVersion, CURRENT_SCHEMA_VERSION

(* A step that writes no document has to find its place in the order.      *)
LEMMA QuietStep ==
  ASSUME StartupInv, UNCHANGED <<documents, dataVersions, elements>>,
         collections' \subseteq Range(CollectionNames),
         todo' \subseteq ProjectIds \cup Usernames \cup DOMAIN CollectionNames,
         failures' \in 0..MaxFailures,
         schema = 4 => UNCHANGED collections,
         Order', NothingFailed', Progress'
  PROVE  StartupInv' /\ Kept
<1>1. TypeOK'
  BY DEF StartupInv, TypeOK, documents
<1>2. Provenance' /\ References'
  BY DEF StartupInv, Provenance, References, documents, Stored
<1>3. Chain'
  BY DEF StartupInv, Chain, documents, Stored
<1>4. Kept
  BY NewerSchema DEF StartupInv, Kept, documents, Stored
<1> QED  BY <1>1, <1>2, <1>3, <1>4 DEF StartupInv

(* So does a crash, after a write that may or may not have happened.       *)
LEMMA CrashedProgress ==
  ASSUME Crash, schema' \notin {2, 3}
  PROVE  Progress'
  BY DEF Crash, Progress, PastLibraries, PastRoles, PastGroups, PastFlags, PastDefaults,
         PastBranches, PastChanges, Adding

LEMMA StartStays ==
  ASSUME StartupInv, Start
  PROVE  StartupInv' /\ Kept
<1>1. /\ step = "down" /\ UNCHANGED <<documents, collections, dataVersions, elements, failures>>
      /\ \/ collections = {} /\ step' = "create" /\ todo' = 1..10
         \/ "versions" \in collections /\ step' = "migrate" /\ todo' = {}
         \/ "versions" \notin collections /\ step' = "drop" /\ todo' = {}
  BY CollectionsInOrder DEF Start, AtStep, GoTo
<1>2. Order'
  BY <1>1, CollectionsInOrder, SameProjects, SameBranches, SameCommits, SameUsers
  DEF StartupInv, Order, NoneStored, documents, Adding, Empties, Steps
<1>3. NothingFailed'
  BY <1>1 DEF StartupInv, NothingFailed, documents, Adding, Empties
<1>4. Progress'
  BY <1>1, SameProjects, SameBranches, SameCommits, SameUsers
  DEF StartupInv, Progress, documents, PastLibraries, PastRoles, PastGroups, PastFlags,
      PastDefaults, PastBranches, PastChanges, Adding
<1> QED
  BY <1>1, <1>2, <1>3, <1>4, QuietStep, CollectionsInOrder DEF StartupInv, TypeOK

LEMMA DropStays ==
  ASSUME StartupInv, DropDatabase
  PROVE  StartupInv' /\ Kept
<1>1. PICK o \in DbOutcomes :
        /\ collections' = IF Applied(o) THEN {} ELSE collections
        /\ IF Reported(o) THEN UNCHANGED failures
           ELSE failures < MaxFailures /\ failures' = failures + 1
  BY DEF DropDatabase
<1>2. /\ step = "drop" /\ step' = "create" /\ todo' = 1..10
      /\ UNCHANGED <<documents, dataVersions, elements>>
      /\ collections' \in {{}, collections} /\ failures' \in 0..MaxFailures
      /\ failures' = 0 => collections' = {}
  BY <1>1, CollectionsInOrder, MigratorAssumption
  DEF DropDatabase, AtStep, StartupInv, TypeOK, Reported, Applied
<1>3. NoneStored /\ schema = Null
  BY <1>2 DEF StartupInv, Order, Empties, NoneStored
<1>4. NoneStored'
  BY <1>2, <1>3, SameProjects, SameBranches, SameCommits, SameUsers DEF NoneStored, documents
<1>5. Order'
  BY <1>2, <1>4, CollectionsInOrder, NullSchema
  DEF StartupInv, Order, NoneStored, Adding, Empties, Steps, documents
<1>6. NothingFailed'
  BY <1>2 DEF NothingFailed, Empties
<1>7. Progress'
  BY <1>2, <1>3, NullSchema, SameProjects, SameBranches, SameCommits, SameUsers
  DEF StartupInv, Progress, documents, PastLibraries, PastRoles, PastGroups, PastFlags,
      PastDefaults, PastBranches, PastChanges, Adding, CURRENT_SCHEMA_VERSION
<1>8. schema # 4
  BY <1>3, NullSchema
<1> QED
  BY <1>2, <1>5, <1>6, <1>7, <1>8, QuietStep, CollectionsInOrder DEF StartupInv, TypeOK
LEMMA CreateStays ==
  ASSUME StartupInv, CreateCollection
  PROVE  StartupInv' /\ Kept
<1> DEFINE name == CollectionNames[Min(todo)]
<1>1. /\ step = "create" /\ 10 \in todo /\ todo \in SUBSET (1..10)
      /\ NoneStored /\ schema = Null
      /\ UNCHANGED <<documents, dataVersions, elements>>
  BY CollectionsInOrder
  DEF CreateCollection, AtStep, StartupInv, Order, Empties, NoneStored
<1>2. Min(todo) \in todo /\ \A i \in todo : Min(todo) <= i
  BY <1>1, MinOf
<1>3. NoneStored'
  BY <1>1, SameProjects, SameBranches, SameCommits, SameUsers DEF NoneStored, documents
<1>4. /\ collections' \subseteq Range(CollectionNames) /\ failures' \in 0..MaxFailures
      /\ \/ step' = "down" /\ todo' = {} /\ failures' = failures /\ failures # 0
         \/ Crash
         \/ /\ step' = "addVersion" /\ todo' = {} /\ failures' = failures
            /\ "versions" \in collections'
         \/ /\ step' = "create" /\ failures' = failures /\ name \notin collections
            /\ todo' = todo \ {Min(todo)} /\ 10 \in todo'
            /\ collections' = collections \cup {name}
  <2>1. CASE name \in collections /\ Exit /\ UNCHANGED <<collections, failures>>
    <3>1. failures # 0
      BY <1>1, <1>2, <2>1 DEF StartupInv, NothingFailed
    <3> QED  BY <2>1, <3>1 DEF Exit, StartupInv, TypeOK
  <2>2. ASSUME name \notin collections, NEW o \in DbOutcomes,
               collections' = IF Applied(o) THEN collections \cup {name} ELSE collections,
               IF todo = {Len(CollectionNames)}
               THEN After(o, "addVersion", {}) ELSE After(o, "create", todo \ {Min(todo)})
        PROVE  /\ collections' \subseteq Range(CollectionNames) /\ failures' \in 0..MaxFailures
               /\ \/ Crash
                  \/ /\ step' = "addVersion" /\ todo' = {} /\ failures' = failures
                     /\ "versions" \in collections'
                  \/ /\ step' = "create" /\ failures' = failures
                     /\ todo' = todo \ {Min(todo)} /\ 10 \in todo'
                     /\ collections' = collections \cup {name}
    <3>1. /\ collections' \subseteq Range(CollectionNames)
          /\ Reported(o) => collections' = collections \cup {name}
      BY <1>1, <1>2, <2>2, CollectionsInOrder DEF StartupInv, TypeOK, Reported, Applied
    <3>2. CASE todo = {10}
      <4>1. name = "versions"
        BY <1>2, <3>2, CollectionsInOrder
      <4>2. After(o, "addVersion", {})
        BY <2>2, <3>2, CollectionsInOrder
      <4> QED
        BY <3>1, <4>1, <4>2, AfterOf, MigratorAssumption DEF Crash, StartupInv, TypeOK
    <3>3. CASE todo # {10}
      <4>1. Min(todo) # 10
        <5>1. PICK i \in todo : i # 10
          BY <1>1, <3>3
        <5> QED  BY <1>1, <1>2, <5>1
      <4>2. After(o, "create", todo \ {Min(todo)})
        BY <2>2, <3>3, CollectionsInOrder
      <4> QED
        BY <1>1, <3>1, <4>1, <4>2, AfterOf, MigratorAssumption DEF Crash, StartupInv, TypeOK
    <3> QED  BY <3>2, <3>3
  <2> QED  BY <2>1, <2>2 DEF CreateCollection
<1> HIDE DEF name
<1>5. Order'
  BY <1>1, <1>3, <1>4, CollectionsInOrder, NullSchema
  DEF StartupInv, Order, NoneStored, Crash, Adding, Empties, Steps, documents
<1>6. NothingFailed'
  <2>1. CASE step' = "create"
    <3>1. name = CollectionNames[Min(todo)]
      BY DEF name
    <3>2. \A i \in todo' : i \in todo /\ i # Min(todo) /\ i \in 1..10
      BY <1>1, <1>4, <2>1 DEF Crash
    <3>3. \A i \in todo' : CollectionNames[i] # name
      BY <1>1, <1>2, <3>1, <3>2, CollectionsInOrder
    <3> QED  BY <1>1, <1>4, <2>1, <3>2, <3>3 DEF StartupInv, NothingFailed, Empties, Crash
  <2>2. CASE step' # "create"
    BY <1>4, <2>2 DEF StartupInv, TypeOK, NothingFailed, Empties, Crash
  <2> QED  BY <2>1, <2>2
<1>7. Progress'
  BY <1>1, <1>4, NullSchema, SameProjects, SameBranches, SameCommits, SameUsers
  DEF StartupInv, Progress, Crash, documents, PastLibraries, PastRoles, PastGroups, PastFlags,
      PastDefaults, PastBranches, PastChanges, Adding
<1>8. schema # 4
  BY <1>1, NullSchema
<1>9. todo' \subseteq 1..10
  BY <1>1, <1>4 DEF Crash
<1> QED
  BY <1>1, <1>4, <1>5, <1>6, <1>7, <1>8, <1>9, QuietStep, CollectionsInOrder

LEMMA VersionStays ==
  ASSUME StartupInv, addVersionToDatabase
  PROVE  StartupInv' /\ Kept
<1>1. /\ step = "addVersion" /\ NoneStored /\ schema = Null
      /\ UNCHANGED <<documents, collections, dataVersions, elements>>
  BY DEF addVersionToDatabase, AtStep, StartupInv, Order, Empties, NoneStored
<1>2. Crash \/ (step' = "addProjects" /\ todo' = {} /\ failures' = failures)
  BY AfterOf DEF addVersionToDatabase
<1>3. NoneStored'
  BY <1>1, SameProjects, SameBranches, SameCommits, SameUsers DEF NoneStored, documents
<1>4. Order'
  BY <1>1, <1>2, <1>3, NullSchema
  DEF StartupInv, Order, NoneStored, Crash, Adding, Empties, Steps, documents
<1>5. NothingFailed'
  BY <1>1, <1>2 DEF StartupInv, TypeOK, NothingFailed, Empties, Crash
<1>6. Progress'
  BY <1>1, <1>2, NullSchema, SameProjects, SameBranches, SameCommits, SameUsers
  DEF StartupInv, Progress, Crash, documents, PastLibraries, PastRoles, PastGroups, PastFlags,
      PastDefaults, PastBranches, PastChanges, Adding
<1> QED
  BY <1>1, <1>2, <1>4, <1>5, <1>6, NullSchema, QuietStep, MigratorAssumption
  DEF StartupInv, TypeOK, Crash

LEMMA KillStays ==
  ASSUME StartupInv, Kill
  PROVE  StartupInv' /\ Kept
<1>1. /\ Crash /\ UNCHANGED <<documents, collections, dataVersions, elements>>
  BY DEF Kill, Fail, Exit, Crash
<1>2. Order'
  BY <1>1, SameProjects, SameBranches, SameCommits, SameUsers
  DEF StartupInv, Order, NoneStored, Crash, Adding, Empties, Steps, documents
<1>3. NothingFailed'
  BY <1>1 DEF StartupInv, TypeOK, NothingFailed, Crash
<1>4. Progress'
  BY <1>1, SameProjects, SameBranches, SameCommits, SameUsers
  DEF StartupInv, Progress, Crash, documents, PastLibraries, PastRoles, PastGroups, PastFlags,
      PastDefaults, PastBranches, PastChanges, Adding
<1> QED
  BY <1>1, <1>2, <1>3, <1>4, QuietStep, MigratorAssumption DEF StartupInv, TypeOK, Crash
-----------------------------------------------------------------------------
(* The steps of the migration that only look for documents.                *)

(* From one step of the migration to another, what a new database or an    *)
(* earlier failure owes does not change.                                   *)
Migrating == {"migrate", "libraries"} \cup PastLibraries

LEMMA MigratingOn ==
  ASSUME StartupInv, step \in Migrating, step' \in Migrating \cup {"down"},
         UNCHANGED <<collections, dataVersions, elements, schema>>,
         Stored(projects)' = Stored(projects), Stored(branches)' = Stored(branches),
         Stored(commits)' = Stored(commits), Stored(users)' = Stored(users),
         step' \in {"down", "migrate"} \/ schema \in {Null, 2} \/ (step' = "serving" /\ schema = 3),
         step' = "serving" => schema = 3,
         failures' = failures \/ Crash
  PROVE  Order' /\ NothingFailed' /\ Chain'
<1> USE DEF Migrating, PastLibraries, PastRoles, PastGroups, PastFlags, PastDefaults,
            PastBranches, PastChanges, Adding, Empties, Crash
<1>1. Order'
  BY DEF StartupInv, Order, NoneStored, Steps
<1>2. NothingFailed'
  BY DEF StartupInv, NothingFailed, TypeOK
<1>3. Chain'
  BY DEF StartupInv, Chain
<1> QED  BY <1>1, <1>2, <1>3

LEMMA SearchStays ==
  ASSUME StartupInv, run \/ FindDefaults \/ FindBranches \/ FindCommits \/ FinishMigration,
         UNCHANGED <<collections, dataVersions, elements>>
  PROVE  StartupInv' /\ Kept
<1> DEFINE Defaults == {u \in Stored(users) : users[u].defaultPassword}
<1>1. /\ UNCHANGED <<documents, failures>> /\ step \in Migrating
      /\ \/ step = "migrate" /\ step' = "down" /\ todo' = {}
         \/ step = "migrate" /\ step' = "serving" /\ schema = 3 /\ todo' = {}
         \/ step = "migrate" /\ step' = "libraries" /\ schema = Null /\ todo' = {}
         \/ /\ step = "migrate" /\ step' = "owningProjects" /\ schema = 2
            /\ todo' = PendingBranches
         \/ step = "passwords" /\ step' = "defaults" /\ todo' = Defaults
         \/ /\ step = "defaults" /\ todo = {} /\ step' = "owningProjects"
            /\ todo' = PendingBranches
         \/ step = "owningProjects" /\ todo = {} /\ step' = "changes" /\ todo' = PendingCommits
         \/ step = "changes" /\ todo = {} /\ step' = "writeSchema" /\ todo' = {}
  <2>1. CASE run
    <3>1. schema \in {Null, 2, 3, 4}
      BY DEF StartupInv, Order
    <3>2. /\ schema = Null => readSchemaVersion = 1
          /\ schema # Null => readSchemaVersion = schema
      BY DEF readSchemaVersion
    <3> QED
      BY <2>1, <3>1, <3>2, NullSchema
      DEF run, AtStep, Exit, GoTo, FirstStep, CURRENT_SCHEMA_VERSION, Migrating
  <2>2. CASE FindDefaults
    BY <2>2 DEF FindDefaults, AtStep, Migrating, PastLibraries, PastRoles, PastGroups, PastFlags
  <2>3. CASE FindBranches
    BY <2>3 DEF FindBranches, AtStep, Migrating, PastLibraries, PastRoles, PastGroups, PastFlags
  <2>4. CASE FindCommits
    BY <2>4 DEF FindCommits, AtStep, Migrating, PastLibraries, PastRoles, PastGroups, PastFlags,
                PastDefaults
  <2>5. CASE FinishMigration
    BY <2>5 DEF FinishMigration, GoTo, AtStep, Migrating, PastLibraries, PastRoles, PastGroups,
                PastFlags, PastDefaults, PastBranches
  <2> QED  BY <2>1, <2>2, <2>3, <2>4, <2>5
<1>2. /\ Defaults \subseteq Usernames /\ PendingBranches \subseteq ProjectIds
      /\ PendingCommits \subseteq ProjectIds
      /\ Defaults \subseteq Stored(users) /\ PendingBranches \subseteq Stored(branches)
      /\ PendingCommits \subseteq Stored(commits)
  BY DEF PendingBranches, PendingCommits, Stored, StartupInv, TypeOK
<1>3. /\ \A u \in Stored(users) : DefaultFlagged(u) \/ u \in Defaults
      /\ \A b \in Stored(branches) : branches[b].owningProject \/ b \in PendingBranches
  BY DEF DefaultFlagged, PendingBranches
<1>4. \A c \in Stored(commits) : Complete(c) \/ c \in PendingCommits
  <2> SUFFICES ASSUME NEW c \in Stored(commits), c \notin PendingCommits,
                      NEW i \in DOMAIN commits[c]
               PROVE  /\ commits[c][i].id \in VersionIds /\ commits[c][i].commit
                      /\ commits[c][i].hasPayloadId => commits[c][i].identity
    BY DEF Complete
  <2>1. ~Incomplete(commits[c][i])
    BY DEF PendingCommits
  <2>2. commits[c][i] \in DataVersion
    BY DEF StartupInv, TypeOK, Stored
  <2> QED  BY <2>1, <2>2 DEF Incomplete, NeedsId, DataVersion
<1> HIDE DEF Defaults
<1>5. Order' /\ NothingFailed'
  <2>1. step' \in Migrating \cup {"down"}
    BY <1>1 DEF Migrating, PastLibraries, PastRoles, PastGroups, PastFlags, PastDefaults,
                PastBranches, PastChanges
  <2>2. /\ schema \in {Null, 2, 3, 4}
        /\ step \notin {"down", "migrate", "serving"} => schema \in {Null, 2}
    BY DEF StartupInv, Order
  <2> QED
    BY <1>1, <2>1, <2>2, MigratingOn, SameProjects, SameBranches, SameCommits, SameUsers
    DEF documents
<1>6. Progress'
  <2> USE DEF PastLibraries, PastRoles, PastGroups, PastFlags, PastDefaults, PastBranches,
              PastChanges, Adding
  <2>1. /\ Progress /\ schema' = schema /\ UNCHANGED projects /\ UNCHANGED branches
        /\ UNCHANGED commits /\ UNCHANGED users
    BY <1>1 DEF StartupInv, documents
  <2>2. /\ ProjectsForm' <=> ProjectsForm
        /\ BranchesForm' <=> BranchesForm
        /\ Stored(branches)' = Stored(branches) /\ branches' = branches
    BY <2>1, SameProjects, SameBranches
  <2>6. /\ RolesForm' <=> RolesForm
        /\ GroupsForm' <=> GroupsForm
        /\ FlagsForm' <=> FlagsForm
        /\ DefaultsForm' <=> DefaultsForm
        /\ Stored(users)' = Stored(users) /\ \A u : DefaultFlagged(u)' <=> DefaultFlagged(u)
    BY <2>1, SameUsers, Zenon
  <2>7. /\ CommitsForm' <=> CommitsForm
        /\ Stored(commits)' = Stored(commits) /\ \A c : Complete(c)' <=> Complete(c)
    BY <2>1, SameCommits, Zenon
  <2>3. step = "defaults" /\ todo = {} => DefaultsForm
    BY <2>1 DEF Progress, DefaultsForm
  <2>4. step = "owningProjects" /\ todo = {} => BranchesForm
    BY <2>1 DEF Progress, BranchesForm
  <2>5. step = "changes" /\ todo = {} => CommitsForm
    BY <2>1 DEF Progress, CommitsForm
  <2> QED
    BY <1>1, <1>2, <1>3, <1>4, <2>1, <2>2, <2>3, <2>4, <2>5, <2>6, <2>7,
       NullSchema, SMTT(60) DEF Progress
<1> QED
  BY <1>1, <1>2, <1>5, <1>6, QuietStep DEF StartupInv, TypeOK
-----------------------------------------------------------------------------
(* The steps of the migration that write documents.                        *)
Loops == ({"libraries"} \cup PastLibraries) \ {"serving"}

(* Such a step changes documents and adds none: what it has to show is     *)
(* that they keep their form, and its place in the order.                  *)
LEMMA LoopStep ==
  ASSUME StartupInv, step \in Loops, step' \in Loops \cup {"down"},
         UNCHANGED <<collections, dataVersions, elements, schema>>,
         Stored(projects)' = Stored(projects), Stored(branches)' = Stored(branches),
         Stored(commits)' = Stored(commits), Stored(users)' = Stored(users),
         projects' \in [ProjectIds -> Project \cup {Null}],
         branches' \in [ProjectIds -> Branch \cup {Null}],
         commits' \in [ProjectIds -> {Null} \cup Seq(DataVersion)],
         users' \in [Usernames -> User \cup {Null}],
         todo' \subseteq todo, failures' = failures \/ Crash,
         Provenance', Progress',
         \A p \in Stored(projects) :
           /\ projects'[p].owned = projects[p].owned
           /\ projects'[p].defaultBranch = projects[p].defaultBranch,
         \A b \in Stored(branches) : branches'[b].head = branches[b].head,
         \A c \in Stored(commits) :
           /\ DOMAIN commits'[c] = DOMAIN commits[c]
           /\ \A i \in DOMAIN commits[c] :
                commits[c][i].id \in VersionIds => commits'[c][i].id = commits[c][i].id,
         \A u \in Stored(users) :
           /\ users[u].role \in Roles => users'[u].role = users[u].role
           /\ users[u].group # Null => users'[u].group = users[u].group
           /\ users[u].mustChangePassword = TRUE => users'[u].mustChangePassword = TRUE
  PROVE  StartupInv' /\ Kept
<1> USE DEF Migrating, Loops, PastLibraries, PastRoles, PastGroups, PastFlags, PastDefaults,
            PastBranches, PastChanges
<1>1. schema \in {Null, 2}
  BY DEF StartupInv, Order
<1>2. Order' /\ NothingFailed' /\ Chain'
  BY <1>1, MigratingOn
<1>3. TypeOK'
  BY MigratorAssumption DEF StartupInv, TypeOK, Crash
<1>5. References'
  BY SameReferences DEF StartupInv
<1>4. Kept
  <2>1. ~(readSchemaVersion > CURRENT_SCHEMA_VERSION)
    BY <1>1, NullSchema, NewerSchema DEF StartupInv
  <2>2. \A p \in Stored(projects) : projects'[p] # Null
    BY DEF Stored
  <2>3. \A c \in Stored(commits) : commits'[c] # Null
    BY DEF Stored
  <2>4. \A u \in Stored(users) : users'[u] # Null
    BY DEF Stored
  <2>5. \A b \in Stored(branches) : branches'[b] # Null
    BY DEF Stored
  <2> QED  BY <2>1, <2>2, <2>3, <2>4, <2>5 DEF Kept
<1> QED  BY <1>2, <1>3, <1>4, <1>5 DEF StartupInv

(* A crash in the middle leaves the forms that an older schema has already. *)
LEMMA LoopCrashed ==
  ASSUME Crash, schema' \in {Null, 2},
         schema' = 2 => ProjectsForm' /\ RolesForm' /\ GroupsForm' /\ FlagsForm' /\ DefaultsForm'
  PROVE  Progress'
  BY NullSchema DEF Progress, Crash, PastLibraries, PastRoles, PastGroups, PastFlags, PastDefaults,
     PastBranches, PastChanges, Adding

LEMMA FlagLibrariesStays ==
  ASSUME StartupInv, FlagLibraries, UNCHANGED <<collections, dataVersions, elements>>
  PROVE  StartupInv' /\ Kept
<1> DEFINE D == {p \in Stored(projects) : projects[p].preloaded /\ ~projects[p].owned}
<1>0. PICK o \in DbOutcomes :
        /\ UpdateMany(o, projects, D, LAMBDA d : [d EXCEPT !.isLibrary = TRUE])
        /\ After(o, "roles", {})
  BY DEF FlagLibraries
<1>1. PICK reached \in Reached(o, D) :
        /\ projects' = [p \in DOMAIN projects |->
                          IF p \in reached THEN [projects[p] EXCEPT !.isLibrary = TRUE]
                          ELSE projects[p]]
        /\ After(o, "roles", {})
  BY <1>0 DEF UpdateMany
<1>2. /\ step = "libraries" /\ schema \in {Null, 2}
      /\ UNCHANGED schema /\ UNCHANGED branches /\ UNCHANGED commits /\ UNCHANGED users
  BY DEF FlagLibraries, AtStep, StartupInv, Order
<1>3. \A p \in Stored(projects) : p \in ProjectIds /\ projects[p] \in Project
  BY DEF Stored, StartupInv, TypeOK
<1>4. D = Stored(projects) \cap Library
  BY <1>3 DEF StartupInv, Provenance, Project
<1> HIDE DEF D
<1>5. reached \subseteq D /\ (Reported(o) => reached = D)
  BY ReachedOf
<1>6. \A p \in Stored(projects) :
        /\ projects'[p] \in Project
        /\ projects'[p].preloaded = projects[p].preloaded
        /\ projects'[p].owned = projects[p].owned
        /\ projects'[p].defaultBranch = projects[p].defaultBranch
        /\ projects'[p].isLibrary = (projects[p].isLibrary \/ p \in reached)
  BY <1>1, <1>3 DEF StartupInv, TypeOK, Project
<1>7. /\ projects' \in [ProjectIds -> Project \cup {Null}]
      /\ Stored(projects)' = Stored(projects)
  <2>1. \A p \in ProjectIds : p \notin Stored(projects) => projects'[p] = Null
    BY <1>1, <1>4, <1>5 DEF Stored, StartupInv, TypeOK
  <2>2. projects' = [p \in ProjectIds |-> projects'[p]]
    BY <1>1 DEF StartupInv, TypeOK
  <2>3. projects' \in [ProjectIds -> Project \cup {Null}]
    BY <1>6, <2>1, <2>2
  <2>4. \A p \in Stored(projects) : projects'[p] # Null
    BY <1>6, AbsenceAssumption
  <2> QED  BY <1>3, <2>1, <2>3, <2>4 DEF Stored
<1>8. Provenance'
  BY <1>2, <1>4, <1>5, <1>6, <1>7, SameCommits DEF StartupInv, Provenance
<1>9. Progress'
  <2>1. /\ RolesForm' <=> RolesForm
        /\ GroupsForm' <=> GroupsForm
        /\ FlagsForm' <=> FlagsForm
        /\ DefaultsForm' <=> DefaultsForm
    BY <1>2, SameUsers, Zenon
  <2>2. schema = 2 => ProjectsForm /\ RolesForm /\ GroupsForm /\ FlagsForm /\ DefaultsForm
    BY DEF StartupInv, Progress
  <2>3. ProjectsForm => ProjectsForm'
    BY <1>4, <1>5, <1>6, <1>7 DEF ProjectsForm
  <2>4. CASE Crash
    BY <1>2, <2>1, <2>2, <2>3, <2>4, LoopCrashed
  <2>5. CASE Reported(o) /\ step' = "roles"
    <3>1. ProjectsForm'
      BY <1>4, <1>5, <1>6, <1>7, <2>5 DEF ProjectsForm, StartupInv, Provenance
    <3> QED
      BY <1>2, <2>1, <2>2, <2>5, <3>1, NullSchema
      DEF Progress, PastLibraries, PastRoles, PastGroups, PastFlags, PastDefaults, PastBranches,
          PastChanges, Adding
  <2> QED  BY <1>1, <2>4, <2>5, AfterOf
<1>10. step' \in {"roles", "down"} /\ todo' = {} /\ (failures' = failures \/ Crash)
  BY <1>1, AfterOf DEF Crash
<1>11. /\ Stored(branches)' = Stored(branches) /\ Stored(commits)' = Stored(commits)
       /\ Stored(users)' = Stored(users)
  BY <1>2, SameBranches, SameCommits, SameUsers
<1> QED
  BY <1>2, <1>6, <1>7, <1>8, <1>9, <1>10, <1>11, LoopStep
  DEF Loops, PastLibraries, StartupInv, TypeOK
(* A statement on users repairs fields and breaks none.                    *)
Repaired(u) ==
  /\ users'[u] \in User
  /\ users'[u].defaultPassword = users[u].defaultPassword
  /\ users[u].role \in Roles => users'[u].role = users[u].role
  /\ users[u].group # Null => users'[u].group = users[u].group
  /\ users[u].mustChangePassword # Null => users'[u].mustChangePassword # Null
  /\ users[u].mustChangePassword = TRUE => users'[u].mustChangePassword = TRUE

LEMMA UsersWritten ==
  ASSUME StartupInv, step \in Loops, step' \in Loops \cup {"down"},
         UNCHANGED <<schema, projects, branches, commits, collections, dataVersions, elements>>,
         todo' \subseteq todo, failures' = failures \/ Crash,
         users' = [u \in Usernames |-> users'[u]],
         \A u \in Stored(users) : Repaired(u),
         \A u \in Usernames : u \notin Stored(users) => users'[u] = Null
  PROVE  /\ Stored(users)' = Stored(users)
         /\ RolesForm => RolesForm'
         /\ GroupsForm => GroupsForm'
         /\ FlagsForm => FlagsForm'
         /\ DefaultsForm => DefaultsForm'
         /\ Crash => Progress'
         /\ Progress' => StartupInv' /\ Kept
<1>1. users' \in [Usernames -> User \cup {Null}]
  BY DEF Repaired
<1>2. \A u \in Stored(users) : u \in Usernames /\ users'[u] # Null
  BY AbsenceAssumption DEF Repaired, Stored, StartupInv, TypeOK
<1>3. Stored(users)' = Stored(users)
  BY <1>1, <1>2 DEF Stored
<1>4. RolesForm => RolesForm'
  BY <1>3 DEF RolesForm, Repaired
<1>5. GroupsForm => GroupsForm'
  BY <1>3 DEF GroupsForm, Repaired
<1>6. FlagsForm => FlagsForm'
  BY <1>3 DEF FlagsForm, Repaired
<1>7. DefaultsForm => DefaultsForm'
  BY <1>3 DEF DefaultsForm, DefaultFlagged, Repaired
<1>8. ProjectsForm' <=> ProjectsForm
  BY SameProjects
<1>9. schema \in {Null, 2}
  BY DEF StartupInv, Order, Loops, PastLibraries, PastRoles, PastGroups, PastFlags, PastDefaults,
     PastBranches, PastChanges
<1>10. Crash => Progress'
  <2>1. schema = 2 => ProjectsForm /\ RolesForm /\ GroupsForm /\ FlagsForm /\ DefaultsForm
    BY DEF StartupInv, Progress
  <2> QED  BY <1>4, <1>5, <1>6, <1>7, <1>8, <1>9, <2>1, LoopCrashed
<1>11. Provenance'
  BY SameProjects, SameCommits DEF StartupInv, Provenance
<1>12. ASSUME Progress' PROVE StartupInv' /\ Kept
  <2>1. /\ Stored(branches)' = Stored(branches) /\ Stored(commits)' = Stored(commits)
        /\ Stored(projects)' = Stored(projects)
    BY SameBranches, SameCommits, SameProjects
  <2>2. /\ projects' \in [ProjectIds -> Project \cup {Null}]
        /\ branches' \in [ProjectIds -> Branch \cup {Null}]
        /\ commits' \in [ProjectIds -> {Null} \cup Seq(DataVersion)]
    BY DEF StartupInv, TypeOK
  <2>3. \A u \in Stored(users) :
           /\ users[u].role \in Roles => users'[u].role = users[u].role
           /\ users[u].group # Null => users'[u].group = users[u].group
           /\ users[u].mustChangePassword = TRUE => users'[u].mustChangePassword = TRUE
    BY DEF Repaired
  <2> QED  BY <1>1, <1>3, <1>11, <1>12, <2>1, <2>2, <2>3, LoopStep
<1> QED  BY <1>3, <1>4, <1>5, <1>6, <1>7, <1>10, <1>12

LEMMA FixRolesStays ==
  ASSUME StartupInv, FixRoles, UNCHANGED <<collections, dataVersions, elements>>
  PROVE  StartupInv' /\ Kept
<1> DEFINE D == {u \in Stored(users) : users[u].role \notin Roles}
<1>0. PICK o \in DbOutcomes :
        /\ UpdateMany(o, users, D, LAMBDA d : [d EXCEPT !.role = 0])
        /\ After(o, "groups", {})
  BY DEF FixRoles, FixUsers
<1>1. PICK reached \in Reached(o, D) :
        users' = [u \in DOMAIN users |->
                    IF u \in reached THEN [users[u] EXCEPT !.role = 0] ELSE users[u]]
  BY <1>0 DEF UpdateMany
<1>2. reached \subseteq D /\ (Reported(o) => reached = D)
  BY ReachedOf
<1>3. /\ step = "roles" /\ UNCHANGED <<schema, projects, branches, commits>>
      /\ users \in [Usernames -> User \cup {Null}]
  BY DEF FixRoles, FixUsers, AtStep, StartupInv, TypeOK
<1>4. \A u \in Stored(users) : u \in Usernames /\ users[u] \in User
  BY <1>3 DEF Stored
<1>5. \A u \in Stored(users) : Repaired(u) /\ (u \in reached => users'[u].role = 0)
  <2> SUFFICES ASSUME NEW u \in Stored(users)
               PROVE  Repaired(u) /\ (u \in reached => users'[u].role = 0)
    OBVIOUS
  <2>1. CASE u \notin reached
    BY <1>1, <1>3, <1>4, <2>1 DEF Repaired
  <2>2. CASE u \in reached
    <3>1. users[u].role \notin Roles /\ users'[u] = [users[u] EXCEPT !.role = 0]
      BY <1>1, <1>2, <1>3, <1>4, <2>2
    <3>2. 0 \in Roles
      BY DEF Roles
    <3> QED  BY <1>4, <3>1, <3>2 DEF Repaired, User
  <2> QED  BY <2>1, <2>2
<1>6. /\ users' = [u \in Usernames |-> users'[u]]
      /\ \A u \in Usernames : u \notin Stored(users) => users'[u] = Null
  BY <1>1, <1>2, <1>3 DEF Stored
<1>7. step' \in {"groups", "down"} /\ todo' = {} /\ (failures' = failures \/ Crash)
  BY <1>0, AfterOf DEF Crash
<1>8. /\ Stored(users)' = Stored(users)
      /\ GroupsForm => GroupsForm'
      /\ FlagsForm => FlagsForm'
      /\ DefaultsForm => DefaultsForm'
      /\ Crash => Progress'
      /\ Progress' => StartupInv' /\ Kept
  BY <1>3, <1>5, <1>6, <1>7, UsersWritten DEF Loops, PastLibraries, PastRoles
<1>9. CASE Reported(o) /\ step' = "groups"
  <2>1. RolesForm'
    BY <1>2, <1>5, <1>8, <1>9 DEF RolesForm, Repaired, Roles
  <2>2. /\ ProjectsForm /\ schema \in {Null, 2}
        /\ schema = 2 => GroupsForm /\ FlagsForm /\ DefaultsForm
    BY <1>3 DEF StartupInv, Progress, Order, PastLibraries
  <2>3. Progress'
    BY <1>3, <1>8, <1>9, <2>1, <2>2, SameProjects, NullSchema
    DEF Progress, PastLibraries, PastRoles, PastGroups, PastFlags, PastDefaults, PastBranches,
        PastChanges, Adding
  <2> QED  BY <1>8, <2>3
<1> QED  BY <1>0, <1>8, <1>9, AfterOf

LEMMA FixGroupsStays ==
  ASSUME StartupInv, FixGroups, UNCHANGED <<collections, dataVersions, elements>>
  PROVE  StartupInv' /\ Kept
<1> DEFINE D == {u \in Stored(users) : users[u].group = Null}
<1>0. PICK o \in DbOutcomes :
        /\ UpdateMany(o, users, D, LAMBDA d : [d EXCEPT !.group = ""])
        /\ After(o, "flags", {})
  BY DEF FixGroups, FixUsers
<1>1. PICK reached \in Reached(o, D) :
        users' = [u \in DOMAIN users |->
                    IF u \in reached THEN [users[u] EXCEPT !.group = ""] ELSE users[u]]
  BY <1>0 DEF UpdateMany
<1>2. reached \subseteq D /\ (Reported(o) => reached = D)
  BY ReachedOf
<1>3. /\ step = "groups" /\ UNCHANGED <<schema, projects, branches, commits>>
      /\ users \in [Usernames -> User \cup {Null}]
  BY DEF FixGroups, FixUsers, AtStep, StartupInv, TypeOK
<1>4. \A u \in Stored(users) : u \in Usernames /\ users[u] \in User
  BY <1>3 DEF Stored
<1>5. \A u \in Stored(users) : Repaired(u) /\ (u \in reached => users'[u].group = "")
  BY <1>1, <1>2, <1>3, <1>4 DEF Repaired, User
<1>6. /\ users' = [u \in Usernames |-> users'[u]]
      /\ \A u \in Usernames : u \notin Stored(users) => users'[u] = Null
  BY <1>1, <1>2, <1>3 DEF Stored
<1>7. step' \in {"flags", "down"} /\ todo' = {} /\ (failures' = failures \/ Crash)
  BY <1>0, AfterOf DEF Crash
<1>8. /\ Stored(users)' = Stored(users)
      /\ RolesForm => RolesForm'
      /\ FlagsForm => FlagsForm'
      /\ DefaultsForm => DefaultsForm'
      /\ Crash => Progress'
      /\ Progress' => StartupInv' /\ Kept
  BY <1>3, <1>5, <1>6, <1>7, UsersWritten DEF Loops, PastLibraries, PastRoles, PastGroups
<1>9. CASE Reported(o) /\ step' = "flags"
  <2>1. GroupsForm'
    BY <1>2, <1>5, <1>8, <1>9, AbsenceAssumption DEF GroupsForm, Repaired
  <2>2. /\ ProjectsForm /\ RolesForm /\ schema \in {Null, 2}
        /\ schema = 2 => FlagsForm /\ DefaultsForm
    BY <1>3 DEF StartupInv, Progress, Order, PastLibraries, PastRoles
  <2>3. Progress'
    BY <1>3, <1>8, <1>9, <2>1, <2>2, SameProjects, NullSchema
    DEF Progress, PastLibraries, PastRoles, PastGroups, PastFlags, PastDefaults, PastBranches,
        PastChanges, Adding
  <2> QED  BY <1>8, <2>3
<1> QED  BY <1>0, <1>8, <1>9, AfterOf

LEMMA FixFlagsStays ==
  ASSUME StartupInv, FixFlags, UNCHANGED <<collections, dataVersions, elements>>
  PROVE  StartupInv' /\ Kept
<1> DEFINE D == {u \in Stored(users) : users[u].mustChangePassword = Null}
<1>0. PICK o \in DbOutcomes :
        /\ UpdateMany(o, users, D, LAMBDA d : [d EXCEPT !.mustChangePassword = FALSE])
        /\ After(o, "passwords", {})
  BY DEF FixFlags, FixUsers
<1>1. PICK reached \in Reached(o, D) :
        users' = [u \in DOMAIN users |->
                    IF u \in reached
                    THEN [users[u] EXCEPT !.mustChangePassword = FALSE]
                    ELSE users[u]]
  BY <1>0 DEF UpdateMany
<1>2. reached \subseteq D /\ (Reported(o) => reached = D)
  BY ReachedOf
<1>3. /\ step = "flags" /\ UNCHANGED <<schema, projects, branches, commits>>
      /\ users \in [Usernames -> User \cup {Null}]
  BY DEF FixFlags, FixUsers, AtStep, StartupInv, TypeOK
<1>4. \A u \in Stored(users) : u \in Usernames /\ users[u] \in User
  BY <1>3 DEF Stored
<1>5. \A u \in Stored(users) : /\ Repaired(u)
                               /\ u \in reached => users'[u].mustChangePassword = FALSE
  <2> SUFFICES ASSUME NEW u \in Stored(users)
               PROVE  Repaired(u) /\ (u \in reached => users'[u].mustChangePassword = FALSE)
    OBVIOUS
  <2>1. CASE u \notin reached
    BY <1>1, <1>3, <1>4, <2>1 DEF Repaired
  <2>2. CASE u \in reached
    <3>1. /\ users[u].mustChangePassword = Null
          /\ users'[u] = [users[u] EXCEPT !.mustChangePassword = FALSE]
      BY <1>1, <1>2, <1>3, <1>4, <2>2
    <3> QED  BY <1>4, <3>1, AbsentFlag DEF Repaired, User
  <2> QED  BY <2>1, <2>2
<1>6. /\ users' = [u \in Usernames |-> users'[u]]
      /\ \A u \in Usernames : u \notin Stored(users) => users'[u] = Null
  BY <1>1, <1>2, <1>3 DEF Stored
<1>7. step' \in {"passwords", "down"} /\ todo' = {} /\ (failures' = failures \/ Crash)
  BY <1>0, AfterOf DEF Crash
<1>8. /\ Stored(users)' = Stored(users)
      /\ RolesForm => RolesForm'
      /\ GroupsForm => GroupsForm'
      /\ DefaultsForm => DefaultsForm'
      /\ Crash => Progress'
      /\ Progress' => StartupInv' /\ Kept
  BY <1>3, <1>5, <1>6, <1>7, UsersWritten DEF Loops, PastLibraries, PastRoles, PastGroups, PastFlags
<1>9. CASE Reported(o) /\ step' = "passwords"
  <2>1. FlagsForm'
    BY <1>2, <1>5, <1>8, <1>9, AbsentFlag DEF FlagsForm, Repaired
  <2>2. /\ ProjectsForm /\ RolesForm /\ GroupsForm /\ schema \in {Null, 2}
        /\ schema = 2 => DefaultsForm
    BY <1>3 DEF StartupInv, Progress, Order, PastLibraries, PastRoles, PastGroups
  <2>3. Progress'
    BY <1>3, <1>8, <1>9, <2>1, <2>2, SameProjects, NullSchema
    DEF Progress, PastLibraries, PastRoles, PastGroups, PastFlags, PastDefaults, PastBranches,
        PastChanges, Adding
  <2> QED  BY <1>8, <2>3
<1> QED  BY <1>0, <1>8, <1>9, AfterOf
LEMMA FlagDefaultStays ==
  ASSUME StartupInv, NEW v \in Usernames, FlagDefault(v),
         UNCHANGED <<collections, dataVersions, elements>>
  PROVE  StartupInv' /\ Kept
<1>1. PICK o \in DbOutcomes :
        /\ users' = IF Applied(o) THEN [users EXCEPT ![v].mustChangePassword = TRUE] ELSE users
        /\ After(o, "defaults", todo \ {v})
  BY DEF FlagDefault
<1>2. /\ step = "defaults" /\ v \in todo /\ UNCHANGED <<schema, projects, branches, commits>>
      /\ users \in [Usernames -> User \cup {Null}] /\ v \in Stored(users)
  BY DEF FlagDefault, AtStep, StartupInv, TypeOK, Progress
<1>3. \A u \in Stored(users) : u \in Usernames /\ users[u] \in User
  BY <1>2 DEF Stored
<1>4. \A u \in Stored(users) :
        Repaired(u) /\ (u = v /\ Applied(o) => users'[u].mustChangePassword = TRUE)
  <2> SUFFICES ASSUME NEW u \in Stored(users)
               PROVE  Repaired(u) /\ (u = v /\ Applied(o) => users'[u].mustChangePassword = TRUE)
    OBVIOUS
  <2>1. CASE u # v \/ ~Applied(o)
    BY <1>1, <1>2, <1>3, <2>1 DEF Repaired
  <2>2. CASE u = v /\ Applied(o)
    <3>1. users'[u] = [users[u] EXCEPT !.mustChangePassword = TRUE]
      BY <1>1, <1>2, <1>3, <2>2
    <3> QED  BY <1>3, <2>2, <3>1, AbsentFlag DEF Repaired, User
  <2> QED  BY <2>1, <2>2
<1>5. /\ users' = [u \in Usernames |-> users'[u]]
      /\ \A u \in Usernames : u \notin Stored(users) => users'[u] = Null
  BY <1>1, <1>2 DEF Stored
<1>6. step' \in {"defaults", "down"} /\ todo' \subseteq todo /\ (failures' = failures \/ Crash)
  BY <1>1, AfterOf DEF Crash
<1>7. /\ Stored(users)' = Stored(users)
      /\ RolesForm => RolesForm'
      /\ GroupsForm => GroupsForm'
      /\ FlagsForm => FlagsForm'
      /\ DefaultsForm => DefaultsForm'
      /\ Crash => Progress'
      /\ Progress' => StartupInv' /\ Kept
  BY <1>2, <1>4, <1>5, <1>6, UsersWritten
  DEF Loops, PastLibraries, PastRoles, PastGroups, PastFlags
<1>8. CASE Applied(o) /\ step' = "defaults" /\ todo' = todo \ {v}
  <2>1. \A u \in Stored(users) : DefaultFlagged(u)' \/ u \in todo'
    BY <1>2, <1>4, <1>8 DEF DefaultFlagged, Repaired, StartupInv, Progress
  <2>2. /\ ProjectsForm /\ RolesForm /\ GroupsForm /\ FlagsForm /\ (schema = 2 => DefaultsForm)
        /\ schema \in {Null, 2} /\ todo \subseteq Stored(users)
    BY <1>2 DEF StartupInv, Progress, Order, PastLibraries, PastRoles, PastGroups, PastFlags
  <2>3. Progress'
    BY <1>2, <1>7, <1>8, <2>1, <2>2, SameProjects, NullSchema
    DEF Progress, PastLibraries, PastRoles, PastGroups, PastFlags, PastDefaults, PastBranches,
        PastChanges, Adding
  <2> QED  BY <1>7, <2>3
<1> QED  BY <1>1, <1>7, <1>8, AfterOf

LEMMA OwningProjectStays ==
  ASSUME StartupInv, NEW v \in ProjectIds, SetOwningProject(v),
         UNCHANGED <<collections, dataVersions, elements>>
  PROVE  StartupInv' /\ Kept
<1>1. PICK o \in DbOutcomes :
        /\ branches' = IF Applied(o) THEN [branches EXCEPT ![v].owningProject = TRUE]
                       ELSE branches
        /\ After(o, "owningProjects", todo \ {v})
  BY DEF SetOwningProject
<1>2. /\ step = "owningProjects" /\ v \in todo
      /\ UNCHANGED schema /\ UNCHANGED projects /\ UNCHANGED commits /\ UNCHANGED users
      /\ branches \in [ProjectIds -> Branch \cup {Null}] /\ v \in Stored(branches)
  BY DEF SetOwningProject, AtStep, StartupInv, TypeOK, Progress
<1>3. \A b \in Stored(branches) : b \in ProjectIds /\ branches[b] \in Branch
  BY <1>2 DEF Stored
<1>4. \A b \in Stored(branches) :
        /\ branches'[b] \in Branch /\ branches'[b].head = branches[b].head
        /\ branches[b].owningProject => branches'[b].owningProject
        /\ b = v /\ Applied(o) => branches'[b].owningProject
  <2> SUFFICES ASSUME NEW b \in Stored(branches)
               PROVE  /\ branches'[b] \in Branch /\ branches'[b].head = branches[b].head
                      /\ branches[b].owningProject => branches'[b].owningProject
                      /\ b = v /\ Applied(o) => branches'[b].owningProject
    OBVIOUS
  <2>1. CASE b # v \/ ~Applied(o)
    BY <1>1, <1>2, <1>3, <2>1
  <2>2. CASE b = v /\ Applied(o)
    <3>1. branches'[b] = [branches[b] EXCEPT !.owningProject = TRUE]
      BY <1>1, <1>2, <1>3, <2>2
    <3> QED  BY <1>3, <3>1 DEF Branch
  <2> QED  BY <2>1, <2>2
<1>5. /\ branches' = [b \in ProjectIds |-> branches'[b]]
      /\ \A b \in ProjectIds : b \notin Stored(branches) => branches'[b] = Null
  BY <1>1, <1>2 DEF Stored
<1>6. /\ branches' \in [ProjectIds -> Branch \cup {Null}]
      /\ Stored(branches)' = Stored(branches)
  <2>1. branches' \in [ProjectIds -> Branch \cup {Null}]
    BY <1>4, <1>5
  <2>2. \A b \in Stored(branches) : branches'[b] # Null
    BY <1>4, AbsenceAssumption
  <2> QED  BY <1>3, <1>5, <2>1, <2>2 DEF Stored
<1>7. step' \in {"owningProjects", "down"} /\ todo' \subseteq todo
      /\ (failures' = failures \/ Crash)
  BY <1>1, AfterOf DEF Crash
<1>8. /\ ProjectsForm' /\ RolesForm' /\ GroupsForm' /\ FlagsForm' /\ DefaultsForm'
      /\ schema \in {Null, 2} /\ todo \subseteq Stored(branches)
  <2>1. /\ ProjectsForm /\ RolesForm /\ GroupsForm /\ FlagsForm /\ DefaultsForm
        /\ schema \in {Null, 2} /\ todo \subseteq Stored(branches)
    BY <1>2 DEF StartupInv, Progress, Order, PastLibraries, PastRoles, PastGroups, PastFlags,
                PastDefaults
  <2>2. /\ RolesForm' <=> RolesForm
        /\ GroupsForm' <=> GroupsForm
        /\ FlagsForm' <=> FlagsForm
        /\ DefaultsForm' <=> DefaultsForm
    BY <1>2, SameUsers, Zenon
  <2>3. ProjectsForm' <=> ProjectsForm
    BY <1>2, SameProjects
  <2> QED  BY <2>1, <2>2, <2>3
<1>9. Progress'
  <2>1. CASE Crash
    BY <1>2, <1>8, <2>1, LoopCrashed
  <2>2. CASE Applied(o) /\ step' = "owningProjects" /\ todo' = todo \ {v}
    <3>1. \A b \in Stored(branches) : branches'[b].owningProject \/ b \in todo'
      BY <1>2, <1>4, <2>2 DEF StartupInv, Progress
    <3> QED
      BY <1>2, <1>6, <1>8, <2>2, <3>1, NullSchema
      DEF Progress, PastLibraries, PastRoles, PastGroups, PastFlags, PastDefaults, PastBranches,
          PastChanges, Adding
  <2> QED  BY <1>1, <2>1, <2>2, AfterOf
<1>10. /\ Stored(projects)' = Stored(projects) /\ Stored(commits)' = Stored(commits)
       /\ Stored(users)' = Stored(users)
  BY <1>2, SameProjects, SameCommits, SameUsers
<1>11. Provenance'
  BY <1>2, SameProjects, SameCommits DEF StartupInv, Provenance
<1> QED
  BY <1>2, <1>4, <1>6, <1>7, <1>9, <1>10, <1>11, LoopStep
  DEF Loops, PastLibraries, PastRoles, PastGroups, PastFlags, PastDefaults, StartupInv, TypeOK
(* A completed data version: an id that was drawn for it is kept.          *)
LEMMA DrawnIds ==
  /\ \A c \in ProjectIds, i \in 1..2 :
       failures \in 0..MaxFailures =>
         Uuid(c, i) \in VersionIds /\ Uuid(c, i)[1] = c /\ Uuid(c, i)[2] = i
  /\ Null \notin VersionIds /\ PayloadId \notin VersionIds
<1>1. ASSUME NEW c \in ProjectIds, NEW i \in 1..2, failures \in 0..MaxFailures
      PROVE  Uuid(c, i) \in VersionIds /\ Uuid(c, i)[1] = c /\ Uuid(c, i)[2] = i
  BY <1>1 DEF Uuid, VersionIds
<1>2. Null \notin VersionIds
  BY AbsenceAssumption
<1>3. PayloadId \notin VersionIds
  BY DEF PayloadId, VersionIds
<1> QED  BY <1>1, <1>2, <1>3

LEMMA CompletedVersion ==
  ASSUME NEW v \in DataVersion, NEW id \in VersionIds
  PROVE  /\ Completed(v, id) \in DataVersion
         /\ Completed(v, id).id \in VersionIds
         /\ Completed(v, id).id = IF v.id \in VersionIds THEN v.id ELSE id
         /\ Completed(v, id).commit
         /\ Completed(v, id).hasPayloadId => Completed(v, id).identity
<1>1. NeedsId(v) <=> v.id \notin VersionIds
  BY DrawnIds DEF NeedsId, DataVersion
<1>2. PICK b \in BOOLEAN : b = (v.identity \/ v.hasPayloadId)
  OBVIOUS
<1>3. PICK j \in VersionIds : j = IF NeedsId(v) THEN id ELSE v.id
  BY <1>1
<1>4. Completed(v, id) = [v EXCEPT !.id = j, !.identity = b, !.commit = TRUE]
  BY <1>2, <1>3, Zenon DEF Completed
<1>5. /\ [v EXCEPT !.id = j, !.identity = b, !.commit = TRUE] \in DataVersion
      /\ [v EXCEPT !.id = j, !.identity = b, !.commit = TRUE].id = j
      /\ [v EXCEPT !.id = j, !.identity = b, !.commit = TRUE].identity = b
      /\ [v EXCEPT !.id = j, !.identity = b, !.commit = TRUE].commit = TRUE
      /\ [v EXCEPT !.id = j, !.identity = b, !.commit = TRUE].hasPayloadId = v.hasPayloadId
  BY DEF DataVersion
<1> QED  BY <1>1, <1>2, <1>3, <1>4, <1>5

LEMMA CompleteChangeStays ==
  ASSUME StartupInv, NEW v \in ProjectIds, CompleteChange(v),
         UNCHANGED <<collections, dataVersions, elements>>
  PROVE  StartupInv' /\ Kept
<1> DEFINE new == [i \in DOMAIN commits[v] |-> Completed(commits[v][i], Uuid(v, i))]
<1>1. PICK o \in DbOutcomes :
        /\ commits' = IF Applied(o) THEN [commits EXCEPT ![v] = new] ELSE commits
        /\ After(o, "changes", todo \ {v})
  BY DEF CompleteChange
<1>2. /\ step = "changes" /\ v \in todo
      /\ UNCHANGED schema /\ UNCHANGED projects /\ UNCHANGED branches /\ UNCHANGED users
      /\ commits \in [ProjectIds -> {Null} \cup Seq(DataVersion)] /\ v \in Stored(commits)
      /\ failures \in 0..MaxFailures
  BY DEF CompleteChange, AtStep, StartupInv, TypeOK, Progress
<1>3. \A c \in Stored(commits) :
        /\ c \in ProjectIds /\ commits[c] \in Seq(DataVersion) /\ DOMAIN commits[c] \subseteq 1..2
        /\ \A i \in DOMAIN commits[c] : commits[c][i] \in DataVersion
  BY <1>2 DEF Stored, StartupInv, Provenance
<1>4. /\ new \in Seq(DataVersion) /\ DOMAIN new = DOMAIN commits[v]
      /\ \A i \in DOMAIN new :
           /\ new[i].id \in VersionIds /\ new[i].commit
           /\ new[i].hasPayloadId => new[i].identity
           /\ new[i].id = IF commits[v][i].id \in VersionIds THEN commits[v][i].id
                          ELSE Uuid(v, i)
  <2>1. \A i \in DOMAIN commits[v] : Uuid(v, i) \in VersionIds /\ commits[v][i] \in DataVersion
    BY <1>2, <1>3, DrawnIds
  <2>2. \A i \in DOMAIN commits[v] : new[i] \in DataVersion
    BY <2>1, CompletedVersion
  <2>3. PICK n \in Nat : DOMAIN commits[v] = 1..n
    BY <1>2, <1>3
  <2>5. new \in [1..n -> DataVersion]
    BY <2>2, <2>3
  <2> HIDE DEF new
  <2>4. new \in Seq(DataVersion)
    BY <2>5
  <2> USE DEF new
  <2> QED  BY <2>1, <2>4, CompletedVersion
<1> HIDE DEF new
<1>5. \A c \in Stored(commits) :
        /\ commits'[c] \in Seq(DataVersion) /\ DOMAIN commits'[c] = DOMAIN commits[c]
        /\ c # v \/ ~Applied(o) => commits'[c] = commits[c]
        /\ c = v /\ Applied(o) => commits'[c] = new
  BY <1>1, <1>2, <1>3, <1>4
<1>6. /\ commits' \in [ProjectIds -> {Null} \cup Seq(DataVersion)]
      /\ Stored(commits)' = Stored(commits)
  <2>1. \A c \in ProjectIds : c \notin Stored(commits) => commits'[c] = Null
    BY <1>1, <1>2 DEF Stored
  <2>2. commits' = [c \in ProjectIds |-> commits'[c]]
    BY <1>1, <1>2
  <2>3. \A c \in Stored(commits) : commits'[c] # Null
    BY <1>5, AbsenceAssumption
  <2>4. commits' \in [ProjectIds -> {Null} \cup Seq(DataVersion)]
    BY <1>5, <2>1, <2>2
  <2> QED  BY <1>3, <2>1, <2>3, <2>4 DEF Stored
<1>7. \A c \in Stored(commits) : \A i \in DOMAIN commits[c] :
        /\ commits[c][i].id \in VersionIds => commits'[c][i].id = commits[c][i].id
        /\ commits'[c][i].id \in VersionIds =>
             commits'[c][i].id[1] = c /\ commits'[c][i].id[2] = i
  <2> SUFFICES ASSUME NEW c \in Stored(commits), NEW i \in DOMAIN commits[c]
               PROVE  /\ commits[c][i].id \in VersionIds => commits'[c][i].id = commits[c][i].id
                      /\ commits'[c][i].id \in VersionIds =>
                           commits'[c][i].id[1] = c /\ commits'[c][i].id[2] = i
    OBVIOUS
  <2>1. i \in 1..2 /\ c \in ProjectIds
    BY <1>3
  <2>2. commits[c][i].id \in VersionIds => commits[c][i].id[1] = c /\ commits[c][i].id[2] = i
    BY DEF StartupInv, Provenance
  <2>3. Uuid(c, i)[1] = c /\ Uuid(c, i)[2] = i
    BY <1>2, <2>1, DrawnIds
  <2>4. CASE c # v \/ ~Applied(o)
    BY <1>5, <2>2, <2>4
  <2>5. CASE c = v /\ Applied(o)
    BY <1>4, <1>5, <2>2, <2>3, <2>5
  <2> QED  BY <2>4, <2>5
<1>8. Provenance'
  <2>1. \A c \in Stored(commits) : DOMAIN commits'[c] = DOMAIN commits[c]
    BY <1>5
  <2> QED  BY <1>2, <1>6, <1>7, <2>1, SameProjects DEF StartupInv, Provenance
<1>9. step' \in {"changes", "down"} /\ todo' \subseteq todo /\ (failures' = failures \/ Crash)
  BY <1>1, AfterOf DEF Crash
<1>10. /\ ProjectsForm' /\ RolesForm' /\ GroupsForm' /\ FlagsForm' /\ DefaultsForm' /\ BranchesForm'
       /\ schema \in {Null, 2} /\ todo \subseteq Stored(commits)
  <2>1. /\ ProjectsForm /\ RolesForm /\ GroupsForm /\ FlagsForm /\ DefaultsForm /\ BranchesForm
        /\ schema \in {Null, 2} /\ todo \subseteq Stored(commits)
    BY <1>2 DEF StartupInv, Progress, Order, PastLibraries, PastRoles, PastGroups, PastFlags,
                PastDefaults, PastBranches
  <2>2. /\ RolesForm' <=> RolesForm
        /\ GroupsForm' <=> GroupsForm
        /\ FlagsForm' <=> FlagsForm
        /\ DefaultsForm' <=> DefaultsForm
    BY <1>2, SameUsers, Zenon
  <2>3. (ProjectsForm' <=> ProjectsForm) /\ (BranchesForm' <=> BranchesForm)
    BY <1>2, SameProjects, SameBranches
  <2> QED  BY <2>1, <2>2, <2>3
<1>11. Progress'
  <2>1. CASE Crash
    BY <1>2, <1>10, <2>1, LoopCrashed
  <2>2. CASE Applied(o) /\ step' = "changes" /\ todo' = todo \ {v}
    <3>1. \A c \in Stored(commits) : Complete(c)' \/ c \in todo'
      <4> SUFFICES ASSUME NEW c \in Stored(commits), c \notin todo' PROVE Complete(c)'
        OBVIOUS
      <4>1. CASE c = v
        BY <1>4, <1>5, <2>2, <4>1 DEF Complete
      <4>2. CASE c # v
        BY <1>2, <1>5, <2>2, <4>2 DEF Complete, StartupInv, Progress
      <4> QED  BY <4>1, <4>2
    <3> QED
      BY <1>2, <1>6, <1>10, <2>2, <3>1, NullSchema
      DEF Progress, PastLibraries, PastRoles, PastGroups, PastFlags, PastDefaults, PastBranches,
          PastChanges, Adding
  <2> QED  BY <1>1, <2>1, <2>2, AfterOf
<1>12. /\ Stored(projects)' = Stored(projects) /\ Stored(branches)' = Stored(branches)
       /\ Stored(users)' = Stored(users)
  BY <1>2, SameProjects, SameBranches, SameUsers
<1>13. /\ projects' \in [ProjectIds -> Project \cup {Null}]
       /\ branches' \in [ProjectIds -> Branch \cup {Null}]
       /\ users' \in [Usernames -> User \cup {Null}]
  BY <1>2 DEF StartupInv, TypeOK
<1>14. step \in Loops /\ step' \in Loops \cup {"down"}
  BY <1>2, <1>9
  DEF Loops, PastLibraries, PastRoles, PastGroups, PastFlags, PastDefaults, PastBranches
<1>15. \A c \in Stored(commits) :
         /\ DOMAIN commits'[c] = DOMAIN commits[c]
         /\ \A i \in DOMAIN commits[c] :
              commits[c][i].id \in VersionIds => commits'[c][i].id = commits[c][i].id
  BY <1>5, <1>7
<1> QED
  BY <1>2, <1>6, <1>8, <1>9, <1>11, <1>12, <1>13, <1>14, <1>15, LoopStep
LEMMA WriteSchemaStays ==
  ASSUME StartupInv, writeSchemaVersion, UNCHANGED <<collections, dataVersions, elements>>
  PROVE  StartupInv' /\ Kept
<1>1. PICK o \in DbOutcomes :
        /\ schema' = IF Applied(o) THEN 3 ELSE schema
        /\ After(o, "serving", {})
  BY DEF writeSchemaVersion, CURRENT_SCHEMA_VERSION
<1>2. /\ step = "writeSchema"
      /\ UNCHANGED projects /\ UNCHANGED branches /\ UNCHANGED commits /\ UNCHANGED users
  BY DEF writeSchemaVersion, AtStep
<1>3. schema' \in {schema, 3} /\ schema \in {Null, 2}
  BY <1>1, <1>2 DEF StartupInv, Order
<1>4. Crash \/ (step' = "serving" /\ schema' = 3 /\ todo' = {} /\ failures' = failures)
  BY <1>1, AfterOf
<1>5. /\ Stored(projects)' = Stored(projects) /\ Stored(branches)' = Stored(branches)
      /\ Stored(commits)' = Stored(commits) /\ Stored(users)' = Stored(users)
  BY <1>2, SameProjects, SameBranches, SameCommits, SameUsers
<1>6. TypeOK'
  BY <1>2, <1>3, <1>4, MigratorAssumption
  DEF StartupInv, TypeOK, Crash, CURRENT_SCHEMA_VERSION
<1>7. Provenance' /\ References' /\ Chain'
  BY <1>2, <1>5, SameReferences DEF StartupInv, Provenance, Chain
<1>8. Order'
  BY <1>2, <1>3, <1>4
  DEF StartupInv, Order, Crash, Steps, PastLibraries, PastRoles, PastGroups, PastFlags,
      PastDefaults, PastBranches, PastChanges, Adding, Empties
<1>9. NothingFailed'
  BY <1>2, <1>3, <1>4, NullSchema DEF StartupInv, TypeOK, NothingFailed, Crash, Adding, Empties
<1>10. Progress'
  <2>1. /\ ProjectsForm /\ RolesForm /\ GroupsForm /\ FlagsForm /\ DefaultsForm /\ BranchesForm
        /\ CommitsForm
    BY <1>2 DEF StartupInv, Progress, PastLibraries, PastRoles, PastGroups, PastFlags,
                PastDefaults, PastBranches, PastChanges
  <2>2. RolesForm' /\ GroupsForm' /\ FlagsForm' /\ DefaultsForm'
    BY <1>2, <2>1, SameUsers, Zenon
  <2>3. ProjectsForm' /\ BranchesForm' /\ CommitsForm'
    BY <1>2, <2>1, SameProjects, SameBranches, SameCommits
  <2> QED  BY <1>4, <2>2, <2>3 DEF Progress, Crash
<1>11. Kept
  <2>1. ~(readSchemaVersion > CURRENT_SCHEMA_VERSION)
    BY <1>3, NullSchema, NewerSchema DEF StartupInv
  <2> QED  BY <1>2, <2>1 DEF Kept, Stored
<1> QED  BY <1>6, <1>7, <1>8, <1>9, <1>10, <1>11 DEF StartupInv

-----------------------------------------------------------------------------
(* The steps that write a new database.                                    *)

(* New documents have the form this binary expects.                        *)
LEMMA NewDocuments ==
  ASSUME NEW p \in ProjectIds, failures \in 0..MaxFailures
  PROVE  /\ NewProject(p) \in Project
         /\ NewProject(p).preloaded <=> p \in Library
         /\ p \in Library => ~NewProject(p).owned
         /\ NewProject(p).isLibrary <=> p \in Library
         /\ NewProject(p).defaultBranch = p
         /\ NewBranch(p) \in Branch /\ NewBranch(p).owningProject
         /\ NewBranch(p).head = IF p \in Library THEN p ELSE Null
         /\ <<NewVersion(p)>> \in Seq(DataVersion) /\ DOMAIN <<NewVersion(p)>> = 1..1
         /\ <<NewVersion(p)>>[1] = NewVersion(p)
         /\ NewVersion(p).id \in VersionIds
         /\ NewVersion(p).id[1] = p /\ NewVersion(p).id[2] = 1
         /\ NewVersion(p).commit /\ NewVersion(p).identity
<1>1. /\ NewProject(p) \in Project
      /\ NewProject(p).preloaded <=> p \in Library
      /\ p \in Library => ~NewProject(p).owned
      /\ NewProject(p).isLibrary <=> p \in Library
      /\ NewProject(p).defaultBranch = p
  <2>1. ASSUME NEW b \in BOOLEAN, NEW n \in BOOLEAN,
               NewProject(p) = [preloaded |-> b, owned |-> n, isLibrary |-> b,
                                defaultBranch |-> p]
        PROVE  /\ NewProject(p) \in Project /\ NewProject(p).preloaded = b
               /\ NewProject(p).defaultBranch = p
               /\ NewProject(p).owned = n /\ NewProject(p).isLibrary = b
    BY <2>1 DEF Project
  <2>2. CASE p \in Library
    <3>1. (p \in Library) = TRUE /\ (p \notin Library) = FALSE
      BY <2>2
    <3>2. NewProject(p) = [preloaded |-> TRUE, owned |-> FALSE, isLibrary |-> TRUE,
                          defaultBranch |-> p]
      BY <3>1, Zenon DEF NewProject
    <3>3. /\ NewProject(p) \in Project /\ NewProject(p).preloaded = TRUE
          /\ NewProject(p).owned = FALSE /\ NewProject(p).isLibrary = TRUE
          /\ NewProject(p).defaultBranch = p
      BY <2>1, <3>2
    <3> QED  BY <2>2, <3>3
  <2>3. CASE p \notin Library
    <3>1. (p \in Library) = FALSE /\ (p \notin Library) = TRUE
      BY <2>3
    <3>2. NewProject(p) = [preloaded |-> FALSE, owned |-> TRUE, isLibrary |-> FALSE,
                          defaultBranch |-> p]
      BY <3>1, Zenon DEF NewProject
    <3>3. /\ NewProject(p) \in Project /\ NewProject(p).preloaded = FALSE
          /\ NewProject(p).owned = TRUE /\ NewProject(p).isLibrary = FALSE
          /\ NewProject(p).defaultBranch = p
      BY <2>1, <3>2
    <3> QED  BY <2>3, <3>3
  <2> QED  BY <2>2, <2>3
<1>2. /\ NewBranch(p) \in Branch /\ NewBranch(p).owningProject
      /\ NewBranch(p).head = IF p \in Library THEN p ELSE Null
  BY DEF NewBranch, Branch
<1>3. Uuid(p, 1) \in VersionIds /\ Uuid(p, 1)[1] = p /\ Uuid(p, 1)[2] = 1
  BY DrawnIds
<1>4. /\ NewVersion(p) \in DataVersion /\ NewVersion(p).id = Uuid(p, 1)
      /\ NewVersion(p).commit /\ NewVersion(p).identity
  BY <1>3 DEF NewVersion, DataVersion
<1>5. /\ <<NewVersion(p)>> \in Seq(DataVersion) /\ DOMAIN <<NewVersion(p)>> = 1..1
      /\ <<NewVersion(p)>>[1] = NewVersion(p)
  BY <1>4
<1> QED  BY <1>1, <1>2, <1>3, <1>4, <1>5

(* A step of the creation adds documents where there are none.             *)
LEMMA AddingStep ==
  ASSUME StartupInv, step \in {"addProjects"} \cup Adding,
         UNCHANGED <<schema, users, collections>>,
         projects' \in [ProjectIds -> Project \cup {Null}],
         branches' \in [ProjectIds -> Branch \cup {Null}],
         commits' \in [ProjectIds -> {Null} \cup Seq(DataVersion)],
         \A p \in Stored(projects) : projects'[p] = projects[p],
         \A b \in Stored(branches) : branches'[b] = branches[b],
         \A p \in Stored(commits) : commits'[p] = commits[p],
         dataVersions' \in SUBSET Library, elements' \in SUBSET Library,
         Crash \/ (failures' = failures /\ todo' = {}),
         Provenance', References', Order', Chain', NothingFailed', Progress'
  PROVE  StartupInv' /\ Kept
<1>1. TypeOK'
  BY MigratorAssumption DEF StartupInv, TypeOK, Crash
<1>2. schema = Null
  BY DEF StartupInv, Order, NoneStored, Empties
<1>3. ~(readSchemaVersion > CURRENT_SCHEMA_VERSION)
  BY <1>2, NullSchema, NewerSchema DEF StartupInv
<1>4. Kept
  BY <1>3 DEF Kept, Stored
<1> QED  BY <1>1, <1>4 DEF StartupInv

LEMMA AddProjectsStays ==
  ASSUME StartupInv, addMultibleProjects
  PROVE  StartupInv' /\ Kept
<1>1. PICK o \in DbOutcomes :
        /\ \E reached \in Reached(o, Library) :
             projects' = InsertInto(projects, reached, NewProject)
        /\ After(o, "addBranches", {})
  BY DEF addMultibleProjects, Inserted
<1>2. PICK reached \in Reached(o, Library) :
        projects' = [p \in DOMAIN projects |-> IF p \in reached THEN NewProject(p) ELSE projects[p]]
  BY <1>1 DEF InsertInto
<1>3. reached \subseteq Library /\ (Reported(o) => reached = Library)
  BY ReachedOf
<1>4. /\ step = "addProjects" /\ NoneStored /\ schema = Null /\ "versions" \in collections
      /\ UNCHANGED <<schema, collections, dataVersions, elements>>
      /\ UNCHANGED branches /\ UNCHANGED commits /\ UNCHANGED users
      /\ projects \in [ProjectIds -> Project \cup {Null}] /\ failures \in 0..MaxFailures
  BY DEF addMultibleProjects, AtStep, StartupInv, TypeOK, Order, Empties, NoneStored
<1>5. \A p \in ProjectIds : projects[p] = Null
  BY <1>4 DEF NoneStored, Stored
<1>6. /\ projects' \in [ProjectIds -> Project \cup {Null}]
      /\ Stored(projects)' = reached
      /\ \A p \in reached : p \in ProjectIds /\ projects'[p] = NewProject(p)
  <2>1. \A p \in reached : p \in ProjectIds /\ projects'[p] = NewProject(p)
    BY <1>2, <1>3, <1>4, LibraryAssumption
  <2>2. \A p \in ProjectIds : NewProject(p) \in Project /\ NewProject(p) # Null
    BY <1>4, NewDocuments, AbsenceAssumption
  <2>3. projects' \in [ProjectIds -> Project \cup {Null}]
    BY <1>2, <1>4, <2>2
  <2> QED  BY <1>2, <1>4, <1>5, <2>1, <2>2, <2>3 DEF Stored
<1>7. /\ Stored(branches)' = {} /\ Stored(commits)' = {} /\ Stored(users)' = {}
      /\ dataVersions' = {} /\ elements' = {}
  BY <1>4, SameBranches, SameCommits, SameUsers DEF NoneStored
<1>8. ProjectsForm' /\ Provenance' /\ References'
  BY <1>4, <1>6, <1>7, NewDocuments DEF ProjectsForm, Provenance, References
<1>9. Crash \/ (step' = "addBranches" /\ reached = Library /\ todo' = {} /\ failures' = failures)
  BY <1>1, <1>3, AfterOf
<1>10. Order'
  BY <1>4, <1>6, <1>7, <1>9
  DEF Order, Crash, Steps, PastLibraries, PastRoles, PastGroups, PastFlags,
      PastDefaults, PastBranches, PastChanges, Adding, Empties
<1>11. Chain'
  BY <1>3, <1>6, <1>7 DEF Chain
<1>12. NothingFailed'
  BY <1>4, <1>9 DEF NothingFailed, Crash, Adding, Empties
<1>13. Progress'
  <2>1. BranchesForm' /\ CommitsForm'
    BY <1>7 DEF BranchesForm, CommitsForm
  <2> QED
    BY <1>4, <1>8, <1>9, <2>1, NullSchema
    DEF Progress, Crash, PastLibraries, PastRoles, PastGroups, PastFlags, PastDefaults,
        PastBranches, PastChanges, Adding
<1>14. /\ branches' \in [ProjectIds -> Branch \cup {Null}]
       /\ commits' \in [ProjectIds -> {Null} \cup Seq(DataVersion)]
  BY <1>4 DEF StartupInv, TypeOK
<1>15. Stored(projects) = {} /\ Stored(branches) = {} /\ Stored(commits) = {}
  BY <1>4 DEF NoneStored
<1> QED
  BY <1>4, <1>6, <1>7, <1>8, <1>9, <1>10, <1>11, <1>12, <1>13, <1>14, <1>15, AddingStep DEF Crash
LEMMA AddBranchesStays ==
  ASSUME StartupInv, addMultibleBranches
  PROVE  StartupInv' /\ Kept
<1>1. PICK o \in DbOutcomes :
        /\ \E reached \in Reached(o, Library) :
             branches' = InsertInto(branches, reached, NewBranch)
        /\ After(o, "addCommits", {})
  BY DEF addMultibleBranches, Inserted
<1>2. PICK reached \in Reached(o, Library) :
        branches' = [p \in DOMAIN branches |->
                       IF p \in reached THEN NewBranch(p) ELSE branches[p]]
  BY <1>1 DEF InsertInto
<1>3. reached \subseteq Library /\ (Reported(o) => reached = Library)
  BY ReachedOf
<1>4. /\ step = "addBranches" /\ schema = Null /\ "versions" \in collections
      /\ Stored(users) = {} /\ Stored(branches) = {} /\ Stored(commits) = {}
      /\ dataVersions = {} /\ elements = {} /\ Library \subseteq Stored(projects)
      /\ UNCHANGED <<schema, collections, dataVersions, elements>>
      /\ UNCHANGED projects /\ UNCHANGED commits /\ UNCHANGED users
      /\ branches \in [ProjectIds -> Branch \cup {Null}] /\ failures \in 0..MaxFailures
  BY DEF addMultibleBranches, AtStep, StartupInv, TypeOK, Order, Adding
<1>5. \A p \in ProjectIds : branches[p] = Null
  BY <1>4 DEF Stored
<1>6. /\ branches' \in [ProjectIds -> Branch \cup {Null}]
      /\ Stored(branches)' = reached
      /\ \A p \in reached : p \in ProjectIds /\ branches'[p] = NewBranch(p)
  <2>1. \A p \in reached : p \in ProjectIds /\ branches'[p] = NewBranch(p)
    BY <1>2, <1>3, <1>4, LibraryAssumption
  <2>2. \A p \in ProjectIds : NewBranch(p) \in Branch /\ NewBranch(p) # Null
    BY <1>4, NewDocuments, AbsenceAssumption
  <2>3. branches' \in [ProjectIds -> Branch \cup {Null}]
    BY <1>2, <1>4, <2>2
  <2> QED  BY <1>2, <1>4, <1>5, <2>1, <2>2, <2>3 DEF Stored
<1>7. /\ Stored(projects)' = Stored(projects) /\ Stored(commits)' = {} /\ Stored(users)' = {}
      /\ dataVersions' = {} /\ elements' = {}
  BY <1>4, SameProjects, SameCommits, SameUsers
<1>15. \A p \in reached :
         NewBranch(p).owningProject /\ p \in Library /\ NewBranch(p).head = p
  BY <1>3, <1>4, <1>6, NewDocuments
<1>8. Provenance' /\ References'
  BY <1>4, <1>6, <1>7, <1>15 DEF StartupInv, Provenance, References
<1>9. Crash \/ (step' = "addCommits" /\ reached = Library /\ todo' = {} /\ failures' = failures)
  BY <1>1, <1>3, AfterOf
<1>10. Order'
  BY <1>4, <1>6, <1>7, <1>9
  DEF Order, Crash, Steps, PastLibraries, PastRoles, PastGroups, PastFlags,
      PastDefaults, PastBranches, PastChanges, Adding, Empties
<1>11. Chain'
  BY <1>3, <1>4, <1>6, <1>7 DEF StartupInv, Chain
<1>12. NothingFailed'
  BY <1>4, <1>9 DEF NothingFailed, Crash, Adding, Empties
<1>13. Progress'
  <2>1. BranchesForm' /\ CommitsForm'
    BY <1>6, <1>7, <1>15 DEF BranchesForm, CommitsForm
  <2>2. ProjectsForm'
    BY <1>4, SameProjects DEF StartupInv, Progress, Adding
  <2> QED
    BY <1>4, <1>9, <2>1, <2>2, NullSchema
    DEF Progress, Crash, PastLibraries, PastRoles, PastGroups, PastFlags, PastDefaults,
        PastBranches, PastChanges, Adding
<1>14. /\ projects' \in [ProjectIds -> Project \cup {Null}]
       /\ commits' \in [ProjectIds -> {Null} \cup Seq(DataVersion)]
  BY <1>4 DEF StartupInv, TypeOK
<1> QED
  BY <1>4, <1>6, <1>8, <1>9, <1>10, <1>11, <1>12, <1>13, <1>14, AddingStep DEF Crash, Adding

LEMMA AddCommitsStays ==
  ASSUME StartupInv, addMultibleCommits
  PROVE  StartupInv' /\ Kept
<1>1. PICK o \in DbOutcomes :
        /\ \E reached \in Reached(o, Library) :
             commits' = InsertInto(commits, reached, LAMBDA p : <<NewVersion(p)>>)
        /\ After(o, "addDataVersions", {})
  BY DEF addMultibleCommits, Inserted
<1>2. PICK reached \in Reached(o, Library) :
        commits' = [p \in DOMAIN commits |->
                      IF p \in reached THEN <<NewVersion(p)>> ELSE commits[p]]
  BY <1>1 DEF InsertInto
<1>3. reached \subseteq Library /\ (Reported(o) => reached = Library)
  BY ReachedOf
<1>4. /\ step = "addCommits" /\ schema = Null /\ "versions" \in collections
      /\ Stored(users) = {} /\ Stored(commits) = {} /\ dataVersions = {} /\ elements = {}
      /\ Library \subseteq Stored(projects) /\ Library \subseteq Stored(branches)
      /\ UNCHANGED <<schema, collections, dataVersions, elements>>
      /\ UNCHANGED projects /\ UNCHANGED branches /\ UNCHANGED users
      /\ commits \in [ProjectIds -> {Null} \cup Seq(DataVersion)] /\ failures \in 0..MaxFailures
  BY DEF addMultibleCommits, AtStep, StartupInv, TypeOK, Order, Adding
<1>5. \A p \in ProjectIds : commits[p] = Null
  BY <1>4 DEF Stored
<1>6. /\ commits' \in [ProjectIds -> {Null} \cup Seq(DataVersion)]
      /\ Stored(commits)' = reached
      /\ \A p \in reached : p \in ProjectIds /\ commits'[p] = <<NewVersion(p)>>
  <2>1. \A p \in reached : p \in ProjectIds /\ commits'[p] = <<NewVersion(p)>>
    BY <1>2, <1>3, <1>4, LibraryAssumption
  <2>2. \A p \in ProjectIds : <<NewVersion(p)>> \in Seq(DataVersion) /\ <<NewVersion(p)>> # Null
    BY <1>4, NewDocuments, AbsenceAssumption
  <2>3. commits' \in [ProjectIds -> {Null} \cup Seq(DataVersion)]
    BY <1>2, <1>4, <2>2
  <2> QED  BY <1>2, <1>4, <1>5, <2>1, <2>2, <2>3 DEF Stored
<1>7. /\ Stored(projects)' = Stored(projects) /\ Stored(branches)' = Stored(branches)
      /\ Stored(users)' = {} /\ dataVersions' = {} /\ elements' = {}
  BY <1>4, SameProjects, SameBranches, SameUsers
<1>16. \A c \in reached :
         /\ DOMAIN commits'[c] = 1..1 /\ commits'[c][1].id \in VersionIds
         /\ commits'[c][1].id[1] = c /\ commits'[c][1].id[2] = 1
         /\ commits'[c][1].commit /\ commits'[c][1].identity
  BY <1>4, <1>6, NewDocuments
<1>8. Provenance' /\ References'
  <2>1. Stored(commits) \subseteq Stored(commits)'
    BY <1>4
  <2>2. References'
    BY <1>4, <1>7, <2>1, SameReferences DEF StartupInv
  <2> QED  BY <1>4, <1>6, <1>7, <1>16, <2>2 DEF StartupInv, Provenance
<1>9. \/ Crash
      \/ step' = "addDataVersions" /\ reached = Library /\ todo' = {} /\ failures' = failures
  BY <1>1, <1>3, AfterOf
<1>10. Order'
  BY <1>4, <1>6, <1>7, <1>9
  DEF Order, Crash, Steps, PastLibraries, PastRoles, PastGroups, PastFlags,
      PastDefaults, PastBranches, PastChanges, Adding, Empties
<1>11. Chain'
  BY <1>3, <1>4, <1>6, <1>7 DEF StartupInv, Chain
<1>12. NothingFailed'
  BY <1>4, <1>9 DEF NothingFailed, Crash, Adding, Empties
<1>13. Progress'
  <2>1. CommitsForm'
    BY <1>6, <1>16 DEF CommitsForm, Complete
  <2>2. ProjectsForm' /\ BranchesForm'
    BY <1>4, SameProjects, SameBranches DEF StartupInv, Progress, Adding
  <2> QED
    BY <1>4, <1>9, <2>1, <2>2, NullSchema
    DEF Progress, Crash, PastLibraries, PastRoles, PastGroups, PastFlags, PastDefaults,
        PastBranches, PastChanges, Adding
<1>14. /\ projects' \in [ProjectIds -> Project \cup {Null}]
       /\ branches' \in [ProjectIds -> Branch \cup {Null}]
  BY <1>4 DEF StartupInv, TypeOK
<1> QED
  BY <1>4, <1>6, <1>8, <1>9, <1>10, <1>11, <1>12, <1>13, <1>14, AddingStep DEF Crash, Adding

(* Data versions and elements are added last.                              *)
LEMMA AddPayloadsStays ==
  ASSUME StartupInv, addMultibleDataVersions \/ addMultibleElements
  PROVE  StartupInv' /\ Kept
<1>1. /\ step \in {"addDataVersions", "addElements"} /\ schema = Null /\ "versions" \in collections
      /\ Stored(users) = {} /\ elements = {}
      /\ step = "addDataVersions" => dataVersions = {}
      /\ step = "addElements" => dataVersions = Library
      /\ Library \subseteq Stored(projects) /\ Library \subseteq Stored(branches)
      /\ Library \subseteq Stored(commits)
      /\ UNCHANGED documents /\ UNCHANGED collections /\ failures \in 0..MaxFailures
  BY DEF addMultibleDataVersions, addMultibleElements, AtStep, StartupInv, TypeOK, Order, Adding
<1>2. /\ UNCHANGED schema /\ UNCHANGED projects /\ UNCHANGED branches
      /\ UNCHANGED commits /\ UNCHANGED users
  BY <1>1 DEF documents
<1>3. \/ /\ step = "addDataVersions" /\ elements' = {} /\ dataVersions' \subseteq Library
         /\ \/ Crash
            \/ /\ step' = "addElements" /\ dataVersions' = Library
               /\ todo' = {} /\ failures' = failures
      \/ /\ step = "addElements" /\ dataVersions' = dataVersions /\ elements' \subseteq Library
         /\ \/ Crash
            \/ /\ step' = "writeSchema" /\ elements' = Library
               /\ todo' = {} /\ failures' = failures
  <2>1. CASE addMultibleDataVersions
    <3>1. PICK o \in DbOutcomes :
            dataVersions' \in Reached(o, Library) /\ After(o, "addElements", {})
      BY <2>1 DEF addMultibleDataVersions, Inserted
    <3> QED  BY <1>1, <2>1, <3>1, AfterOf, ReachedOf DEF addMultibleDataVersions, AtStep
  <2>2. CASE addMultibleElements
    <3>1. PICK o \in DbOutcomes : elements' \in Reached(o, Library) /\ After(o, "writeSchema", {})
      BY <2>2 DEF addMultibleElements, Inserted
    <3> QED  BY <1>1, <2>2, <3>1, AfterOf, ReachedOf DEF addMultibleElements, AtStep
  <2> QED  BY <2>1, <2>2
<1>4. /\ Stored(projects)' = Stored(projects) /\ Stored(branches)' = Stored(branches)
      /\ Stored(commits)' = Stored(commits) /\ Stored(users)' = {}
  BY <1>1, <1>2, SameProjects, SameBranches, SameCommits, SameUsers
<1>5. Provenance' /\ References'
  BY <1>2, <1>4, SameReferences DEF StartupInv, Provenance
<1>6. Order'
  BY <1>1, <1>2, <1>3, <1>4
  DEF Order, Crash, Steps, PastLibraries, PastRoles, PastGroups, PastFlags,
      PastDefaults, PastBranches, PastChanges, Adding, Empties
<1>7. Chain'
  BY <1>1, <1>3, <1>4 DEF StartupInv, Chain
<1>8. NothingFailed'
  BY <1>1, <1>3 DEF NothingFailed, Crash, Adding, Empties
<1>9. Progress'
  <2>1. ProjectsForm' /\ BranchesForm' /\ CommitsForm'
    BY <1>1, <1>2, SameProjects, SameBranches, SameCommits DEF StartupInv, Progress, Adding
  <2>2. RolesForm' /\ GroupsForm' /\ FlagsForm' /\ DefaultsForm'
    BY <1>4 DEF RolesForm, GroupsForm, FlagsForm, DefaultsForm
  <2> QED
    BY <1>1, <1>2, <1>3, <2>1, <2>2, NullSchema
    DEF Progress, Crash, PastLibraries, PastRoles, PastGroups, PastFlags, PastDefaults,
        PastBranches, PastChanges, Adding
<1>10. /\ projects' \in [ProjectIds -> Project \cup {Null}]
       /\ branches' \in [ProjectIds -> Branch \cup {Null}]
       /\ commits' \in [ProjectIds -> {Null} \cup Seq(DataVersion)]
  BY <1>2 DEF StartupInv, TypeOK
<1> QED
  BY <1>1, <1>2, <1>3, <1>5, <1>6, <1>7, <1>8, <1>9, <1>10, AddingStep DEF Crash, Adding
-----------------------------------------------------------------------------
(* What users do while the server serves: they write projects, branches or *)
(* commits, which then have the form of this binary.                       *)
LEMMA ServingStep ==
  ASSUME StartupInv, step = "serving",
         UNCHANGED <<schema, users, step, failures, collections, dataVersions, elements>>,
         projects' \in [ProjectIds -> Project \cup {Null}],
         branches' \in [ProjectIds -> Branch \cup {Null}],
         commits' \in [ProjectIds -> {Null} \cup Seq(DataVersion)],
         \A p \in Stored(projects) : projects'[p] = projects[p],
         \A b \in Stored(branches) :
           /\ branches'[b] # Null
           /\ branches[b].head # Null => branches'[b].head = branches[b].head,
         \A c \in Stored(commits) : commits'[c] = commits[c],
         todo' \subseteq Stored(branches)',
         Provenance', References', Chain', ProjectsForm', BranchesForm', CommitsForm'
  PROVE  StartupInv' /\ Kept
<1>1. schema = 3
  BY DEF StartupInv, Order
<1>2. TypeOK'
  BY DEF StartupInv, TypeOK, Stored
<1>3. "versions" \in collections /\ Stored(users)' = Stored(users)
  BY SameUsers DEF StartupInv, Order
<1>4. Order'
  BY <1>1, <1>3 DEF StartupInv, Order, Empties, Adding
<1>5. NothingFailed'
  BY DEF StartupInv, NothingFailed, Empties, Adding
<1>6. Progress'
  <2>1. RolesForm' /\ GroupsForm' /\ FlagsForm' /\ DefaultsForm'
    BY <1>1, SameUsers DEF StartupInv, Progress
  <2> QED  BY <1>1, <2>1 DEF Progress
<1>7. Kept
  <2>1. ~(readSchemaVersion > CURRENT_SCHEMA_VERSION)
    BY <1>1, NewerSchema DEF StartupInv
  <2> QED  BY <2>1 DEF Kept, Stored
<1> QED  BY <1>2, <1>4, <1>5, <1>6, <1>7 DEF StartupInv

(* What a server that serves has, for the lemmas that follow.              *)
LEMMA Serving ==
  ASSUME StartupInv, step = "serving"
  PROVE  /\ projects \in [ProjectIds -> Project \cup {Null}]
         /\ branches \in [ProjectIds -> Branch \cup {Null}]
         /\ commits \in [ProjectIds -> {Null} \cup Seq(DataVersion)]
         /\ todo \subseteq Stored(branches)
         /\ ProjectsForm /\ BranchesForm /\ CommitsForm
         /\ Provenance /\ References /\ Chain /\ failures \in 0..MaxFailures
         /\ \A p \in ProjectIds : NewProject(p) # Null /\ NewBranch(p) # Null
                                  /\ <<NewVersion(p)>> # Null
<1>1. schema = 3
  BY DEF StartupInv, Order
<1>2. /\ commits \in [ProjectIds -> {Null} \cup Seq(DataVersion)]
      /\ projects \in [ProjectIds -> Project \cup {Null}]
      /\ branches \in [ProjectIds -> Branch \cup {Null}]
  BY DEF StartupInv, TypeOK
<1>3. todo \subseteq Stored(branches) /\ ProjectsForm /\ BranchesForm /\ CommitsForm
  BY <1>1 DEF StartupInv, Progress
<1>4. failures \in 0..MaxFailures
  BY DEF StartupInv, TypeOK
<1>5. \A p \in ProjectIds : NewProject(p) # Null /\ NewBranch(p) # Null
                            /\ <<NewVersion(p)>> # Null
  BY <1>4, NewDocuments, AbsenceAssumption
<1> QED  BY <1>2, <1>3, <1>4, <1>5 DEF StartupInv

LEMMA CreatesBranchStays ==
  ASSUME StartupInv, NEW v \in ProjectIds, UserCreatesBranch(v)
  PROVE  StartupInv' /\ Kept
<1>1. /\ step = "serving" /\ v \notin Library /\ branches[v] = Null
      /\ branches' = [branches EXCEPT ![v] = NewBranch(v)]
      /\ todo' = todo \cup {v}
      /\ UNCHANGED <<schema, users, step, failures, collections, dataVersions, elements>>
      /\ UNCHANGED projects /\ UNCHANGED commits
  BY DEF UserCreatesBranch, UserWrites, AtStep
<1>2. NewBranch(v) \in Branch /\ NewBranch(v).owningProject /\ NewBranch(v).head = Null
  BY <1>1, NewDocuments, Serving
<1>3. /\ branches' \in [ProjectIds -> Branch \cup {Null}]
      /\ Stored(branches)' = Stored(branches) \cup {v}
      /\ branches'[v] = NewBranch(v)
      /\ \A b \in Stored(branches) : branches'[b] = branches[b] /\ branches'[b] # Null
  BY <1>1, <1>2, Serving DEF Stored
<1>4. Stored(projects)' = Stored(projects) /\ Stored(commits)' = Stored(commits)
  BY <1>1, SameProjects, SameCommits
<1>5. ProjectsForm' /\ CommitsForm'
  BY <1>1, Serving, SameProjects, SameCommits
<1>6. BranchesForm'
  BY <1>1, <1>2, <1>3, Serving DEF BranchesForm
<1>7. Provenance'
  BY <1>1, <1>4, Serving DEF Provenance
<1>8. References'
  BY <1>1, <1>2, <1>3, <1>4, Serving DEF References
<1>9. Chain'
  BY <1>1, <1>3, <1>4, Serving DEF Chain
<1>10. todo' \subseteq Stored(branches)'
  BY <1>1, <1>3, Serving
<1> QED
  BY <1>1, <1>3, <1>5, <1>6, <1>7, <1>8, <1>9, <1>10, Serving, ServingStep

LEMMA CreatesProjectStays ==
  ASSUME StartupInv, NEW v \in ProjectIds, UserCreatesProject(v)
  PROVE  StartupInv' /\ Kept
<1>1. /\ step = "serving" /\ v \notin Library /\ projects[v] = Null /\ v \in todo
      /\ projects' = [projects EXCEPT ![v] = NewProject(v)]
      /\ todo' = todo \ {v}
      /\ UNCHANGED <<schema, users, step, failures, collections, dataVersions, elements>>
      /\ UNCHANGED branches /\ UNCHANGED commits
  BY DEF UserCreatesProject, UserWrites, AtStep
<1>2. /\ NewProject(v) \in Project /\ (NewProject(v).preloaded <=> v \in Library)
      /\ (NewProject(v).isLibrary <=> v \in Library) /\ NewProject(v).defaultBranch = v
  BY <1>1, NewDocuments, Serving
<1>3. /\ projects' \in [ProjectIds -> Project \cup {Null}]
      /\ Stored(projects)' = Stored(projects) \cup {v}
      /\ projects'[v] = NewProject(v)
      /\ \A p \in Stored(projects) : projects'[p] = projects[p]
  BY <1>1, <1>2, Serving DEF Stored
<1>4. Stored(branches)' = Stored(branches) /\ Stored(commits)' = Stored(commits)
  BY <1>1, SameBranches, SameCommits
<1>5. BranchesForm' /\ CommitsForm'
  BY <1>1, Serving, SameBranches, SameCommits
<1>6. ProjectsForm'
  BY <1>1, <1>2, <1>3, Serving DEF ProjectsForm
<1>7. Provenance'
  BY <1>1, <1>2, <1>3, <1>4, Serving DEF Provenance
<1>8. References'
  BY <1>1, <1>2, <1>3, <1>4, Serving DEF References
<1>9. Chain'
  BY <1>1, <1>3, <1>4, Serving DEF Chain
<1>10. todo' \subseteq Stored(branches)'
  BY <1>1, <1>4, Serving
<1>11. \A b \in Stored(branches) : branches'[b] # Null /\ branches'[b] = branches[b]
  BY <1>1 DEF Stored
<1> QED
  BY <1>1, <1>3, <1>5, <1>6, <1>7, <1>8, <1>9, <1>10, <1>11, Serving, ServingStep

LEMMA CommitsStays ==
  ASSUME StartupInv, NEW v \in ProjectIds, UserCommits(v)
  PROVE  StartupInv' /\ Kept
<1>1. /\ step = "serving" /\ v \notin Library /\ v \in Stored(projects) /\ commits[v] = Null
      /\ commits' = [commits EXCEPT ![v] = <<NewVersion(v)>>]
      /\ todo' = todo \cup {v}
      /\ UNCHANGED <<schema, users, step, failures, collections, dataVersions, elements>>
      /\ UNCHANGED projects /\ UNCHANGED branches
  BY DEF UserCommits, UserWrites, AtStep
<1>2. /\ commits' \in [ProjectIds -> {Null} \cup Seq(DataVersion)]
      /\ Stored(commits)' = Stored(commits) \cup {v}
      /\ commits'[v] = <<NewVersion(v)>>
      /\ \A c \in Stored(commits) : commits'[c] = commits[c] /\ c # v
  <2>1. <<NewVersion(v)>> \in Seq(DataVersion) /\ <<NewVersion(v)>> # Null
    BY <1>1, NewDocuments, Serving
  <2>2. commits \in [ProjectIds -> {Null} \cup Seq(DataVersion)]
    BY <1>1, Serving
  <2> QED  BY <1>1, <2>1, <2>2 DEF Stored
<1>3. /\ DOMAIN commits'[v] = 1..1 /\ commits'[v][1].id \in VersionIds
      /\ commits'[v][1].id[1] = v /\ commits'[v][1].id[2] = 1
      /\ commits'[v][1].commit /\ commits'[v][1].identity
  BY <1>1, <1>2, NewDocuments, Serving
<1>4. Stored(projects)' = Stored(projects) /\ Stored(branches)' = Stored(branches)
  BY <1>1, SameProjects, SameBranches
<1>5. ProjectsForm' /\ BranchesForm'
  BY <1>1, Serving, SameProjects, SameBranches
<1>6. ASSUME NEW c \in Stored(commits)'
      PROVE  /\ Complete(c)' /\ DOMAIN commits'[c] \subseteq 1..2
             /\ \A i \in DOMAIN commits'[c] :
                  commits'[c][i].id \in VersionIds =>
                    commits'[c][i].id[1] = c /\ commits'[c][i].id[2] = i
  <2>1. CASE c = v
    BY <1>3, <2>1 DEF Complete
  <2>2. CASE c # v
    <3>1. c \in Stored(commits) /\ commits'[c] = commits[c]
      BY <1>2, <2>2
    <3>2. Complete(c)
      BY <1>1, <3>1, Serving DEF CommitsForm
    <3> QED  BY <1>1, <3>1, <3>2, Serving DEF Complete, Provenance
  <2> QED  BY <2>1, <2>2
<1>7. CommitsForm' /\ Provenance'
  BY <1>1, <1>4, <1>6, Serving DEF CommitsForm, Provenance
<1>8. References'
  BY <1>1, <1>2, <1>4, Serving, SameReferences
<1>9. v \in Stored(branches)
  BY <1>1, Serving DEF Chain
<1>10. Chain'
  BY <1>1, <1>2, <1>4, <1>9, Serving DEF Chain
<1>11. todo' \subseteq Stored(branches)'
  BY <1>1, <1>4, <1>9, Serving
<1>12. \A b \in Stored(branches) : branches'[b] # Null /\ branches'[b] = branches[b]
  BY <1>1 DEF Stored
<1> QED
  BY <1>1, <1>2, <1>5, <1>7, <1>8, <1>10, <1>11, <1>12, Serving, ServingStep

LEMMA MovesHeadStays ==
  ASSUME StartupInv, NEW v \in ProjectIds, UserMovesHead(v)
  PROVE  StartupInv' /\ Kept
<1>1. /\ step = "serving" /\ v \notin Library /\ v \in todo /\ v \in Stored(commits)
      /\ branches' = [branches EXCEPT ![v].head = v]
      /\ todo' = todo \ {v}
      /\ UNCHANGED <<schema, users, step, failures, collections, dataVersions, elements>>
      /\ UNCHANGED projects /\ UNCHANGED commits
  BY DEF UserMovesHead, UserWrites, AtStep
<1>2. v \in Stored(branches) /\ branches[v] \in Branch /\ branches[v].head \in {Null, v}
  BY <1>1, Serving DEF Stored, References
<1>3. PICK new \in Branch :
        /\ branches' = [branches EXCEPT ![v] = new]
        /\ new.head = v /\ new.owningProject = branches[v].owningProject
  <2> DEFINE w == [branches[v] EXCEPT !.head = v]
  <2>1. w \in Branch /\ w.head = v /\ w.owningProject = branches[v].owningProject
    BY <1>2 DEF Branch
  <2>2. branches' = [branches EXCEPT ![v] = w]
    BY <1>1
  <2> HIDE DEF w
  <2> QED  BY <2>1, <2>2
<1>4. /\ branches' \in [ProjectIds -> Branch \cup {Null}]
      /\ Stored(branches)' = Stored(branches)
      /\ branches'[v] = new
      /\ \A b \in Stored(branches) : branches'[b] # Null /\ (b # v => branches'[b] = branches[b])
  <2>1. branches \in [ProjectIds -> Branch \cup {Null}] /\ new # Null
    BY <1>1, Serving, AbsenceAssumption
  <2> QED  BY <1>2, <1>3, <2>1 DEF Stored
<1>5. Stored(projects)' = Stored(projects) /\ Stored(commits)' = Stored(commits)
  BY <1>1, SameProjects, SameCommits
<1>6. ProjectsForm' /\ CommitsForm'
  BY <1>1, Serving, SameProjects, SameCommits
<1>7. BranchesForm'
  BY <1>1, <1>2, <1>3, <1>4, Serving DEF BranchesForm
<1>8. Provenance'
  BY <1>1, <1>5, Serving DEF Provenance
<1>9. References'
  BY <1>1, <1>3, <1>4, <1>5, Serving DEF References
<1>10. Chain'
  BY <1>1, <1>4, <1>5, Serving DEF Chain
<1>11. todo' \subseteq Stored(branches)'
  BY <1>1, <1>4, Serving
<1>12. \A b \in Stored(branches) :
         /\ branches'[b] # Null
         /\ branches[b].head # Null => branches'[b].head = branches[b].head
  BY <1>2, <1>3, <1>4
<1>13. /\ \A p \in Stored(projects) : projects'[p] = projects[p]
       /\ \A c \in Stored(commits) : commits'[c] = commits[c]
  BY <1>1
<1> QED
  BY <1>1, <1>4, <1>6, <1>7, <1>8, <1>9, <1>10, <1>11, <1>12, <1>13, Serving, ServingStep

LEMMA ChangesPasswordStays ==
  ASSUME StartupInv, NEW v \in Usernames, UserChangesPassword(v)
  PROVE  StartupInv' /\ Kept
<1>1. /\ step = "serving" /\ schema = 3 /\ v \in Stored(users)
      /\ users' = [users EXCEPT ![v] = [users[v] EXCEPT !.mustChangePassword = FALSE,
                                                      !.defaultPassword = FALSE]]
      /\ UNCHANGED <<schema, step, todo, failures, collections, dataVersions, elements>>
      /\ UNCHANGED projects /\ UNCHANGED branches /\ UNCHANGED commits
      /\ users \in [Usernames -> User \cup {Null}]
  BY DEF UserChangesPassword, AtStep, StartupInv, Order, TypeOK
<1>2. users[v] \in User
  BY <1>1 DEF Stored
<1>3. PICK new \in User :
        /\ users' = [users EXCEPT ![v] = new]
        /\ new.role = users[v].role /\ new.group = users[v].group
        /\ new.mustChangePassword = FALSE /\ new.defaultPassword = FALSE
  <2> DEFINE w == [users[v] EXCEPT !.mustChangePassword = FALSE, !.defaultPassword = FALSE]
  <2>1. w \in User
    BY <1>2 DEF User
  <2>2. /\ w.role = users[v].role /\ w.group = users[v].group
        /\ w.mustChangePassword = FALSE /\ w.defaultPassword = FALSE
    BY <1>2 DEF User
  <2>3. users' = [users EXCEPT ![v] = w]
    BY <1>1
  <2> HIDE DEF w
  <2> QED  BY <2>1, <2>2, <2>3
<1>4. new # Null
  BY AbsenceAssumption
<1>5. /\ users' \in [Usernames -> User \cup {Null}] /\ Stored(users)' = Stored(users)
      /\ users'[v] = new /\ \A u \in Stored(users) : u # v => users'[u] = users[u]
  BY <1>1, <1>3, <1>4 DEF Stored
<1>6. /\ Stored(projects)' = Stored(projects) /\ Stored(branches)' = Stored(branches)
      /\ Stored(commits)' = Stored(commits)
  BY <1>1, SameProjects, SameBranches, SameCommits
<1>7. TypeOK' /\ Provenance' /\ References' /\ Chain'
  BY <1>1, <1>5, <1>6, SameReferences DEF StartupInv, TypeOK, Provenance, Chain
<1>8. Order' /\ NothingFailed'
  BY <1>1 DEF StartupInv, Order, NothingFailed, Empties, Adding
<1>9. Progress'
  <2>1. /\ ProjectsForm /\ RolesForm /\ GroupsForm /\ FlagsForm /\ DefaultsForm /\ BranchesForm
        /\ CommitsForm
    BY <1>1 DEF StartupInv, Progress
  <2>2. RolesForm' /\ GroupsForm' /\ FlagsForm' /\ DefaultsForm'
    <3>1. RolesForm'
      BY <1>1, <1>3, <1>5, <2>1 DEF RolesForm
    <3>2. GroupsForm'
      BY <1>1, <1>3, <1>5, <2>1 DEF GroupsForm
    <3>3. FlagsForm'
      BY <1>1, <1>3, <1>5, <2>1, AbsentFlag DEF FlagsForm
    <3>4. DefaultsForm'
      BY <1>1, <1>3, <1>5, <2>1 DEF DefaultsForm, DefaultFlagged
    <3> QED  BY <3>1, <3>2, <3>3, <3>4
  <2>3. ProjectsForm' /\ BranchesForm' /\ CommitsForm'
    BY <1>1, <2>1, SameProjects, SameBranches, SameCommits
  <2>4. todo' \subseteq Stored(branches)'
    BY <1>1, <1>6 DEF StartupInv, Progress
  <2> QED  BY <1>1, <2>2, <2>3, <2>4 DEF Progress
<1>10. Kept
  <2>1. ~(readSchemaVersion > CURRENT_SCHEMA_VERSION)
    BY <1>1, NewerSchema DEF StartupInv
  <2>2. ASSUME NEW u \in Stored(users)
        PROVE  /\ users'[u] # Null
               /\ users[u].role \in Roles => users'[u].role = users[u].role
               /\ users[u].group # Null => users'[u].group = users[u].group
               /\ users[u].mustChangePassword = TRUE /\ users'[u].mustChangePassword # TRUE =>
                    AtStep("serving") /\ ~users'[u].defaultPassword
    <3>1. CASE u = v
      BY <1>1, <1>3, <1>4, <1>5, <3>1 DEF AtStep
    <3>2. CASE u # v
      BY <1>5, <3>2 DEF Stored
    <3> QED  BY <3>1, <3>2
  <2> QED  BY <1>1, <2>1, <2>2 DEF Kept, Stored
<1> QED  BY <1>7, <1>8, <1>9, <1>10 DEF StartupInv

-----------------------------------------------------------------------------
LEMMA StartupStep ==
  ASSUME StartupInv, Next
  PROVE  StartupInv' /\ Kept
<1>1. CASE InitialisationStep
  BY <1>1, StartStays, DropStays, CreateStays, VersionStays, AddProjectsStays, AddBranchesStays,
     AddCommitsStays, AddPayloadsStays
  DEF InitialisationStep
<1>2. CASE MigrationStep /\ UNCHANGED <<debug, collections, dataVersions, elements>>
  BY <1>2, SearchStays, FlagLibrariesStays, FixRolesStays, FixGroupsStays, FixFlagsStays,
     FlagDefaultStays, OwningProjectStays, CompleteChangeStays, WriteSchemaStays
  DEF MigrationStep
<1> QED
  BY <1>1, <1>2, CreatesBranchStays, CreatesProjectStays, CommitsStays, MovesHeadStays,
     ChangesPasswordStays, KillStays
  DEF Next, StartStep
-----------------------------------------------------------------------------
(* The databases a start may find.                                         *)
LEMMA EmptyStart == Empty => NoneStored /\ collections = {}
  BY DEF Empty, NoneStored, Nothing, Stored

LEMMA UserFields ==
  ASSUME NEW A, NEW B, NEW C, NEW D,
         NEW user \in [role : A, group : B, mustChangePassword : C, defaultPassword : D]
  PROVE  user.role \in A /\ user.group \in B /\ user.mustChangePassword \in C
  OBVIOUS

LEMMA OldUsersTyped ==
  ASSUME NEW version \in {1, 2}
  PROVE  /\ OldUsers(version) \subseteq User
         /\ \A user \in OldUsers(2) : /\ user.role \in Roles /\ user.group # Null
                                      /\ user.mustChangePassword = TRUE
<1>1. OldUsers(1) \subseteq User
  BY DEF OldUsers, User, Roles
<1>2. OldUsers(2) \subseteq User
  BY DEF OldUsers, User, Roles
<1>5. OldUsers(2) = [role : {0}, group : {""}, mustChangePassword : {TRUE},
                     defaultPassword : BOOLEAN]
  BY DEF OldUsers
<1>3. ASSUME NEW user \in OldUsers(2)
      PROVE  user.role \in Roles /\ user.mustChangePassword = TRUE
  <2>1. user.role \in {0} /\ user.mustChangePassword \in {TRUE}
    BY <1>5, UserFields, Zenon
  <2> QED  BY <2>1 DEF Roles
<1>4. ASSUME NEW user \in OldUsers(2) PROVE user.group # Null
  <2>1. user.group \in {""}
    BY <1>5, UserFields, Zenon
  <2> QED  BY <2>1, AbsenceAssumption
<1> QED  BY <1>1, <1>2, <1>3, <1>4

LEMMA OldPairs ==
  ASSUME NEW x \in OldVersions(TRUE) \X OldVersions(FALSE)
  PROVE  \E v \in OldVersions(TRUE), w \in OldVersions(FALSE) : x = <<v, w>>
<1>1. x[1] \in OldVersions(TRUE)
  OBVIOUS
<1>2. x[2] \in OldVersions(FALSE)
  OBVIOUS
<1>3. x = <<x[1], x[2]>>
  OBVIOUS
<1> QED  BY <1>1, <1>2, <1>3, Zenon

LEMMA OldChangesTyped ==
  ASSUME NEW change \in OldChanges
  PROVE  /\ change \in Seq(DataVersion) /\ DOMAIN change \subseteq 1..2
         /\ \A i \in DOMAIN change : change[i].id \notin VersionIds
<1>1. \A flag \in BOOLEAN : \A v \in OldVersions(flag) :
        v \in DataVersion /\ v.id \in {Null, PayloadId}
  BY DEF OldVersions, DataVersion
<1>2. CASE change = <<>>
  BY <1>2
<1>3. ASSUME NEW v \in OldVersions(TRUE), NEW w \in OldVersions(FALSE), change = <<v, w>>
      PROVE  /\ change \in Seq(DataVersion) /\ DOMAIN change \subseteq 1..2
             /\ \A i \in DOMAIN change : change[i].id \notin VersionIds
  <2>1. v \in DataVersion /\ w \in DataVersion
    BY <1>1
  <2>2. v.id \notin VersionIds /\ w.id \notin VersionIds
    BY <1>1, DrawnIds
  <2> QED  BY <1>3, <2>1, <2>2
<1>4. change = <<>> \/ change \in OldVersions(TRUE) \X OldVersions(FALSE)
  BY DEF OldChanges
<1>5. ASSUME change \in OldVersions(TRUE) \X OldVersions(FALSE)
      PROVE  \E v \in OldVersions(TRUE), w \in OldVersions(FALSE) : change = <<v, w>>
  BY <1>5, OldPairs, Zenon
<1> QED  BY <1>2, <1>3, <1>4, <1>5

LEMMA OldStart ==
  ASSUME NEW version \in {1, 2}, Old(version), MaxFailures \in Nat,
         step = "down", todo = {}, failures = 0
  PROVE  StartupInv
<1>1. /\ schema = (IF version = 1 THEN Null ELSE version)
      /\ collections = Range(CollectionNames)
      /\ projects = [p \in ProjectIds |->
                       [preloaded |-> p \in Library, owned |-> FALSE,
                        isLibrary |-> version > 1 /\ p \in Library, defaultBranch |-> p]]
      /\ branches = [p \in ProjectIds |-> [owningProject |-> FALSE, head |-> p]]
      /\ users \in [Usernames -> OldUsers(version)]
      /\ dataVersions = Library /\ elements = Library
  BY DEF Old
<1>2. PICK change \in OldChanges : commits = [p \in ProjectIds |-> change]
  BY DEF Old
<1>3. ASSUME NEW p \in ProjectIds
      PROVE  /\ projects[p] \in Project /\ projects[p] # Null
             /\ projects[p].preloaded <=> p \in Library
             /\ ~projects[p].owned
             /\ projects[p].isLibrary <=> version > 1 /\ p \in Library
             /\ projects[p].defaultBranch = p
             /\ branches[p] \in Branch /\ branches[p] # Null /\ branches[p].head = p
             /\ commits[p] = change /\ commits[p] # Null
  <2>1. ASSUME NEW b \in BOOLEAN, NEW l \in BOOLEAN,
               projects[p] = [preloaded |-> b, owned |-> FALSE, isLibrary |-> l,
                              defaultBranch |-> p]
        PROVE  /\ projects[p] \in Project /\ projects[p].preloaded = b
               /\ projects[p].owned = FALSE /\ projects[p].isLibrary = l
               /\ projects[p].defaultBranch = p
    BY <2>1 DEF Project
  <2>2. projects[p] = [preloaded |-> p \in Library, owned |-> FALSE,
                       isLibrary |-> version > 1 /\ p \in Library, defaultBranch |-> p]
    BY <1>1
  <2>3. PICK b \in BOOLEAN : b <=> p \in Library
    OBVIOUS
  <2>4. PICK l \in BOOLEAN : l <=> version > 1 /\ p \in Library
    OBVIOUS
  <2>5. projects[p] = [preloaded |-> b, owned |-> FALSE, isLibrary |-> l, defaultBranch |-> p]
    BY <2>2, <2>3, <2>4, Zenon
  <2>6. branches[p] \in Branch /\ branches[p].head = p
    BY <1>1 DEF Branch
  <2>7. commits[p] = change /\ change \in Seq(DataVersion)
    BY <1>2, OldChangesTyped
  <2> QED  BY <2>1, <2>3, <2>4, <2>5, <2>6, <2>7, AbsenceAssumption
<1>4. \A u \in Usernames : users[u] \in User /\ users[u] # Null
  BY <1>1, OldUsersTyped, AbsenceAssumption
<1>5. /\ Stored(projects) = ProjectIds /\ Stored(branches) = ProjectIds
      /\ Stored(commits) = ProjectIds /\ Stored(users) = Usernames
  BY <1>1, <1>2, <1>3, <1>4 DEF Stored
<1>6. schema \in {Null, 2} /\ (schema = 2 => version = 2)
  BY <1>1, NullSchema
<1>7. "versions" \in collections
  BY <1>1, CollectionsInOrder
<1>8. TypeOK
  <2>1. projects \in [ProjectIds -> Project \cup {Null}]
    BY <1>1, <1>3
  <2>2. branches \in [ProjectIds -> Branch \cup {Null}]
    BY <1>1, <1>3
  <2>3. commits \in [ProjectIds -> {Null} \cup Seq(DataVersion)]
    BY <1>2, OldChangesTyped
  <2>4. users \in [Usernames -> User \cup {Null}]
    BY <1>1, <1>4
  <2>5. schema \in {Null} \cup 1..CURRENT_SCHEMA_VERSION + 1
    BY <1>6 DEF CURRENT_SCHEMA_VERSION
  <2> QED  BY <1>1, <2>1, <2>2, <2>3, <2>4, <2>5 DEF TypeOK
<1>9. Provenance
  <2>1. \A c \in Stored(commits) :
          /\ DOMAIN commits[c] \subseteq 1..2
       /\ \A i \in DOMAIN commits[c] : commits[c][i].id \notin VersionIds
    BY <1>3, <1>5, OldChangesTyped
  <2> QED  BY <1>3, <1>5, <2>1 DEF Provenance
<1>14. References
  BY <1>3, <1>5 DEF References
<1>10. Order
  BY <1>6, <1>7 DEF Order, Steps, Adding, Empties
<1>11. Chain
  BY <1>1, <1>5, LibraryAssumption DEF Chain
<1>12. NothingFailed
  BY <1>1 DEF NothingFailed
<1>13. Progress
  <2>1. CASE schema = 2
    <3>1. ProjectsForm
      BY <1>3, <1>5, <1>6, <2>1 DEF ProjectsForm
    <3>2. RolesForm /\ GroupsForm /\ FlagsForm /\ DefaultsForm
      BY <1>1, <1>5, <1>6, <2>1, OldUsersTyped, AbsentFlag
      DEF RolesForm, GroupsForm, FlagsForm, DefaultsForm, DefaultFlagged
    <3> QED
      BY <2>1, <3>1, <3>2
      DEF Progress, PastLibraries, PastRoles, PastGroups, PastFlags, PastDefaults, PastBranches,
          PastChanges, Adding
  <2>2. CASE schema = Null
    BY <2>2, NullSchema
    DEF Progress, PastLibraries, PastRoles, PastGroups, PastFlags, PastDefaults, PastBranches,
        PastChanges, Adding
  <2> QED  BY <1>6, <2>1, <2>2
<1> QED  BY <1>8, <1>9, <1>10, <1>11, <1>12, <1>13, <1>14 DEF StartupInv

LEMMA StartupInit == Init => StartupInv
<1> SUFFICES ASSUME Init PROVE StartupInv
  OBVIOUS
<1>0. step = "down" /\ todo = {} /\ failures = 0 /\ MaxFailures \in Nat
  BY MigratorAssumption DEF Init
<1> USE DEF PastLibraries, PastRoles, PastGroups, PastFlags, PastDefaults, PastBranches,
            PastChanges, Adding, Empties
<1>1. CASE Empty
  <2>1. /\ NoneStored /\ collections = {} /\ schema = Null
        /\ projects = Nothing(ProjectIds) /\ branches = Nothing(ProjectIds)
        /\ commits = Nothing(ProjectIds) /\ users = Nothing(Usernames)
    BY <1>1, EmptyStart DEF Empty
  <2>2. TypeOK
    BY <1>0, <2>1 DEF TypeOK, Nothing, NoneStored
  <2>3. Provenance /\ References /\ Chain /\ NothingFailed
    BY <1>0, <2>1 DEF Provenance, References, Chain, NothingFailed, NoneStored
  <2>4. Order /\ Progress
    BY <1>0, <2>1, NullSchema DEF Order, Progress, Steps
  <2> QED  BY <2>2, <2>3, <2>4 DEF StartupInv
<1>2. CASE Old(1) \/ Old(2)
  BY <1>0, <1>2, OldStart
<1>3. CASE Newer
  <2>1. /\ schema = 4 /\ collections = Range(CollectionNames)
        /\ projects = Nothing(ProjectIds) /\ branches = Nothing(ProjectIds)
        /\ commits = Nothing(ProjectIds) /\ dataVersions = {} /\ elements = {}
    BY <1>3 DEF Newer, CURRENT_SCHEMA_VERSION
  <2>2. users \in [Usernames -> User]
    BY <1>3, OldUsersTyped DEF Newer
  <2>3. Stored(projects) = {} /\ Stored(branches) = {} /\ Stored(commits) = {}
    BY <2>1 DEF Stored, Nothing
  <2>4. TypeOK
    BY <1>0, <2>1, <2>2 DEF TypeOK, Nothing, CURRENT_SCHEMA_VERSION
  <2>5. Provenance /\ References /\ Chain /\ NothingFailed
    BY <1>0, <2>1, <2>3 DEF Provenance, References, Chain, NothingFailed
  <2>6. "versions" \in collections
    BY <2>1, CollectionsInOrder
  <2>7. Order /\ Progress
    BY <1>0, <2>1, <2>6 DEF Order, Progress, Steps
  <2> QED  BY <2>4, <2>5, <2>7 DEF StartupInv
<1> QED  BY <1>1, <1>2, <1>3 DEF Init

LEMMA StartupInvariant == Spec => []StartupInv
<1>1. StartupInv /\ UNCHANGED vars => StartupInv'
  BY DEF vars, documents, StartupInv, TypeOK, Provenance, References, Order, NoneStored, Chain,
     NothingFailed, Progress, ProjectsForm, RolesForm, GroupsForm, FlagsForm, DefaultsForm,
     DefaultFlagged, BranchesForm, CommitsForm, Complete, Stored
<1> QED  BY <1>1, StartupInit, StartupStep, PTL DEF Spec

(* TypeOK: whatever a start finds and wherever it is interrupted, no       *)
(* document gets a form that no binary writes.                             *)
THEOREM StartupTypeCorrect == Spec => []TypeOK
<1>1. StartupInv => TypeOK
  BY DEF StartupInv
<1> QED  BY <1>1, StartupInvariant, PTL

(* SchemaTellsForm: the version of the schema is written when the last     *)
(* document has its form, after any number of interrupted migrations and   *)
(* for any number of documents; a server that serves has them all.         *)
THEOREM SchemaIsTold == Spec => []SchemaTellsForm
<1>1. StartupInv => SchemaTellsForm
  <2> SUFFICES ASSUME StartupInv PROVE SchemaTellsForm
    OBVIOUS
  <2>1. step = "serving" => schema = 3
    BY DEF StartupInv, Order
  <2>2. ASSUME schema = 3 PROVE CurrentForm
    <3>1. /\ ProjectsForm /\ RolesForm /\ GroupsForm /\ DefaultsForm /\ BranchesForm
          /\ CommitsForm
      BY <2>2 DEF StartupInv, Progress
    <3>2. ASSUME NEW c \in Stored(commits), NEW d \in Stored(commits),
                 NEW i \in DOMAIN commits[c], NEW j \in DOMAIN commits[d],
                 commits[c][i].id = commits[d][j].id
          PROVE  c = d /\ i = j
      <4>1. commits[c][i].id \in VersionIds /\ commits[d][j].id \in VersionIds
        BY <3>1 DEF CommitsForm, Complete
      <4> QED  BY <3>2, <4>1 DEF StartupInv, Provenance
    <3> QED
      BY <3>1, <3>2
      DEF CurrentForm, ProjectsForm, RolesForm, GroupsForm, DefaultsForm, DefaultFlagged,
          BranchesForm, CommitsForm, Complete
  <2> QED  BY <2>1, <2>2 DEF SchemaTellsForm, AtStep, CURRENT_SCHEMA_VERSION
<1> QED  BY <1>1, StartupInvariant, PTL

(* WrittenInOrder: whatever interrupted the creation of the database or    *)
(* the writes of a user, the default branch of a user's project and the    *)
(* head of this branch are stored; what is left of the library reaches     *)
(* back to its projects, and after a creation that nothing interrupted it  *)
(* is all there.                                                           *)
THEOREM DocumentsAreInOrder == Spec => []WrittenInOrder
<1>1. StartupInv => WrittenInOrder
  <2> SUFFICES ASSUME StartupInv PROVE WrittenInOrder
    OBVIOUS
  <2>1. References /\ Chain
    BY DEF StartupInv
  <2>2. ASSUME NEW p \in Stored(projects), p \in Stored(branches),
               p \in Library => p \in Stored(commits)
        PROVE  Resolves(p)
    BY <2>1, <2>2 DEF References, Resolves
  <2>3. \A p \in Stored(projects) \ Library : Resolves(p)
    BY <2>1, <2>2 DEF Chain
  <2>4. ASSUME step = "serving", failures = 0, NEW p \in Library
        PROVE  p \in Stored(projects) \cap elements /\ Resolves(p) /\ branches[p].head # Null
    <3>1. "versions" \in collections /\ schema = 3
      BY <2>4 DEF StartupInv, Order
    <3>2. p \in elements
      BY <2>4, <3>1 DEF StartupInv, NothingFailed, Empties, Adding
    <3>3. p \in Stored(commits) /\ p \in Stored(branches) /\ p \in Stored(projects)
      BY <2>1, <3>2 DEF Chain
    <3>4. branches[p].head = p /\ p # Null
      BY <2>1, <2>4, <3>3, LibraryAssumption, MigratorAssumption DEF References
    <3> QED  BY <2>2, <3>2, <3>3, <3>4
  <2> QED  BY <2>1, <2>3, <2>4 DEF WrittenInOrder, Chain, AtStep
<1> QED  BY <1>1, StartupInvariant, PTL

(* NothingOverwritten: no step of any start, whatever failed before, loses *)
(* or overwrites what is stored, and a newer database is not touched.      *)
THEOREM NothingIsOverwritten == Spec => NothingOverwritten
<1>1. StartupInv /\ [Next]_vars => [Kept]_vars
  BY StartupStep
<1> QED
  BY <1>1, StartupInvariant, PTL DEF Spec, NothingOverwritten, Kept
=============================================================================
