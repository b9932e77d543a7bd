# Formal model of the Structura Systems server

The server (`strukturasystemsserver`, C++ on Drogon) keeps SysML v2 projects, their branches, commits and tags, and the
accounts of its users. It answers HTTP requests on several threads from services that hold everything in memory and write
every change to MongoDB; when it starts, the services are built from the database. This directory holds TLA+ modules that
model those services and handlers, TLC configurations that check them on small instances, and proofs that TLAPS checks for
instances of every size. Paths below are relative to `src/strukturasystemsserver/src/`.

## The system

| Component | State | Operations | What makes it correct |
| --- | --- | --- | --- |
| `ProjectVersioningService` | branches, commits, tags per project; commit index; cache of computed states | commit, merge, create/delete branch and tag, replace/restore default branch, forget a project | no acknowledged commit is lost, histories are closed, names are unique, a head only advances |
| `ServerProjectService` | `ProjectMap`, fields of each project | create, update, change ownership, delete | memory follows the database, what is deleted stays deleted, the default branch exists |
| `CommitController`, `ProjectController`, `withProject` | none (each request keeps what it looked up) | the handlers | stale lookups do no harm |
| `DataBaseController` | the collections | one statement per write, bulk reads at start | the database is whole whenever the process dies |
| `AuthenticationService` | accounts, in memory and stored | login, add, delete, change, own password | a change during a slow hash is noticed; memory is what is stored |
| `SessionStore` | bearer tokens | create, validate, revoke, purge | no token outlives the password or role it was opened with |
| `AuthenticationController`, `GroupController`, `JwtFilter` | none (copies of users) | the handlers | the last administrator stays, a reset password must be changed |
| `AccessControlService` | none | predicates on users and projects | |
| `LoginThrottle` | sliding windows per name and address | check, record, purge | limits hold, memory is bounded, Retry-After is long enough |
| initialisation, `DatabaseMigrator` | schema version | initialise, migrate | what is served has the current form, nothing stored is overwritten, a start succeeds in the end |
| `QueryService` | queries per project | create, update, delete, delete with the project, run | memory follows the database, deleted queries stay deleted |
| `DigitalTwinService` | twins per project | create | a twin refers to a commit that is there |
| `paginate` | none | cut a page from a list | a walk through the pages shows everything, in order |
| `ElementNavigationService`, entities, `SystemController` | none | read, format | |

Interaction: a handler looks up the project through `withProject`, then commits through `ProjectVersioningService`, then
calls the service that changes something. Between these calls it holds no lock. `ServerProjectService` calls
`QueryService` and `ProjectVersioningService` while holding its own `Mutex` (lock order: projects, then queries or versions). Every service
writes to the database while holding its `Mutex` exclusively. The accounts are a system of their own: the other handlers
only ask whether the user may do something.

What is hard: several threads inside handlers at once (there is no transaction around a handler), writes that fail or
whose answer is lost between two changes in memory, and a process that dies between two writes. `PROJECT.json` lists each
such place in the code under `hazards`, with the properties that watch it.

## The modules

Models of projects and versions:

- `DatabaseWrites`: a write is acknowledged, refused without effect, or applied although the driver throws (`DbOutcomes`
  says which of these an instance has).
- `ModelDatabase`: the collections for projects, branches, commits, tags, and one operator per handler of
  `DataBaseController`. What is fixed when an object is built (`branchOf`, `commitOf`, `tagOf`) is kept once; what changes
  later (head, project fields) is kept in memory and in the document.
- `Requests`: what each thread has looked up and at which step its request is; the two locks; the history the properties
  speak of (`acked`, `deleted`).
- `ProjectVersioningService`, `ServerProjectService`: the services. A lookup under a shared lock is one step. A change holds
  the lock over several steps, separated where the process may die: after the database write, and where a nested lock is
  given back. The updates of `ServerProjectService` also keep their rollback as steps of their own.
- `CommitController`, `ProjectController`: the handlers, as sequences of these calls.
- `ModelServer`: threads, services, database and `Restart` together; `Spec`. `updateProject` of the service is called
  `changeProject` here, because the database has an `updateProject` too.
- `ModelServerProperties`: the properties and the fairness; `MCModelServer`: symmetry.
- `VersionStore`: the abstract specification. Whole steps on a durable store (add, change and drop a project, branch or tag;
  add a commit; move a head) and what clients were told; no threads, memory or failures. `ModelServerProperties` instantiates
  it as `Store`: a stored branch is its project, name and head in the document; `told` is `acked`; `gone` is `deleted`.
  `ImplementsStore` is its specification as a property of `ModelServer`. The steps between writes, refused writes and
  restarts are stutters. A head may only move to a commit that follows everything clients were told about the branch, so
  the refinement says that no interleaving or failure makes the server forget what it promised.
- `QueryService`, `DigitalTwinService`: these services, their collections and the handlers of their controllers. What a
  thread does inside `QueryService` is kept in `qreq`, while its request stays where `withProject` left it.
- `ModelServices`: `ModelServer` composed with both; `SpecServices`. A step is one of `ModelServer`, or of one of the new
  services with `ModelServer` unchanged but for the end of the request. The exception is `deleteProject`, which goes through
  `QueryService` and then on to `forgetProject`; in `ModelServer` alone that call only succeeds or throws.
- `ModelServicesProperties`, `MCModelServices`: as above.
- `ModelServerProofs` (types and locks, references and commits), `RetentionProofs` (what is deleted, what can be found, the
  refinement of `VersionStore`), `ServicesProofs` (the composition) and `AgreementProofs` (memory and database, default
  branches): the theorems, each module extending the one before it.

Accounts:

- `AccessControlService`: the predicates on users. `SessionStore`: tokens. `AuthenticationService`: accounts and passwords.
- `Accounts`: `JwtFilter`, the handlers that change accounts, the timer and the restart; `Spec`. A handler decides on the
  copies of actor and target it got from earlier calls. `AccountsProperties`, `MCAccounts`, `AccountsProofs` as above.

The rest, each a system of its own:

- `LoginThrottle`: the two tables of sliding windows. A login is checked, hashes, and records its failure; each operation
  reads the clock first (`login[t].now`) and works with that time once it has the Mutex, at most `Delay` later. The timer
  reads the clock once for both tables. The history variables keep, in real time, which attempts were admitted.
  `LoginThrottleProofs`: its theorems.
- `DatabaseMigrator`: documents as the migrations see them (which fields they have), and each statement of both migrations
  as one step; a statement on many documents may reach some of them before it fails. `Startup`: which databases a start may
  find, how it recognises and initialises one, the kill, and what users write while it serves: a project in two writes, its
  first commit in two more, and a new password. `StartupProofs`: its theorems.
- `Paging`: `paginate` as an operator on a list; a client follows the links while items appear and disappear. `PagingProofs`:
  its theorems.

Abstractions. UUIDs, tokens and password hashes are model values of which each is issued once. A commit is its project and
its previous commits: which data it changes is left out, and whatever `sysmllib` decides from the data (`prepareCommit`,
`analyzeMerge`) is a request that may be refused at any time (`Answer`). The several strings of a project are one value
(`Attributes`). A session expires at any moment. A password is known by its hash: a login or a change of one's own password
whose password is wrong is again `Answer`. A request's kind is settled by the first step only it takes. What a request's
body says is chosen by the step that first looks at it. `postCommit` and `postMerge` take one requested commit where the
body may list several: the handler looks each of them up by one more step of the same kind, and the service puts the head
in front of all that were found. In `Startup` a document is named by its project: a project has one branch and, if it is
a user's, at most one commit. Operators whose comment begins with "Fault" are not part of
the model: they are the planted errors that show each property can fail (`mutants` in `PROJECT.json`).

## The runs

| Run | Checks | Bounds, and why they are enough |
| --- | --- | --- |
| `versions` | `TypeOK`, `DocumentsClosed`, `AckedCommitsReachable`, `HeadsAdvance`, `ImplementsStore` | 2 threads, 1 project, 2 branches, 3 commits, all three outcomes of a write, 1 restart: two commits race for one head while a third is the merge or comes after a failed write |
| `lifecycle` | `LiveReferencesResolve`, `DeletedStaysDeleted`, `UniqueNames`, `ImplementsStore` | 2 projects, 3 branches, a commit, 2 tags, 2 names, all operations on them, refused writes, 1 restart: a request can hold the commit of a project that is deleted while another lives; and beside the default branch of a project two branches, or two tags, can ask for one name at once |
| `agreement` | `ServicesTypeOK`, `MemoryFollowsDatabase`, `QueriesFollowDatabase`, `DeletedQueriesStayDeleted`, `TwinsResolve` | the composition, all operations but the merge: 1 project, 2 branches with 2 names, 1 tag, 1 query with 2 contents, 1 twin, 2 attribute values, refused writes, 1 restart. A thread can be inside a query while the other deletes its project |
| `default_branch` | `DefaultBranchStored`, `AllLocksReleased` | the composition, 2 threads; writes to projects and branches do not fail, those to queries may; with fairness |
| `restore_default` | `DefaultBranchStored` is violated | one refused write is enough |
| `forget_project` | `DeletedProjectForgotten` is violated | no failure needed |
| `accounts` | `TypeOK`, `SessionsCurrent`, `MemoryIsStored`, `PendingChangeStays` | 2 threads, 2 users, 2 roles, a group, 2 tokens, any number of restarts; 4 hashes, which the race of `PendingChangeStays` needs (two users, a reset, a late change). The roles in between change only which requests are refused |
| `last_administrator` | `AdministratorRemains` is violated | 2 administrators |
| `throttle` | `TypeOK`, `IpLimit`, `FailureLimit`, `RetryAfterSuffices` | 2 threads, 2 addresses and 2 names for tables of one key, windows of 3 with limits 2 and 1, a wait of 1 for the Mutex, time up to 5: a window passes, entries get out of order, a key takes the place of an expired one |
| `login_limit` | `FailuresWithinLimit` is violated | 2 threads, a limit of 1, no wait for the Mutex |
| `startup` | `TypeOK`, `SchemaTellsForm`, `WrittenInOrder`, `NothingOverwritten`, `EventuallyServes` | 2 library projects and one of a user, 2 users in every old form, a commit with two changes, all outcomes of a write, 2 failures or kills: the second can hit the repair of what the first left |
| `paging` | `TypeOK`, `NoneSkipped`, `PagesInOrder` | 5 items, pages of up to 3 (default 2): first, inner, last and empty pages, with any changes in between |

Deadlock is checked in every run but `startup`, where the server really stops for good on the database of a newer
binary. `Symmetry` permutes identifiers and threads and is used with invariants and action properties only, never with
liveness. Commits, branches, tags, hashes and tokens are bounded by their sets, restarts of the
model server by `MaxRestarts`, the clock of the throttle by `MaxTime`, failures and kills during starts by `MaxFailures`;
there are no other bounds.

Outcome `"lost"` (applied, reported as failed) is part of `versions` and `startup`. In the model server, with it the database may get ahead of memory
until the next start, so `UniqueNames`, `MemoryFollowsDatabase`, `QueriesFollowDatabase`, `MemoryIsStored` and
`PendingChangeStays` are properties of acknowledged and refused writes.

Fairness (`Fairness` in `ModelServerProperties`, `ServicesFairness` in `ModelServicesProperties`): a thread inside a critical
section goes on (weak fairness: it is running and its database call ends), and a thread that waits for an inner lock while
holding the outer one gets it (strong fairness, because other threads may pass through that lock again and again; the
platform's `shared_mutex` must not starve it; the standard does not promise this). Nothing is assumed of clients. `AllLocksReleased` needs the lock order: were
`QueryService` to wait for the lock of its caller, the two would wait for each other. In `startup`, each call of a start to
the database ends, because the driver has timeouts, and a stopped server is started again (weak fairness of `StartStep`).
The second is an assumption about the operator: nothing in the repository restarts the server (`docs/DEPLOYMENT.md` starts
it by hand, and `docker-compose.yaml` holds the database only). Failures are finitely many.

## What the runs found

1. `restore_default`. `updateProject` replaces the default branch in memory, writes the project, and after a failed write
   puts the old default branch back. It does not hold the lock of the versioning service in between, so another request may
   delete the old default branch, which is not the default at that moment. The restored default branch then does not exist.
   `DefaultBranchStored` holds while writes succeed (`default_branch`).
2. `forget_project`. A request that found its project and commit before the project was deleted may create a branch or tag
   afterwards: memory and the database keep entries of a project that is gone, although `forgetProject` is to forget
   everything. `LiveReferencesResolve` shows that this does not reach projects that exist.
3. `last_administrator`. Counting the administrators and removing one are two calls; two requests that both count two leave
   none. `UPGRADE.md` says the last one can neither be deleted nor demoted.
4. `login_limit`. `UPGRADE.md` promises at most 5 failed logins of a name in 15 minutes. An attempt is checked before the
   password is hashed and counted after it, so attempts that were checked together may all fail. `FailureLimit` says what
   holds: in a stretch of a window less the wait for the lock, at most one more for each other thread. In the whole
   window there may be more still, because an entry that was written with an old time is dropped early.

Noticed while modelling, and built into properties that hold:

- A new database gets its library projects, then the default branches they name, then the commits these name as heads. The
  collection of versions is there before. When a write fails or the process ends in between, the next start takes the
  database for an old one, migrates it, and serves library projects whose default branch or import commit does not exist,
  for good (in `startup`, one refused write of the branches is enough). `WrittenInOrder` says what holds: users' projects are
  written the other way round (the branch before the project, the commit before the head) and always resolve; what is left
  of the library reaches back to its projects, and after a start that nothing interrupted all of it is there.
- A table that is full does not limit new addresses or names at all; `IpLimit` speaks of addresses that are tracked.
- `UPGRADE.md` says that schema version 2 is written after the first migration; the code writes 3 after both. A failure in
  the second repeats the first. `NothingOverwritten` shows that this does no harm.
- A crash between the creation of two collections leaves an empty database that a release build refuses forever, with the
  message that it is not empty.
- A cursor whose item was deleted answers 400, and the page behind the last item has no link. `NoneSkipped` therefore speaks
  of walks that end at a missing link of a page that shows something, or at an end of the list.
- `createTwin` keeps a twin in memory that the database refused, until the next start.

## What is proved

TLC checks the instances of the table; the theorems hold for every number of threads, identifiers, names and restarts. The
invariants were model-checked before they were proved. Unless a theorem below says otherwise it holds for every set of write
outcomes, `"lost"` included. The assumptions are those of the modules: `Null` is none of the values, the sets of identifiers
are disjoint, `MainName \in Names`, the sets of outcomes are subsets of `Outcomes`.

Projects and versions (`Spec`):

- `TypeCorrect`: `TypeOK`, which includes the lock discipline (`LocksOK`): a thread holds a lock exactly while its request is
  at a step inside that service. This is what makes the later proofs possible: of two threads, one at most is inside. One
  lemma per action; `RequestStep` and `LockStep` say once what a step of one thread does to requests and locks.
- `DatabaseClosed`: `DocumentsClosed`. It is not inductive: that the head written by `MoveHead` is stored depends on the
  request, and the previous commits written by `StoreCommit` come from memory. `ClosedInv` adds that the commits in the
  index, in heads, in requests and in tags are stored.
- `NoAckedCommitLost`: `AckedCommitsReachable`, and `BranchesAdvance`: `HeadsAdvance`. `HistoryInv` adds that an unused branch
  is blank (`FreshBlank`), that a commit about to become head has the current heads of memory and of the document in its
  history (`NewHeadFollows`), and that the head in the document is not behind memory (`DocHeadFollows`): this is what makes
  a failed or unanswered write and a restart harmless. "In the history" is stated with sets closed under "previous", so no
  recursion is needed.
- `ReferencesResolve`: `LiveReferencesResolve`. `BelongInv` says that everything in a map, in the documents and in a request
  is of the project it is kept under; `LiveInv` adds that what a request holds of a project that can still be found resolves,
  and that the documents of a stored project refer only to its own commits, which is what a restart needs. A request that
  holds the commit of a deleted project holds nothing of another one, so it can only write where nobody looks.
- `NothingComesBack`: `DeletedStaysDeleted`. `GoneInv` adds that a request about to erase a branch, a tag or the versions of
  a project has already removed the document, that nobody can write that document again, and that a project a request
  works on under the lock of `ServerProjectService` is not deleted.
- `StoreImplemented`: `Spec => ImplementsStore`. The initial states map to initial states, and every step maps to a step of `VersionStore` or a stutter. `CreationInv` is what the creation of a project needs: its default branch is
  stored before its document, and no other request has found it.
- `MemoryAgrees` and `NamesUnique` (under `Definite`): `MemoryFollowsDatabase` and `UniqueNames`. `AgreementInv` says, for
  states in which threads are inside, in what memory and database differ: by the branch, tag or commit a thread is about
  to push or erase (`Changing`, `Adding`), and by the fields it is about to write or to put back (`Rewriting`).
- `DefaultIsStored` and `DefaultOutlastsFailures`: `DefaultBranchStored`, under either of two hypotheses, since the property is
  not true of the whole system (`restore_default`): that writes to projects and branches succeed and there is no restart, or
  that there are no updates of projects (their owner may change). `DefaultInv` says of a project that has a document or is about to
  get it (`Known`) that its default branch is in memory and no thread is erasing it. The first hypothesis includes the restart:
  an update that has made another branch the default in memory but not in the document yet lets another thread
  delete the old default, and if the process dies now the document names a branch that is gone. For the second, `FixedInv`
  says that the document and memory name the same default branch, which is stored, and that the requests that write a
  project change its owner only; it holds for all outcomes of writes and all restarts. So the update is the only operation that
  can break the property.

The composition (`SpecServices`):

- `ServicesTypeCorrect`: `ServicesTypeOK`, with the same discipline for the Mutex of `QueryService`. `QueryRequestOK` ties the
  two records of a thread together: while it is inside `QueryService` its request is at `"project"` or at `"forget"`.
- `ServicesImplementModel`: `SpecServices => Spec`. Every step of the composition is a step of `ModelServer` (`Simulation`): a
  thread that leaves `QueryService` or creates a twin is, to `ModelServer`, one that answers, and `deleteProject` is simulated
  step by step, its call to the queries being a stutter when it succeeds and `DeleteQueriesFails` when it throws. So
  `ServicesDatabaseClosed`, `ServicesLoseNoCommit`, `ServicesImplementStore`, `ServicesAgree` and `ServicesKeepDefault` follow
  from the theorems above without a new proof.
- `QueriesStayDeleted`: `DeletedQueriesStayDeleted`. `DeletedInv` adds that queries in memory belong to the project under
  which they are kept, that the query a thread is about to push is not deleted, and that what a thread is about to erase has
  lost its document and cannot get it back while the thread is inside.
- `TwinsStayResolved`: `TwinsResolve`. `TwinInv` adds that the twins and the commit of a request belong to their project; that the
  commit resolves is `LiveInv` of the projects, through `ServicesImplementModel`.
- `QueriesAgreed` (under `DefiniteQueries`): `QueriesFollowDatabase`. `QueryInv` says by what the collection and memory differ
  while a thread is inside, and that a thread that may have to roll an update back holds the content of the document.

Accounts (`Spec` of `Accounts`): every step makes at most one call of `AuthenticationService` (`StepIsCall`), so each invariant
is proved of the calls (`Call`) and not of the handlers.

- `AccountsTypeCorrect`: `TypeOK`; a handler that has decided holds what the call it makes needs, and a valid token was issued.
- `TokensCurrent`: `SessionsCurrent`, inductive together with the types.
- `AccountsStored` and `ResetSurvives` (under `DefiniteWrites`): `MemoryIsStored` and `PendingChangeStays`. `StoredInv` adds
  `HashesSpent`: the hash of every account was issued, so a hash issued later is another one. The second theorem needs the
  first: without it a restart brings back an account whose mark is gone.

The start (`Spec` of `Startup`): `StartupInv` is `TypeOK` with `Provenance` (which projects are of the library, and which id was
drawn for which data version), `References` (which branch a project names, and which commit a branch; the head of a user's
branch is stored, that of a library branch need not be), `Order` (what is not written yet at each step), `Chain` (which
documents are there when another is: for the library back to the project, for a user's project on to its branch),
`NothingFailed` (what a first start without failures finds) and `Progress` (which parts of the current form the documents
have at each step of the migration, and in a loop, all but those of `todo`; what users are writing while the server serves).
All four theorems follow: `StartupTypeCorrect`, `SchemaIsTold` (`SchemaTellsForm`), `DocumentsAreInOrder` (`WrittenInOrder`:
`References` and `Chain` give the order, `NothingFailed` the library) and `NothingIsOverwritten`. The proof showed what
the invariant had left out: the collection `"versions"` is the last one created and exists from then on, and a
loop of the migration only has stored documents left; without this a step of a state that is never reached breaks it.

The throttle (`Spec` of `LoginThrottle`), for any number of threads, addresses and names, any limits and windows longer than
`Delay`: `ThrottleTypeCorrect` (`TypeOK`), `AddressesLimited` (`IpLimit`), `FailuresLimited` (`FailureLimit`) and
`WaitingSuffices` (`RetryAfterSuffices`). Both limits are of stretches of time that are a window less `Delay` long, and
`Retry-After` is that of the limit per address: for the limit per name it need not suffice, because a login that was checked
earlier may fail in the meantime. Nothing says that the entries of a window are in order, because a thread that read
the clock earlier may write later. `ThrottleInv` says instead (`Recorded`) that what happened within a window less `Delay` is
the end of the table's queue, entry by entry, each entry written with a time that is at most `Delay` too old. An operation drops
entries from the front until one is young enough, so it stops before those (`DropKeeps`). From there on the limits are a matter
of counting: `PromisesOK` says that an address never has more entries than its limit, and that one that was refused
has room again at the promised time; `FailuresOK` counts the attempts that passed the check and have not ended yet (`Pending`)
with the failures: an attempt that passes adds to both sides of the limit what the other threads may still add. What
`dropExpired` leaves is defined by the first position of a sequence that is young enough; that this position exists
(`FirstPosition`) follows from the well-foundedness of the subsets of a finite set, which the provers can use where they
cannot use an induction theorem.

The pages (`Spec` of `Paging`), for lists and pages of any length: `PagingTypeCorrect` (`TypeOK`), `NothingSkipped`
(`NoneSkipped`) and `WalkInOrder` (`PagesInOrder`). `PagingInv` adds that the links of the page are its last and first item.
`ListSorted` says that `TheList` is the sorted list of what is present: the number of smaller items is an injection of a
finite set of n items into 0..n-1, so it reaches every place, without an induction. `PageIsStretch` takes `paginate` apart:
an answer is an error or a stretch of that list right behind the cursor, right before it, or at the front (`Stretch`).
`PageShown` is the argument for `NoneSkipped`: let a set hold, between any two of its items, all the stable ones, and
let it hold the cursor; then with the page added it still does, because the page lies next to the cursor in the list as it
is now, and every stable item is in it.

The hypotheses `Definite`, `DefiniteQueries` and `DefiniteWrites` say that `"lost"` is not among the outcomes: the driver does not
throw for a write that was applied. They are needed. When a write is applied and reported as failed, the server rolls
memory back while the document stays: memory is then behind the database, a branch created again under its name is a second
document of it, and a restart loads both. The runs have the same bound.

Only model-checked:

- `AllLocksReleased` and `EventuallyServes`: liveness under fairness, and `ENABLED`, are out of reach of the prover.

Every invariant and action property of a passing run is stated by a theorem; `DefaultBranchStored`, `MemoryFollowsDatabase`,
`UniqueNames`, `QueriesFollowDatabase`, `MemoryIsStored` and `PendingChangeStays` under the hypotheses given above.

The proofs found places where the model was wrong or could not be reasoned about. At a restart, an account kept the fields it had in
memory where the document had others; `readUserFromDatabase` now takes all accounts from the documents. Several
constants lacked the assumption that `Null` is none of them. And `Lately`, which says what the history of the throttle keeps,
filtered records that are in order; it now cuts them at the first that is young enough, which is the same. In `paginate`, the
guards of a `CASE` overlapped, so that TLC took the first arm and the semantics left it open: errors are now decided first.
`TheList` is built by counting the smaller items instead of by a choice among permutations, which is the same list.

## What is not modelled

`PROJECT.json` names every component with its status. Left out for good: parsing and formatting (`Entities/json`, most of
`RequestHelper`), CORS and configuration, the read-only `ElementNavigationService`, the external `sysmllib`, deployment
files. `setDefaultBranch` has no caller in the repository. The responses themselves are not modelled, so a data race that
only garbles a response (`createProject` serializes the project without the lock; a change that is rolled back may be read
before) is not checked. The `DataCache` of `ProjectVersioningService` holds states that `sysmllib` computed of
immutable commits, keyed by identifiers that are not issued again: a late entry, made by a reader of a deleted project, costs
memory only. Running a query or navigating elements changes nothing. A commit document holds its changes itself; the
collections of data versions and elements are written at initialisation only, and `addDataVersion` and `addElement` have no
caller.

## Plan

Done: projects and versions with their abstract store, the services for queries and twins composed with them, accounts,
throttle, start with migrations, and pages; theorems on all of them.

Next theorems: what still holds without `Definite` and the other hypotheses, that is, by which documents memory and database
may differ after a write that was applied and reported as failed.

Next models: the expiry of sessions over a clock (idle timeout and maximum lifetime), and `canAccessProject` with the
ownership of projects, which joins accounts and projects.
