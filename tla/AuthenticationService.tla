----------------------- MODULE AuthenticationService -----------------------
(***************************************************************************)
(* The user accounts, in memory and in the collection "users", and their   *)
(* passwords.  Every change holds the Mutex from its last check to its     *)
(* last assignment, so it is one step; whatever was read before the Mutex  *)
(* was taken (for the slow password hash, or by the controllers) comes as  *)
(* a parameter and may be out of date.                                     *)
(*                                                                         *)
(* A password is represented by its hash: hashes are salted, so that two   *)
(* computations never give the same one.                                   *)
(***************************************************************************)
EXTENDS SessionStore, AccessControlService, FiniteSets

CONSTANTS
  Usernames,    \* the names accounts may have
  AdminName,    \* "admin"
  Roles,        \* the roles given to accounts in this instance
  Groups,       \* the groups, NoGroup among them
  Hashes        \* the password hashes that may be computed

ASSUME RolesAssumption == Roles \subseteq USER_ROLE /\ GLOBAL_ADMINISTRATOR \in Roles
ASSUME NamesAssumption == AdminName \in Usernames /\ NoGroup \in Groups
ASSUME AccountNullAssumption ==
  Null \notin Usernames \cup Roles \cup Groups \cup Hashes \cup Tokens

VARIABLES
  users,        \* UsernameHashMap: the account of each name, or Null
  userDocs,     \* the documents of the collection "users"
  hashes        \* the hashes computed so far

accountVars == <<users, userDocs, hashes>>

Account == [role : Roles, group : Groups, hash : Hashes, mustChange : BOOLEAN]
Session == [user : Usernames, hash : Hashes, role : Roles]

ASSUME AccountAssumption == Null \notin Account \cup Session

(* The fields a request changes; Null is a std::nullopt, and mustChange    *)
(* says whether the mark is set.                                           *)
Change(role, group, hash, mustChange) ==
  [role |-> role, group |-> group, hash |-> hash, mustChange |-> mustChange]

Known(u) == users[u] # Null
Administrators ==
  {u \in Usernames : Known(u) /\ users[u].role = GLOBAL_ADMINISTRATOR}
countAdministrators == Cardinality(Administrators)

hashPassword(h) == h \notin hashes /\ hashes' = hashes \cup {h}

InitialAdministrator(h, generated) ==
  [role |-> GLOBAL_ADMINISTRATOR, group |-> NoGroup, hash |-> h,
   mustChange |-> generated]

(* The first start: on the accounts an earlier run has left, an            *)
(* administrator among them, or on an empty collection.                    *)
InitAccounts ==
  /\ hashes \in SUBSET Hashes
  /\ users \in [Usernames -> Account \cup {Null}]
  /\ Administrators # {}
  /\ hashes = {users[u].hash : u \in {v \in Usernames : Known(v)}}
  /\ \A u, v \in Usernames :
       Known(u) /\ Known(v) /\ u # v => users[u].hash # users[v].hash
  /\ userDocs = users

(* The constructor on a later start: an empty collection gets an           *)
(* administrator again.                                                    *)
readUserFromDatabase ==
  \/ /\ \E u \in Usernames : userDocs[u] # Null
     /\ users' = userDocs
     /\ UNCHANGED <<userDocs, hashes>>
  \/ /\ \A u \in Usernames : userDocs[u] = Null
     /\ \E h \in Hashes, generated \in BOOLEAN :
          /\ hashPassword(h)
          /\ users' = [userDocs EXCEPT ![AdminName] = InitialAdministrator(h, generated)]
          /\ userDocs' = [userDocs EXCEPT ![AdminName] = InitialAdministrator(h, generated)]

-----------------------------------------------------------------------------
(* The collection "users". *)

(* The name is the document's _id: a second document is refused. *)
InsertReported(u, o) == Reported(o) /\ userDocs[u] = Null

insertUser(u, account, o) ==
  userDocs' = IF Applied(o) /\ userDocs[u] = Null
              THEN [userDocs EXCEPT ![u] = account] ELSE userDocs

removeUser(u, o) ==
  userDocs' = IF Applied(o) THEN [userDocs EXCEPT ![u] = Null] ELSE userDocs

(* update_one without upsert. *)
storeUser(u, account, o) ==
  userDocs' = IF Applied(o) /\ userDocs[u] # Null
              THEN [userDocs EXCEPT ![u] = account] ELSE userDocs

-----------------------------------------------------------------------------
(* The operations. *)

(* Fault: the hash that was verified is not compared with the current one. *)
StillKnown(u, seen) == Known(u)

(* Nothing happened to the account while the password was being verified.  *)
StillVerified(u, seen) == Known(u) /\ users[u].hash = seen

openSession(u, seen, k) ==
  /\ StillVerified(u, seen)
  /\ createSession(k, u, seen, users[u].role)
  /\ UNCHANGED accountVars

addUser(u, role, group, h, o) ==
  LET account == [role |-> role, group |-> group, hash |-> h, mustChange |-> FALSE]
  IN  /\ ~Known(u)
      /\ hashPassword(h)
      /\ insertUser(u, account, o)
      /\ users' = IF InsertReported(u, o) THEN [users EXCEPT ![u] = account] ELSE users
      /\ UNCHANGED sessionVars

(* The database's refusal is caught and logged in removeUser, the account  *)
(* is gone from memory in any case.                                        *)
deleteUserFromDatabase(u, o) ==
  /\ Known(u)
  /\ removeUser(u, o)
  /\ users' = [users EXCEPT ![u] = Null]
  /\ revokeAllFor(u)
  /\ UNCHANGED <<hashes, issued>>

(* Fault: whether there is a new value is not asked. *)
AlwaysNew(new, old) == new

OrElse(new, old) == IF new = Null THEN old ELSE new

Changed(account, change) ==
  [role |-> OrElse(change.role, account.role),
   group |-> OrElse(change.group, account.group),
   hash |-> OrElse(change.hash, account.hash),
   mustChange |-> account.mustChange \/ change.mustChange]

Invalidates(account, change) ==
  change.hash # Null \/ change.role \notin {Null, account.role}

(* Fault: the account is changed in memory whatever the database answers. *)
AlwaysKeep(u, account, o) == users' = [users EXCEPT ![u] = account]

KeepIfReported(u, account, o) ==
  users' = IF Reported(o) THEN [users EXCEPT ![u] = account] ELSE users

changeUserInDatabase(u, change, o) ==
  LET account == Changed(users[u], change)
  IN  /\ Known(u)
      /\ IF change.hash # Null THEN hashPassword(change.hash) ELSE UNCHANGED hashes
      /\ storeUser(u, account, o)
      /\ KeepIfReported(u, account, o)
      /\ IF Reported(o) /\ Invalidates(users[u], change)
         THEN revokeAllFor(u) ELSE UNCHANGED sessions
      /\ UNCHANGED issued

(* Fault: as in StillKnown, for the password the client gave. *)
AnyPassword(u, seen) == Known(u)

(* The old password that was verified is still the current one. *)
OldPasswordHolds(u, seen) == Known(u) /\ users[u].hash = seen

changeOwnPassword(u, seen, token, h, o) ==
  LET account == [users[u] EXCEPT !.hash = h, !.mustChange = FALSE]
  IN  /\ OldPasswordHolds(u, seen)
      /\ hashPassword(h)
      /\ storeUser(u, account, o)
      /\ KeepIfReported(u, account, o)
      /\ IF Reported(o) THEN revokeAllForExcept(u, token, h) ELSE UNCHANGED sessions
      /\ UNCHANGED issued
=============================================================================
