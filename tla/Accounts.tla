------------------------------ MODULE Accounts ------------------------------
(***************************************************************************)
(* The requests that log in and manage users: JwtFilter, the handlers of   *)
(* AuthenticationController and GroupController, and the threads that run  *)
(* them.  A handler is a sequence of calls of AuthenticationService, each  *)
(* under a lock of its own; what a call returned is a copy, on which the   *)
(* handler decides while other threads go on.                              *)
(***************************************************************************)
EXTENDS AuthenticationService

CONSTANT Threads    \* the worker threads

VARIABLE work       \* what the request of each thread holds

vars == <<accountVars, sessionVars, work>>

(* Before the last administrator is deleted or demoted, they are counted. *)
Counting == {"countDelete", "countChange"}
Labels == {"idle", "login", "passed", "current", "acting", "adding",
           "deleting", "changing", "membership", "ownPassword"} \cup Counting

Identity == [name : Usernames, role : Roles, group : Groups]

(* What of the request's body no check looks at (a new password, the group *)
(* an administrator sets) is chosen by the step that uses it.              *)
Work ==
  [ at : Labels,
    token : Tokens \cup {Null},         \* of the Authorization header
    pending : BOOLEAN,                  \* the filter let only /me/password pass
    actor : Identity \cup {Null},       \* the copy currentUser returned
    user : Usernames \cup {Null},       \* the account the request is about
    hash : Hashes \cup {Null},          \* the hash a password was verified with
    role : Roles \cup {Null},           \* the role to be given
    group : Groups \cup {Null},         \* the group to be joined or left for
    own : BOOLEAN ]                     \* user is the actor's own account

Idle == [at |-> "idle", token |-> Null, pending |-> FALSE, actor |-> Null,
         user |-> Null, hash |-> Null, role |-> Null, group |-> Null, own |-> FALSE]

Init ==
  /\ InitAccounts
  /\ InitSessions
  /\ work = [t \in Threads |-> Idle]

At(t, label) == work[t].at = label
Respond(t) == work' = [work EXCEPT ![t] = Idle]

IdentityOf(u) == [name |-> u, role |-> users[u].role, group |-> users[u].group]

-----------------------------------------------------------------------------
(* Login, the filter and currentUser. *)

(* The hash to verify the password with is read; hashing needs no lock. *)
login(t, u) ==
  /\ At(t, "idle")
  /\ Known(u)
  /\ work' = [work EXCEPT ![t] = [Idle EXCEPT !.at = "login", !.user = u,
                                              !.hash = users[u].hash]]
  /\ UNCHANGED <<accountVars, sessionVars>>

(* The password was right. *)
loginVerified(t, k) ==
  /\ At(t, "login")
  /\ openSession(work[t].user, work[t].hash, k)
  /\ Respond(t)

(* JwtFilter: the token is validated and its user looked up; a pending     *)
(* password change restricts the request.  The two calls are one step: any *)
(* change of the user between them that matters revokes the token, and     *)
(* currentUser finds out.                                                  *)
doFilter(t, k) ==
  /\ At(t, "idle")
  /\ Valid(k)
  /\ Known(sessions[k].user)
  /\ work' = [work EXCEPT ![t] = [Idle EXCEPT !.at = "passed", !.token = k,
                !.pending = users[sessions[k].user].mustChange]]
  /\ UNCHANGED <<accountVars, sessionVars>>

(* currentUser validates the token again ... *)
currentUser(t) ==
  /\ At(t, "passed")
  /\ Valid(work[t].token)
  /\ work' = [work EXCEPT ![t].at = "current",
                          ![t].user = sessions[work[t].token].user]
  /\ UNCHANGED <<accountVars, sessionVars>>

(* ... and looks the user up again. *)
findActor(t) ==
  /\ At(t, "current")
  /\ Known(work[t].user)
  /\ work' = [work EXCEPT ![t].at = "acting", ![t].user = Null,
                          ![t].actor = IdentityOf(work[t].user)]
  /\ UNCHANGED <<accountVars, sessionVars>>

(* validate finds the session expired and erases it. *)
validateExpired(t, k) ==
  /\ \/ At(t, "idle")
     \/ At(t, "passed") /\ work[t].token = k
  /\ Valid(k)
  /\ purgeExpired({k})
  /\ Respond(t)
  /\ UNCHANGED accountVars

-----------------------------------------------------------------------------
(* The handlers: who may do it is decided on copies. *)

(* The actor of a request that got past a filter without restriction. *)
Acts(t) == At(t, "acting") /\ ~work[t].pending

(* The handler decided; t goes on with the change of user u. *)
Decide(t, label, u, role, group) ==
  /\ work' = [work EXCEPT ![t] = [Idle EXCEPT !.at = label, !.user = u,
                !.role = role, !.group = group, !.own = (work[t].actor.name = u)]]
  /\ UNCHANGED <<accountVars, sessionVars>>

(* The name is looked up once before the password is hashed. *)
registerUser(t, u, r) ==
  /\ Acts(t)
  /\ canListAllUsers(work[t].actor)
  /\ canCreateUser(work[t].actor, r)
  /\ ~Known(u)
  /\ Decide(t, "adding", u, r, Null)

deleteUser(t, u) ==
  /\ Acts(t)
  /\ canListAllUsers(work[t].actor)
  /\ Known(u)
  /\ canDeleteUser(work[t].actor, IdentityOf(u))
  /\ Decide(t, IF isAdmin(users[u]) THEN "countDelete" ELSE "deleting", u, Null, Null)

changeUser(t, u, r) ==
  /\ Acts(t)
  /\ canListAllUsers(work[t].actor)
  /\ Known(u)
  /\ canModifyUser(work[t].actor, IdentityOf(u), {r} \ {Null})
  /\ Decide(t, IF isAdmin(users[u]) /\ r \notin {Null, GLOBAL_ADMINISTRATOR}
               THEN "countChange" ELSE "changing", u, r, Null)

addMember(t, u, g) ==
  /\ Acts(t)
  /\ g # NoGroup
  /\ Known(u)
  /\ canAddToGroup(work[t].actor, IdentityOf(u), g)
  /\ Decide(t, "membership", u, Null, g)

removeMember(t, u, g) ==
  /\ Acts(t)
  /\ g # NoGroup
  /\ Known(u)
  /\ users[u].group = g
  /\ canRemoveFromGroup(work[t].actor, IdentityOf(u), g)
  /\ Decide(t, "membership", u, Null, NoGroup)

(* The old password is verified against the hash read here. *)
putOwnPassword(t) ==
  /\ At(t, "acting")
  /\ Known(work[t].actor.name)
  /\ work' = [work EXCEPT ![t].at = "ownPassword", ![t].actor = Null,
                          ![t].user = work[t].actor.name,
                          ![t].hash = users[work[t].actor.name].hash]
  /\ UNCHANGED <<accountVars, sessionVars>>

(* The check that protects the last administrator. *)
OtherAdministrators(t) ==
  /\ work[t].at \in Counting
  /\ countAdministrators > 1
  /\ work' = [work EXCEPT ![t].at =
                IF work[t].at = "countDelete" THEN "deleting" ELSE "changing"]
  /\ UNCHANGED <<accountVars, sessionVars>>

-----------------------------------------------------------------------------
(* The handlers' calls that change something; each ends its request. *)

Add(t) ==
  /\ At(t, "adding")
  /\ \E g \in Groups, h \in Hashes, o \in DbOutcomes :
       addUser(work[t].user, work[t].role, g, h, o)
  /\ Respond(t)

Delete(t) ==
  /\ At(t, "deleting")
  /\ \E o \in DbOutcomes : deleteUserFromDatabase(work[t].user, o)
  /\ Respond(t)

(* A password set by someone else must be changed at the next login. *)
ChangeAccount(t) ==
  /\ At(t, "changing")
  /\ \E g \in Groups \cup {Null}, h \in Hashes \cup {Null}, o \in DbOutcomes :
       changeUserInDatabase(work[t].user,
         Change(work[t].role, g, h, h # Null /\ ~work[t].own), o)
  /\ Respond(t)

changeMembership(t) ==
  /\ At(t, "membership")
  /\ \E o \in DbOutcomes :
       changeUserInDatabase(work[t].user, Change(Null, work[t].group, Null, FALSE), o)
  /\ Respond(t)

ChangeOwn(t) ==
  /\ At(t, "ownPassword")
  /\ \E h \in Hashes, o \in DbOutcomes :
       changeOwnPassword(work[t].user, work[t].hash, work[t].token, h, o)
  /\ Respond(t)

(* The request is answered without a change: it is refused or only reads,  *)
(* the password is wrong, the account is gone, no database connection is   *)
(* to be had.  A counting request is refused only by the count.            *)
Answer(t) ==
  /\ ~At(t, "idle")
  /\ work[t].at \in Counting => countAdministrators <= 1
  /\ Respond(t)
  /\ UNCHANGED <<accountVars, sessionVars>>

-----------------------------------------------------------------------------
(* The timer of main.cpp. *)
Housekeeping ==
  /\ \E K \in SUBSET Tokens : purgeExpired(K)
  /\ UNCHANGED <<accountVars, work>>

Restart ==
  /\ readUserFromDatabase
  /\ LoseSessions
  /\ work' = [t \in Threads |-> Idle]

ThreadStep(t) ==
  \/ \E u \in Usernames : login(t, u)
  \/ \E k \in Tokens : loginVerified(t, k)
  \/ \E k \in Tokens : doFilter(t, k)
  \/ currentUser(t)
  \/ findActor(t)
  \/ \E k \in Tokens : validateExpired(t, k)
  \/ \E u \in Usernames, r \in Roles : registerUser(t, u, r)
  \/ \E u \in Usernames : deleteUser(t, u)
  \/ \E u \in Usernames, r \in Roles \cup {Null} : changeUser(t, u, r)
  \/ \E u \in Usernames, g \in Groups : addMember(t, u, g)
  \/ \E u \in Usernames, g \in Groups : removeMember(t, u, g)
  \/ putOwnPassword(t)
  \/ OtherAdministrators(t)
  \/ Add(t)
  \/ Delete(t)
  \/ ChangeAccount(t)
  \/ changeMembership(t)
  \/ ChangeOwn(t)
  \/ Answer(t)

Next == (\E t \in Threads : ThreadStep(t)) \/ Housekeeping \/ Restart

Spec == Init /\ [][Next]_vars
=============================================================================
