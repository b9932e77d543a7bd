--------------------------- MODULE AccountsProofs ---------------------------
(***************************************************************************)
(* Proofs about AccountsProperties, for any number of accounts, passwords, *)
(* tokens and worker threads.  The type invariant and SessionsCurrent hold *)
(* whatever a write to the database does.  MemoryIsStored and              *)
(* PendingChangeStays need that a write which is applied is acknowledged:  *)
(* otherwise the stored account is ahead of the one in memory, and a       *)
(* restart brings it back.                                                 *)
(***************************************************************************)
EXTENDS AccountsProperties, TLAPS

(* The type invariant in its two halves.                                   *)
DataTyped ==
  /\ users \in [Usernames -> Account \cup {Null}]
  /\ userDocs \in [Usernames -> Account \cup {Null}]
  /\ hashes \subseteq Hashes
  /\ sessions \in [Tokens -> Session \cup {Null}]
  /\ \A k \in Tokens : Valid(k) => k \in issued
  /\ issued \subseteq Tokens

WorkTyped ==
  /\ work \in [Threads -> Work]
  /\ \A t \in Threads : WorkOK(work[t])

(* What a single step does to the request of a thread: TypeOK of the new   *)
(* request is all that has to be shown.                                    *)
LEMMA WorkMoves ==
  ASSUME WorkTyped, NEW t \in Threads, NEW w \in Work, WorkOK(w),
         work' = [work EXCEPT ![t] = w]
  PROVE  WorkTyped'
  BY DEF WorkTyped

LEMMA IdleTyped == Idle \in Work /\ WorkOK(Idle)
  BY DEF Idle, Work, WorkOK, Labels, Counting

(* A request that was answered is idle again.                              *)
LEMMA Responded ==
  ASSUME WorkTyped, NEW t \in Threads, Respond(t)
  PROVE  WorkTyped'
  BY IdleTyped, WorkMoves DEF Respond

(* What currentUser and the handlers hold of an account that exists.       *)
LEMMA IdentityTyped ==
  ASSUME DataTyped, NEW u \in Usernames, Known(u)
  PROVE  IdentityOf(u) \in Identity /\ users[u] \in Account /\ users[u].hash \in Hashes
  BY AccountAssumption DEF DataTyped, Known, IdentityOf, Identity, Account

(* A handler that has decided holds the account and what is to be done.    *)
LEMMA Decided ==
  ASSUME WorkTyped, NEW t \in Threads, At(t, "acting"),
         NEW label \in {"adding", "deleting", "changing", "membership"} \cup Counting,
         NEW u \in Usernames, NEW role \in Roles \cup {Null}, NEW group \in Groups \cup {Null},
         label = "adding" => role \in Roles,
         label = "membership" => group \in Groups,
         Decide(t, label, u, role, group)
  PROVE  WorkTyped'
<1>1. PICK own \in BOOLEAN : own = (work[t].actor.name = u)
  OBVIOUS
<1> DEFINE w == [Idle EXCEPT !.at = label, !.user = u, !.role = role, !.group = group,
                             !.own = own]
<1>2. w \in Work
  <2>1. label \in Labels
    BY DEF Labels
  <2> QED  BY <2>1, IdleTyped DEF Work
<1>3. w.at = label /\ w.user = u /\ w.role = role /\ w.group = group
  BY IdleTyped DEF Work
<1>4. WorkOK(w)
  BY <1>3 DEF WorkOK, Counting
<1>5. work' = [work EXCEPT ![t] = w]
  BY <1>1, Zenon DEF Decide
<1> HIDE DEF w
<1> QED  BY <1>2, <1>4, <1>5, WorkMoves

(* Every step of a thread leaves a well-typed request.                     *)
LEMMA WorkStaysTyped ==
  ASSUME DataTyped, WorkTyped, NEW t \in Threads, ThreadStep(t)
  PROVE  WorkTyped'
<1>0. work[t] \in Work /\ WorkOK(work[t])
  BY DEF WorkTyped
<1>1. ASSUME NEW u \in Usernames, login(t, u) PROVE WorkTyped'
  <2> DEFINE w == [Idle EXCEPT !.at = "login", !.user = u, !.hash = users[u].hash]
  <2>1. users[u].hash \in Hashes
    BY <1>1, IdentityTyped DEF login
  <2>2. w \in Work
    BY <2>1, IdleTyped DEF Work, Labels
  <2>3. WorkOK(w)
    BY <2>1, IdleTyped DEF Work, WorkOK, Counting
  <2>4. work' = [work EXCEPT ![t] = w]
    BY <1>1 DEF login
  <2> HIDE DEF w
  <2> QED  BY <2>2, <2>3, <2>4, WorkMoves
<1>2. ASSUME NEW k \in Tokens, loginVerified(t, k) PROVE WorkTyped'
  BY <1>2, Responded DEF loginVerified
<1>3. ASSUME NEW k \in Tokens, doFilter(t, k) PROVE WorkTyped'
  <2> DEFINE w == [Idle EXCEPT !.at = "passed", !.token = k,
                               !.pending = users[sessions[k].user].mustChange]
  <2>1. users[sessions[k].user].mustChange \in BOOLEAN
    <3>1. sessions[k].user \in Usernames
      BY <1>3 DEF doFilter, DataTyped, Valid, Session
    <3> QED  BY <1>3, <3>1, IdentityTyped DEF doFilter, Account
  <2>2. w \in Work
    BY <2>1, IdleTyped DEF Work, Labels
  <2>3. WorkOK(w)
    BY <2>1, IdleTyped DEF Work, WorkOK, Counting
  <2>4. work' = [work EXCEPT ![t] = w]
    BY <1>3 DEF doFilter
  <2> HIDE DEF w
  <2> QED  BY <2>2, <2>3, <2>4, WorkMoves
<1>4. CASE currentUser(t)
  <2> DEFINE w == [work[t] EXCEPT !.at = "current", !.user = sessions[work[t].token].user]
  <2>1. work[t].token \in Tokens
    BY <1>0, <1>4 DEF currentUser, At, WorkOK
  <2>2. sessions[work[t].token].user \in Usernames
    BY <1>4, <2>1 DEF currentUser, DataTyped, Valid, Session
  <2>3. w \in Work
    BY <1>0, <2>2 DEF Work, Labels
  <2>4. WorkOK(w)
    BY <1>0, <2>1, <2>2 DEF Work, WorkOK, Counting
  <2>5. work' = [work EXCEPT ![t] = w]
    BY <1>4 DEF currentUser, WorkTyped
  <2> HIDE DEF w
  <2> QED  BY <2>3, <2>4, <2>5, WorkMoves
<1>5. CASE findActor(t)
  <2> DEFINE w == [work[t] EXCEPT !.at = "acting", !.user = Null,
                                  !.actor = IdentityOf(work[t].user)]
  <2>1. work[t].token \in Tokens /\ work[t].user \in Usernames
    BY <1>0, <1>5 DEF findActor, At, WorkOK
  <2>2. IdentityOf(work[t].user) \in Identity
    BY <1>5, <2>1, IdentityTyped DEF findActor
  <2>3. w \in Work
    BY <1>0, <2>2 DEF Work, Labels
  <2>4. WorkOK(w)
    BY <1>0, <2>1, <2>2 DEF Work, WorkOK, Counting
  <2>5. work' = [work EXCEPT ![t] = w]
    BY <1>5 DEF findActor, WorkTyped
  <2> HIDE DEF w
  <2> QED  BY <2>3, <2>4, <2>5, WorkMoves
<1>6. ASSUME NEW k \in Tokens, validateExpired(t, k) PROVE WorkTyped'
  BY <1>6, Responded DEF validateExpired
<1>7. ASSUME NEW u \in Usernames, NEW r \in Roles, registerUser(t, u, r) PROVE WorkTyped'
  BY <1>7, Decided DEF registerUser, Acts
<1>8. ASSUME NEW u \in Usernames, deleteUser(t, u) PROVE WorkTyped'
  <2> PICK label \in {"deleting"} \cup Counting :
        label = IF isAdmin(users[u]) THEN "countDelete" ELSE "deleting"
    BY DEF Counting
  <2> QED  BY <1>8, Decided DEF deleteUser, Acts, Counting
<1>9. ASSUME NEW u \in Usernames, NEW r \in Roles \cup {Null}, changeUser(t, u, r)
      PROVE  WorkTyped'
  <2> PICK label \in {"changing"} \cup Counting :
        label = IF isAdmin(users[u]) /\ r \notin {Null, GLOBAL_ADMINISTRATOR}
                THEN "countChange" ELSE "changing"
    BY DEF Counting
  <2> QED  BY <1>9, Decided DEF changeUser, Acts, Counting
<1>10. ASSUME NEW u \in Usernames, NEW g \in Groups,
              addMember(t, u, g) \/ removeMember(t, u, g)
       PROVE  WorkTyped'
  BY <1>10, Decided, NamesAssumption DEF addMember, removeMember, Acts
<1>11. CASE putOwnPassword(t)
  <2> DEFINE u == work[t].actor.name
             w == [work[t] EXCEPT !.at = "ownPassword", !.actor = Null, !.user = u,
                                  !.hash = users[u].hash]
  <2>1. work[t].token \in Tokens /\ u \in Usernames
    BY <1>0, <1>11 DEF putOwnPassword, At, WorkOK, Identity
  <2>2. users[u].hash \in Hashes
    BY <1>11, <2>1, IdentityTyped DEF putOwnPassword
  <2>3. w \in Work
    BY <1>0, <2>1, <2>2 DEF Work, Labels
  <2>4. WorkOK(w)
    BY <1>0, <2>1, <2>2 DEF Work, WorkOK, Counting
  <2>5. work' = [work EXCEPT ![t] = w]
    BY <1>11 DEF putOwnPassword, WorkTyped
  <2> HIDE DEF w
  <2> QED  BY <2>3, <2>4, <2>5, WorkMoves
<1>12. CASE OtherAdministrators(t)
  <2> PICK label \in {"deleting", "changing"} :
        label = IF work[t].at = "countDelete" THEN "deleting" ELSE "changing"
    OBVIOUS
  <2> DEFINE w == [work[t] EXCEPT !.at = label]
  <2>1. work[t].user \in Usernames
    BY <1>0, <1>12 DEF OtherAdministrators, WorkOK
  <2>2. w \in Work
    BY <1>0 DEF Work, Labels
  <2>3. WorkOK(w)
    BY <1>0, <2>1 DEF Work, WorkOK, Counting
  <2>4. work' = [work EXCEPT ![t] = w]
    BY <1>12 DEF OtherAdministrators, WorkTyped
  <2> HIDE DEF w
  <2> QED  BY <2>2, <2>3, <2>4, WorkMoves
<1>13. CASE Add(t) \/ Delete(t) \/ ChangeAccount(t) \/ changeMembership(t) \/ ChangeOwn(t)
            \/ Answer(t)
  BY <1>13, Responded DEF Add, Delete, ChangeAccount, changeMembership, ChangeOwn, Answer
<1> QED
  BY <1>1, <1>2, <1>3, <1>4, <1>5, <1>6, <1>7, <1>8, <1>9, <1>10, <1>11, <1>12, <1>13
  DEF ThreadStep
-----------------------------------------------------------------------------
(* What the steps do to accounts and sessions: at most one call of the     *)
(* AuthenticationService, with arguments a handler can give it.            *)
Opens ==
  \E u \in Usernames, seen \in Hashes, k \in Tokens : openSession(u, seen, k)
Adds ==
  \E u \in Usernames, r \in Roles, g \in Groups, h \in Hashes, o \in DbOutcomes :
    addUser(u, r, g, h, o)
Deletes == \E u \in Usernames, o \in DbOutcomes : deleteUserFromDatabase(u, o)
Changes ==
  \E u \in Usernames, r \in Roles \cup {Null}, g \in Groups \cup {Null},
     h \in Hashes \cup {Null}, m \in BOOLEAN, o \in DbOutcomes :
    changeUserInDatabase(u, Change(r, g, h, m), o)
ChangesOwn ==
  \E t \in Threads, h \in Hashes, o \in DbOutcomes :
    /\ At(t, "ownPassword")
    /\ changeOwnPassword(work[t].user, work[t].hash, work[t].token, h, o)
Expires == (\E K \in SUBSET Tokens : purgeExpired(K)) /\ UNCHANGED accountVars
Restarts == readUserFromDatabase /\ LoseSessions

Call == Opens \/ Adds \/ Deletes \/ Changes \/ ChangesOwn \/ Expires \/ Restarts

LEMMA StepIsCall ==
  ASSUME WorkTyped, [Next]_vars
  PROVE  Call \/ UNCHANGED <<accountVars, sessionVars>>
<1>1. ASSUME NEW t \in Threads, ThreadStep(t)
      PROVE  Call \/ UNCHANGED <<accountVars, sessionVars>>
  <2>0. work[t] \in Work /\ WorkOK(work[t])
    BY DEF WorkTyped
  <2>1. ASSUME NEW k \in Tokens, loginVerified(t, k) PROVE Opens
    <3>1. work[t].user \in Usernames /\ work[t].hash \in Hashes
      BY <2>0, <2>1 DEF loginVerified, At, WorkOK
    <3> QED  BY <2>1, <3>1 DEF loginVerified, Opens
  <2>2. ASSUME NEW k \in Tokens, validateExpired(t, k) PROVE Expires
    BY <2>2 DEF validateExpired, Expires
  <2>3. ASSUME Add(t) PROVE Adds
    <3>1. work[t].user \in Usernames /\ work[t].role \in Roles
      BY <2>0, <2>3 DEF Add, At, WorkOK
    <3> QED  BY <2>3, <3>1 DEF Add, Adds
  <2>4. ASSUME Delete(t) PROVE Deletes
    <3>1. work[t].user \in Usernames
      BY <2>0, <2>4 DEF Delete, At, WorkOK
    <3> QED  BY <2>4, <3>1 DEF Delete, Deletes
  <2>5. ASSUME ChangeAccount(t) PROVE Changes
    <3>1. work[t].user \in Usernames /\ work[t].role \in Roles \cup {Null}
      BY <2>0, <2>5 DEF ChangeAccount, At, WorkOK, Work
    <3>2. PICK g \in Groups \cup {Null}, h \in Hashes \cup {Null}, o \in DbOutcomes :
            changeUserInDatabase(work[t].user,
              Change(work[t].role, g, h, h # Null /\ ~work[t].own), o)
      BY <2>5 DEF ChangeAccount
    <3>3. PICK m \in BOOLEAN : m = (h # Null /\ ~work[t].own)
      OBVIOUS
    <3>4. changeUserInDatabase(work[t].user, Change(work[t].role, g, h, m), o)
      BY <3>2, <3>3, Zenon
    <3> QED  BY <3>1, <3>4 DEF Changes
  <2>6. ASSUME changeMembership(t) PROVE Changes
    <3>1. work[t].user \in Usernames /\ work[t].group \in Groups
      BY <2>0, <2>6 DEF changeMembership, At, WorkOK
    <3> QED  BY <2>6, <3>1 DEF changeMembership, Changes
  <2>7. ASSUME ChangeOwn(t) PROVE ChangesOwn
    BY <2>7 DEF ChangeOwn, ChangesOwn
  <2>8. CASE \/ \E u \in Usernames : login(t, u)
             \/ \E k \in Tokens : doFilter(t, k)
             \/ currentUser(t) \/ findActor(t)
             \/ \E u \in Usernames, r \in Roles : registerUser(t, u, r)
             \/ \E u \in Usernames : deleteUser(t, u)
             \/ \E u \in Usernames, r \in Roles \cup {Null} : changeUser(t, u, r)
             \/ \E u \in Usernames, g \in Groups : addMember(t, u, g)
             \/ \E u \in Usernames, g \in Groups : removeMember(t, u, g)
             \/ putOwnPassword(t) \/ OtherAdministrators(t) \/ Answer(t)
    BY <2>8 DEF login, doFilter, currentUser, findActor, registerUser, deleteUser, changeUser,
       addMember, removeMember, putOwnPassword, OtherAdministrators, Answer, Decide
  <2> QED
    BY <1>1, <2>1, <2>2, <2>3, <2>4, <2>5, <2>6, <2>7, <2>8 DEF ThreadStep, Call
<1>2. ASSUME Housekeeping PROVE Expires
  BY <1>2 DEF Housekeeping, Expires
<1>3. ASSUME Restart PROVE Restarts
  BY <1>3 DEF Restart, Restarts
<1>4. ASSUME UNCHANGED vars PROVE UNCHANGED <<accountVars, sessionVars>>
  BY <1>4 DEF vars
<1> QED  BY <1>1, <1>2, <1>3, <1>4 DEF Next, Call

-----------------------------------------------------------------------------
(* What the calls do to types. *)

LEMMA WithoutTyped ==
  ASSUME DataTyped, NEW K \in SUBSET Tokens, sessions' = Without(K), UNCHANGED issued
  PROVE  /\ sessions' \in [Tokens -> Session \cup {Null}]
         /\ \A k \in Tokens : sessions'[k] # Null => sessions'[k] = sessions[k] /\ k \notin K
  BY DEF DataTyped, Without

(* The merge of an account with the fields of a request is an account.     *)
LEMMA ChangedTyped ==
  ASSUME NEW account \in Account,
         NEW r \in Roles \cup {Null}, NEW g \in Groups \cup {Null},
         NEW h \in Hashes \cup {Null}, NEW m \in BOOLEAN
  PROVE  /\ Changed(account, Change(r, g, h, m)) \in Account
         /\ Changed(account, Change(r, g, h, m)).hash = IF h = Null THEN account.hash ELSE h
         /\ Changed(account, Change(r, g, h, m)).role = IF r = Null THEN account.role ELSE r
         /\ account.mustChange => Changed(account, Change(r, g, h, m)).mustChange
  BY DEF Changed, Change, OrElse, Account

(* So is an account with a new password of its user.                       *)
LEMMA OwnTyped ==
  ASSUME NEW account \in Account, NEW h \in Hashes
  PROVE  /\ [account EXCEPT !.hash = h, !.mustChange = FALSE] \in Account
         /\ [account EXCEPT !.hash = h, !.mustChange = FALSE].hash = h
         /\ [account EXCEPT !.hash = h, !.mustChange = FALSE].role = account.role
  BY DEF Account

(* A call leaves accounts, documents, hashes and sessions of their types.  *)
LEMMA CallTyped ==
  ASSUME DataTyped, WorkTyped, Call
  PROVE  DataTyped'
<1>1. CASE Opens
  <2>1. PICK u \in Usernames, seen \in Hashes, k \in Tokens : openSession(u, seen, k)
    BY <1>1 DEF Opens
  <2>2. users[u].role \in Roles
    BY <2>1, IdentityTyped DEF openSession, StillVerified, Account
  <2> DEFINE new == [user |-> u, hash |-> seen, role |-> users[u].role]
  <2>3. new \in Session
    BY <2>2 DEF Session
  <2>4. sessions' = [sessions EXCEPT ![k] = new] /\ issued' = issued \cup {k}
    BY <2>1 DEF openSession, createSession
  <2> HIDE DEF new
  <2> QED  BY <2>1, <2>3, <2>4 DEF openSession, accountVars, DataTyped, Valid
<1>2. CASE Adds
  <2>1. PICK u \in Usernames, r \in Roles, g \in Groups, h \in Hashes, o \in DbOutcomes :
          addUser(u, r, g, h, o)
    BY <1>2 DEF Adds
  <2> DEFINE account == [role |-> r, group |-> g, hash |-> h, mustChange |-> FALSE]
  <2>2. account \in Account
    BY DEF Account
  <2>3. /\ users' \in {users, [users EXCEPT ![u] = account]}
        /\ userDocs' \in {userDocs, [userDocs EXCEPT ![u] = account]}
        /\ hashes' = hashes \cup {h} /\ UNCHANGED sessionVars
    BY <2>1 DEF addUser, insertUser, hashPassword
  <2> HIDE DEF account
  <2> QED  BY <2>2, <2>3 DEF DataTyped, Valid, sessionVars
<1>3. CASE Deletes
  <2>1. PICK u \in Usernames, o \in DbOutcomes : deleteUserFromDatabase(u, o)
    BY <1>3 DEF Deletes
  <2>2. /\ users' = [users EXCEPT ![u] = Null]
        /\ userDocs' \in {userDocs, [userDocs EXCEPT ![u] = Null]}
        /\ sessions' = Without(SessionsOf(u)) /\ UNCHANGED <<hashes, issued>>
    BY <2>1 DEF deleteUserFromDatabase, removeUser, revokeAllFor
  <2>3. SessionsOf(u) \in SUBSET Tokens
    BY DEF SessionsOf
  <2> QED  BY <2>2, <2>3, WithoutTyped DEF DataTyped, Valid
<1>4. CASE Changes
  <2>1. PICK u \in Usernames, r \in Roles \cup {Null}, g \in Groups \cup {Null},
             h \in Hashes \cup {Null}, m \in BOOLEAN, o \in DbOutcomes :
          changeUserInDatabase(u, Change(r, g, h, m), o)
    BY <1>4 DEF Changes
  <2> DEFINE account == Changed(users[u], Change(r, g, h, m))
  <2>2. account \in Account
    BY <2>1, ChangedTyped, IdentityTyped DEF changeUserInDatabase
  <2>3. hashes' \subseteq Hashes
    BY <2>1 DEF changeUserInDatabase, hashPassword, DataTyped, Change
  <2>4. /\ users' \in {users, [users EXCEPT ![u] = account]}
        /\ userDocs' \in {userDocs, [userDocs EXCEPT ![u] = account]}
        /\ UNCHANGED issued
        /\ sessions' = sessions \/ sessions' = Without(SessionsOf(u))
    BY <2>1 DEF changeUserInDatabase, storeUser, KeepIfReported, revokeAllFor
  <2> HIDE DEF account
  <2>5. SessionsOf(u) \in SUBSET Tokens
    BY DEF SessionsOf
  <2>6. /\ sessions' \in [Tokens -> Session \cup {Null}]
        /\ \A k \in Tokens : sessions'[k] # Null => sessions[k] # Null
    BY <2>4, <2>5, WithoutTyped DEF DataTyped
  <2> QED  BY <2>2, <2>3, <2>4, <2>6 DEF DataTyped, Valid
<1>5. CASE ChangesOwn
  <2>1. PICK t \in Threads, h \in Hashes, o \in DbOutcomes :
          /\ At(t, "ownPassword")
          /\ changeOwnPassword(work[t].user, work[t].hash, work[t].token, h, o)
    BY <1>5 DEF ChangesOwn
  <2>2. PICK u \in Usernames, keep \in Tokens : u = work[t].user /\ keep = work[t].token
    BY <2>1 DEF WorkTyped, At, WorkOK
  <2> DEFINE account == [users[u] EXCEPT !.hash = h, !.mustChange = FALSE]
  <2>3. account \in Account
    BY <2>1, <2>2, OwnTyped, IdentityTyped DEF changeOwnPassword, OldPasswordHolds
  <2>4. /\ users' \in {users, [users EXCEPT ![u] = account]}
        /\ userDocs' \in {userDocs, [userDocs EXCEPT ![u] = account]}
        /\ UNCHANGED issued /\ hashes' = hashes \cup {h}
        /\ sessions' = sessions \/ revokeAllForExcept(u, keep, h)
    BY <2>1, <2>2 DEF changeOwnPassword, storeUser, KeepIfReported, hashPassword
  <2> HIDE DEF account
  <2>5. ASSUME revokeAllForExcept(u, keep, h)
        PROVE  /\ sessions' \in [Tokens -> Session \cup {Null}]
               /\ \A k \in Tokens : sessions'[k] # Null => sessions[k] # Null
    <3>1. ASSUME NEW k \in Tokens
          PROVE  /\ sessions'[k] \in Session \cup {Null}
                 /\ sessions'[k] # Null => sessions[k] # Null
      BY <2>5 DEF revokeAllForExcept, SessionsOf, Valid, DataTyped, Session
    <3>2. sessions' = [k \in Tokens |-> sessions'[k]]
      BY <2>5 DEF revokeAllForExcept
    <3> QED  BY <3>1, <3>2
  <2>6. /\ sessions' \in [Tokens -> Session \cup {Null}]
        /\ \A k \in Tokens : sessions'[k] # Null => sessions[k] # Null
    BY <2>4, <2>5 DEF DataTyped
  <2> QED  BY <2>3, <2>4, <2>6 DEF DataTyped, Valid
<1>6. CASE Expires
  <2>1. PICK K \in SUBSET Tokens : purgeExpired(K)
    BY <1>6 DEF Expires
  <2> QED  BY <1>6, <2>1, WithoutTyped DEF Expires, purgeExpired, accountVars, DataTyped, Valid
<1>7. CASE Restarts
  <2>1. PICK S \in [Usernames -> Account \cup {Null}], H \in SUBSET Hashes :
          users' = S /\ userDocs' = S /\ hashes' = H
    <3>1. CASE users' = userDocs /\ UNCHANGED <<userDocs, hashes>>
      BY <3>1 DEF DataTyped
    <3>2. ASSUME NEW h \in Hashes, NEW generated \in BOOLEAN, hashPassword(h),
                 users' = [userDocs EXCEPT ![AdminName] = InitialAdministrator(h, generated)],
                 userDocs' = [userDocs EXCEPT ![AdminName] = InitialAdministrator(h, generated)]
          PROVE  users' \in [Usernames -> Account \cup {Null}] /\ hashes' \in SUBSET Hashes
      <4>1. InitialAdministrator(h, generated) \in Account
        BY RolesAssumption, NamesAssumption DEF InitialAdministrator, Account
      <4> QED  BY <3>2, <4>1 DEF hashPassword, DataTyped
    <3> QED  BY <1>7, <3>1, <3>2 DEF Restarts, readUserFromDatabase
  <2> QED  BY <1>7, <2>1 DEF Restarts, LoseSessions, DataTyped, Valid
<1> QED  BY <1>1, <1>2, <1>3, <1>4, <1>5, <1>6, <1>7 DEF Call

LEMMA TypeCorrectInit == Init => DataTyped /\ WorkTyped
  BY IdleTyped DEF Init, InitAccounts, InitSessions, DataTyped, WorkTyped, Valid

LEMMA TypeCorrectStep ==
  ASSUME DataTyped, WorkTyped, [Next]_vars
  PROVE  DataTyped' /\ WorkTyped'
<1>1. DataTyped'
  BY StepIsCall, CallTyped DEF accountVars, sessionVars, DataTyped, Valid
<1>2. ASSUME NEW t \in Threads, ThreadStep(t) PROVE WorkTyped'
  BY <1>2, WorkStaysTyped
<1>3. ASSUME Housekeeping \/ UNCHANGED vars PROVE WorkTyped'
  BY <1>3 DEF Housekeeping, vars, WorkTyped
<1>4. ASSUME Restart PROVE WorkTyped'
  BY <1>4, IdleTyped DEF Restart, WorkTyped
<1> QED  BY <1>1, <1>2, <1>3, <1>4 DEF Next

LEMMA TypesInvariant == Spec => [](DataTyped /\ WorkTyped)
  BY TypeCorrectInit, TypeCorrectStep, PTL DEF Spec

(* TypeOK: no sequence of requests, answers, expiries and restarts leaves  *)
(* an account, a session or a request of a wrong form; a handler that      *)
(* decides has the copy of an existing user.                               *)
THEOREM AccountsTypeCorrect == Spec => []TypeOK
<1>1. DataTyped /\ WorkTyped => TypeOK
  BY DEF DataTyped, WorkTyped, TypeOK
<1> QED  BY <1>1, TypesInvariant, PTL
-----------------------------------------------------------------------------
LEMMA SessionUser ==
  ASSUME DataTyped, NEW k \in Tokens, Valid(k)
  PROVE  sessions[k] \in Session /\ sessions[k].user \in Usernames
  BY DEF DataTyped, Valid, Session

(* No call leaves a session behind that its account has outgrown.          *)
LEMMA CallKeepsSessions ==
  ASSUME DataTyped, WorkTyped, Call, SessionsCurrent
  PROVE  SessionsCurrent'
<1>0. SUFFICES ASSUME NEW k \in Tokens, Valid(k)'
               PROVE  /\ Known(sessions[k].user)'
                      /\ users'[sessions'[k].user].hash = sessions'[k].hash
                      /\ users'[sessions'[k].user].role = sessions'[k].role
  BY DEF SessionsCurrent
<1> USE DEF SessionsCurrent
<1>1. CASE Opens
  <2>1. PICK u \in Usernames, seen \in Hashes, new \in Tokens : openSession(u, seen, new)
    BY <1>1 DEF Opens
  <2>2. /\ users' = users
        /\ sessions' = [sessions EXCEPT ![new] =
                          [user |-> u, hash |-> seen, role |-> users[u].role]]
        /\ Known(u) /\ users[u].hash = seen
    BY <2>1 DEF openSession, createSession, StillVerified, accountVars
  <2> QED  BY <1>0, <2>2 DEF Valid, Known, DataTyped
<1>2. CASE Adds
  <2>1. PICK u \in Usernames : /\ ~Known(u) /\ UNCHANGED sessions
                               /\ \A v \in Usernames : v # u => users'[v] = users[v]
    BY <1>2 DEF Adds, addUser, sessionVars, DataTyped
  <2> QED  BY <1>0, <2>1, SessionUser DEF Valid, Known
<1>3. CASE Deletes
  <2>1. PICK u \in Usernames : /\ sessions' = Without(SessionsOf(u))
                               /\ users' = [users EXCEPT ![u] = Null]
    BY <1>3 DEF Deletes, deleteUserFromDatabase, revokeAllFor
  <2>2. Valid(k) /\ k \notin SessionsOf(u) /\ sessions'[k] = sessions[k]
    BY <1>0, <2>1 DEF Without, Valid
  <2>3. sessions[k].user # u
    BY <2>2 DEF SessionsOf
  <2> QED  BY <2>1, <2>2, <2>3, SessionUser DEF Known, DataTyped
<1>4. CASE Changes
  <2>1. PICK u \in Usernames, r \in Roles \cup {Null}, g \in Groups \cup {Null},
             h \in Hashes \cup {Null}, m \in BOOLEAN, o \in DbOutcomes :
          changeUserInDatabase(u, Change(r, g, h, m), o)
    BY <1>4 DEF Changes
  <2> DEFINE account == Changed(users[u], Change(r, g, h, m))
  <2>2. users[u] \in Account
    BY <2>1, IdentityTyped DEF changeUserInDatabase
  <2>3. account \in Account
    BY <2>2, ChangedTyped, Zenon
  <2>10. account # Null
    BY <2>3, AccountAssumption
  <2>4. /\ account.hash = IF h = Null THEN users[u].hash ELSE h
        /\ account.role = IF r = Null THEN users[u].role ELSE r
    BY <2>2 DEF Changed, Change, OrElse, Account
  <2>5. /\ users' = IF Reported(o) THEN [users EXCEPT ![u] = account] ELSE users
        /\ IF Reported(o) /\ (h # Null \/ r \notin {Null, users[u].role})
           THEN sessions' = Without(SessionsOf(u)) ELSE UNCHANGED sessions
    BY <2>1 DEF changeUserInDatabase, KeepIfReported, revokeAllFor, Invalidates, Change
  <2> HIDE DEF account
  <2>6. Valid(k) /\ sessions'[k] = sessions[k]
    BY <1>0, <2>5 DEF Without, Valid
  <2>7. CASE sessions[k].user # u
    BY <2>5, <2>6, <2>7, SessionUser DEF Known, DataTyped
  <2>8. CASE sessions[k].user = u /\ ~Reported(o)
    BY <2>5, <2>6, <2>8, SessionUser DEF Known
  <2>9. CASE sessions[k].user = u /\ Reported(o)
    <3>1. h = Null /\ r \in {Null, users[u].role}
      BY <1>0, <2>5, <2>6, <2>9 DEF Without, SessionsOf, Valid
    <3>2. users'[u] = account
      BY <2>5, <2>9 DEF DataTyped
    <3> QED  BY <2>4, <2>6, <2>9, <2>10, <3>1, <3>2 DEF Known
  <2> QED  BY <2>7, <2>8, <2>9
<1>5. CASE ChangesOwn
  <2>1. PICK t \in Threads, h \in Hashes, o \in DbOutcomes :
          /\ At(t, "ownPassword")
          /\ changeOwnPassword(work[t].user, work[t].hash, work[t].token, h, o)
    BY <1>5 DEF ChangesOwn
  <2>2. PICK u \in Usernames, keep \in Tokens : u = work[t].user /\ keep = work[t].token
    BY <2>1 DEF WorkTyped, At, WorkOK
  <2> DEFINE account == [users[u] EXCEPT !.hash = h, !.mustChange = FALSE]
  <2>3. users[u] \in Account
    BY <2>1, <2>2, IdentityTyped DEF changeOwnPassword, OldPasswordHolds
  <2>4. /\ account \in Account /\ account # Null
        /\ account.hash = h /\ account.role = users[u].role
    BY <2>3, OwnTyped, AccountAssumption
  <2>5. /\ users' = IF Reported(o) THEN [users EXCEPT ![u] = account] ELSE users
        /\ IF Reported(o) THEN revokeAllForExcept(u, keep, h) ELSE UNCHANGED sessions
    BY <2>1, <2>2 DEF changeOwnPassword, KeepIfReported
  <2> HIDE DEF account
  <2>6. CASE ~Reported(o)
    BY <1>0, <2>5, <2>6 DEF Known, Valid
  <2>7. CASE Reported(o) /\ k \in SessionsOf(u)
    <3>1. sessions'[k] = [sessions[k] EXCEPT !.hash = h]
      BY <1>0, <2>5, <2>7 DEF revokeAllForExcept, Valid
    <3>2. /\ sessions[k] \in Session /\ sessions[k].user = u
          /\ sessions[k].role = users[u].role
      BY <2>7, SessionUser DEF SessionsOf
    <3>3. sessions'[k].user = u /\ sessions'[k].hash = h /\ sessions'[k].role = users[u].role
      BY <3>1, <3>2 DEF Session
    <3>4. users'[u] = account
      BY <2>5, <2>7 DEF DataTyped
    <3> QED  BY <2>4, <3>3, <3>4 DEF Known
  <2>8. CASE Reported(o) /\ k \notin SessionsOf(u)
    <3>1. sessions'[k] = sessions[k]
      BY <2>5, <2>8 DEF revokeAllForExcept
    <3>2. Valid(k) /\ sessions[k].user # u
      BY <1>0, <2>8, <3>1 DEF SessionsOf, Valid
    <3> QED  BY <2>5, <3>1, <3>2, SessionUser DEF Known, DataTyped
  <2> QED  BY <2>6, <2>7, <2>8
<1>6. CASE Expires
  <2>1. users' = users /\ Valid(k) /\ sessions'[k] = sessions[k]
    BY <1>0, <1>6 DEF Expires, purgeExpired, Without, accountVars, Valid
  <2> QED  BY <2>1 DEF Known
<1>7. CASE Restarts
  BY <1>0, <1>7 DEF Restarts, LoseSessions, Valid
<1> QED  BY <1>1, <1>2, <1>3, <1>4, <1>5, <1>6, <1>7 DEF Call

(* SessionsCurrent: whatever threads do between verifying a password and   *)
(* opening a session, and whatever a write to the database does, a valid   *)
(* token belongs to a user with the password and the role it was given for.*)
THEOREM TokensCurrent == Spec => []SessionsCurrent
<1>1. Init => SessionsCurrent
  BY DEF Init, InitSessions, SessionsCurrent, Valid
<1>2. DataTyped /\ WorkTyped /\ SessionsCurrent /\ [Next]_vars => SessionsCurrent'
  BY StepIsCall, CallKeepsSessions
  DEF accountVars, sessionVars, SessionsCurrent, Valid, Known
<1> QED  BY <1>1, <1>2, TypesInvariant, PTL DEF Spec
-----------------------------------------------------------------------------
(* A write that is applied is acknowledged, and one that fails is not.     *)
DefiniteWrites == "lost" \notin DbOutcomes

LEMMA Definitely ==
  ASSUME DefiniteWrites, NEW o \in DbOutcomes
  PROVE  Applied(o) <=> Reported(o)
  BY DbOutcomesAssumption DEF DefiniteWrites, Applied, Reported, Outcomes

(* The password of every account, in memory and stored, was hashed once.   *)
HashesSpent ==
  \A u \in Usernames : /\ Known(u) => users[u].hash \in hashes
                       /\ userDocs[u] # Null => userDocs[u].hash \in hashes

StoredInv == MemoryIsStored /\ HashesSpent

LEMMA CallKeepsStored ==
  ASSUME DefiniteWrites, DataTyped, WorkTyped, Call, StoredInv
  PROVE  StoredInv'
<1> USE DEF StoredInv, MemoryIsStored, HashesSpent
<1>1. CASE Opens \/ Expires
  BY <1>1 DEF Opens, Expires, openSession, accountVars, Known
<1>2. CASE Adds
  <2>1. PICK u \in Usernames, r \in Roles, g \in Groups, h \in Hashes, o \in DbOutcomes :
          addUser(u, r, g, h, o)
    BY <1>2 DEF Adds
  <2> DEFINE account == [role |-> r, group |-> g, hash |-> h, mustChange |-> FALSE]
  <2>2. account.hash = h
    OBVIOUS
  <2>3. /\ ~Known(u) /\ hashes' = hashes \cup {h}
        /\ \/ UNCHANGED <<users, userDocs>>
           \/ users' = [users EXCEPT ![u] = account] /\ userDocs' = [userDocs EXCEPT ![u] = account]
    BY <2>1, Definitely DEF addUser, insertUser, InsertReported, hashPassword
  <2> HIDE DEF account
  <2> QED  BY <2>2, <2>3 DEF Known, DataTyped
<1>3. CASE Deletes
  <2>1. PICK u \in Usernames : /\ users' = [users EXCEPT ![u] = Null]
                               /\ userDocs' \in {userDocs, [userDocs EXCEPT ![u] = Null]}
                               /\ UNCHANGED hashes
    BY <1>3 DEF Deletes, deleteUserFromDatabase, removeUser
  <2> QED  BY <2>1 DEF Known, DataTyped
<1>4. CASE Changes
  <2>1. PICK u \in Usernames, r \in Roles \cup {Null}, g \in Groups \cup {Null},
             h \in Hashes \cup {Null}, m \in BOOLEAN, o \in DbOutcomes :
          changeUserInDatabase(u, Change(r, g, h, m), o)
    BY <1>4 DEF Changes
  <2> DEFINE account == Changed(users[u], Change(r, g, h, m))
  <2>2. users[u] \in Account /\ Known(u)
    BY <2>1, IdentityTyped DEF changeUserInDatabase
  <2>3. account.hash = IF h = Null THEN users[u].hash ELSE h
    BY <2>2 DEF Changed, Change, OrElse, Account
  <2>4. hashes' = IF h # Null THEN hashes \cup {h} ELSE hashes
    BY <2>1 DEF changeUserInDatabase, hashPassword, Change
  <2>5. \/ UNCHANGED <<users, userDocs>>
        \/ users' = [users EXCEPT ![u] = account] /\ userDocs' = [userDocs EXCEPT ![u] = account]
    BY <2>1, <2>2, Definitely DEF changeUserInDatabase, storeUser, KeepIfReported, Known
  <2> HIDE DEF account
  <2> QED  BY <2>2, <2>3, <2>4, <2>5 DEF Known, DataTyped
<1>5. CASE ChangesOwn
  <2>1. PICK t \in Threads, h \in Hashes, o \in DbOutcomes :
          /\ At(t, "ownPassword")
          /\ changeOwnPassword(work[t].user, work[t].hash, work[t].token, h, o)
    BY <1>5 DEF ChangesOwn
  <2>2. PICK u \in Usernames : u = work[t].user
    BY <2>1 DEF WorkTyped, At, WorkOK
  <2> DEFINE account == [users[u] EXCEPT !.hash = h, !.mustChange = FALSE]
  <2>3. users[u] \in Account /\ Known(u)
    BY <2>1, <2>2, IdentityTyped DEF changeOwnPassword, OldPasswordHolds
  <2>4. account.hash = h
    BY <2>3, OwnTyped
  <2>5. hashes' = hashes \cup {h}
    BY <2>1 DEF changeOwnPassword, hashPassword
  <2>6. \/ UNCHANGED <<users, userDocs>>
        \/ users' = [users EXCEPT ![u] = account] /\ userDocs' = [userDocs EXCEPT ![u] = account]
    BY <2>1, <2>2, <2>3, Definitely DEF changeOwnPassword, storeUser, KeepIfReported, Known
  <2> HIDE DEF account
  <2> QED  BY <2>4, <2>5, <2>6 DEF Known, DataTyped
<1>6. CASE Restarts
  <2>1. CASE users' = userDocs /\ UNCHANGED <<userDocs, hashes>>
    BY <2>1 DEF Known
  <2>2. ASSUME NEW h \in Hashes, NEW generated \in BOOLEAN, hashPassword(h),
               users' = [userDocs EXCEPT ![AdminName] = InitialAdministrator(h, generated)],
               userDocs' = [userDocs EXCEPT ![AdminName] = InitialAdministrator(h, generated)]
        PROVE  StoredInv'
    <3>1. InitialAdministrator(h, generated).hash = h
      BY DEF InitialAdministrator
    <3> QED  BY <2>2, <3>1, NamesAssumption DEF Known, hashPassword, DataTyped
  <2> QED  BY <1>6, <2>1, <2>2 DEF Restarts, readUserFromDatabase
<1> QED  BY <1>1, <1>2, <1>3, <1>4, <1>5, <1>6 DEF Call

LEMMA StoredInvariant ==
  ASSUME DefiniteWrites
  PROVE  Spec => []StoredInv
<1>1. Init => StoredInv
  BY DEF Init, InitAccounts, StoredInv, MemoryIsStored, HashesSpent, Known
<1>2. DataTyped /\ WorkTyped /\ StoredInv /\ [Next]_vars => StoredInv'
  BY StepIsCall, CallKeepsStored
  DEF accountVars, sessionVars, StoredInv, MemoryIsStored, HashesSpent, Known
<1> QED  BY <1>1, <1>2, TypesInvariant, PTL DEF Spec

(* MemoryIsStored, when a write either is acknowledged or has no effect:   *)
(* what a user can log in with now is what a restart will read.            *)
THEOREM AccountsStored ==
  ASSUME DefiniteWrites
  PROVE  Spec => []MemoryIsStored
<1>1. StoredInv => MemoryIsStored
  BY DEF StoredInv
<1> QED  BY <1>1, StoredInvariant, PTL

-----------------------------------------------------------------------------
(* PendingChangeStays of a step.                                           *)
PendingStays ==
  \A u \in Usernames :
    Known(u) /\ users[u].mustChange /\ Known(u)' /\ ~users'[u].mustChange =>
      ChosenByUser(u) /\ users'[u].hash # users[u].hash

LEMMA CallKeepsPending ==
  ASSUME DataTyped, WorkTyped, Call, StoredInv
  PROVE  PendingStays
<1> SUFFICES ASSUME NEW u \in Usernames, Known(u), users[u].mustChange, Known(u)',
                    ~users'[u].mustChange
             PROVE  ChosenByUser(u) /\ users'[u].hash # users[u].hash
  BY DEF PendingStays
<1>0. users'[u] # users[u] /\ users[u] \in Account /\ users[u].hash \in hashes
  BY IdentityTyped DEF StoredInv, HashesSpent
<1>1. ~Opens /\ ~Expires
  BY <1>0 DEF Opens, Expires, openSession, accountVars
<1>2. ~Adds
  BY <1>0 DEF Adds, addUser, Known, DataTyped
<1>3. ~Deletes
  BY <1>0 DEF Deletes, deleteUserFromDatabase, Known, DataTyped
<1>4. ~Changes
  <2> SUFFICES ASSUME Changes PROVE FALSE
    OBVIOUS
  <2>1. PICK v \in Usernames, r \in Roles \cup {Null}, g \in Groups \cup {Null},
             h \in Hashes \cup {Null}, m \in BOOLEAN, o \in DbOutcomes :
          changeUserInDatabase(v, Change(r, g, h, m), o)
    BY DEF Changes
  <2>2. users' \in {users, [users EXCEPT ![v] = Changed(users[v], Change(r, g, h, m))]}
    BY <2>1 DEF changeUserInDatabase, KeepIfReported
  <2>3. v = u /\ users'[u] = Changed(users[u], Change(r, g, h, m))
    BY <1>0, <2>2 DEF DataTyped
  <2>4. Changed(users[u], Change(r, g, h, m)).mustChange = (users[u].mustChange \/ m)
    BY DEF Changed, Change
  <2> QED  BY <2>3, <2>4
<1>5. CASE ChangesOwn
  <2>1. PICK t \in Threads, h \in Hashes, o \in DbOutcomes :
          /\ At(t, "ownPassword")
          /\ changeOwnPassword(work[t].user, work[t].hash, work[t].token, h, o)
    BY <1>5 DEF ChangesOwn
  <2>2. PICK v \in Usernames : v = work[t].user
    BY <2>1 DEF WorkTyped, At, WorkOK
  <2>3. users' \in {users, [users EXCEPT ![v] = [users[v] EXCEPT !.hash = h,
                                                               !.mustChange = FALSE]]}
    BY <2>1, <2>2 DEF changeOwnPassword, KeepIfReported
  <2>4. v = u /\ users'[u] = [users[u] EXCEPT !.hash = h, !.mustChange = FALSE]
    BY <1>0, <2>3 DEF DataTyped
  <2>5. users'[u].hash = h
    BY <1>0, <2>4, OwnTyped
  <2>6. h # users[u].hash
    BY <1>0, <2>1 DEF changeOwnPassword, hashPassword
  <2>7. ChosenByUser(u)
    BY <2>1, <2>2, <2>4 DEF ChosenByUser, changeOwnPassword, OldPasswordHolds
  <2> QED  BY <2>5, <2>6, <2>7
<1>6. ~Restarts
  <2>1. userDocs[u] = users[u]
    BY DEF StoredInv, MemoryIsStored
  <2> QED  BY <1>0, <2>1 DEF Restarts, readUserFromDatabase, Known
<1> QED  BY <1>1, <1>2, <1>3, <1>4, <1>5, <1>6 DEF Call

(* PendingChangeStays, under the same hypothesis: a password set by        *)
(* somebody else stays marked until a thread of its user, having verified  *)
(* it, stores another one - also over restarts, and while a reset and a    *)
(* change by the user overlap.                                             *)
THEOREM ResetSurvives ==
  ASSUME DefiniteWrites
  PROVE  Spec => PendingChangeStays
<1>1. DataTyped /\ WorkTyped /\ StoredInv /\ [Next]_vars => [PendingStays]_vars
  BY StepIsCall, CallKeepsPending DEF accountVars, sessionVars, PendingStays
<1> QED
  BY <1>1, TypesInvariant, StoredInvariant, PTL DEF Spec, PendingChangeStays, PendingStays
=============================================================================
