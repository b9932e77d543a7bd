------------------------- MODULE AccountsProperties -------------------------
(***************************************************************************)
(* What the account management promises.                                   *)
(***************************************************************************)
EXTENDS Accounts

(* The fields a request holds fit the step it is at: a handler decides on  *)
(* the copy of an existing user only.                                      *)
WorkOK(w) ==
  /\ w.at \in {"passed", "current", "acting", "ownPassword"} => w.token \in Tokens
  /\ w.at = "acting" => w.actor \in Identity
  /\ w.at \in {"login", "current", "adding", "deleting", "changing",
               "membership", "ownPassword"} \cup Counting => w.user \in Usernames
  /\ w.at \in {"login", "ownPassword"} => w.hash \in Hashes
  /\ w.at = "adding" => w.role \in Roles
  /\ w.at = "membership" => w.group \in Groups

(* The type invariant of accounts, sessions and requests.                  *)
TypeOK ==
  /\ users \in [Usernames -> Account \cup {Null}]
  /\ userDocs \in [Usernames -> Account \cup {Null}]
  /\ hashes \subseteq Hashes
  /\ sessions \in [Tokens -> Session \cup {Null}]
  /\ \A k \in Tokens : Valid(k) => k \in issued
  /\ issued \subseteq Tokens
  /\ work \in [Threads -> Work]
  /\ \A t \in Threads : WorkOK(work[t])

(* Users that are deleted, or whose password or role is changed, lose      *)
(* their tokens at once: a valid token belongs to a user who exists and    *)
(* still has the password it was opened with (or chose with it) and the    *)
(* role of that time.  A login that verified the old password must not     *)
(* open a session after the change.                                        *)
SessionsCurrent ==
  \A k \in Tokens : Valid(k) =>
    /\ Known(sessions[k].user)
    /\ users[sessions[k].user].hash = sessions[k].hash
    /\ users[sessions[k].user].role = sessions[k].role

(* An account in memory is the stored one: the database is written first,  *)
(* and a refused write changes nothing.  (The reverse does not hold: an    *)
(* account whose removal is refused leaves memory only.)                   *)
MemoryIsStored == \A u \in Usernames : Known(u) => userDocs[u] = users[u]

(* A password somebody else has set must be changed by the user: the mark  *)
(* goes only when someone who verified this very password chooses another. *)
(* A changeOwnPassword that verified the password before the reset fails.  *)
ChosenByUser(u) ==
  \E t \in Threads : /\ At(t, "ownPassword")
                     /\ work[t].user = u
                     /\ work[t].hash = users[u].hash

PendingChangeStays ==
  [][\A u \in Usernames :
       Known(u) /\ users[u].mustChange /\ Known(u)' /\ ~users'[u].mustChange =>
         ChosenByUser(u) /\ users'[u].hash # users[u].hash]_vars

(* There is always an administrator: the last one can neither be deleted   *)
(* nor demoted.                                                            *)
AdministratorRemains == countAdministrators >= 1
=============================================================================
