---------------------------- MODULE SessionStore ----------------------------
(***************************************************************************)
(* The bearer tokens of logged-in users.  They are kept in memory only: a  *)
(* restart ends every session.  A token is 32 random bytes, so one that    *)
(* was issued is never issued again.  Time is abstracted: a session may    *)
(* expire at any moment (idle timeout or maximum lifetime).                *)
(*                                                                         *)
(* A session remembers, for the properties only, the password hash and the *)
(* role its user had when the session was opened.                          *)
(***************************************************************************)
EXTENDS DatabaseWrites

CONSTANT Tokens     \* the tokens that may be issued

VARIABLES
  sessions,     \* Sessions: the session of a valid token, or Null
  issued        \* the tokens given to a client so far

sessionVars == <<sessions, issued>>

InitSessions ==
  /\ sessions = [k \in Tokens |-> Null]
  /\ issued = {}

Valid(k) == sessions[k] # Null
SessionsOf(u) == {k \in Tokens : Valid(k) /\ sessions[k].user = u}

Without(K) == [k \in Tokens |-> IF k \in K THEN Null ELSE sessions[k]]

createSession(k, u, hash, role) ==
  /\ k \notin issued
  /\ issued' = issued \cup {k}
  /\ sessions' = [sessions EXCEPT ![k] = [user |-> u, hash |-> hash, role |-> role]]

revokeAllFor(u) == sessions' = Without(SessionsOf(u))

(* The kept session goes on under the password its user has just chosen. *)
revokeAllForExcept(u, keep, hash) ==
  sessions' = [k \in Tokens |->
    CASE k \notin SessionsOf(u) -> sessions[k]
      [] k \in SessionsOf(u) /\ k = keep -> [sessions[k] EXCEPT !.hash = hash]
      [] OTHER -> Null]

(* Some of the sessions, K, have expired; all of them are erased at once. *)
purgeExpired(K) ==
  /\ \A k \in K : Valid(k)
  /\ sessions' = Without(K)
  /\ UNCHANGED issued

(* The process ends, and with it every session. *)
LoseSessions ==
  /\ sessions' = [k \in Tokens |-> Null]
  /\ UNCHANGED issued
=============================================================================
