---------------------------- MODULE LoginThrottle ----------------------------
(***************************************************************************)
(* The sliding windows that limit POST /login: requests per client address *)
(* and failed logins per username.  An attempt is checked before its slow  *)
(* password hash and recorded after it, so attempts overlap.  Every        *)
(* operation reads the clock before it waits for the Mutex: the time it    *)
(* works with may be old by then, by Delay at most, and the entries of a   *)
(* window need not be in the order of their times.                         *)
(*                                                                         *)
(* A key cut to MAX_KEY_LENGTH is a key; whether the password is right is  *)
(* left open.                                                              *)
(***************************************************************************)
EXTENDS Integers, SequencesExt

CONSTANTS
  Threads,                      \* the worker threads
  Ips, Usernames,               \* the keys clients come with
  MaxRequestsPerIp, IpWindow,   \* LoginThrottleLimits
  MaxFailuresPerUser, FailureWindow,
  MaxTrackedKeys,               \* MAX_TRACKED_KEYS
  Delay,                        \* how long an operation may wait for the Mutex
  MaxTime                       \* bound: where the clock stops

ASSUME LimitsAssumption ==
  /\ {MaxRequestsPerIp, MaxFailuresPerUser, MaxTrackedKeys} \subseteq Nat \ {0}
  /\ {IpWindow, FailureWindow, Delay, MaxTime} \subseteq Nat
  /\ Delay < IpWindow /\ Delay < FailureWindow
  /\ IsFiniteSet(Threads)

VARIABLES
  clock,
  requestsByIp, failuresByUser,  \* the two maps, from keys to windows
  login,       \* what each thread is doing
  purgeTime,   \* the time purgeExpired has read, or -1
  admitted,    \* when the requests of each address were counted, lately
  failed,      \* when the failures of each name were recorded, lately
  promised     \* from when on an address that was refused is to be served, or -1

throttleVars == <<requestsByIp, failuresByUser>>
historyVars == <<admitted, failed, promised>>
vars == <<clock, throttleVars, login, purgeTime, historyVars>>

Idle == [at |-> "idle"]

Init ==
  /\ clock = 0
  /\ requestsByIp = [i \in {} |-> <<>>]
  /\ failuresByUser = [n \in {} |-> <<>>]
  /\ login = [t \in Threads |-> Idle]
  /\ purgeTime = -1
  /\ admitted = [i \in Ips |-> <<>>]
  /\ failed = [n \in Usernames |-> <<>>]
  /\ promised = [i \in Ips |-> -1]

-----------------------------------------------------------------------------
(* Windows, and the maps that hold them. *)

(* Fault: the whole window begins anew when its oldest entry expires. *)
BeginAnew(w, now, length) == IF w # <<>> /\ now - Head(w) >= length THEN <<>> ELSE w

(* Entries are dropped from the front, up to the first that has not expired. *)
dropExpired(w, now, length) ==
  LET first == SelectInSeq(w, LAMBDA s : now - s < length)
  IN  IF first = 0 THEN <<>> ELSE SubSeq(w, first, Len(w))

(* Fault: the remaining time is rounded down. *)
RoundedDown(w, now, length) ==
  IF Head(w) + length - now < 2 THEN 1 ELSE Head(w) + length - now - 1

(* Whole seconds, rounded up, and at least one. *)
retryAfter(w, now, length) ==
  IF Head(w) + length - now < 1 THEN 1 ELSE Head(w) + length - now

Window(map, k) == IF k \in DOMAIN map THEN map[k] ELSE <<>>
Put(map, k, w) == [x \in DOMAIN map \cup {k} |-> IF x = k THEN w ELSE map[x]]

(* Fault: the size of the table is not looked at. *)
AlwaysTracked(map, k) == TRUE

(* A new key is tracked while the table has room. *)
Tracked(map, k) == k \in DOMAIN map \/ Cardinality(DOMAIN map) < MaxTrackedKeys

-----------------------------------------------------------------------------
(* POST /login. *)

(* A request arrives, and its thread reads the clock. *)
StartLogin(t, ip, name) ==
  /\ login[t] = Idle
  /\ login' = [login EXCEPT ![t] =
                [at |-> "check", now |-> clock, ip |-> ip, name |-> name]]
  /\ UNCHANGED <<clock, throttleVars, purgeTime, historyVars>>

LiveRequests(ip, now) == dropExpired(Window(requestsByIp, ip), now, IpWindow)
LiveFailures(name, now) ==
  dropExpired(Window(failuresByUser, name), now, FailureWindow)

RefusedByIp(ip, now) ==
  /\ Tracked(requestsByIp, ip)
  /\ Len(LiveRequests(ip, now)) >= MaxRequestsPerIp

(* Fault: the limit may be exceeded by one. *)
OverTheLimit(name, now) == Len(LiveFailures(name, now)) > MaxFailuresPerUser

RefusedByName(name, now) ==
  /\ name \in DOMAIN failuresByUser
  /\ Len(LiveFailures(name, now)) >= MaxFailuresPerUser

(* checkAttempt, when the address is at its limit: 429. *)
RefuseAddress(t) ==
  LET now == login[t].now
      ip == login[t].ip
      live == LiveRequests(ip, now)
  IN  /\ login[t].at = "check"
      /\ RefusedByIp(ip, now)
      /\ requestsByIp' = Put(requestsByIp, ip, live)
      /\ promised' = [promised EXCEPT ![ip] = clock + retryAfter(live, now, IpWindow)]
      /\ login' = [login EXCEPT ![t] = Idle]
      /\ UNCHANGED <<clock, failuresByUser, purgeTime, admitted, failed>>

(* checkAttempt, otherwise: the request is counted, then the name decides. *)
CountAttempt(t) ==
  LET now == login[t].now
      ip == login[t].ip
      name == login[t].name
  IN  /\ login[t].at = "check"
      /\ ~RefusedByIp(ip, now)
      /\ IF Tracked(requestsByIp, ip)
         THEN /\ requestsByIp' = Put(requestsByIp, ip, Append(LiveRequests(ip, now), now))
              /\ admitted' = [admitted EXCEPT ![ip] = Append(@, clock)]
              /\ promised' = [promised EXCEPT ![ip] = -1]
         ELSE UNCHANGED <<requestsByIp, admitted, promised>>
      /\ failuresByUser' = IF name \in DOMAIN failuresByUser
                           THEN Put(failuresByUser, name, LiveFailures(name, now))
                           ELSE failuresByUser
      /\ login' = [login EXCEPT ![t] =
                    IF RefusedByName(name, now) THEN Idle
                    ELSE [at |-> "hash", name |-> name]]
      /\ UNCHANGED <<clock, purgeTime, failed>>

(* authenticateUserWith returns; if it throws, the clock is read again.    *)
FinishHash(t) ==
  /\ login[t].at = "hash"
  /\ \/ login' = [login EXCEPT ![t] = Idle]
     \/ login' = [login EXCEPT ![t] =
                   [at |-> "record", now |-> clock, name |-> login[t].name]]
  /\ UNCHANGED <<clock, throttleVars, purgeTime, historyVars>>

(* With a full table, the failure of a new name is forgotten.              *)
recordFailure(t) ==
  LET now == login[t].now
      name == login[t].name
  IN  /\ login[t].at = "record"
      /\ IF Tracked(failuresByUser, name)
         THEN /\ failuresByUser' = Put(failuresByUser, name, Append(LiveFailures(name, now), now))
              /\ failed' = [failed EXCEPT ![name] = Append(@, clock)]
         ELSE UNCHANGED <<failuresByUser, failed>>
      /\ login' = [login EXCEPT ![t] = Idle]
      /\ UNCHANGED <<clock, requestsByIp, purgeTime, admitted, promised>>

-----------------------------------------------------------------------------
(* The timer in main purges both maps. *)

StartPurge ==
  /\ purgeTime = -1
  /\ purgeTime' = clock
  /\ UNCHANGED <<clock, throttleVars, login, historyVars>>

(* Windows without their expired entries, and only those that keep some.   *)
purgeMap(map, now, length) ==
  LET live(k) == dropExpired(map[k], now, length)
  IN  [k \in {x \in DOMAIN map : live(x) # <<>>} |-> live(k)]

purgeExpired ==
  /\ purgeTime # -1
  /\ failuresByUser' = purgeMap(failuresByUser, purgeTime, FailureWindow)
  /\ requestsByIp' = purgeMap(requestsByIp, purgeTime, IpWindow)
  /\ purgeTime' = -1
  /\ UNCHANGED <<clock, login, historyVars>>

-----------------------------------------------------------------------------
(* The time an operation works with is never older than Delay.  The        *)
(* records of what happened, which are in order, keep what is younger than *)
(* a window less Delay.                                                    *)
Lately(s, length) ==
  LET first == SelectInSeq(s, LAMBDA x : clock + 1 - x < length - Delay)
  IN  IF first = 0 THEN <<>> ELSE SubSeq(s, first, Len(s))

Tick ==
  /\ clock < MaxTime
  /\ \A t \in Threads : login[t].at \in {"check", "record"} => clock - login[t].now < Delay
  /\ purgeTime # -1 => clock - purgeTime < Delay
  /\ clock' = clock + 1
  /\ admitted' = [i \in Ips |-> Lately(admitted[i], IpWindow)]
  /\ failed' = [n \in Usernames |-> Lately(failed[n], FailureWindow)]
  /\ UNCHANGED <<throttleVars, login, purgeTime, promised>>

Next ==
  \/ \E t \in Threads : \/ \E ip \in Ips, name \in Usernames : StartLogin(t, ip, name)
                        \/ RefuseAddress(t)
                        \/ CountAttempt(t)
                        \/ FinishHash(t)
                        \/ recordFailure(t)
  \/ StartPurge
  \/ purgeExpired
  \/ Tick

Spec == Init /\ [][Next]_vars
=============================================================================
