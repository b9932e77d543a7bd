----------------------- MODULE LoginThrottleProperties -----------------------
(***************************************************************************)
(* What the windows guarantee although the clock is read before the lock,  *)
(* entries are out of order, tables are full and attempts overlap.         *)
(***************************************************************************)
EXTENDS LoginThrottle

Times == 0..MaxTime

(* Types, and neither table ever has more keys than MAX_TRACKED_KEYS. *)
TypeOK ==
  /\ clock \in Times
  /\ DOMAIN requestsByIp \subseteq Ips /\ DOMAIN failuresByUser \subseteq Usernames
  /\ \A i \in DOMAIN requestsByIp : requestsByIp[i] \in Seq(Times)
  /\ \A n \in DOMAIN failuresByUser : failuresByUser[n] \in Seq(Times)
  /\ Cardinality(DOMAIN requestsByIp) <= MaxTrackedKeys
  /\ Cardinality(DOMAIN failuresByUser) <= MaxTrackedKeys
  /\ \A t \in Threads : login[t].at \in {"idle", "check", "hash", "record"}
  /\ purgeTime \in Times \cup {-1}

(* In no stretch of real time shorter than the window by the delay of the  *)
(* lock are more requests of a tracked address admitted than its limit.    *)
IpLimit == \A i \in Ips : Len(admitted[i]) <= MaxRequestsPerIp

(* Attempts that were checked before the limit was reached may all still   *)
(* fail: in no stretch of real time shorter than the window by the delay   *)
(* of the lock are more failures of a name recorded than its limit and one *)
(* for each other thread.  In the whole window there may be more, since an *)
(* entry may be dropped up to that delay too early.                        *)
FailureLimit ==
  \A n \in Usernames : Len(failed[n]) <= MaxFailuresPerUser + Cardinality(Threads) - 1

(* What the documentation promises: no more failures of a name than its    *)
(* limit, in the window when no operation waits for the lock.  It does not *)
(* hold: an attempt is checked before the password hash and counted after  *)
(* it, and others are checked in between.                                  *)
FailuresWithinLimit == \A n \in Usernames : Len(failed[n]) <= MaxFailuresPerUser

(* A client that waits as long as Retry-After says is not refused again by *)
(* the limit of its address, unless another request used the room up.      *)
RetryAfterSuffices ==
  \A t \in Threads :
    /\ login[t].at = "check"
    /\ promised[login[t].ip] # -1
    /\ login[t].now >= promised[login[t].ip]
    => ~RefusedByIp(login[t].ip, login[t].now)
=============================================================================
