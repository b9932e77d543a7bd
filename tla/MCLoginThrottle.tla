--------------------------- MODULE MCLoginThrottle ---------------------------
(* Instances of LoginThrottle for TLC. *)
EXTENDS LoginThrottleProperties

(* Threads, addresses and names are only compared, so they may be permuted. *)
Symmetry == Permutations(Threads) \cup Permutations(Ips) \cup Permutations(Usernames)
=============================================================================
