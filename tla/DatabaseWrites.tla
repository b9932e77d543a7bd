--------------------------- MODULE DatabaseWrites ---------------------------
(***************************************************************************)
(* How a single write to MongoDB may end: it is acknowledged, or refused   *)
(* without effect (the driver throws), or applied while the driver throws  *)
(* because the answer was lost.                                            *)
(***************************************************************************)
CONSTANTS
  Null,         \* a null pointer, an absent document, a free lock
  DbOutcomes    \* the ways a write may end in this instance

Outcomes == {"ok", "refused", "lost"}

ASSUME DbOutcomesAssumption == DbOutcomes \subseteq Outcomes

Applied(o) == o # "refused"
Reported(o) == o = "ok"
=============================================================================
