------------------------------- MODULE Paging -------------------------------
(***************************************************************************)
(* Collections are answered in pages.  paginate is a function of the       *)
(* request and of the list as it is at that moment; a client walks through *)
(* the links of the pages while other requests change the list.            *)
(*                                                                         *)
(* Items are known by their keys, which are numbers here: every list is in *)
(* the order of the keys (projects) or of creation (the others), so an     *)
(* item keeps its place among the others, also when it is hidden from the  *)
(* user for a while.  A cursor is the encoding of a key; one that was      *)
(* never handed out decodes to nothing.                                    *)
(***************************************************************************)
EXTENDS Integers, SequencesExt

CONSTANTS
  Null,
  Items,
  DEFAULT_PAGE_SIZE, MAX_PAGE_SIZE

Broken == -1        \* a cursor that was never handed out
Sizes == 0..MAX_PAGE_SIZE + 1
Cursors == Items \cup {Null, Broken}
Request == [size : Sizes \cup {Null}, after : Cursors, before : Cursors]

ASSUME PagingAssumption ==
  /\ Items \subseteq Nat /\ IsFiniteSet(Items) /\ Null \notin Int \cup Request
  /\ MAX_PAGE_SIZE \in Nat /\ DEFAULT_PAGE_SIZE \in 1..MAX_PAGE_SIZE

VARIABLES
  present,   \* the items the user may see now
  request,   \* the last request of the client, Null before the first
  page,      \* its answer
  seen,      \* the items the walk has shown, or was given a cursor of
  stable     \* the items that were present all the time since it began

vars == <<present, request, page, seen, stable>>

Error == [code |-> 400, items |-> <<>>, next |-> Null, prev |-> Null]

-----------------------------------------------------------------------------
(* paginate.  begin and end are as in the code: the page is [begin, end).  *)

(* Fault: the upper limit is not checked. *)
AtLeastOne(size) == size >= 1

ValidSize(size) == size \in 1..MAX_PAGE_SIZE

SizeOf(r) == IF r.size = Null THEN DEFAULT_PAGE_SIZE ELSE r.size

positionOf(list, cursor) ==
  IF Contains(list, cursor) THEN SelectInSeq(list, LAMBDA i : i = cursor) - 1 ELSE Null

(* Faults: the item of the cursor once more; not the one after it. *)
AtCursor(position) == position
SecondAfter(position) == position + 2

AfterCursor(position) == position + 1

PageOf(list, begin, end) ==
  [ code |-> 200,
    items |-> SubSeq(list, begin + 1, end),
    next |-> IF end < Len(list) /\ begin < end THEN list[end] ELSE Null,
    prev |-> IF begin > 0 /\ begin < Len(list) THEN list[begin + 1] ELSE Null ]

paginate(r, list) ==
  LET size == SizeOf(r)
      cursor == IF r.after # Null THEN r.after ELSE r.before
      position == positionOf(list, cursor)
      begin == AfterCursor(position)
  IN  IF \/ ~ValidSize(size)
         \/ r.after # Null /\ r.before # Null
         \/ cursor # Null /\ position = Null
      THEN Error
      ELSE CASE cursor = Null   -> PageOf(list, 0, Min({size, Len(list)}))
             [] r.after # Null  -> PageOf(list, begin, Min({begin + size, Len(list)}))
             [] r.before # Null -> PageOf(list, Max({position - size, 0}), position)

(* The link to a page: the request with its cursor replaced. *)
pageUrl(r, after, before) == [r EXCEPT !.after = after, !.before = before]

-----------------------------------------------------------------------------
(* The list, in order: n - 1 items precede the n-th. *)
TheList ==
  [n \in 1..Cardinality(present) |->
    CHOOSE i \in present : Cardinality({j \in present : j < i}) = n - 1]

Init ==
  /\ present \in SUBSET Items
  /\ request = Null
  /\ page = Error
  /\ seen = {} /\ stable = {}

Ask(r) == request' = r /\ page' = paginate(r, TheList)

CursorsOf(r) == {r.after, r.before} \cap Items

(* A walk begins, at the start of the list or at a cursor from before.     *)
(* Walks share nothing: one is enough.                                     *)
Open(r) ==
  /\ request = Null
  /\ Ask(r)
  /\ IF page'.code = 200
     THEN seen' = Range(page'.items) \cup CursorsOf(r) /\ stable' = present
     ELSE UNCHANGED <<seen, stable>>
  /\ UNCHANGED present

Follow(r) ==
  /\ Ask(r)
  /\ seen' = seen \cup Range(page'.items)
  /\ UNCHANGED <<present, stable>>

FollowNext == page.next # Null /\ Follow(pageUrl(request, page.next, Null))
FollowPrev == page.prev # Null /\ Follow(pageUrl(request, Null, page.prev))

(* Other requests create, delete, show and hide items. *)
Appear(i) ==
  /\ i \notin present
  /\ present' = present \cup {i}
  /\ UNCHANGED <<request, page, seen, stable>>

Disappear(i) ==
  /\ i \in present
  /\ present' = present \ {i}
  /\ stable' = stable \ {i}
  /\ UNCHANGED <<request, page, seen>>

Next ==
  \/ \E r \in Request : Open(r)
  \/ FollowNext
  \/ FollowPrev
  \/ \E i \in Items : Appear(i) \/ Disappear(i)

Spec == Init /\ [][Next]_vars
=============================================================================
