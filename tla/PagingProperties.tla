-------------------------- MODULE PagingProperties --------------------------
(***************************************************************************)
(* What a client that walks through the pages of a list can rely on while  *)
(* the list changes.                                                       *)
(***************************************************************************)
EXTENDS Paging

(* The type invariant; no page is longer than asked or allowed. *)
TypeOK ==
  /\ present \subseteq Items /\ seen \subseteq Items /\ stable \subseteq present
  /\ request \in Request \cup {Null}
  /\ page.code \in {200, 400} /\ page.items \in Seq(Items)
  /\ {page.next, page.prev} \subseteq Items \cup {Null}
  /\ page.items # <<>> => Len(page.items) <= Min({SizeOf(request), MAX_PAGE_SIZE})

(* Walking through the links of paginate in any direction, a client is     *)
(* shown every item that is there all the time: none between two items it  *)
(* was shown is left out, and where there is no link any more there is     *)
(* none beyond, although items come and go between its requests.  (An      *)
(* empty page links nowhere.)                                              *)
NoneSkipped ==
  /\ \A i \in stable : (\E a, b \in seen : a <= i /\ i <= b) => i \in seen
  /\ page.code = 200 /\ page.next = Null /\ (page.items # <<>> \/ request.before = Null) =>
       \A i \in stable : \E s \in seen : i <= s
  /\ page.code = 200 /\ page.prev = Null /\ (page.items # <<>> \/ request.before # Null) =>
       \A i \in stable : \E s \in seen : s <= i

(* Nothing is shown twice on the way: the page behind a next link lies     *)
(* behind the page that has it, that behind a prev link before it, and a   *)
(* page that could be filled is full.                                      *)
PagesInOrder == [][
  \A old \in Range(page.items), new \in Range(page'.items) :
    /\ FollowNext => old < new /\ (Len(page'.items) < SizeOf(request) => page'.next = Null)
    /\ FollowPrev => new < old /\ (Len(page'.items) < SizeOf(request) => page'.prev = Null)
  ]_vars
=============================================================================
