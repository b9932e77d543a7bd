------------------------- MODULE DigitalTwinService -------------------------
(***************************************************************************)
(* The service that keeps the digital twins of the projects: each refers   *)
(* to a commit.  createTwin changes memory, then the database, under a     *)
(* lock that no other service takes, and nothing undoes the change when    *)
(* the database refuses; a twin is never deleted, not with its project     *)
(* either.                                                                 *)
(***************************************************************************)
EXTENDS Requests

CONSTANT TwinIds    \* the UUIDs of twins that may be issued

ASSUME TwinIdsAssumption ==
  /\ Null \notin TwinIds
  /\ Null \notin [project : ProjectIds, commit : CommitIds]  \* nor is it a twin

VARIABLES
  twinOf,      \* project and commit of each twin, Null before it exists
  twinMap,     \* ProjectIdTwinMap
  twinDocs,    \* the documents in the collection
  toldTwins    \* every twin a client was told exists

twinVars == <<twinOf, twinMap, twinDocs, toldTwins>>

InitTwins ==
  /\ twinOf = [w \in TwinIds |-> Null]
  /\ twinMap = [p \in ProjectIds |-> {}]
  /\ twinDocs = {}
  /\ toldTwins = {}

FreshTwin(w) == twinOf[w] = Null

StoredTwins(p) == {w \in twinDocs : twinOf[w].project = p}

(* The constructor. *)
LoadTwins ==
  /\ twinMap' = [p \in ProjectIds |-> StoredTwins(p)]
  /\ UNCHANGED <<twinOf, twinDocs, toldTwins>>

(* Fault: the insertion is not acknowledged, and gets lost. *)
addTwinUnacknowledged(w, o) == twinDocs' = twinDocs

addTwin(w, o) == twinDocs' = IF Applied(o) THEN twinDocs \cup {w} ELSE twinDocs

createTwin(t, w) ==
  /\ FreshTwin(w)
  /\ twinOf' = [twinOf EXCEPT ![w] = [project |-> req[t].project,
                                      commit |-> req[t].commit]]
  /\ twinMap' = [twinMap EXCEPT ![req[t].project] = @ \cup {w}]
  /\ \E o \in QueryOutcomes :
       /\ addTwin(w, o)
       /\ toldTwins' = IF Reported(o) THEN toldTwins \cup {w} ELSE toldTwins
  /\ Respond(t)

(* The handler, with the commit it looked up. *)
postTwin(t, w) == At(t, "commit") /\ createTwin(t, w)
=============================================================================
