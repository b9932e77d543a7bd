---------------------------- MODULE QueryService ----------------------------
(***************************************************************************)
(* The service that keeps the stored queries of the projects, its          *)
(* collection, and the handlers of QueryController that change them.       *)
(*                                                                         *)
(* The service has a Mutex of its own.  A change holds it over the write   *)
(* and the change in memory; the process may die in between.  What a       *)
(* thread does inside is kept in qreq, while its request stays where       *)
(* withProject left it.                                                    *)
(***************************************************************************)
EXTENDS Requests

CONSTANTS
  QueryIds,    \* the UUIDs of queries that may be issued
  Bodies       \* name, select, scope, where and orderBy of a query, as one

ASSUME QueryIdsAssumption == Null \notin QueryIds
ASSUME BodiesAssumption == Null \notin Bodies

VARIABLES
  queryOf,     \* the project a query was created in, Null before it exists
  queryMap,    \* ProjectIdQueryMap
  body,        \* the content of each query object
  queryDocs,   \* the documents in the collection
  docBody,     \* the content of each document
  qsLock,      \* the thread that writes in QueryService, or Null
  qreq,        \* what a thread does inside QueryService
  deletedQueries  \* every query a client was told is deleted

queryVars == <<queryOf, queryMap, body, queryDocs, docBody, qsLock, qreq,
               deletedQueries>>

OutsideQueries == [at |-> "outside", query |-> Null, old |-> Null]
QueryRequest ==
  [ at : {"outside", "pushQuery", "replaceQuery", "eraseQuery", "eraseQueries",
          "queriesGone"},
    query : QueryIds \cup {Null},
    old : Bodies \cup {Null} ]

InitQueries ==
  /\ queryOf = [q \in QueryIds |-> Null]
  /\ queryMap = [p \in ProjectIds |-> {}]
  /\ body = [q \in QueryIds |-> Null]
  /\ queryDocs = {}
  /\ docBody = [q \in QueryIds |-> Null]
  /\ qsLock = Null
  /\ qreq = [t \in Threads |-> OutsideQueries]
  /\ deletedQueries = {}

FreshQuery(q) == queryOf[q] = Null
StoredQueries(p) == {q \in queryDocs : queryOf[q] = p}

(* The constructor. *)
LoadQueries ==
  /\ queryMap' = [p \in ProjectIds |-> StoredQueries(p)]
  /\ body' = [q \in QueryIds |-> IF q \in queryDocs THEN docBody[q] ELSE body[q]]
  /\ qsLock' = Null
  /\ qreq' = [t \in Threads |-> OutsideQueries]
  /\ UNCHANGED <<queryOf, queryDocs, docBody, deletedQueries>>

-----------------------------------------------------------------------------
(* The handlers of the database. *)

addQuery(q, x, o) ==
  /\ queryDocs' = IF Applied(o) THEN queryDocs \cup {q} ELSE queryDocs
  /\ docBody' = IF Applied(o) THEN [docBody EXCEPT ![q] = x] ELSE docBody

(* replace_one without upsert. *)
replaceQuery(q, x, o) ==
  docBody' = IF Applied(o) /\ q \in queryDocs
             THEN [docBody EXCEPT ![q] = x] ELSE docBody

(* Fault: the filter matches no document. *)
removeNoQueries(Q, o) == queryDocs' = queryDocs

(* delete_one and delete_many. *)
removeQueries(Q, o) == queryDocs' = IF Applied(o) THEN queryDocs \ Q ELSE queryDocs

-----------------------------------------------------------------------------
(* The lock, and where a request on a query begins and ends. *)

InsideQueries(t, label) == qreq[t].at = label
(* Fault: the caller's lock has to be free too. *)
QsAndSpsFree == qsLock = Null /\ spsLock = Null

QsFree == qsLock = Null

EnterQueries(t, label, q, old) ==
  /\ qsLock' = t
  /\ qreq' = [qreq EXCEPT ![t] = [at |-> label, query |-> q, old |-> old]]

(* Fault: an exception leaves the lock locked. *)
LeaveLocked(t) ==
  qsLock' = qsLock /\ qreq' = [qreq EXCEPT ![t] = OutsideQueries]

LeaveQueries(t) ==
  /\ qsLock' = Null
  /\ qreq' = [qreq EXCEPT ![t] = OutsideQueries]

-----------------------------------------------------------------------------
(* The document first: if the database refuses it, nothing has changed.    *)
createQuery(t, q, x) ==
  /\ QsFree
  /\ FreshQuery(q)
  /\ \E o \in QueryOutcomes :
       /\ addQuery(q, x, o)
       /\ queryOf' = IF Applied(o) THEN [queryOf EXCEPT ![q] = req[t].project]
                     ELSE queryOf
       /\ body' = IF Reported(o) THEN [body EXCEPT ![q] = x] ELSE body
       /\ IF Reported(o)
          THEN EnterQueries(t, "pushQuery", q, Null) /\ UNCHANGED req
          ELSE Respond(t) /\ UNCHANGED <<qsLock, qreq>>
  /\ UNCHANGED <<queryMap, deletedQueries>>

PushQuery(t) ==
  /\ InsideQueries(t, "pushQuery")
  /\ queryMap' = [queryMap EXCEPT ![req[t].project] = @ \cup {qreq[t].query}]
  /\ LeaveQueries(t)
  /\ Respond(t)
  /\ UNCHANGED <<queryOf, body, queryDocs, docBody, deletedQueries>>

(* updateQuery changes the object first, and puts its content back when    *)
(* the database refuses.                                                   *)
updateQuery(t, q, x) ==
  /\ QsFree
  /\ q \in queryMap[req[t].project]
  /\ body' = [body EXCEPT ![q] = x]
  /\ EnterQueries(t, "replaceQuery", q, body[q])
  /\ UNCHANGED <<queryOf, queryMap, queryDocs, docBody, deletedQueries, req>>

(* Fault: the new content stays. *)
KeepBody(o, old, new) == new

RollBack(o, old, new) == IF Reported(o) THEN new ELSE old

ReplaceQuery(t) ==
  LET q == qreq[t].query
  IN  /\ InsideQueries(t, "replaceQuery")
      /\ \E o \in QueryOutcomes :
           /\ replaceQuery(q, body[q], o)
           /\ body' = [body EXCEPT ![q] = RollBack(o, qreq[t].old, body[q])]
      /\ LeaveQueries(t)
      /\ Respond(t)
      /\ UNCHANGED <<queryOf, queryMap, queryDocs, deletedQueries>>

deleteQuery(t, q) ==
  /\ QsFree
  /\ q \in queryMap[req[t].project]
  /\ \E o \in QueryOutcomes :
       /\ removeQueries({q}, o)
       /\ IF Reported(o)
          THEN EnterQueries(t, "eraseQuery", q, Null) /\ UNCHANGED req
          ELSE Respond(t) /\ UNCHANGED <<qsLock, qreq>>
  /\ UNCHANGED <<queryOf, queryMap, body, docBody, deletedQueries>>

EraseQuery(t) ==
  LET q == qreq[t].query
  IN  /\ InsideQueries(t, "eraseQuery")
      /\ queryMap' = [queryMap EXCEPT ![req[t].project] = @ \ {q}]
      /\ deletedQueries' = deletedQueries \cup {q}
      /\ LeaveQueries(t)
      /\ Respond(t)
      /\ UNCHANGED <<queryOf, body, queryDocs, docBody>>

-----------------------------------------------------------------------------
(* deleteQueriesOfProject, called while ServerProjectService is locked: the*)
(* documents, then the entry of the map.                                   *)
RemoveQueryDocs(t, o) ==
  /\ At(t, "forget") /\ InsideQueries(t, "outside") /\ QsFree
  /\ removeQueries(StoredQueries(req[t].project), o)

EraseQueries(t) ==
  /\ InsideQueries(t, "eraseQueries")
  /\ queryMap' = [queryMap EXCEPT ![req[t].project] = {}]
  /\ deletedQueries' = deletedQueries \cup queryMap[req[t].project]
  /\ qsLock' = Null
  /\ qreq' = [qreq EXCEPT ![t].at = "queriesGone"]
  /\ UNCHANGED <<queryOf, body, queryDocs, docBody, req>>

-----------------------------------------------------------------------------
(* The handlers of QueryController: withProject has looked the project up. *)
OnProject(t) == At(t, "project") /\ InsideQueries(t, "outside")

postQuery(t, q, x) == OnProject(t) /\ createQuery(t, q, x)
putQuery(t, q, x) == OnProject(t) /\ updateQuery(t, q, x)
deleteQueryRequest(t, q) == OnProject(t) /\ deleteQuery(t, q)
=============================================================================
