---------------------------- MODULE ModelServices ----------------------------
(***************************************************************************)
(* ModelServer together with the services for queries and twins: the same  *)
(* worker threads, the same requests, three locks.  A thread that is       *)
(* inside QueryService takes no step of ModelServer, with one exception:   *)
(* deleteProject goes through QueryService before it goes on to            *)
(* forgetProject.                                                          *)
(***************************************************************************)
EXTENDS ModelServerProperties, QueryService, DigitalTwinService

modelVars == <<objVars, dbVars, pvsVars, pvsLock, projectMap, spsLock, clientVars>>
serviceVars == <<vars, queryVars, twinVars>>

InitServices == Init /\ InitQueries /\ InitTwins

(* A step of ModelServer that does not come back from deleteQueriesOfProject. *)
ModelStep(t) ==
  /\ InsideQueries(t, "outside")
  /\ ThreadStep(t)
  /\ ~At(t, "forget")
  /\ UNCHANGED <<queryVars, twinVars>>

QueryStep(t) ==
  /\ \/ \E q \in QueryIds, x \in Bodies : postQuery(t, q, x) \/ putQuery(t, q, x)
     \/ \E q \in QueryIds : deleteQueryRequest(t, q)
     \/ PushQuery(t)
     \/ ReplaceQuery(t)
     \/ EraseQuery(t)
     \/ EraseQueries(t)
  /\ UNCHANGED <<modelVars, twinVars>>

(* deleteProject calls deleteQueriesOfProject.  If the database answers,   *)
(* the queries are erased and the versioning service is next; an exception *)
(* leaves both functions.                                                  *)
deleteQueriesOfProject(t) ==
  /\ \E o \in QueryOutcomes :
       /\ RemoveQueryDocs(t, o)
       /\ IF Reported(o)
          THEN EnterQueries(t, "eraseQueries", Null, Null) /\ UNCHANGED vars
          ELSE DeleteQueriesFails(t) /\ UNCHANGED <<qsLock, qreq>>
  /\ UNCHANGED <<queryOf, queryMap, body, docBody, deletedQueries, twinVars>>

FinishDeletion(t) ==
  /\ InsideQueries(t, "queriesGone")
  /\ ForgetProject(t)
  /\ qreq' = [qreq EXCEPT ![t] = OutsideQueries]
  /\ UNCHANGED <<queryOf, queryMap, body, queryDocs, docBody, qsLock,
                 deletedQueries, twinVars>>

TwinStep(t) ==
  /\ InsideQueries(t, "outside")
  /\ \E w \in TwinIds : postTwin(t, w)
  /\ UNCHANGED <<modelVars, queryVars>>

RestartServices ==
  Restart /\ LoadQueries /\ LoadTwins

NextServices ==
  \/ \E t \in Threads : \/ ModelStep(t)
                        \/ QueryStep(t)
                        \/ deleteQueriesOfProject(t)
                        \/ FinishDeletion(t)
                        \/ TwinStep(t)
  \/ RestartServices

SpecServices == InitServices /\ [][NextServices]_serviceVars
=============================================================================
