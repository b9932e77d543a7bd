----------------------- MODULE ModelServicesProperties -----------------------
(***************************************************************************)
(* What the services for queries and twins promise, and that none of the   *)
(* three locks is kept.                                                    *)
(***************************************************************************)
EXTENDS ModelServices

(* The type invariant of the queries and twins, with the discipline of the *)
(* Mutex of QueryService.                                                  *)
ServicesTypeOK ==
  /\ queryOf \in [QueryIds -> ProjectIds \cup {Null}]
  /\ queryMap \in [ProjectIds -> SUBSET QueryIds]
  /\ body \in [QueryIds -> Bodies \cup {Null}]
  /\ queryDocs \subseteq QueryIds
  /\ docBody \in [QueryIds -> Bodies \cup {Null}]
  /\ qreq \in [Threads -> QueryRequest]
  /\ qsLock \in Threads \cup {Null}
  /\ \A t \in Threads :
       qsLock = t <=> qreq[t].at \notin {"outside", "queriesGone"}
  /\ deletedQueries \subseteq QueryIds
  /\ twinOf \in [TwinIds -> [project : ProjectIds, commit : CommitIds] \cup {Null}]
  /\ twinMap \in [ProjectIds -> SUBSET TwinIds]
  /\ twinDocs \cup toldTwins \subseteq TwinIds

(* When no writer is inside QueryService, the queries of a stored project  *)
(* are in memory what they are in the collection: a query is added after   *)
(* its document, and a refused replacement is rolled back.                 *)
QueriesFollowDatabase ==
  QsFree => \A p \in projectMap :
    projectDoc[p] # Null => /\ queryMap[p] = StoredQueries(p)
                            /\ \A q \in queryMap[p] : body[q] = docBody[q]

(* A query that a client was told is deleted, and every query a project    *)
(* had when its deletion reached the queries, is gone from memory and the  *)
(* collection for good, also if another thread was changing it.            *)
DeletedQueriesStayDeleted ==
  \A q \in deletedQueries : q \notin queryDocs /\ \A p \in ProjectIds : q \notin queryMap[p]

(* A twin refers to a commit of its project that is stored, and that can   *)
(* be found while the project can be, although the commit was looked up    *)
(* before another thread deleted the project.  A twin a client was told of *)
(* is there after every restart.                                           *)
TwinsResolve ==
  /\ \A w \in twinDocs : twinOf[w].commit \in commitDocs
  /\ \A p \in projectMap : \A w \in twinMap[p] : Resolves(p, twinOf[w].commit)
  /\ \A w \in toldTwins : w \in twinMap[twinOf[w].project]

-----------------------------------------------------------------------------
(* The steps of a thread that holds the lock of QueryService, and those of *)
(* deleteProject that wait for it and, later, for the versioning service.  *)
InsideQueryService(t) == QueryStep(t) /\ qsLock = t
InsideModel(t) ==
  (InsideVersioning(t) \/ InsideProjects(t)) /\ UNCHANGED <<queryVars, twinVars>>
WaitInProjects(t) == restoreDefaultBranch(t) /\ UNCHANGED <<queryVars, twinVars>>

ServicesFairness ==
  \A t \in Threads :
    /\ WF_serviceVars(InsideModel(t))
    /\ WF_serviceVars(InsideQueryService(t))
    /\ SF_serviceVars(WaitInProjects(t))
    /\ SF_serviceVars(deleteQueriesOfProject(t))
    /\ SF_serviceVars(FinishDeletion(t))

FairServices == SpecServices /\ ServicesFairness

(* No thread keeps one of the three locks: the lock order (projects before *)
(* queries and versions) leaves nobody waiting forever, and exceptions     *)
(* release what they leave.                                                *)
AllLocksReleased ==
  LocksReleased /\ \A t \in Threads : qsLock = t ~> qsLock # t
=============================================================================
