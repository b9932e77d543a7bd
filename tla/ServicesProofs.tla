--------------------------- MODULE ServicesProofs ---------------------------
(***************************************************************************)
(* ModelServer with the services for queries and twins still is a          *)
(* ModelServer, so what is proved of it holds of the whole; the Mutex of   *)
(* QueryService is held exactly by the thread inside; a deleted query      *)
(* stays deleted; a twin refers to a commit that resolves; and the queries *)
(* in memory are those of the collection.  For any number of threads,      *)
(* identifiers and restarts.                                               *)
(***************************************************************************)
EXTENDS ModelServicesProperties, RetentionProofs

USE NullAssumption, ThreadsAssumption, QueryIdsAssumption, BodiesAssumption, TwinIdsAssumption

(* Where the request of a thread is while it is inside QueryService. *)
QueryRequestOK ==
  \A t \in Threads :
    /\ qreq[t].at \in {"pushQuery", "replaceQuery", "eraseQuery"} =>
         req[t].at = "project" /\ qreq[t].query \in QueryIds
    /\ qreq[t].at \in {"eraseQueries", "queriesGone"} => req[t].at = "forget"

ServicesInv == TypeOK /\ ServicesTypeOK /\ QueryRequestOK

-----------------------------------------------------------------------------
(* What a step does to the requests. *)

(* A request a step of thread t goes on with, or the next one. *)
Moves(t) ==
  Respond(t) \/ \E l, c, x : Proceed(t, l, c, x)

LEMMA VersioningMoves ==
  ASSUME NEW t \in Threads, VersioningStep(t)
  PROVE  Moves(t)
<1>1. ASSUME NEW c \in CommitIds, findCommit(t, c)
      PROVE  Moves(t)
  BY <1>1 DEF findCommit, getCommitById, Moves
<1>2. ASSUME NEW b \in BranchIds, NEW c \in CommitIds, postCommit(t, b, c) \/ postMerge(t, b, c)
      PROVE  Moves(t)
  BY <1>2 DEF postCommit, createCommit, postMerge, mergeIntoBranch, StoreCommit, Moves
<1>3. ASSUME NEW b \in BranchIds, NEW n \in Names, postBranch(t, b, n)
      PROVE  Moves(t)
  BY <1>3 DEF postBranch, createBranch, Moves
<1>4. ASSUME NEW b \in BranchIds, deleteBranchRequest(t, b)
      PROVE  Moves(t)
  BY <1>4 DEF deleteBranchRequest, deleteBranch, Moves
<1>5. ASSUME NEW g \in TagIds, NEW n \in Names, postTag(t, g, n)
      PROVE  Moves(t)
  BY <1>5 DEF postTag, createTag, Moves
<1>6. ASSUME NEW g \in TagIds, deleteTagRequest(t, g)
      PROVE  Moves(t)
  BY <1>6 DEF deleteTagRequest, deleteTag, Moves
<1>7. ASSUME MoveHead(t) \/ PushBranch(t) \/ EraseBranch(t) \/ PushTag(t) \/ EraseTag(t)
      PROVE  Moves(t)
  BY <1>7 DEF MoveHead, PushBranch, EraseBranch, PushTag, EraseTag, Moves
<1> QED
  BY <1>1, <1>2, <1>3, <1>4, <1>5, <1>6, <1>7 DEF VersioningStep

(* A step of a thread leaves the requests of the others alone. *)
LEMMA OwnRequest ==
  ASSUME TypeOK, NEW t \in Threads, ThreadStep(t), NEW u \in Threads \ {t}
  PROVE  req'[u] = req[u]
<1>1. ASSUME NEW r, req' = [req EXCEPT ![t] = r]
      PROVE  req'[u] = req[u]
  BY <1>1 DEF TypeOK, RequestsTypeOK
<1>2. CASE Moves(t)
  BY <1>1, <1>2 DEF Moves, Respond, Proceed
<1>3. ASSUME NEW p \in ProjectIds, withProject(t, p)
      PROVE  req'[u] = req[u]
  <2>1. PICK r : req' = [req EXCEPT ![t] = r]
    BY <1>3 DEF withProject, getProjectById
  <2> QED
    BY <1>1, <2>1
<1>4. ASSUME NEW p \in ProjectIds, NEW b \in BranchIds, NEW a \in Attributes,
             postProject(t, p, b, a)
      PROVE  req'[u] = req[u]
  <2>1. PICK r : req' = [req EXCEPT ![t] = r]
    BY <1>4 DEF postProject, createProject
  <2> QED
    BY <1>1, <2>1
<1>5. ASSUME NEW a \in Attributes,
             (\E b \in BranchIds \cup {Null} : putProject(t, b, a)) \/ changeOwner(t, a)
      PROVE  req'[u] = req[u]
  <2>1. PICK r : req' = [req EXCEPT ![t] = r]
    BY <1>5 DEF putProject, changeProject, changeOwner, changeOwnership, ChangeInMemory
  <2> QED
    BY <1>1, <2>1
<1>6. ASSUME WriteProject(t)
      PROVE  req'[u] = req[u]
  BY <1>6 DEF WriteProject, Respond, TypeOK, RequestsTypeOK
<1>7. ASSUME AddProjectDoc(t) \/ restoreDefaultBranch(t) \/ deleteProjectWithId(t)
             \/ ForgetProject(t) \/ DeleteQueriesFails(t) \/ Answer(t)
      PROVE  Moves(t)
  BY <1>7 DEF AddProjectDoc, restoreDefaultBranch, deleteProjectWithId, deleteProject,
              ForgetProject, DeleteQueriesFails, Answer, Moves
<1>8. ASSUME getProjects(t)
      PROVE  req'[u] = req[u]
  BY <1>8 DEF getProjects, reqVars
<1> QED
  BY <1>2, <1>3, <1>4, <1>5, <1>6, <1>7, <1>8, VersioningMoves DEF ThreadStep, ProjectStep

-----------------------------------------------------------------------------
(* The steps of QueryService. *)

InsideAt == {"pushQuery", "replaceQuery", "eraseQuery", "eraseQueries"}

(* What a step of thread t does in QueryService: only its own entry of qreq*)
(* changes, and the Mutex follows it.                                      *)
LEMMA QueryLockStep ==
  ASSUME ServicesInv, NEW t \in Threads, NEW r \in QueryRequest,
         qreq' = [qreq EXCEPT ![t] = r],
         \/ qsLock' = qsLock /\ (r.at \in InsideAt <=> qreq[t].at \in InsideAt)
         \/ /\ qsLock \in {Null, t}
            /\ qsLock' = IF r.at \in InsideAt THEN t ELSE Null
  PROVE  /\ qreq' \in [Threads -> QueryRequest]
         /\ qsLock' \in Threads \cup {Null}
         /\ \A u \in Threads :
              qsLock' = u <=> qreq'[u].at \notin {"outside", "queriesGone"}
<1>1. \A u \in Threads : qreq'[u] = IF u = t THEN r ELSE qreq[u]
  BY DEF ServicesInv, ServicesTypeOK
<1>2. \A x \in QueryRequest : x.at \in InsideAt <=> x.at \notin {"outside", "queriesGone"}
  BY DEF QueryRequest, InsideAt
<1>3. /\ \A u \in Threads : qreq[u] \in QueryRequest
      /\ qsLock \in Threads \cup {Null}
      /\ \A u \in Threads : qsLock = u <=> qreq[u].at \in InsideAt
  BY <1>2 DEF ServicesInv, ServicesTypeOK
<1>4. qreq' \in [Threads -> QueryRequest]
  BY DEF ServicesInv, ServicesTypeOK
<1>5. qsLock' \in Threads \cup {Null}
  BY <1>3
<1>6. \A u \in Threads : qsLock' = u <=> qreq'[u].at \in InsideAt
  BY <1>1, <1>3
<1>7. \A u \in Threads : qreq'[u] \in QueryRequest
  BY <1>4
<1> QED
  BY <1>2, <1>4, <1>5, <1>6, <1>7

(* And of the requests that are inside QueryService, only that of t moves. *)
LEMMA QueryRequestStep ==
  ASSUME ServicesInv, NEW t \in Threads, NEW r \in QueryRequest,
         qreq' = [qreq EXCEPT ![t] = r],
         \A u \in Threads \ {t} : req'[u] = req[u],
         r.at \in {"pushQuery", "replaceQuery", "eraseQuery"} =>
           req'[t].at = "project" /\ r.query \in QueryIds,
         r.at \in {"eraseQueries", "queriesGone"} => req'[t].at = "forget"
  PROVE  QueryRequestOK'
<1>1. \A u \in Threads : qreq'[u] = IF u = t THEN r ELSE qreq[u]
  BY DEF ServicesInv, ServicesTypeOK
<1> QED
  BY <1>1 DEF ServicesInv, QueryRequestOK

-----------------------------------------------------------------------------
(* The whole is a ModelServer: what a thread does inside QueryService is   *)
(* there either nothing or the answer to a request that changed nothing.   *)

LEMMA QueryAnswers ==
  ASSUME ServicesInv, NEW t \in Threads, QueryStep(t)
  PROVE  UNCHANGED vars \/ Answer(t)
<1>1. UNCHANGED modelVars
  BY DEF QueryStep
<1>2. ASSUME UNCHANGED req
      PROVE  UNCHANGED vars
  BY <1>1, <1>2 DEF modelVars, vars, reqVars, clientVars
<1>3. ASSUME Respond(t), At(t, "project")
      PROVE  Answer(t)
  BY <1>1, <1>3 DEF Answer, modelVars, At
<1>4. ASSUME NEW q \in QueryIds, NEW x \in Bodies, postQuery(t, q, x) \/ putQuery(t, q, x)
      PROVE  UNCHANGED req \/ (Respond(t) /\ At(t, "project"))
  BY <1>4 DEF postQuery, createQuery, putQuery, updateQuery, OnProject
<1>5. ASSUME NEW q \in QueryIds, deleteQueryRequest(t, q)
      PROVE  UNCHANGED req \/ (Respond(t) /\ At(t, "project"))
  BY <1>5 DEF deleteQueryRequest, deleteQuery, OnProject
<1>6. ASSUME PushQuery(t) \/ ReplaceQuery(t) \/ EraseQuery(t)
      PROVE  Respond(t) /\ At(t, "project")
  BY <1>6 DEF PushQuery, ReplaceQuery, EraseQuery, InsideQueries, ServicesInv,
              QueryRequestOK, At
<1>7. ASSUME EraseQueries(t)
      PROVE  UNCHANGED req
  BY <1>7 DEF EraseQueries
<1> QED
  BY <1>2, <1>3, <1>4, <1>5, <1>6, <1>7 DEF QueryStep

LEMMA Simulation ==
  ASSUME ServicesInv, [NextServices]_serviceVars
  PROVE  [Next]_vars
<1>1. ASSUME NEW t \in Threads, ModelStep(t)
      PROVE  Next
  BY <1>1 DEF ModelStep, Next
<1>2. ASSUME NEW t \in Threads, QueryStep(t)
      PROVE  [Next]_vars
  BY <1>2, QueryAnswers DEF Next, ThreadStep
<1>3. ASSUME NEW t \in Threads, deleteQueriesOfProject(t)
      PROVE  [Next]_vars
  BY <1>3 DEF deleteQueriesOfProject, Next, ThreadStep, ProjectStep
<1>4. ASSUME NEW t \in Threads, FinishDeletion(t)
      PROVE  Next
  BY <1>4 DEF FinishDeletion, Next, ThreadStep, ProjectStep
<1>5. ASSUME NEW t \in Threads, TwinStep(t)
      PROVE  Next
  <2>1. Respond(t) /\ At(t, "commit") /\ UNCHANGED modelVars
    BY <1>5 DEF TwinStep, postTwin, createTwin
  <2>2. Answer(t)
    BY <2>1 DEF Answer, modelVars, At
  <2> QED
    BY <2>2 DEF Next, ThreadStep
<1>6. ASSUME RestartServices
      PROVE  Next
  BY <1>6 DEF RestartServices, Next
<1>7. ASSUME UNCHANGED serviceVars
      PROVE  UNCHANGED vars
  BY <1>7 DEF serviceVars
<1> QED
  BY <1>1, <1>2, <1>3, <1>4, <1>5, <1>6, <1>7 DEF NextServices

-----------------------------------------------------------------------------
(* The types of the two services.  The parts of ServicesTypeOK.            *)

QueryDataOK ==
  /\ queryOf \in [QueryIds -> ProjectIds \cup {Null}]
  /\ queryMap \in [ProjectIds -> SUBSET QueryIds]
  /\ body \in [QueryIds -> Bodies \cup {Null}]
  /\ queryDocs \subseteq QueryIds
  /\ docBody \in [QueryIds -> Bodies \cup {Null}]
  /\ deletedQueries \subseteq QueryIds

QueryLockOK ==
  /\ qreq \in [Threads -> QueryRequest]
  /\ qsLock \in Threads \cup {Null}
  /\ \A t \in Threads : qsLock = t <=> qreq[t].at \notin {"outside", "queriesGone"}

TwinsOK ==
  /\ twinOf \in [TwinIds -> [project : ProjectIds, commit : CommitIds] \cup {Null}]
  /\ twinMap \in [ProjectIds -> SUBSET TwinIds]
  /\ twinDocs \cup toldTwins \subseteq TwinIds

LEMMA ServicesTypeParts == ServicesTypeOK <=> QueryDataOK /\ QueryLockOK /\ TwinsOK
  BY DEF ServicesTypeOK, QueryDataOK, QueryLockOK, TwinsOK

(* A thread that answers from inside, or before it is inside, leaves.      *)
LEMMA LeaveType ==
  ASSUME ServicesInv, NEW t \in Threads, Respond(t),
         \/ qsLock = t /\ LeaveQueries(t)
         \/ qreq[t].at = "outside" /\ UNCHANGED <<qsLock, qreq>>
  PROVE  QueryLockOK' /\ QueryRequestOK'
<1>1. OutsideQueries \in QueryRequest /\ OutsideQueries.at = "outside"
  BY DEF OutsideQueries, QueryRequest
<1>2. \A u \in Threads \ {t} : req'[u] = req[u]
  BY DEF Respond, ServicesInv, TypeOK, RequestsTypeOK
<1>3. CASE qsLock = t /\ LeaveQueries(t)
  <2>1. /\ qreq' = [qreq EXCEPT ![t] = OutsideQueries]
        /\ qsLock' = IF OutsideQueries.at \in InsideAt THEN t ELSE Null
    BY <1>1, <1>3 DEF LeaveQueries, InsideAt
  <2> QED
    BY <1>1, <1>2, <1>3, <2>1, QueryLockStep, QueryRequestStep DEF QueryLockOK
<1>4. CASE qreq[t].at = "outside" /\ UNCHANGED <<qsLock, qreq>>
  <2>1. QueryLockOK'
    BY <1>4, ServicesTypeParts DEF ServicesInv, QueryLockOK
  <2>2. QueryRequestOK'
    BY <1>2, <1>4 DEF ServicesInv, QueryRequestOK
  <2> QED
    BY <2>1, <2>2
<1> QED
  BY <1>3, <1>4

(* A thread enters with a query, and its request stays where it is.        *)
LEMMA EnterType ==
  ASSUME ServicesInv, NEW t \in Threads, QsFree, UNCHANGED req,
         NEW l \in InsideAt, NEW q \in QueryIds \cup {Null}, NEW old \in Bodies \cup {Null},
         EnterQueries(t, l, q, old),
         l = "eraseQueries" => req[t].at = "forget",
         l # "eraseQueries" => req[t].at = "project" /\ q \in QueryIds
  PROVE  QueryLockOK' /\ QueryRequestOK'
<1> DEFINE r == [at |-> l, query |-> q, old |-> old]
<1>1. r \in QueryRequest /\ r.at = l /\ r.query = q
  BY DEF QueryRequest, InsideAt
<1>2. qreq' = [qreq EXCEPT ![t] = r] /\ qsLock' = t /\ qsLock = Null
  BY DEF EnterQueries, QsFree
<1>3. /\ r.at \in {"pushQuery", "replaceQuery", "eraseQuery"} =>
           req'[t].at = "project" /\ r.query \in QueryIds
      /\ r.at \in {"eraseQueries", "queriesGone"} => req'[t].at = "forget"
  BY <1>1 DEF InsideAt
<1> HIDE DEF r
<1>4. QueryLockOK'
  BY <1>1, <1>2, QueryLockStep DEF QueryLockOK
<1>5. QueryRequestOK'
  BY <1>1, <1>2, <1>3, QueryRequestStep
<1> QED
  BY <1>4, <1>5

(* The entry of qreq tells who is inside. *)
LEMMA InsideHolds ==
  ASSUME ServicesInv, NEW t \in Threads
  PROVE  /\ qreq[t].at \in InsideAt => qsLock = t
         /\ \A u \in Threads : qsLock \in {Null, t} /\ u # t => qreq[u].at \notin InsideAt
         /\ qreq[t].at \in InsideAt \cup {"queriesGone"} =>
              req[t].at \in {"project", "forget"} /\ req[t].project \in ProjectIds
         /\ qreq[t].at \in InsideAt \ {"eraseQueries"} => qreq[t].query \in QueryIds
         /\ qreq[t] \in QueryRequest
  BY DEF ServicesInv, ServicesTypeOK, QueryRequestOK, InsideAt, TypeOK, RequestsTypeOK, RequestOK

-----------------------------------------------------------------------------
LEMMA CreateQueryType ==
  ASSUME ServicesInv, NEW t \in Threads, NEW q \in QueryIds, NEW x \in Bodies,
         postQuery(t, q, x)
  PROVE  QueryDataOK' /\ QueryLockOK' /\ QueryRequestOK'
<1>1. /\ req[t].at = "project" /\ req[t].project \in ProjectIds
      /\ qreq[t].at = "outside" /\ QsFree
  BY DEF postQuery, createQuery, OnProject, At, InsideQueries, ServicesInv, TypeOK,
         RequestsTypeOK, RequestOK
<1>2. QueryDataOK'
  BY <1>1, ServicesTypeParts DEF ServicesInv, QueryDataOK, postQuery, createQuery, addQuery
<1>3. CASE EnterQueries(t, "pushQuery", q, Null) /\ UNCHANGED req
  BY <1>1, <1>2, <1>3, EnterType DEF InsideAt
<1>4. CASE Respond(t) /\ UNCHANGED <<qsLock, qreq>>
  BY <1>1, <1>2, <1>4, LeaveType
<1> QED
  BY <1>3, <1>4 DEF postQuery, createQuery

LEMMA UpdateQueryType ==
  ASSUME ServicesInv, NEW t \in Threads, NEW q \in QueryIds, NEW x \in Bodies,
         putQuery(t, q, x)
  PROVE  QueryDataOK' /\ QueryLockOK' /\ QueryRequestOK'
<1>1. /\ req[t].at = "project" /\ body[q] \in Bodies \cup {Null}
      /\ QsFree /\ EnterQueries(t, "replaceQuery", q, body[q]) /\ UNCHANGED req
  BY DEF putQuery, updateQuery, OnProject, At, ServicesInv, ServicesTypeOK
<1>2. QueryDataOK'
  BY ServicesTypeParts DEF ServicesInv, QueryDataOK, putQuery, updateQuery
<1> QED
  BY <1>1, <1>2, EnterType DEF InsideAt

LEMMA DeleteQueryType ==
  ASSUME ServicesInv, NEW t \in Threads, NEW q \in QueryIds, deleteQueryRequest(t, q)
  PROVE  QueryDataOK' /\ QueryLockOK' /\ QueryRequestOK'
<1>1. req[t].at = "project" /\ qreq[t].at = "outside" /\ QsFree
  BY DEF deleteQueryRequest, deleteQuery, OnProject, At, InsideQueries
<1>2. QueryDataOK'
  BY ServicesTypeParts DEF ServicesInv, QueryDataOK, deleteQueryRequest, deleteQuery, removeQueries
<1>3. CASE EnterQueries(t, "eraseQuery", q, Null) /\ UNCHANGED req
  BY <1>1, <1>2, <1>3, EnterType DEF InsideAt
<1>4. CASE Respond(t) /\ UNCHANGED <<qsLock, qreq>>
  BY <1>1, <1>2, <1>4, LeaveType
<1> QED
  BY <1>3, <1>4 DEF deleteQueryRequest, deleteQuery

LEMMA FinishQueryType ==
  ASSUME ServicesInv, NEW t \in Threads, PushQuery(t) \/ ReplaceQuery(t) \/ EraseQuery(t)
  PROVE  QueryDataOK' /\ QueryLockOK' /\ QueryRequestOK'
<1>1. qreq[t].at \in InsideAt \ {"eraseQueries"}
  BY DEF PushQuery, ReplaceQuery, EraseQuery, InsideQueries, InsideAt
<1>2. /\ qsLock = t /\ req[t].project \in ProjectIds
      /\ qreq[t].query \in QueryIds /\ qreq[t].old \in Bodies \cup {Null}
  BY <1>1, InsideHolds DEF QueryRequest
<1>3. LeaveQueries(t) /\ Respond(t)
  BY DEF PushQuery, ReplaceQuery, EraseQuery
<1>4. QueryDataOK
  BY ServicesTypeParts DEF ServicesInv
<1>5. CASE PushQuery(t)
  BY <1>2, <1>3, <1>4, <1>5, LeaveType DEF QueryDataOK, PushQuery
<1>6. CASE ReplaceQuery(t)
  <2>1. PICK o \in QueryOutcomes :
          /\ replaceQuery(qreq[t].query, body[qreq[t].query], o)
          /\ body' = [body EXCEPT ![qreq[t].query] = RollBack(o, qreq[t].old, @)]
    BY <1>6 DEF ReplaceQuery
  <2>2. QueryDataOK'
    BY <1>2, <1>4, <1>6, <2>1 DEF QueryDataOK, ReplaceQuery, replaceQuery, RollBack
  <2> QED
    BY <1>2, <1>3, <2>2, LeaveType
<1>7. CASE EraseQuery(t)
  BY <1>2, <1>3, <1>4, <1>7, LeaveType DEF QueryDataOK, EraseQuery
<1> QED
  BY <1>5, <1>6, <1>7

LEMMA EraseQueriesType ==
  ASSUME ServicesInv, NEW t \in Threads, EraseQueries(t)
  PROVE  QueryDataOK' /\ QueryLockOK' /\ QueryRequestOK'
<1>1. qreq[t].at \in InsideAt /\ qreq[t] \in QueryRequest
  BY InsideHolds DEF EraseQueries, InsideQueries, InsideAt
<1>2. qsLock = t /\ req[t].at = "forget" /\ req[t].project \in ProjectIds
  BY <1>1, InsideHolds DEF EraseQueries, InsideQueries, ServicesInv, QueryRequestOK
<1> DEFINE r == [qreq[t] EXCEPT !.at = "queriesGone"]
<1>3. r \in QueryRequest /\ r.at = "queriesGone"
  BY <1>1 DEF QueryRequest
<1>4. qreq' = [qreq EXCEPT ![t] = r] /\ qsLock' = Null /\ req' = req
  BY DEF EraseQueries
<1> HIDE DEF r
<1>5. QueryDataOK'
  BY <1>2, ServicesTypeParts DEF ServicesInv, QueryDataOK, EraseQueries
<1>6. QueryLockOK'
  BY <1>2, <1>3, <1>4, QueryLockStep DEF QueryLockOK, InsideAt
<1>7. QueryRequestOK'
  BY <1>2, <1>3, <1>4, QueryRequestStep
<1> QED
  BY <1>5, <1>6, <1>7

(* The first step of deleteQueriesOfProject, and the last of deleteProject.*)
LEMMA DeleteQueriesType ==
  ASSUME ServicesInv, NEW t \in Threads, deleteQueriesOfProject(t)
  PROVE  QueryDataOK' /\ QueryLockOK' /\ QueryRequestOK'
<1>1. req[t].at = "forget" /\ qreq[t].at = "outside" /\ QsFree
  BY DEF deleteQueriesOfProject, RemoveQueryDocs, At, InsideQueries
<1>2. QueryDataOK'
  BY ServicesTypeParts DEF ServicesInv, QueryDataOK, deleteQueriesOfProject, RemoveQueryDocs,
                           removeQueries
<1>3. CASE EnterQueries(t, "eraseQueries", Null, Null) /\ UNCHANGED vars
  BY <1>1, <1>2, <1>3, EnterType DEF InsideAt, vars, reqVars
<1>4. CASE DeleteQueriesFails(t) /\ UNCHANGED <<qsLock, qreq>>
  BY <1>1, <1>2, <1>4, LeaveType DEF DeleteQueriesFails
<1> QED
  BY <1>3, <1>4 DEF deleteQueriesOfProject

LEMMA FinishDeletionType ==
  ASSUME ServicesInv, NEW t \in Threads, FinishDeletion(t)
  PROVE  QueryDataOK' /\ QueryLockOK' /\ QueryRequestOK'
<1>1. OutsideQueries \in QueryRequest /\ OutsideQueries.at = "outside"
  BY DEF OutsideQueries, QueryRequest
<1>2. /\ qreq' = [qreq EXCEPT ![t] = OutsideQueries] /\ qsLock' = qsLock
      /\ qreq[t].at = "queriesGone" /\ Respond(t)
  BY DEF FinishDeletion, InsideQueries, ForgetProject
<1>3. \A u \in Threads \ {t} : req'[u] = req[u]
  BY <1>2 DEF Respond, ServicesInv, TypeOK, RequestsTypeOK
<1>4. QueryDataOK'
  BY ServicesTypeParts DEF ServicesInv, QueryDataOK, FinishDeletion
<1>5. QueryLockOK'
  BY <1>1, <1>2, QueryLockStep DEF QueryLockOK, InsideAt
<1>6. QueryRequestOK'
  BY <1>1, <1>2, <1>3, QueryRequestStep
<1> QED
  BY <1>4, <1>5, <1>6

LEMMA QueryStepType ==
  ASSUME ServicesInv, NEW t \in Threads, QueryStep(t)
  PROVE  QueryDataOK' /\ QueryLockOK' /\ QueryRequestOK'
  BY CreateQueryType, UpdateQueryType, DeleteQueryType, FinishQueryType, EraseQueriesType
  DEF QueryStep

(* The other steps of a thread are no step of QueryService. *)
LEMMA OutsideStepType ==
  ASSUME ServicesInv, NEW t \in Threads, ModelStep(t) \/ TwinStep(t)
  PROVE  QueryDataOK' /\ QueryLockOK' /\ QueryRequestOK'
<1>1. UNCHANGED queryVars /\ qreq[t].at = "outside"
  BY DEF ModelStep, TwinStep, InsideQueries
<1>2. QueryDataOK' /\ QueryLockOK'
  BY <1>1, ServicesTypeParts DEF ServicesInv, QueryDataOK, QueryLockOK, queryVars
<1>3. \A u \in Threads \ {t} : req'[u] = req[u]
  <2>1. CASE ModelStep(t)
    BY <2>1, OwnRequest DEF ModelStep, ServicesInv
  <2>2. CASE TwinStep(t)
    BY <2>2 DEF TwinStep, postTwin, createTwin, Respond, ServicesInv, TypeOK, RequestsTypeOK
  <2> QED
    BY <2>1, <2>2
<1>4. QueryRequestOK'
  BY <1>1, <1>3 DEF ServicesInv, QueryRequestOK, queryVars
<1> QED
  BY <1>2, <1>4

LEMMA CreateTwinType ==
  ASSUME ServicesInv, NEW t \in Threads, TwinStep(t)
  PROVE  TwinsOK'
<1>1. PICK w \in TwinIds : postTwin(t, w)
  BY DEF TwinStep
<1>2. req[t].project \in ProjectIds /\ req[t].commit \in CommitIds
  BY <1>1 DEF postTwin, createTwin, At, ServicesInv, TypeOK, RequestsTypeOK, RequestOK
<1>3. TwinsOK
  BY ServicesTypeParts DEF ServicesInv
<1> QED
  BY <1>1, <1>2, <1>3 DEF postTwin, createTwin, addTwin, TwinsOK

LEMMA RestartServicesType ==
  ASSUME ServicesInv, RestartServices
  PROVE  QueryDataOK' /\ QueryLockOK' /\ QueryRequestOK' /\ TwinsOK'
<1>1. QueryDataOK /\ TwinsOK
  BY ServicesTypeParts DEF ServicesInv
<1>2. QueryDataOK'
  BY <1>1 DEF QueryDataOK, RestartServices, LoadQueries, StoredQueries
<1>3. \A u \in Threads : qreq'[u] = OutsideQueries
  BY DEF RestartServices, LoadQueries
<1>4. QueryLockOK'
  BY <1>3 DEF QueryLockOK, RestartServices, LoadQueries, OutsideQueries, QueryRequest
<1>5. QueryRequestOK'
  BY <1>3 DEF QueryRequestOK, OutsideQueries
<1>6. TwinsOK'
  BY <1>1 DEF TwinsOK, RestartServices, LoadTwins, StoredTwins
<1> QED
  BY <1>2, <1>4, <1>5, <1>6

LEMMA ServicesStep ==
  ASSUME ServicesInv, [NextServices]_serviceVars
  PROVE  ServicesInv'
<1>1. TypeOK'
  BY Simulation, NextTypeOK DEF ServicesInv
<1>2. QueryDataOK' /\ QueryLockOK' /\ QueryRequestOK'
  <2>1. ASSUME UNCHANGED serviceVars
        PROVE  QueryDataOK' /\ QueryLockOK' /\ QueryRequestOK'
    BY <2>1, ServicesTypeParts DEF ServicesInv, QueryDataOK, QueryLockOK, QueryRequestOK,
                                   serviceVars, queryVars, vars, reqVars
  <2> QED
    BY <2>1, OutsideStepType, QueryStepType, DeleteQueriesType, FinishDeletionType,
       RestartServicesType
    DEF NextServices
<1>3. TwinsOK'
  <2>1. ASSUME UNCHANGED twinVars
        PROVE  TwinsOK'
    BY <2>1, ServicesTypeParts DEF ServicesInv, TwinsOK, twinVars
  <2>2. ASSUME NEW t \in Threads,
               ModelStep(t) \/ QueryStep(t) \/ deleteQueriesOfProject(t) \/ FinishDeletion(t)
        PROVE  UNCHANGED twinVars
    BY <2>2 DEF ModelStep, QueryStep, deleteQueriesOfProject, FinishDeletion
  <2> QED
    BY <2>1, <2>2, CreateTwinType, RestartServicesType DEF NextServices, serviceVars
<1> QED
  BY <1>1, <1>2, <1>3 DEF ServicesInv, ServicesTypeOK, QueryDataOK, QueryLockOK, TwinsOK

LEMMA InitServicesInv == InitServices => ServicesInv
<1> SUFFICES ASSUME InitServices PROVE ServicesInv
  OBVIOUS
<1>1. TypeOK
  BY InitTypeOK DEF InitServices
<1>2. ServicesTypeOK
  BY DEF InitServices, InitQueries, InitTwins, ServicesTypeOK, OutsideQueries, QueryRequest
<1>3. QueryRequestOK
  BY DEF InitServices, InitQueries, QueryRequestOK, OutsideQueries
<1> QED
  BY <1>1, <1>2, <1>3 DEF ServicesInv

LEMMA ServicesInvariant == SpecServices => []ServicesInv
<1>1. ServicesInv /\ [NextServices]_serviceVars => ServicesInv'
  BY ServicesStep
<1> QED
  BY <1>1, InitServicesInv, PTL DEF SpecServices

(* The queries, the twins and the Mutex of QueryService keep their types,  *)
(* and the Mutex is held exactly by the thread inside.                     *)
THEOREM ServicesTypeCorrect == SpecServices => []ServicesTypeOK
  BY ServicesInvariant, PTL DEF ServicesInv

(* The composition implements the model of the two services: an answer of  *)
(* QueryService or of the twins is an answer that changed nothing there,   *)
(* and deleteProject waits for the queries before it forgets the project.  *)
THEOREM ServicesImplementModel == SpecServices => Spec
<1>1. InitServices => Init
  BY DEF InitServices
<1>2. ServicesInv /\ [NextServices]_serviceVars => [Next]_vars
  BY Simulation
<1> QED
  BY <1>1, <1>2, ServicesInvariant, PTL DEF SpecServices, Spec

(* So the database of the whole system is closed at every moment, too. *)
COROLLARY ServicesDatabaseClosed == SpecServices => []DocumentsClosed
  BY ServicesImplementModel, DatabaseClosed

(* And no acknowledged commit is lost in it. *)
COROLLARY ServicesLoseNoCommit == SpecServices => []AckedCommitsReachable
  BY ServicesImplementModel, NoAckedCommitLost

(* With the services for queries and twins the server still implements the *)
(* abstract store, and what is deleted or can be found is as without them. *)
COROLLARY ServicesImplementStore ==
  SpecServices => /\ ImplementsStore /\ HeadsAdvance
                  /\ [](LiveReferencesResolve /\ DeletedStaysDeleted)
  BY ServicesImplementModel, StoreImplemented, BranchesAdvance, ReferencesResolve,
     NothingComesBack, PTL

-----------------------------------------------------------------------------
(* Why a deleted query stays deleted: an object belongs to the project it  *)
(* was created in and its identifier is not issued again, a query is only  *)
(* added by the thread that issued it, and what a thread is about to erase *)
(* has lost its document while nobody else is in QueryService.             *)

Deleting(t) ==
  /\ qreq[t].at = "pushQuery" =>
       queryOf[qreq[t].query] = req[t].project /\ qreq[t].query \notin deletedQueries
  /\ qreq[t].at = "eraseQuery" =>
       qreq[t].query \in queryMap[req[t].project] \ queryDocs
  /\ qreq[t].at = "eraseQueries" => queryMap[req[t].project] \cap queryDocs = {}

DeletedInv ==
  /\ \A q \in queryDocs : queryOf[q] # Null /\ q \notin deletedQueries
  /\ \A q \in deletedQueries : queryOf[q] # Null
  /\ \A p \in ProjectIds : \A q \in queryMap[p] : queryOf[q] = p /\ q \notin deletedQueries
  /\ \A t \in Threads : Deleting(t)

(* Nobody else is deleting while thread t writes. *)
LEMMA OthersDelete ==
  ASSUME ServicesInv, NEW t \in Threads, qsLock \in {Null, t}, NEW r,
         qreq' = [qreq EXCEPT ![t] = r], Deleting(t)'
  PROVE  \A u \in Threads : Deleting(u)'
<1>1. ASSUME NEW u \in Threads, u # t
      PROVE  Deleting(u)'
  <2>1. qreq'[u] = qreq[u] /\ qreq[u].at \notin InsideAt
    BY <1>1, InsideHolds DEF ServicesInv, ServicesTypeOK
  <2> QED
    BY <2>1 DEF Deleting, InsideAt
<1> QED
  BY <1>1

LEMMA CreateQueryDeleted ==
  ASSUME ServicesInv, DeletedInv, NEW t \in Threads, NEW q \in QueryIds, NEW x \in Bodies,
         postQuery(t, q, x)
  PROVE  DeletedInv'
<1>1. /\ req[t].project \in ProjectIds /\ req[t].project # Null
      /\ qsLock = Null /\ queryOf[q] = Null /\ qreq[t].at = "outside"
  BY DEF postQuery, createQuery, OnProject, At, InsideQueries, QsFree, FreshQuery,
         ServicesInv, TypeOK, RequestsTypeOK, RequestOK
<1>2. UNCHANGED <<queryMap, deletedQueries>>
  BY DEF postQuery, createQuery
<1>3. q \notin queryDocs \cup deletedQueries /\ \A p \in ProjectIds : q \notin queryMap[p]
  BY <1>1 DEF DeletedInv
<1>4. PICK o \in QueryOutcomes :
        /\ queryDocs' = IF Applied(o) THEN queryDocs \cup {q} ELSE queryDocs
        /\ queryOf' = IF Applied(o) THEN [queryOf EXCEPT ![q] = req[t].project] ELSE queryOf
        /\ IF Reported(o)
           THEN EnterQueries(t, "pushQuery", q, Null) /\ UNCHANGED req
           ELSE Respond(t) /\ UNCHANGED <<qsLock, qreq>>
  BY DEF postQuery, createQuery, addQuery
<1>5. \A r \in QueryIds : queryOf'[r] = IF r = q /\ Applied(o) THEN req[t].project ELSE queryOf[r]
  BY <1>4 DEF ServicesInv, ServicesTypeOK
<1>6. /\ queryDocs \subseteq QueryIds /\ deletedQueries \subseteq QueryIds
      /\ \A p \in ProjectIds : queryMap[p] \subseteq QueryIds
  BY DEF ServicesInv, ServicesTypeOK
<1>7. \A u \in Threads : Deleting(u)'
  <2>1. CASE Reported(o)
    <3> DEFINE r == [at |-> "pushQuery", query |-> q, old |-> Null]
    <3>1. qreq' = [qreq EXCEPT ![t] = r] /\ UNCHANGED req
      BY <1>4, <2>1 DEF EnterQueries
    <3>2. qreq'[t] = r
      BY <3>1 DEF ServicesInv, ServicesTypeOK
    <3>3. queryOf'[q] = req[t].project
      BY <1>5, <2>1 DEF Applied, Reported
    <3>4. Deleting(t)'
      BY <1>2, <1>3, <3>1, <3>2, <3>3 DEF Deleting
    <3> QED
      BY <1>1, <3>1, <3>4, OthersDelete
  <2>2. CASE ~Reported(o)
    <3>1. qreq' = [qreq EXCEPT ![t] = qreq[t]] /\ qreq'[t].at = "outside"
      BY <1>1, <1>4, <2>2 DEF ServicesInv, ServicesTypeOK
    <3>2. Deleting(t)'
      BY <3>1 DEF Deleting
    <3> QED
      BY <1>1, <3>1, <3>2, OthersDelete
  <2> QED
    BY <2>1, <2>2
<1>8. \A r \in queryDocs' : queryOf'[r] # Null /\ r \notin deletedQueries'
  BY <1>1, <1>2, <1>3, <1>4, <1>5, <1>6 DEF DeletedInv
<1>9. \A r \in deletedQueries' : queryOf'[r] # Null
  BY <1>1, <1>2, <1>3, <1>5, <1>6 DEF DeletedInv
<1>10. \A p \in ProjectIds : \A r \in queryMap'[p] : queryOf'[r] = p /\ r \notin deletedQueries'
  BY <1>2, <1>3, <1>5, <1>6 DEF DeletedInv
<1> QED
  BY <1>7, <1>8, <1>9, <1>10 DEF DeletedInv

LEMMA UpdateQueryDeleted ==
  ASSUME ServicesInv, DeletedInv, NEW t \in Threads, NEW q \in QueryIds, NEW x \in Bodies,
         putQuery(t, q, x)
  PROVE  DeletedInv'
<1> DEFINE r == [at |-> "replaceQuery", query |-> q, old |-> body[q]]
<1>1. /\ qsLock = Null /\ qreq' = [qreq EXCEPT ![t] = r]
      /\ UNCHANGED <<queryOf, queryMap, queryDocs, deletedQueries>>
  BY DEF putQuery, updateQuery, QsFree, EnterQueries
<1>2. qreq'[t] = r
  BY <1>1 DEF ServicesInv, ServicesTypeOK
<1>3. Deleting(t)'
  BY <1>2 DEF Deleting
<1>4. \A u \in Threads : Deleting(u)'
  BY <1>1, <1>3, OthersDelete
<1> QED
  BY <1>1, <1>4 DEF DeletedInv

LEMMA DeleteQueryDeleted ==
  ASSUME ServicesInv, DeletedInv, NEW t \in Threads, NEW q \in QueryIds, deleteQueryRequest(t, q)
  PROVE  DeletedInv'
<1>1. /\ qsLock = Null /\ q \in queryMap[req[t].project] /\ qreq[t].at = "outside"
      /\ UNCHANGED <<queryOf, queryMap, deletedQueries>>
  BY DEF deleteQueryRequest, deleteQuery, OnProject, InsideQueries, QsFree
<1>2. PICK o \in QueryOutcomes :
        /\ queryDocs' = IF Applied(o) THEN queryDocs \ {q} ELSE queryDocs
        /\ IF Reported(o)
           THEN EnterQueries(t, "eraseQuery", q, Null) /\ UNCHANGED req
           ELSE Respond(t) /\ UNCHANGED <<qsLock, qreq>>
  BY DEF deleteQueryRequest, deleteQuery, removeQueries
<1>3. \A u \in Threads : Deleting(u)'
  <2>1. CASE Reported(o)
    <3> DEFINE r == [at |-> "eraseQuery", query |-> q, old |-> Null]
    <3>1. qreq' = [qreq EXCEPT ![t] = r] /\ UNCHANGED req /\ queryDocs' = queryDocs \ {q}
      BY <1>2, <2>1 DEF EnterQueries, Applied, Reported
    <3>2. qreq'[t] = r
      BY <3>1 DEF ServicesInv, ServicesTypeOK
    <3>3. Deleting(t)'
      BY <1>1, <3>1, <3>2 DEF Deleting
    <3> QED
      BY <1>1, <3>1, <3>3, OthersDelete
  <2>2. CASE ~Reported(o)
    <3>1. qreq' = [qreq EXCEPT ![t] = qreq[t]] /\ qreq'[t].at = "outside"
      BY <1>1, <1>2, <2>2 DEF ServicesInv, ServicesTypeOK
    <3>2. Deleting(t)'
      BY <3>1 DEF Deleting
    <3> QED
      BY <1>1, <3>1, <3>2, OthersDelete
  <2> QED
    BY <2>1, <2>2
<1>4. queryDocs' \subseteq queryDocs
  BY <1>2
<1> QED
  BY <1>1, <1>3, <1>4 DEF DeletedInv

(* The end of a change, inside or with an exception. *)
LEMMA LeaveDeleted ==
  ASSUME ServicesInv, DeletedInv, NEW t \in Threads, qsLock = t, LeaveQueries(t)
  PROVE  \A u \in Threads : Deleting(u)'
<1>1. qreq' = [qreq EXCEPT ![t] = OutsideQueries] /\ qreq'[t].at = "outside"
  BY DEF LeaveQueries, OutsideQueries, ServicesInv, ServicesTypeOK
<1>2. Deleting(t)'
  BY <1>1 DEF Deleting
<1> QED
  BY <1>1, <1>2, OthersDelete

LEMMA FinishQueryDeleted ==
  ASSUME ServicesInv, DeletedInv, NEW t \in Threads,
         PushQuery(t) \/ ReplaceQuery(t) \/ EraseQuery(t)
  PROVE  DeletedInv'
<1> DEFINE q == qreq[t].query
           p == req[t].project
<1>1. /\ qsLock = t /\ p \in ProjectIds /\ q \in QueryIds
      /\ LeaveQueries(t) /\ UNCHANGED <<queryOf, queryDocs>>
  BY InsideHolds DEF PushQuery, ReplaceQuery, EraseQuery, InsideQueries, InsideAt
<1>2. \A u \in Threads : Deleting(u)'
  BY <1>1, LeaveDeleted
<1>3. Deleting(t) /\ queryMap \in [ProjectIds -> SUBSET QueryIds]
  BY DEF DeletedInv, ServicesInv, ServicesTypeOK
<1>4. CASE PushQuery(t)
  <2>1. /\ UNCHANGED deletedQueries /\ queryOf[q] = p /\ q \notin deletedQueries
        /\ queryMap' = [queryMap EXCEPT ![p] = @ \cup {q}]
    BY <1>3, <1>4 DEF PushQuery, InsideQueries, Deleting
  <2>2. \A s \in ProjectIds : queryMap'[s] \subseteq queryMap[s] \cup (IF s = p THEN {q} ELSE {})
    BY <1>1, <1>3, <2>1
  <2> QED
    BY <1>1, <1>2, <2>1, <2>2 DEF DeletedInv
<1>5. CASE ReplaceQuery(t)
  BY <1>1, <1>2, <1>5 DEF DeletedInv, ReplaceQuery
<1>6. CASE EraseQuery(t)
  <2>1. /\ deletedQueries' = deletedQueries \cup {q} /\ q \notin queryDocs
        /\ q \in queryMap[p]
        /\ queryMap' = [queryMap EXCEPT ![p] = @ \ {q}]
    BY <1>3, <1>6 DEF EraseQuery, InsideQueries, Deleting
  <2>2. \A s \in ProjectIds : queryMap'[s] = IF s = p THEN queryMap[s] \ {q} ELSE queryMap[s]
    BY <1>1, <1>3, <2>1
  <2>3. queryOf[q] = p /\ p # Null
    BY <1>1, <2>1 DEF DeletedInv
  <2> QED
    BY <1>1, <1>2, <2>1, <2>2, <2>3 DEF DeletedInv
<1> QED
  BY <1>4, <1>5, <1>6

LEMMA EraseQueriesDeleted ==
  ASSUME ServicesInv, DeletedInv, NEW t \in Threads, EraseQueries(t)
  PROVE  DeletedInv'
<1> DEFINE p == req[t].project
           r == [qreq[t] EXCEPT !.at = "queriesGone"]
<1>1. /\ qsLock = t /\ p \in ProjectIds /\ qreq[t] \in QueryRequest
      /\ UNCHANGED <<queryOf, queryDocs>>
  BY InsideHolds DEF EraseQueries, InsideQueries, InsideAt
<1>2. queryMap \in [ProjectIds -> SUBSET QueryIds]
  BY DEF ServicesInv, ServicesTypeOK
<1>3. /\ queryMap' = [queryMap EXCEPT ![p] = {}]
      /\ deletedQueries' = deletedQueries \cup queryMap[p]
      /\ qreq' = [qreq EXCEPT ![t] = r]
  BY DEF EraseQueries
<1>4. \A q \in queryMap[p] : q \notin queryDocs /\ queryOf[q] = p /\ p # Null
  BY <1>1 DEF DeletedInv, Deleting, EraseQueries, InsideQueries
<1>5. qreq'[t].at = "queriesGone"
  BY <1>1, <1>3 DEF ServicesInv, ServicesTypeOK, QueryRequest
<1>6. Deleting(t)'
  BY <1>5 DEF Deleting
<1>7. \A u \in Threads : Deleting(u)'
  BY <1>1, <1>3, <1>6, OthersDelete
<1>8. \A s \in ProjectIds : queryMap'[s] = IF s = p THEN {} ELSE queryMap[s]
  BY <1>2, <1>3
<1> QED
  BY <1>1, <1>3, <1>4, <1>7, <1>8 DEF DeletedInv

LEMMA DeleteQueriesDeleted ==
  ASSUME ServicesInv, DeletedInv, NEW t \in Threads, deleteQueriesOfProject(t)
  PROVE  DeletedInv'
<1> DEFINE p == req[t].project
<1>1. /\ qsLock = Null /\ qreq[t].at = "outside" /\ p \in ProjectIds
      /\ UNCHANGED <<queryOf, queryMap, deletedQueries>>
  BY DEF deleteQueriesOfProject, RemoveQueryDocs, At, InsideQueries, QsFree, ServicesInv,
         TypeOK, RequestsTypeOK, RequestOK
<1>2. PICK o \in QueryOutcomes :
        /\ queryDocs' = IF Applied(o) THEN queryDocs \ StoredQueries(p) ELSE queryDocs
        /\ IF Reported(o)
           THEN EnterQueries(t, "eraseQueries", Null, Null) /\ UNCHANGED vars
           ELSE DeleteQueriesFails(t) /\ UNCHANGED <<qsLock, qreq>>
  BY DEF deleteQueriesOfProject, RemoveQueryDocs, removeQueries
<1>3. \A u \in Threads : Deleting(u)'
  <2>1. CASE Reported(o)
    <3> DEFINE r == [at |-> "eraseQueries", query |-> Null, old |-> Null]
    <3>1. /\ qreq' = [qreq EXCEPT ![t] = r] /\ UNCHANGED req
          /\ queryDocs' = queryDocs \ StoredQueries(p)
      BY <1>2, <2>1 DEF EnterQueries, Applied, Reported, vars, reqVars
    <3>2. qreq'[t] = r
      BY <3>1 DEF ServicesInv, ServicesTypeOK
    <3>3. queryMap[p] \cap queryDocs' = {}
      BY <1>1, <3>1 DEF StoredQueries, DeletedInv
    <3>4. Deleting(t)'
      BY <1>1, <3>1, <3>2, <3>3 DEF Deleting
    <3> QED
      BY <1>1, <3>1, <3>4, OthersDelete
  <2>2. CASE ~Reported(o)
    <3>1. qreq' = [qreq EXCEPT ![t] = qreq[t]] /\ qreq'[t].at = "outside"
      BY <1>1, <1>2, <2>2 DEF ServicesInv, ServicesTypeOK
    <3>2. Deleting(t)'
      BY <3>1 DEF Deleting
    <3> QED
      BY <1>1, <3>1, <3>2, OthersDelete
  <2> QED
    BY <2>1, <2>2
<1>4. queryDocs' \subseteq queryDocs
  BY <1>2
<1> QED
  BY <1>1, <1>3, <1>4 DEF DeletedInv

(* A step that changes nothing of the queries but where thread t is.       *)
LEMMA QuietDeleted ==
  ASSUME ServicesInv, DeletedInv, NEW t \in Threads,
         UNCHANGED <<queryOf, queryMap, queryDocs, deletedQueries>>,
         \A u \in Threads \ {t} : req'[u] = req[u] /\ qreq'[u] = qreq[u],
         qreq'[t].at \in {"outside", "queriesGone"}
  PROVE  DeletedInv'
<1>1. Deleting(t)'
  BY DEF Deleting
<1>2. ASSUME NEW u \in Threads \ {t}
      PROVE  Deleting(u)'
  BY <1>2 DEF DeletedInv, Deleting
<1> QED
  BY <1>1, <1>2 DEF DeletedInv

LEMMA OutsideStepDeleted ==
  ASSUME ServicesInv, DeletedInv, NEW t \in Threads,
         ModelStep(t) \/ TwinStep(t) \/ FinishDeletion(t)
  PROVE  DeletedInv'
<1>1. CASE ModelStep(t)
  BY <1>1, OwnRequest, QuietDeleted DEF ModelStep, InsideQueries, queryVars, ServicesInv
<1>2. ASSUME Respond(t), NEW u \in Threads \ {t}
      PROVE  req'[u] = req[u]
  BY <1>2 DEF Respond, ServicesInv, TypeOK, RequestsTypeOK
<1>3. CASE TwinStep(t)
  BY <1>2, <1>3, QuietDeleted DEF TwinStep, postTwin, createTwin, InsideQueries, queryVars
<1>4. CASE FinishDeletion(t)
  <2>1. Respond(t) /\ qreq' = [qreq EXCEPT ![t] = OutsideQueries]
    BY <1>4 DEF FinishDeletion, ForgetProject
  <2>2. /\ qreq'[t].at = "outside"
        /\ \A u \in Threads \ {t} : qreq'[u] = qreq[u]
    BY <2>1 DEF OutsideQueries, ServicesInv, ServicesTypeOK
  <2> QED
    BY <1>2, <1>4, <2>1, <2>2, QuietDeleted DEF FinishDeletion
<1> QED
  BY <1>1, <1>3, <1>4

LEMMA RestartDeleted ==
  ASSUME ServicesInv, DeletedInv, RestartServices
  PROVE  DeletedInv'
<1>1. /\ UNCHANGED <<queryOf, queryDocs, deletedQueries>>
      /\ queryMap' = [p \in ProjectIds |-> StoredQueries(p)]
      /\ \A t \in Threads : qreq'[t].at = "outside"
  BY DEF RestartServices, LoadQueries, OutsideQueries
<1>2. \A t \in Threads : Deleting(t)'
  BY <1>1 DEF Deleting
<1>3. \A p \in ProjectIds : \A q \in queryMap'[p] : q \in queryDocs /\ queryOf[q] = p
  BY <1>1 DEF StoredQueries
<1> QED
  BY <1>1, <1>2, <1>3 DEF DeletedInv

LEMMA DeletedStep ==
  ASSUME ServicesInv, DeletedInv, [NextServices]_serviceVars
  PROVE  DeletedInv'
<1>1. CASE UNCHANGED serviceVars
  BY <1>1 DEF serviceVars, vars, reqVars, queryVars, DeletedInv, Deleting
<1>2. ASSUME NEW t \in Threads, QueryStep(t)
      PROVE  DeletedInv'
  BY <1>2, CreateQueryDeleted, UpdateQueryDeleted, DeleteQueryDeleted, FinishQueryDeleted,
     EraseQueriesDeleted
  DEF QueryStep
<1> QED
  BY <1>1, <1>2, DeleteQueriesDeleted, OutsideStepDeleted, RestartDeleted DEF NextServices

LEMMA DeletedInvariant == SpecServices => []DeletedInv
<1>1. InitServices => DeletedInv
  BY DEF InitServices, InitQueries, DeletedInv, Deleting, OutsideQueries
<1>2. ServicesInv /\ DeletedInv /\ [NextServices]_serviceVars => DeletedInv'
  BY DeletedStep
<1> QED
  BY <1>1, <1>2, ServicesInvariant, PTL DEF SpecServices

(* A query a client was told is deleted, or that was deleted with its      *)
(* project, comes back neither in memory nor in the collection, whatever   *)
(* other threads, exceptions and restarts do.                              *)
THEOREM QueriesStayDeleted == SpecServices => []DeletedQueriesStayDeleted
<1>1. DeletedInv => DeletedQueriesStayDeleted
  BY DEF DeletedInv, DeletedQueriesStayDeleted
<1> QED
  BY <1>1, DeletedInvariant, PTL

-----------------------------------------------------------------------------
(* Twins refer to stored commits of their project, which can be found as   *)
(* long as the project can; what a client was told of is in the maps.      *)
TwinInv ==
  /\ \A w \in TwinIds : ~FreshTwin(w) =>
       /\ twinOf[w].commit \in commitDocs
       /\ commitOf[twinOf[w].commit].project = twinOf[w].project
       /\ project[twinOf[w].project] # Null
  /\ \A w \in twinDocs : ~FreshTwin(w)
  /\ \A p \in ProjectIds : \A w \in twinMap[p] :
       /\ ~FreshTwin(w) /\ twinOf[w].project = p
       /\ p \in projectMap => twinOf[w].commit \in commitIndex
  /\ \A w \in toldTwins : w \in twinDocs /\ w \in twinMap[twinOf[w].project]


(* A step of the services is a step of the model that leaves the twins     *)
(* alone, or the creation of a twin, or a restart.                         *)
LEMMA ServicesSteps ==
  ASSUME ServicesInv, [NextServices]_serviceVars
  PROVE  \/ UNCHANGED <<vars, twinVars>>
         \/ \E t \in Threads : ThreadStep(t) /\ UNCHANGED twinVars
         \/ \E t \in Threads : TwinStep(t)
         \/ RestartServices
<1>1. ASSUME NEW t \in Threads, ModelStep(t)
      PROVE  ThreadStep(t) /\ UNCHANGED twinVars
  BY <1>1 DEF ModelStep
<1>2. ASSUME NEW t \in Threads, QueryStep(t)
      PROVE  (UNCHANGED vars \/ ThreadStep(t)) /\ UNCHANGED twinVars
  BY <1>2, QueryAnswers DEF QueryStep, ThreadStep
<1>3. ASSUME NEW t \in Threads, deleteQueriesOfProject(t)
      PROVE  (UNCHANGED vars \/ ThreadStep(t)) /\ UNCHANGED twinVars
  BY <1>3 DEF deleteQueriesOfProject, ThreadStep, ProjectStep
<1>4. ASSUME NEW t \in Threads, FinishDeletion(t)
      PROVE  ThreadStep(t) /\ UNCHANGED twinVars
  BY <1>4 DEF FinishDeletion, ThreadStep, ProjectStep
<1> QED
  BY <1>1, <1>2, <1>3, <1>4 DEF NextServices, serviceVars

LEMMA TwinsWhileModelSteps ==
  ASSUME ServicesInv, BelongInv, LiveInv, TwinInv, NEW t \in Threads, ThreadStep(t),
         UNCHANGED twinVars
  PROVE  TwinInv'
<1>1. TypeOK /\ TwinsOK
  BY ServicesTypeParts DEF ServicesInv
<1>2. ASSUME NEW w \in TwinIds, ~FreshTwin(w)
      PROVE  /\ twinOf[w].project \in ProjectIds /\ twinOf[w].commit \in CommitIds
             /\ twinOf[w].commit \in commitDocs' /\ project'[twinOf[w].project] # Null
             /\ commitOf'[twinOf[w].commit].project = twinOf[w].project
  <2>1. twinOf[w].project \in ProjectIds /\ twinOf[w].commit \in CommitIds
    BY <1>1, <1>2 DEF TwinsOK, FreshTwin
  <2> QED
    BY <1>1, <1>2, <2>1, StoredKept, Stable DEF TwinInv
<1>3. ASSUME NEW p \in projectMap', NEW w \in twinMap[p]
      PROVE  twinOf[w].commit \in commitIndex'
  <2>1. p \in ProjectIds
    BY <1>1, StepTypeOK DEF TypeOK, MemoryTypeOK
  <2>2. w \in TwinIds /\ ~FreshTwin(w) /\ twinOf[w].project = p
    BY <1>1, <2>1 DEF TwinInv, TwinsOK
  <2>3. p \in projectMap
    BY <1>1, <2>2, ProjectMapGrows DEF TwinInv
  <2> QED
    BY <1>1, <2>1, <2>2, <2>3, IndexKept DEF TwinInv
<1> QED
  BY <1>1, <1>2, <1>3 DEF TwinInv, TwinsOK, FreshTwin, twinVars

LEMMA TwinCreated ==
  ASSUME ServicesInv, ClosedInv, BelongInv, LiveInv, TwinInv,
         NEW t \in Threads, TwinStep(t)
  PROVE  TwinInv'
<1>1. TypeOK /\ TwinsOK /\ UNCHANGED modelVars
  BY ServicesTypeParts DEF ServicesInv, TwinStep
<1>2. PICK w \in TwinIds : postTwin(t, w)
  BY DEF TwinStep
<1>3. PICK p \in ProjectIds, c \in CommitIds : p = req[t].project /\ c = req[t].commit
  BY <1>1, <1>2 DEF postTwin, At, TypeOK, RequestsTypeOK, RequestOK
<1>4. /\ FreshTwin(w) /\ req[t].at = "commit"
      /\ twinOf' = [twinOf EXCEPT ![w] = [project |-> p, commit |-> c]]
      /\ twinMap' = [twinMap EXCEPT ![p] = @ \cup {w}]
  BY <1>2, <1>3 DEF postTwin, createTwin, At
<1>5. PICK o \in QueryOutcomes :
        /\ twinDocs' = IF Applied(o) THEN twinDocs \cup {w} ELSE twinDocs
        /\ toldTwins' = IF Reported(o) THEN toldTwins \cup {w} ELSE toldTwins
  BY <1>2 DEF postTwin, createTwin, addTwin
<1>6. /\ twinOf'[w] = [project |-> p, commit |-> c]
      /\ \A x \in TwinIds \ {w} : twinOf'[x] = twinOf[x]
      /\ twinMap'[p] = twinMap[p] \cup {w}
      /\ \A q \in ProjectIds \ {p} : twinMap'[q] = twinMap[q]
  BY <1>1, <1>4 DEF TwinsOK
<1>7. ~FreshTwin(w)' /\ twinOf'[w].project = p /\ twinOf'[w].commit = c
  <2>1. [project |-> p, commit |-> c] # Null
    BY <1>3, TwinIdsAssumption
  <2> QED
    BY <1>6, <2>1 DEF FreshTwin
<1>8. /\ c \in commitDocs /\ commitOf[c].project = p /\ project[p] # Null
      /\ p \in projectMap => c \in commitIndex
  BY <1>1, <1>3, <1>4
  DEF ClosedInv, RequestsStored, BelongInv, RequestsBelong, SameProject, LiveInv,
      IndexedByRequest, TypeOK, RequestsTypeOK
<1>9. \A x \in TwinIds : ~FreshTwin(x) => x # w /\ ~FreshTwin(x)'
  BY <1>4, <1>6 DEF FreshTwin
<1>10. /\ w \notin twinDocs /\ w \notin toldTwins
       /\ \A q \in ProjectIds : w \notin twinMap[q]
  BY <1>4 DEF TwinInv
<1>11. \A x \in TwinIds : ~FreshTwin(x)' =>
         /\ twinOf'[x].commit \in commitDocs'
         /\ commitOf'[twinOf'[x].commit].project = twinOf'[x].project
         /\ project'[twinOf'[x].project] # Null
  <2> SUFFICES ASSUME NEW x \in TwinIds, ~FreshTwin(x)'
               PROVE  /\ twinOf'[x].commit \in commitDocs
                      /\ commitOf[twinOf'[x].commit].project = twinOf'[x].project
                      /\ project[twinOf'[x].project] # Null
    BY <1>1 DEF modelVars, objVars, dbVars, pvsVars
  <2>1. CASE x = w
    BY <1>7, <1>8, <2>1
  <2>2. CASE x # w
    BY <1>6, <2>2 DEF FreshTwin, TwinInv
  <2> QED
    BY <2>1, <2>2
<1>12. \A x \in twinDocs' : ~FreshTwin(x)'
  BY <1>1, <1>5, <1>7, <1>9 DEF TwinInv, TwinsOK
<1>13. ASSUME NEW q \in ProjectIds, NEW x \in twinMap'[q]
       PROVE  /\ ~FreshTwin(x)' /\ twinOf'[x].project = q
              /\ q \in projectMap' => twinOf'[x].commit \in commitIndex'
  <2>1. x \in TwinIds /\ (x \in twinMap[q] \/ (x = w /\ q = p))
    BY <1>1, <1>6, <1>13 DEF TwinsOK
  <2>2. projectMap' = projectMap /\ commitIndex' = commitIndex
    BY <1>1 DEF modelVars, pvsVars
  <2>3. CASE x = w /\ q = p
    BY <1>7, <1>8, <2>2, <2>3
  <2>4. CASE x \in twinMap[q]
    <3>1. ~FreshTwin(x) /\ twinOf[x].project = q
          /\ (q \in projectMap => twinOf[x].commit \in commitIndex)
      BY <2>4 DEF TwinInv
    <3> QED
      BY <1>6, <1>9, <2>1, <2>2, <3>1
  <2> QED
    BY <2>1, <2>3, <2>4
<1>14. ASSUME NEW x \in toldTwins'
       PROVE  x \in twinDocs' /\ x \in twinMap'[twinOf'[x].project]
  <2>1. CASE x = w
    <3>1. x \in twinDocs'
      BY <1>5, <1>10, <1>14, <2>1 DEF Applied, Reported
    <3> QED
      BY <1>6, <1>7, <2>1, <3>1
  <2>2. CASE x # w
    <3>1. x \in toldTwins /\ x \in TwinIds
      BY <1>1, <1>5, <1>14, <2>2 DEF TwinsOK
    <3>2. x \in twinDocs /\ x \in twinMap[twinOf[x].project] /\ ~FreshTwin(x)
      BY <3>1 DEF TwinInv
    <3>3. twinOf[x].project \in ProjectIds
      BY <1>1, <3>1, <3>2 DEF TwinsOK, FreshTwin
    <3> QED
      BY <1>5, <1>6, <2>2, <3>1, <3>2, <3>3
  <2> QED
    BY <2>1, <2>2
<1> QED
  BY <1>11, <1>12, <1>13, <1>14 DEF TwinInv

LEMMA TwinsAfterRestart ==
  ASSUME ServicesInv, BelongInv, GoneInv, TwinInv, RestartServices
  PROVE  TwinInv'
<1>1. TypeOK /\ TwinsOK
  BY ServicesTypeParts DEF ServicesInv
<1>2. /\ UNCHANGED <<objVars, dbVars>>
      /\ twinOf' = twinOf /\ twinDocs' = twinDocs /\ toldTwins' = toldTwins
      /\ twinMap' = [p \in ProjectIds |-> StoredTwins(p)]
      /\ commitIndex' = UNION {getAllCommits[p] : p \in ProjectIds}
      /\ project' = [p \in ProjectIds |->
                       IF p \in getAllProjects THEN projectDoc[p] ELSE project[p]]
  BY DEF RestartServices, Restart, LoadTwins, LoadVersioning, LoadProjects
<1>3. ASSUME NEW w \in TwinIds, ~FreshTwin(w)
      PROVE  /\ twinOf[w].commit \in commitDocs
             /\ commitOf[twinOf[w].commit].project = twinOf[w].project
             /\ twinOf[w].project \in ProjectIds /\ project'[twinOf[w].project] # Null
             /\ twinOf[w].commit \in commitIndex'
  <2>1. twinOf[w].project \in ProjectIds
    BY <1>1, <1>3 DEF TwinsOK, FreshTwin
  <2>2. /\ twinOf[w].commit \in commitDocs
        /\ commitOf[twinOf[w].commit].project = twinOf[w].project
        /\ project[twinOf[w].project] # Null
    BY <1>3 DEF TwinInv
  <2>3. twinOf[w].commit \in getAllCommits[twinOf[w].project]
    BY <2>1, <2>2 DEF getAllCommits
  <2>4. project'[twinOf[w].project] # Null
    BY <1>2, <2>1, <2>2 DEF getAllProjects
  <2> QED
    BY <1>2, <2>1, <2>2, <2>3, <2>4
<1>4. \A w \in twinDocs : w \in TwinIds /\ ~FreshTwin(w)
  BY <1>1 DEF TwinInv, TwinsOK
<1>5. \A p \in ProjectIds : \A w \in twinMap'[p] : w \in twinDocs /\ twinOf[w].project = p
  BY <1>2 DEF StoredTwins
<1>6. \A w \in toldTwins : w \in twinDocs /\ w \in twinMap'[twinOf[w].project]
  BY <1>2, <1>3, <1>4 DEF TwinInv, StoredTwins
<1> QED
  BY <1>2, <1>3, <1>4, <1>5, <1>6 DEF TwinInv, FreshTwin, objVars, dbVars

LEMMA TwinInvariant == SpecServices => []TwinInv
<1>1. InitServices => TwinInv
  BY DEF InitServices, InitTwins, TwinInv, FreshTwin
<1>2. ServicesInv /\ ClosedInv /\ BelongInv /\ LiveInv /\ GoneInv /\ TwinInv
        /\ [NextServices]_serviceVars => TwinInv'
  <2> SUFFICES ASSUME ServicesInv, ClosedInv, BelongInv, LiveInv, GoneInv, TwinInv,
                      [NextServices]_serviceVars
               PROVE  TwinInv'
    OBVIOUS
  <2>1. CASE UNCHANGED <<vars, twinVars>>
    BY <2>1 DEF TwinInv, FreshTwin, vars, objVars, dbVars, pvsVars, twinVars
  <2> QED
    BY <2>1, ServicesSteps, TwinsWhileModelSteps, TwinCreated, TwinsAfterRestart
<1> QED
  BY <1>1, <1>2, ServicesImplementModel, ServicesInvariant, ClosedInvariant,
     BelongInvariant, LiveInvariant, GoneInvariant, PTL DEF SpecServices

(* A digital twin refers to a stored commit, which can be found while its  *)
(* project can be, although another thread may have deleted the project    *)
(* since the commit was looked up; a twin a client was told of is there,   *)
(* after every restart too.  However the writes end.                       *)
THEOREM TwinsStayResolved == SpecServices => []TwinsResolve
<1>1. ServicesInv /\ TwinInv => TwinsResolve
  <2> SUFFICES ASSUME ServicesInv, TwinInv
               PROVE  TwinsResolve
    OBVIOUS
  <2>1. \A w \in twinDocs : twinOf[w].commit \in commitDocs
    BY DEF TwinInv, ServicesInv, ServicesTypeOK
  <2>2. \A p \in projectMap : \A w \in twinMap[p] : Resolves(p, twinOf[w].commit)
    BY DEF TwinInv, Resolves, ServicesInv, ServicesTypeOK, TypeOK, MemoryTypeOK
  <2> QED
    BY <2>1, <2>2 DEF TwinInv, TwinsResolve
<1> QED
  BY <1>1, ServicesInvariant, TwinInvariant, PTL

-----------------------------------------------------------------------------
(* The queries in memory and in the collection differ by what the thread   *)
(* inside QueryService is changing.                                        *)
ChangingQuery(q) ==
  \E t \in Threads : qreq[t].at \in {"pushQuery", "eraseQuery"} /\ qreq[t].query = q
ReplacingQuery(q) ==
  \E t \in Threads : qreq[t].at = "replaceQuery" /\ qreq[t].query = q
QueriesKnown == \A q \in QueryIds : queryOf[q] # Null => project[queryOf[q]] # Null
QueriesAgree ==
  \A p \in projectMap : \A q \in QueryIds :
    ChangingQuery(q) \/ (q \in queryMap[p] <=> q \in StoredQueries(p))
BodiesAgree == \A q \in queryDocs : ReplacingQuery(q) \/ body[q] = docBody[q]
QueryRequestAgrees(t) ==
  /\ qreq[t].at = "pushQuery" => qreq[t].query \in queryDocs
  /\ qreq[t].at = "replaceQuery" /\ qreq[t].query \in queryDocs =>
       docBody[qreq[t].query] = qreq[t].old
QueryInv ==
  /\ QueriesKnown /\ QueriesAgree /\ BodiesAgree
  /\ \A t \in Threads : QueryRequestAgrees(t)

DefiniteQueries == "lost" \notin QueryOutcomes

LEMMA QueriesReported ==
  ASSUME DefiniteQueries, NEW o \in QueryOutcomes
  PROVE  Applied(o) <=> Reported(o)
  BY QueryOutcomesAssumption DEF DefiniteQueries, Outcomes, Applied, Reported

LEMMA NobodyInQueries ==
  ASSUME ServicesInv, QsFree
  PROVE  \A q : ~ChangingQuery(q) /\ ~ReplacingQuery(q)
  BY DEF ChangingQuery, ReplacingQuery, QsFree, ServicesInv, ServicesTypeOK

(* The thread inside QueryService is the only one that changes something.  *)
LEMMA OneInQueries ==
  ASSUME ServicesInv, NEW t \in Threads, qsLock = t
  PROVE  /\ \A u \in Threads \ {t} :
              qreq[u].at \notin {"pushQuery", "replaceQuery", "eraseQuery", "eraseQueries"}
         /\ \A q : ChangingQuery(q) =>
              qreq[t].at \in {"pushQuery", "eraseQuery"} /\ q = qreq[t].query
         /\ \A q : ReplacingQuery(q) => qreq[t].at = "replaceQuery" /\ q = qreq[t].query
  BY DEF ChangingQuery, ReplacingQuery, ServicesInv, ServicesTypeOK

(* What thread t is inside QueryService for, when it has got in. *)
LEMMA OwnQueryRequest ==
  ASSUME ServicesInv, NEW t \in Threads, NEW r, qreq' = [qreq EXCEPT ![t] = r],
         qsLock \in {Null, t}
  PROVE  /\ qreq'[t] = r
         /\ \A u \in Threads \ {t} : qreq'[u] = qreq[u] /\ QueryRequestAgrees(u)'
  BY DEF QueryRequestAgrees, ServicesInv, ServicesTypeOK

(* The queries while the model takes a step: a project that is created has *)
(* none yet.                                                               *)
LEMMA QueriesWhileModelSteps ==
  ASSUME ServicesInv, DeletedInv, QueryInv, NEW t \in Threads,
         ThreadStep(t) \/ UNCHANGED vars,
         UNCHANGED <<queryOf, queryMap, body, queryDocs, docBody>>,
         \A q : ChangingQuery(q) => ChangingQuery(q)',
         \A q : ReplacingQuery(q) => ReplacingQuery(q)',
         \A u \in Threads : QueryRequestAgrees(u)'
  PROVE  QueryInv'
<1>1. TypeOK /\ QueryDataOK
  BY ServicesTypeParts DEF ServicesInv
<1>2. QueriesKnown'
  <2>1. \A p \in ProjectIds : project[p] # Null => project'[p] # Null
    BY <1>1, Stable DEF vars, pvsVars
  <2> QED
    BY <1>1, <2>1 DEF QueryInv, QueriesKnown, QueryDataOK
<1>3. QueriesAgree'
  <2> SUFFICES ASSUME NEW p \in projectMap', NEW q \in QueryIds
               PROVE  ChangingQuery(q)' \/ (q \in queryMap[p] <=> q \in StoredQueries(p))
    BY DEF QueriesAgree, StoredQueries
  <2>1. CASE p \in projectMap
    BY <2>1 DEF QueryInv, QueriesAgree
  <2>2. CASE p \notin projectMap
    <3>1. p \in ProjectIds /\ project[p] = Null
      BY <1>1, <2>2, ProjectMapGrows DEF vars
    <3>2. queryOf[q] # p
      BY <3>1 DEF QueryInv, QueriesKnown
    <3> QED
      BY <3>1, <3>2 DEF DeletedInv, StoredQueries
  <2> QED
    BY <2>1, <2>2
<1>4. BodiesAgree'
  BY DEF QueryInv, BodiesAgree
<1> QED
  BY <1>2, <1>3, <1>4 DEF QueryInv

LEMMA QueryCreated ==
  ASSUME DefiniteQueries, ServicesInv, DeletedInv, QueryInv, NEW t \in Threads,
         NEW q \in QueryIds, NEW x \in Bodies, postQuery(t, q, x), UNCHANGED modelVars
  PROVE  QueryInv'
<1>1. TypeOK /\ QueryDataOK
  BY ServicesTypeParts DEF ServicesInv
<1>2. PICK p \in ProjectIds : p = req[t].project /\ project[p] # Null
  BY <1>1 DEF postQuery, OnProject, At, TypeOK, RequestsTypeOK, RequestOK
<1>3. QsFree /\ FreshQuery(q) /\ queryMap' = queryMap
  BY DEF postQuery, createQuery
<1>4. q \notin queryDocs /\ \A r \in ProjectIds : q \notin queryMap[r]
  BY <1>3 DEF DeletedInv, FreshQuery
<1>5. PICK o \in QueryOutcomes :
        /\ queryDocs' = IF Applied(o) THEN queryDocs \cup {q} ELSE queryDocs
        /\ docBody' = IF Applied(o) THEN [docBody EXCEPT ![q] = x] ELSE docBody
        /\ queryOf' = IF Applied(o) THEN [queryOf EXCEPT ![q] = p] ELSE queryOf
        /\ body' = IF Reported(o) THEN [body EXCEPT ![q] = x] ELSE body
        /\ IF Reported(o) THEN EnterQueries(t, "pushQuery", q, Null)
                          ELSE UNCHANGED <<qsLock, qreq>>
  BY <1>2 DEF postQuery, createQuery, addQuery
<1>6. projectMap' = projectMap /\ project' = project
  BY DEF modelVars, pvsVars
<1>7. CASE ~Reported(o)
  <2>1. UNCHANGED <<queryOf, queryMap, body, queryDocs, docBody, qreq>>
    BY <1>3, <1>5, <1>7, QueriesReported
  <2> QED
    BY <1>6, <2>1 DEF QueryInv, QueriesKnown, QueriesAgree, BodiesAgree, StoredQueries,
                      ChangingQuery, ReplacingQuery, QueryRequestAgrees
<1>8. CASE Reported(o)
  <2> DEFINE r == [at |-> "pushQuery", query |-> q, old |-> Null]
  <2>1. /\ queryDocs' = queryDocs \cup {q} /\ qreq' = [qreq EXCEPT ![t] = r]
        /\ docBody' = [docBody EXCEPT ![q] = x] /\ body' = [body EXCEPT ![q] = x]
        /\ queryOf' = [queryOf EXCEPT ![q] = p]
    BY <1>5, <1>8, QueriesReported DEF EnterQueries
  <2>2. /\ qreq'[t] = r
        /\ \A u \in Threads \ {t} : qreq'[u] = qreq[u] /\ QueryRequestAgrees(u)'
    BY <1>3, <2>1, OwnQueryRequest DEF QsFree
  <2>3. ChangingQuery(q)' /\ QueryRequestAgrees(t)'
    BY <2>1, <2>2 DEF ChangingQuery, QueryRequestAgrees
  <2>4. /\ docBody'[q] = x /\ body'[q] = x /\ queryOf'[q] = p
        /\ \A y \in QueryIds \ {q} :
             docBody'[y] = docBody[y] /\ body'[y] = body[y] /\ queryOf'[y] = queryOf[y]
    BY <1>1, <2>1 DEF QueryDataOK
  <2>5. QueriesKnown'
    BY <1>2, <1>6, <2>4 DEF QueryInv, QueriesKnown
  <2>6. ASSUME NEW p0 \in projectMap', NEW y \in QueryIds
        PROVE  ChangingQuery(y)' \/ (y \in queryMap'[p0] <=> y \in StoredQueries(p0)')
    <3>1. CASE y = q
      BY <2>3, <3>1
    <3>2. CASE y # q
      <4>1. y \in queryMap[p0] <=> y \in StoredQueries(p0)
        BY <1>3, <1>6, <2>6, NobodyInQueries DEF QueryInv, QueriesAgree
      <4> QED
        BY <1>3, <2>1, <2>4, <3>2, <4>1 DEF StoredQueries
    <3> QED
      BY <3>1, <3>2
  <2>7. BodiesAgree'
    <3>1. \A y \in queryDocs : y \in QueryIds /\ y # q /\ body[y] = docBody[y]
      BY <1>1, <1>3, <1>4, NobodyInQueries DEF QueryInv, BodiesAgree, QueryDataOK
    <3> QED
      BY <2>1, <2>4, <3>1 DEF BodiesAgree
  <2> QED
    BY <2>2, <2>3, <2>5, <2>6, <2>7 DEF QueryInv, QueriesAgree
<1> QED
  BY <1>7, <1>8

LEMMA QueryChanged ==
  ASSUME ServicesInv, DeletedInv, QueryInv, NEW t \in Threads,
         NEW q \in QueryIds, NEW x \in Bodies, putQuery(t, q, x), UNCHANGED modelVars
  PROVE  QueryInv'
<1>1. TypeOK /\ QueryDataOK
  BY ServicesTypeParts DEF ServicesInv
<1>2. QsFree /\ UNCHANGED <<queryOf, queryMap, queryDocs, docBody>>
      /\ body' = [body EXCEPT ![q] = x]
      /\ qreq' = [qreq EXCEPT ![t] = [at |-> "replaceQuery", query |-> q, old |-> body[q]]]
  BY DEF putQuery, updateQuery, EnterQueries
<1>3. projectMap' = projectMap /\ project' = project
  BY DEF modelVars, pvsVars
<1>4. /\ qreq'[t] = [at |-> "replaceQuery", query |-> q, old |-> body[q]]
      /\ \A u \in Threads \ {t} : qreq'[u] = qreq[u] /\ QueryRequestAgrees(u)'
  BY <1>2, OwnQueryRequest DEF QsFree
<1>5. \A y \in queryDocs : y \in QueryIds /\ body[y] = docBody[y]
  BY <1>1, <1>2, NobodyInQueries DEF QueryInv, BodiesAgree, QueryDataOK
<1>6. QueryRequestAgrees(t)'
  BY <1>2, <1>4, <1>5 DEF QueryRequestAgrees
<1>7. QueriesAgree'
  BY <1>2, <1>3, NobodyInQueries DEF QueryInv, QueriesAgree, StoredQueries
<1>8. BodiesAgree'
  <2> SUFFICES ASSUME NEW y \in queryDocs
               PROVE  ReplacingQuery(y)' \/ body'[y] = docBody[y]
    BY <1>2 DEF BodiesAgree
  <2>1. y = q => ReplacingQuery(y)'
    BY <1>4 DEF ReplacingQuery
  <2>2. y # q => body'[y] = body[y]
    BY <1>1, <1>2, <1>5 DEF QueryDataOK
  <2> QED
    BY <1>5, <2>1, <2>2
<1> QED
  BY <1>2, <1>3, <1>4, <1>6, <1>7, <1>8 DEF QueryInv, QueriesKnown

LEMMA QueryRemoved ==
  ASSUME DefiniteQueries, ServicesInv, DeletedInv, QueryInv, NEW t \in Threads,
         NEW q \in QueryIds, deleteQueryRequest(t, q), UNCHANGED modelVars
  PROVE  QueryInv'
<1>1. TypeOK /\ QueryDataOK
  BY ServicesTypeParts DEF ServicesInv
<1>2. QsFree /\ UNCHANGED <<queryOf, queryMap, body, docBody>>
  BY DEF deleteQueryRequest, deleteQuery
<1>3. PICK o \in QueryOutcomes :
        /\ queryDocs' = IF Applied(o) THEN queryDocs \ {q} ELSE queryDocs
        /\ IF Reported(o) THEN EnterQueries(t, "eraseQuery", q, Null)
                          ELSE UNCHANGED <<qsLock, qreq>>
  BY DEF deleteQueryRequest, deleteQuery, removeQueries
<1>4. projectMap' = projectMap /\ project' = project
  BY DEF modelVars, pvsVars
<1>5. CASE ~Reported(o)
  <2>1. UNCHANGED <<queryOf, queryMap, body, queryDocs, docBody, qreq>>
    BY <1>2, <1>3, <1>5, QueriesReported
  <2> QED
    BY <1>4, <2>1 DEF QueryInv, QueriesKnown, QueriesAgree, BodiesAgree, StoredQueries,
                      ChangingQuery, ReplacingQuery, QueryRequestAgrees
<1>6. CASE Reported(o)
  <2>1. /\ queryDocs' = queryDocs \ {q}
        /\ qreq' = [qreq EXCEPT ![t] = [at |-> "eraseQuery", query |-> q, old |-> Null]]
    BY <1>3, <1>6, QueriesReported DEF EnterQueries
  <2>2. /\ qreq'[t] = [at |-> "eraseQuery", query |-> q, old |-> Null]
        /\ \A u \in Threads \ {t} : qreq'[u] = qreq[u] /\ QueryRequestAgrees(u)'
    BY <1>2, <2>1, OwnQueryRequest DEF QsFree
  <2>3. QueryRequestAgrees(t)' /\ ChangingQuery(q)'
    BY <2>2 DEF QueryRequestAgrees, ChangingQuery
  <2>4. QueriesAgree'
    <3> SUFFICES ASSUME NEW p \in projectMap, NEW y \in QueryIds
                 PROVE  ChangingQuery(y)' \/ (y \in queryMap[p] <=> y \in StoredQueries(p)')
      BY <1>2, <1>4 DEF QueriesAgree, StoredQueries
    <3>1. y \in queryMap[p] <=> y \in StoredQueries(p)
      BY <1>2, NobodyInQueries DEF QueryInv, QueriesAgree
    <3> QED
      BY <1>2, <2>1, <2>3, <3>1 DEF StoredQueries
  <2>5. BodiesAgree'
    BY <1>2, <2>1, NobodyInQueries DEF QueryInv, BodiesAgree
  <2> QED
    BY <1>2, <1>4, <2>2, <2>3, <2>4, <2>5 DEF QueryInv, QueriesKnown
<1> QED
  BY <1>5, <1>6

(* The end of a change: nobody is inside any more. *)
LEMMA NobodyAfterLeaving ==
  ASSUME ServicesInv, NEW t \in Threads, qsLock = t, LeaveQueries(t)
  PROVE  \A u \in Threads : QueryRequestAgrees(u)'
<1>1. /\ qreq'[t] = OutsideQueries
      /\ \A u \in Threads \ {t} : qreq'[u] = qreq[u]
  BY DEF LeaveQueries, ServicesInv, ServicesTypeOK
<1>2. \A u \in Threads \ {t} : qreq[u].at \notin {"pushQuery", "replaceQuery"}
  BY OneInQueries
<1> QED
  BY <1>1, <1>2 DEF QueryRequestAgrees, OutsideQueries

LEMMA QueryFinished ==
  ASSUME DefiniteQueries, ServicesInv, DeletedInv, QueryInv, NEW t \in Threads,
         PushQuery(t) \/ ReplaceQuery(t) \/ EraseQuery(t), UNCHANGED modelVars
  PROVE  QueryInv'
<1>1. TypeOK /\ QueryDataOK
  BY ServicesTypeParts DEF ServicesInv
<1>2. qreq[t].at \in {"pushQuery", "replaceQuery", "eraseQuery"} /\ LeaveQueries(t)
      /\ queryOf' = queryOf /\ queryDocs' = queryDocs
  BY DEF PushQuery, ReplaceQuery, EraseQuery, InsideQueries
<1>3. qsLock = t /\ qreq[t].query \in QueryIds /\ req[t].project \in ProjectIds
  BY <1>1, <1>2 DEF ServicesInv, ServicesTypeOK, QueryRequestOK, TypeOK, RequestsTypeOK,
                    RequestOK
<1>4. \A u \in Threads : QueryRequestAgrees(u)'
  BY <1>2, <1>3, NobodyAfterLeaving
<1>5. projectMap' = projectMap /\ project' = project
  BY DEF modelVars, pvsVars
<1>6. PICK q \in QueryIds, p0 \in ProjectIds : q = qreq[t].query /\ p0 = req[t].project
  BY <1>3
<1>7. QueriesAgree'
  <2> SUFFICES ASSUME NEW p \in projectMap, NEW y \in QueryIds
               PROVE  y \in queryMap'[p] <=> y \in StoredQueries(p)
    BY <1>2, <1>5 DEF QueriesAgree, StoredQueries
  <2>0. p \in ProjectIds
    BY <1>1 DEF TypeOK, MemoryTypeOK
  <2>1. CASE ReplaceQuery(t)
    <3>1. queryMap' = queryMap /\ qreq[t].at = "replaceQuery"
      BY <2>1 DEF ReplaceQuery, InsideQueries
    <3> QED
      BY <1>3, <3>1, OneInQueries DEF QueryInv, QueriesAgree
  <2>2. CASE y # q
    <3>1. y \in queryMap[p] <=> y \in StoredQueries(p)
      BY <1>3, <1>6, <2>2, OneInQueries DEF QueryInv, QueriesAgree
    <3>2. y \in queryMap'[p] <=> y \in queryMap[p]
      BY <1>1, <1>6, <2>0, <2>2 DEF PushQuery, ReplaceQuery, EraseQuery, QueryDataOK
    <3> QED
      BY <3>1, <3>2
  <2>3. CASE PushQuery(t) /\ y = q
    <3>1. qreq[t].at = "pushQuery" /\ queryMap' = [queryMap EXCEPT ![p0] = @ \cup {q}]
      BY <1>6, <2>3 DEF PushQuery, InsideQueries
    <3>2. q \in queryDocs /\ queryOf[q] = p0
      BY <1>6, <3>1 DEF QueryInv, QueryRequestAgrees, DeletedInv, Deleting
    <3>3. p # p0 => q \notin queryMap[p]
      BY <2>0, <3>2 DEF DeletedInv
    <3> QED
      BY <1>1, <2>0, <2>3, <3>1, <3>2, <3>3 DEF StoredQueries, QueryDataOK
  <2>4. CASE EraseQuery(t) /\ y = q
    <3>1. qreq[t].at = "eraseQuery" /\ queryMap' = [queryMap EXCEPT ![p0] = @ \ {q}]
      BY <1>6, <2>4 DEF EraseQuery, InsideQueries
    <3>2. q \notin queryDocs /\ q \in queryMap[p0]
      BY <1>6, <3>1 DEF DeletedInv, Deleting
    <3>3. p # p0 => q \notin queryMap[p]
      BY <1>6, <2>0, <3>2 DEF DeletedInv
    <3> QED
      BY <1>1, <2>0, <2>4, <3>1, <3>2, <3>3 DEF StoredQueries, QueryDataOK
  <2> QED
    BY <2>1, <2>2, <2>3, <2>4
<1>8. BodiesAgree'
  <2> SUFFICES ASSUME NEW y \in queryDocs
               PROVE  body'[y] = docBody'[y]
    BY <1>2 DEF BodiesAgree
  <2>0. y \in QueryIds
    BY <1>1 DEF QueryDataOK
  <2>1. CASE PushQuery(t) \/ EraseQuery(t)
    <3>1. body' = body /\ docBody' = docBody /\ qreq[t].at # "replaceQuery"
      BY <2>1 DEF PushQuery, EraseQuery, InsideQueries
    <3> QED
      BY <1>3, <3>1, OneInQueries DEF QueryInv, BodiesAgree
  <2>2. CASE ReplaceQuery(t)
    <3>1. PICK o \in QueryOutcomes :
            /\ docBody' = IF Applied(o) /\ q \in queryDocs
                          THEN [docBody EXCEPT ![q] = body[q]] ELSE docBody
            /\ body' = [body EXCEPT ![q] = IF Reported(o) THEN body[q] ELSE qreq[t].old]
      BY <1>6, <2>2 DEF ReplaceQuery, replaceQuery, RollBack
    <3>2. qreq[t].at = "replaceQuery"
      BY <2>2 DEF ReplaceQuery, InsideQueries
    <3>3. y = q => docBody[q] = qreq[t].old
      BY <1>6, <3>2 DEF QueryInv, QueryRequestAgrees
    <3>4. y # q => body[y] = docBody[y]
      BY <1>3, <1>6, OneInQueries DEF QueryInv, BodiesAgree
    <3> QED
      BY <1>1, <2>0, <3>1, <3>3, <3>4, QueriesReported DEF QueryDataOK
  <2> QED
    BY <2>1, <2>2
<1> QED
  BY <1>2, <1>4, <1>5, <1>7, <1>8 DEF QueryInv, QueriesKnown

(* The queries of a project that can no longer be found. *)
LEMMA QueriesOfDeletedErased ==
  ASSUME ServicesInv, LiveInv, QueryInv, NEW t \in Threads, EraseQueries(t),
         UNCHANGED modelVars
  PROVE  QueryInv'
<1>1. TypeOK /\ QueryDataOK
  BY ServicesTypeParts DEF ServicesInv
<1>2. /\ qreq[t].at = "eraseQueries"
      /\ UNCHANGED <<queryOf, body, queryDocs, docBody>>
      /\ queryMap' = [queryMap EXCEPT ![req[t].project] = {}]
      /\ qreq' = [qreq EXCEPT ![t].at = "queriesGone"]
  BY DEF EraseQueries, InsideQueries
<1>3. qsLock = t /\ req[t].project \in ProjectIds /\ req[t].project \notin projectMap
  BY <1>1, <1>2 DEF ServicesInv, ServicesTypeOK, QueryRequestOK, TypeOK, RequestsTypeOK,
                    RequestOK, LiveInv
<1>4. /\ qreq'[t].at = "queriesGone" /\ \A u \in Threads \ {t} : qreq'[u] = qreq[u]
  BY <1>2 DEF ServicesInv, ServicesTypeOK, QueryRequest
<1>5. \A q : ~ChangingQuery(q) /\ ~ReplacingQuery(q)
  BY <1>2, <1>3, OneInQueries
<1>6. \A u \in Threads : QueryRequestAgrees(u)'
  BY <1>2, <1>3, <1>4, OneInQueries DEF QueryRequestAgrees
<1>7. \A p \in projectMap : queryMap'[p] = queryMap[p]
  BY <1>1, <1>2, <1>3 DEF QueryDataOK, TypeOK, MemoryTypeOK
<1>8. projectMap' = projectMap /\ project' = project
  BY DEF modelVars, pvsVars
<1> QED
  BY <1>2, <1>5, <1>6, <1>7, <1>8
  DEF QueryInv, QueriesKnown, QueriesAgree, BodiesAgree, StoredQueries

LEMMA QueriesOfDeletedRemoved ==
  ASSUME DefiniteQueries, ServicesInv, LiveInv, QueryInv, NEW t \in Threads,
         deleteQueriesOfProject(t)
  PROVE  QueryInv'
<1>1. TypeOK /\ QueryDataOK
  BY ServicesTypeParts DEF ServicesInv
<1>2. PICK o \in QueryOutcomes :
        /\ RemoveQueryDocs(t, o)
        /\ IF Reported(o)
           THEN EnterQueries(t, "eraseQueries", Null, Null)
           ELSE qreq' = qreq
  BY DEF deleteQueriesOfProject
<1>3. /\ QsFree /\ req[t].at = "forget"
      /\ UNCHANGED <<queryOf, queryMap, body, docBody>>
      /\ queryDocs' = IF Applied(o) THEN queryDocs \ StoredQueries(req[t].project)
                      ELSE queryDocs
  BY <1>2 DEF deleteQueriesOfProject, RemoveQueryDocs, removeQueries, At
<1>4. projectMap' = projectMap /\ project' = project
  BY DEF deleteQueriesOfProject, DeleteQueriesFails, vars, pvsVars
<1>5. req[t].project \notin projectMap
  BY <1>3 DEF LiveInv
<1>6. \A p \in projectMap : StoredQueries(p)' = StoredQueries(p)
  BY <1>3, <1>5 DEF StoredQueries
<1>7. \A q : ~ChangingQuery(q) /\ ~ReplacingQuery(q)
  BY <1>3, NobodyInQueries
<1>8. \A u \in Threads : QueryRequestAgrees(u)'
  <2>1. \A u \in Threads : qreq[u].at \notin {"pushQuery", "replaceQuery"}
    BY <1>3 DEF QsFree, ServicesInv, ServicesTypeOK
  <2>2. \A u \in Threads : qreq'[u] = qreq[u] \/ qreq'[u].at = "eraseQueries"
    BY <1>2 DEF EnterQueries, ServicesInv, ServicesTypeOK
  <2> QED
    BY <2>1, <2>2 DEF QueryRequestAgrees
<1>9. QueriesAgree'
  BY <1>3, <1>4, <1>6, <1>7 DEF QueryInv, QueriesAgree
<1>10. BodiesAgree'
  BY <1>3, <1>7 DEF QueryInv, BodiesAgree
<1> QED
  BY <1>3, <1>4, <1>8, <1>9, <1>10 DEF QueryInv, QueriesKnown

LEMMA QueriesAfterRestart ==
  ASSUME ServicesInv, DeletedInv, QueryInv, RestartServices
  PROVE  QueryInv'
<1>1. TypeOK /\ QueryDataOK
  BY ServicesTypeParts DEF ServicesInv
<1>2. /\ UNCHANGED <<queryOf, queryDocs, docBody, projectDoc>>
      /\ queryMap' = [p \in ProjectIds |-> StoredQueries(p)]
      /\ body' = [q \in QueryIds |-> IF q \in queryDocs THEN docBody[q] ELSE body[q]]
      /\ qreq' = [t \in Threads |-> OutsideQueries]
      /\ projectMap' = getAllProjects
      /\ project' = [p \in ProjectIds |->
                       IF p \in getAllProjects THEN projectDoc[p] ELSE project[p]]
  BY DEF RestartServices, Restart, LoadQueries, LoadProjects, dbVars
<1>3. QueriesKnown'
  BY <1>1, <1>2 DEF QueryInv, QueriesKnown, QueryDataOK, getAllProjects
<1>4. QueriesAgree'
  BY <1>2 DEF QueriesAgree, StoredQueries, getAllProjects
<1>5. BodiesAgree'
  BY <1>1, <1>2 DEF BodiesAgree, QueryDataOK
<1>6. \A t \in Threads : QueryRequestAgrees(t)'
  BY <1>2 DEF QueryRequestAgrees, OutsideQueries
<1> QED
  BY <1>3, <1>4, <1>5, <1>6 DEF QueryInv

(* The steps that leave the queries alone. *)
LEMMA QueriesLeftAlone ==
  ASSUME ServicesInv, DeletedInv, QueryInv, NEW t \in Threads,
         ModelStep(t) \/ FinishDeletion(t) \/ TwinStep(t)
  PROVE  QueryInv'
<1>1. UNCHANGED <<queryOf, queryMap, body, queryDocs, docBody>>
  BY DEF ModelStep, FinishDeletion, TwinStep, queryVars
<1>2. ThreadStep(t)
  <2>1. TwinStep(t) => Answer(t)
    BY DEF TwinStep, postTwin, createTwin, Answer, modelVars, At
  <2> QED
    BY <2>1 DEF ModelStep, FinishDeletion, ThreadStep, ProjectStep
<1>3. \A u \in Threads :
        qreq'[u] = qreq[u] \/ (qreq[u].at = "queriesGone" /\ qreq'[u] = OutsideQueries)
  BY DEF ModelStep, FinishDeletion, TwinStep, InsideQueries, queryVars, ServicesInv,
         ServicesTypeOK
<1>4. /\ \A q : ChangingQuery(q) => ChangingQuery(q)'
      /\ \A q : ReplacingQuery(q) => ReplacingQuery(q)'
  BY <1>3 DEF ChangingQuery, ReplacingQuery
<1>5. \A u \in Threads : QueryRequestAgrees(u)'
  BY <1>1, <1>3 DEF QueryInv, QueryRequestAgrees, OutsideQueries
<1> QED
  BY <1>1, <1>2, <1>4, <1>5, QueriesWhileModelSteps

LEMMA QueryInvariant ==
  ASSUME DefiniteQueries
  PROVE  SpecServices => []QueryInv
<1>1. InitServices => QueryInv
  BY DEF InitServices, Init, InitProjects, InitQueries, QueryInv, QueriesKnown,
         QueriesAgree, BodiesAgree, QueryRequestAgrees, OutsideQueries
<1>2. ServicesInv /\ DeletedInv /\ LiveInv /\ QueryInv /\ [NextServices]_serviceVars
        => QueryInv'
  <2> SUFFICES ASSUME ServicesInv, DeletedInv, LiveInv, QueryInv,
                      [NextServices]_serviceVars
               PROVE  QueryInv'
    OBVIOUS
  <2>1. CASE UNCHANGED serviceVars
    BY <2>1 DEF serviceVars, vars, pvsVars, queryVars, QueryInv, QueriesKnown,
                QueriesAgree, BodiesAgree, QueryRequestAgrees, StoredQueries,
                ChangingQuery, ReplacingQuery
  <2>2. ASSUME NEW t \in Threads, QueryStep(t)
        PROVE  QueryInv'
    BY <2>2, QueryCreated, QueryChanged, QueryRemoved, QueryFinished,
       QueriesOfDeletedErased DEF QueryStep
  <2> QED
    BY <2>1, <2>2, QueriesLeftAlone, QueriesOfDeletedRemoved, QueriesAfterRestart
    DEF NextServices
<1> QED
  BY <1>1, <1>2, ServicesImplementModel, ServicesInvariant, DeletedInvariant,
     LiveInvariant, PTL DEF SpecServices

(* As long as a write to the queries that the driver throws for has had no *)
(* effect: when no writer is inside QueryService, the queries of a stored  *)
(* project are in memory what they are in the collection.  A query whose   *)
(* document was refused is not in the map, a refused replacement is rolled *)
(* back.                                                                   *)
THEOREM QueriesAgreed ==
  ASSUME DefiniteQueries
  PROVE  SpecServices => []QueriesFollowDatabase
<1>1. ServicesInv /\ QueryInv => QueriesFollowDatabase
  <2> SUFFICES ASSUME ServicesInv, QueryInv, QsFree, NEW p \in projectMap
               PROVE  /\ queryMap[p] = StoredQueries(p)
                      /\ \A q \in queryMap[p] : body[q] = docBody[q]
    BY DEF QueriesFollowDatabase
  <2>1. queryMap[p] \subseteq QueryIds /\ queryDocs \subseteq QueryIds
    BY DEF ServicesInv, ServicesTypeOK, TypeOK, MemoryTypeOK
  <2>2. queryMap[p] = StoredQueries(p)
    BY <2>1, NobodyInQueries DEF QueryInv, QueriesAgree, StoredQueries
  <2> QED
    BY <2>2, NobodyInQueries DEF QueryInv, BodiesAgree, StoredQueries
<1> QED
  BY <1>1, ServicesInvariant, QueryInvariant, PTL
=============================================================================
