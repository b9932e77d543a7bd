----------------------- MODULE ModelServerProperties -----------------------
(***************************************************************************)
(* What the model services promise, and the fairness under which they get  *)
(* out of their critical sections.                                         *)
(***************************************************************************)
EXTENDS ModelServer

-----------------------------------------------------------------------------
(* The fields a request holds fit the step it is at. *)
RequestOK(r) ==
  /\ r.at # "idle" => r.project \in ProjectIds
  /\ r.at \in {"commit", "moveHead"} => r.commit \in CommitIds
  /\ r.at \in {"pushBranch", "eraseBranch", "moveHead", "restoreDefault"} =>
       r.target \in BranchIds
  /\ r.at \in {"pushTag", "eraseTag"} => r.target \in TagIds
  /\ r.at = "writeProject" => r.target \in BranchIds \cup {Null}
  /\ r.at \in {"writeProject", "restoreDefault"} => r.old \in ProjectFields

DatabaseTypeOK ==
  /\ branchOf \in [BranchIds -> [project : ProjectIds \cup {Null},
                                 name : Names \cup {Null}]]
  /\ commitOf \in [CommitIds -> [project : ProjectIds \cup {Null},
                                 previous : SUBSET CommitIds]]
  /\ tagOf \in [TagIds -> [project : ProjectIds \cup {Null},
                           name : Names \cup {Null}, commit : CommitIds \cup {Null}]]
  /\ projectDoc \in [ProjectIds -> ProjectFields \cup {Null}]
  /\ branchDocs \subseteq BranchIds
  /\ docHead \in [BranchIds -> CommitIds \cup {Null}]
  /\ commitDocs \subseteq CommitIds
  /\ tagDocs \subseteq TagIds

MemoryTypeOK ==
  /\ branchMap \in [ProjectIds -> SUBSET BranchIds]
  /\ head \in [BranchIds -> CommitIds \cup {Null}]
  /\ commitMap \in [ProjectIds -> SUBSET CommitIds]
  /\ commitIndex \subseteq CommitIds
  /\ tagMap \in [ProjectIds -> SUBSET TagIds]
  /\ project \in [ProjectIds -> ProjectFields \cup {Null}]
  /\ projectMap \subseteq {p \in ProjectIds : project[p] # Null}

RequestsTypeOK ==
  /\ req \in [Threads -> Request]
  /\ \A t \in Threads : RequestOK(req[t])
  /\ \A t \in Threads : req[t].at # "idle" => project[req[t].project] # Null
  /\ acked \subseteq BranchIds \X CommitIds
  /\ deleted \subseteq ProjectIds \cup BranchIds \cup TagIds
  /\ restarts \in Nat

(* A lock is held exactly by the thread that is inside: every path out of  *)
(* a critical section, the exceptions included, releases it.               *)
LocksOK ==
  /\ pvsLock \in Threads \cup {Null}
  /\ spsLock \in Threads \cup {Null}
  /\ \A t \in Threads : pvsLock = t <=> req[t].at \in InVersioning
  /\ \A t \in Threads : spsLock = t <=> req[t].at \in InProjects

(* The type invariant of the services, the database and the requests, with *)
(* the discipline of the two std::unique_locks (LocksOK).                  *)
TypeOK == DatabaseTypeOK /\ MemoryTypeOK /\ RequestsTypeOK /\ LocksOK

-----------------------------------------------------------------------------
(* Whenever the process dies, what the database holds is whole: the        *)
(* previous commits of a stored commit, the head of a stored branch and    *)
(* the commit of a stored tag are stored too.  The services write a commit *)
(* before anything that refers to it, and no commit is ever deleted.       *)
DocumentsClosed ==
  /\ \A c \in commitDocs : commitOf[c].previous \subseteq commitDocs
  /\ \A b \in branchDocs : docHead[b] # Null => docHead[b] \in commitDocs
  /\ \A g \in tagDocs : tagOf[g].commit \in commitDocs

(* In a project that can be found, every reference resolves through        *)
(* getCommitById: the history of its commits, the heads of its branches    *)
(* and the commits of its tags, all of the same project.  Requests that    *)
(* looked a commit up before another thread deleted their project must not *)
(* break this.                                                             *)
Resolves(p, c) == c \in commitIndex /\ commitOf[c].project = p

LiveReferencesResolve ==
  \A p \in projectMap :
    /\ \A c \in commitMap[p] :
         Resolves(p, c) /\ \A x \in commitOf[c].previous : Resolves(p, x)
    /\ \A b \in branchMap[p] : head[b] # Null => Resolves(p, head[b])
    /\ \A g \in tagMap[p] : Resolves(p, tagOf[g].commit)

(* c is h or a commit before it: no set closed under "previous" that holds *)
(* h misses c.                                                             *)
ClosedHistory(S) == \A x \in S : commitOf[x].previous \subseteq S
InHistory(c, h) ==
  h # Null /\ \A S \in SUBSET CommitIds : h \in S /\ ClosedHistory(S) => c \in S

(* A commit whose request was answered with 201 is in the history of its   *)
(* branch for as long as the branch exists, in memory and in the database: *)
(* concurrent commits, failed writes and restarts lose none.               *)
AckedCommitsReachable ==
  \A a \in acked :
    /\ a[1] \in branchDocs => InHistory(a[2], docHead[a[1]])
    /\ \A p \in ProjectIds : a[1] \in branchMap[p] => InHistory(a[2], head[a[1]])

(* A branch moves only from its head to a commit that has this head among  *)
(* its previous commits (storeCommitUnlocked), and a restart does not take *)
(* it back.                                                                *)
HeadAdvances(b) ==
  \/ head[b] = Null
  \/ head'[b] = head[b]
  \/ head'[b] # Null /\ head[b] \in commitOf'[head'[b]].previous

HeadsAdvance ==
  [][\A p \in projectMap \cap projectMap' :
       \A b \in branchMap[p] \cap branchMap'[p] : HeadAdvances(b)]_vars

(* The branches of a project that can be found have different names, and   *)
(* so have its tags: of two requests that create the same name at once,    *)
(* one is refused (BranchAlreadyExistsException, TagAlreadyExistsException).*)
UniqueNames ==
  \A p \in projectMap :
    /\ \A b1, b2 \in branchMap[p] : b1 # b2 => branchOf[b1].name # branchOf[b2].name
    /\ \A g1, g2 \in tagMap[p] : g1 # g2 => tagOf[g1].name # tagOf[g2].name

(* What a client was told is deleted does not come back: not by a request  *)
(* that was under way on another thread, and not by a restart.             *)
DeletedStaysDeleted ==
  /\ \A p \in deleted \cap ProjectIds : p \notin projectMap /\ projectDoc[p] = Null
  /\ \A b \in deleted \cap BranchIds :
       b \notin branchDocs /\ \A p \in ProjectIds : b \notin branchMap[p]
  /\ \A g \in deleted \cap TagIds :
       g \notin tagDocs /\ \A p \in ProjectIds : g \notin tagMap[p]

(* When no writer is inside a service, memory is what the database holds,  *)
(* for every project whose creation reached the database: a refused write  *)
(* is rolled back in memory, and an acknowledged one is there.             *)
ProjectFollows(p) == project[p] = projectDoc[p]
VersionsFollow(p) ==
  /\ branchMap[p] = getAllBranches[p]
  /\ \A b \in branchMap[p] : head[b] = docHead[b]
  /\ commitMap[p] = getAllCommits[p]
  /\ tagMap[p] = getAllTags[p]

MemoryFollowsDatabase ==
  \A p \in projectMap :
    projectDoc[p] # Null => /\ SpsFree => ProjectFollows(p)
                            /\ PvsFree => VersionsFollow(p)

(* The default branch of a project is one of its branches: deleteBranch    *)
(* refuses it (DefaultBranchDeletionException), and a commit without a     *)
(* branch goes to it.  Projects whose creation failed half-way are left    *)
(* out.                                                                    *)
DefaultBranchStored ==
  \A p \in projectMap :
    projectDoc[p] # Null => project[p].defaultBranch \in branchMap[p]

(* Nothing is kept in memory for a project whose deletion was answered     *)
(* (forgetProject).                                                        *)
DeletedProjectForgotten ==
  \A p \in deleted \cap ProjectIds :
    branchMap[p] = {} /\ commitMap[p] = {} /\ tagMap[p] = {}

-----------------------------------------------------------------------------
(* The server implements the abstract store: the store is what the database*)
(* holds, and what clients were told is what the store promises them.      *)
StoredProject(p) == projectDoc[p]
StoredBranch(b) ==
  IF b \in branchDocs
  THEN [project |-> branchOf[b].project, name |-> branchOf[b].name, head |-> docHead[b]]
  ELSE Null
StoredCommit(c) == IF c \in commitDocs THEN commitOf[c] ELSE Null
StoredTag(g) == IF g \in tagDocs THEN tagOf[g] ELSE Null

Store == INSTANCE VersionStore WITH
  projects <- [p \in ProjectIds |-> StoredProject(p)],
  branches <- [b \in BranchIds |-> StoredBranch(b)],
  commits <- [c \in CommitIds |-> StoredCommit(c)],
  tags <- [g \in TagIds |-> StoredTag(g)],
  told <- acked,
  gone <- deleted

(* Interleaved requests, refused or unanswered writes and restarts are     *)
(* invisible in the store: every step of the server is one of its steps or *)
(* changes nothing there.                                                  *)
ImplementsStore == Store!Spec

-----------------------------------------------------------------------------
(* The steps a thread takes while it holds a lock.  Those that need the    *)
(* second lock wait for it with the first one held.                        *)
InsideStep(t) ==
  \/ MoveHead(t) \/ PushBranch(t) \/ EraseBranch(t) \/ PushTag(t) \/ EraseTag(t)
InsideVersioning(t) == InsideStep(t) /\ UNCHANGED outerVars
InsideProjects(t) == AddProjectDoc(t) \/ WriteProject(t)
NestedLock(t) == restoreDefaultBranch(t) \/ ForgetProject(t)

(* A thread inside a critical section keeps running, and a database call   *)
(* ends (the driver has a timeout).  The nested lock is requested again    *)
(* and again while other threads pass through it, so a waiting thread gets *)
(* it only if the mutex does not starve it.                                *)
Fairness ==
  \A t \in Threads : /\ WF_vars(InsideVersioning(t))
                     /\ WF_vars(InsideProjects(t))
                     /\ SF_vars(NestedLock(t))

FairSpec == Spec /\ Fairness

(* No thread keeps a lock: nobody waits forever for the other service      *)
(* while holding its own.                                                  *)
LocksReleased ==
  \A t \in Threads : /\ pvsLock = t ~> pvsLock # t
                     /\ spsLock = t ~> spsLock # t
=============================================================================
