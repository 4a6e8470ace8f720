-------------------------- MODULE SyncEngineProofs --------------------------
(***************************************************************************)
(* Proofs about SyncEngine and DigestPage for every set of users and       *)
(* sessions and every bound.  Each part of the inductive invariant IInv    *)
(* has a lemma of its own; the theorems of the first half read the         *)
(* properties off IInv.  The second half is about the engine with its      *)
(* reader: the engine implements SyncRequests step by step, and a digest   *)
(* page that calls itself final has missed nothing.                        *)
(***************************************************************************)
EXTENDS DigestPage, TLAPS

(* The placeholder record of an unallocated id is a job record.            *)
LEMMA NoJobType == NoJob \in Job
  BY SyncAssumption DEF NoJob, Job, Kinds, Active, Finished

LEMMA InitIInv == Init => IInv
<1> SUFFICES ASSUME Init PROVE IInv
  OBVIOUS
<1> USE SyncAssumption DEF Init, JobIds, None
<1>1. TypeOK
  BY NoJobType DEF TypeOK, Run, IdleRun, PCs
<1>2. FreshIds
  BY DEF FreshIds
<1>3. RunsAreActive
  BY DEF RunsAreActive, IdleRun, Working, Fetching
<1>4. PassesAreScheduled /\ LastSessionServed
  BY DEF PassesAreScheduled, PassScheduled, LastSessionServed
<1>5. FailuresAreTracked
  BY DEF FailuresAreTracked, FailureTracked, SyncJobs, FinishedSyncs
<1>6. QED
  BY <1>1, <1>2, <1>3, <1>4, <1>5 DEF IInv

-----------------------------------------------------------------------------
(* What the tracker's operations do to the types of its variables.         *)

LEMMA trackSyncType ==
  ASSUME TypeOK, NEW j \in JobIds, NEW u \in Users, NEW kind, NEW s,
         trackSyncLocked(j, u, kind, s)
  PROVE  /\ latestSync' \in [Users -> JobIds \cup {None}]
         /\ syncFailures' \in [Users -> JobIds \cup {None}]
  BY DEF trackSyncLocked, TypeOK

LEMMA CreateType ==
  ASSUME TypeOK, NEW u \in Users, NEW kind \in Kinds, Create(kind, u)
  PROVE  /\ nextJob \in JobIds
         /\ job' \in [JobIds -> Job]
         /\ tracked' \in SUBSET JobIds
         /\ nextJob' \in 1..(MaxJobs + 1)
         /\ latestSync' \in [Users -> JobIds \cup {None}]
         /\ syncFailures' \in [Users -> JobIds \cup {None}]
<1>1. nextJob \in JobIds
  BY SyncAssumption DEF Create, TypeOK, JobIds
<1>2. [user |-> u, kind |-> kind, status |-> "pending"] \in Job
  BY DEF Job, Active
<1>3. QED
  BY <1>1, <1>2, trackSyncType, SyncAssumption DEF Create, TypeOK, JobIds

LEMMA transitionType ==
  ASSUME TypeOK, NEW j \in JobIds, NEW s \in Active \cup Finished,
         transition(j, s)
  PROVE  /\ job' \in [JobIds -> Job]
         /\ tracked' \in SUBSET JobIds
         /\ nextJob' \in 1..(MaxJobs + 1)
         /\ latestSync' \in [Users -> JobIds \cup {None}]
         /\ syncFailures' \in [Users -> JobIds \cup {None}]
<1>1. CASE j \in tracked
  <2>1. job[j].user \in Users
    BY DEF TypeOK, Job
  <2>2. job' \in [JobIds -> Job]
    BY <1>1 DEF transition, TypeOK, Job
  <2>3. QED
    BY <1>1, <2>1, <2>2, trackSyncType DEF transition, TypeOK
<1>2. CASE j \notin tracked
  BY <1>2 DEF transition, TypeOK
<1>3. QED
  BY <1>1, <1>2

LEMMA TypeInductive == TypeOK /\ [Next]_vars => TypeOK'
<1> SUFFICES ASSUME TypeOK, [Next]_vars PROVE TypeOK'
  OBVIOUS
<1> USE SyncAssumption
<1>1. ASSUME NEW u \in Users, NEW s \in Sessions, NEW manual \in BOOLEAN,
             SyncUser(u, s, manual)
      PROVE  TypeOK'
  <2>1. CASE Coalesce(u, s, manual)
    <3>1. active[u] \in JobIds
      BY <2>1 DEF Coalesce, TypeOK
    <3>2. run' \in [JobIds -> Run]
      <4> DEFINE again == needsPass(run[active[u]], s, manual)
      <4>1. (run[active[u]].rerun \/ again) \in BOOLEAN
        OBVIOUS
      <4>2. PICK b \in BOOLEAN : b = (run[active[u]].rerun \/ again)
        BY <4>1
      <4>3. run' = [run EXCEPT ![active[u]].sessionID = s, ![active[u]].rerun = b]
        BY <2>1, <4>2 DEF Coalesce
      <4>4. run[active[u]] \in Run
        BY <3>1 DEF TypeOK
      <4>5. [run[active[u]] EXCEPT !.sessionID = s, !.rerun = b] \in Run
        BY <4>4 DEF Run
      <4>6. QED
        BY <4>3, <4>5, <3>1 DEF TypeOK
    <3>3. reruns' \in 0..MaxReruns
      <4>1. CASE reruns' = reruns
        BY <4>1 DEF TypeOK
      <4>2. CASE reruns' = reruns + 1 /\ reruns < MaxReruns
        BY <4>2 DEF TypeOK
      <4>3. QED
        BY <2>1, <4>1, <4>2 DEF Coalesce
    <3>4. QED
      BY <1>1, <2>1, <3>2, <3>3 DEF SyncUser, Coalesce, TypeOK, trackerVars
  <2>2. CASE StartRun(u, s)
    <3>1. [IdleRun EXCEPT !.pc = "looping", !.sessionID = s] \in Run
      BY DEF IdleRun, Run, PCs, Working
    <3>2. QED
      BY <1>1, <2>2, <3>1, CreateType DEF SyncUser, StartRun, Kinds, TypeOK
  <2>3. QED
    BY <1>1, <2>1, <2>2 DEF SyncUser
<1>2. ASSUME NEW u \in Users, StartFetchOneFeed(u)
      PROVE  TypeOK'
  <2>1. [IdleRun EXCEPT !.pc = "fetchStarting"] \in Run
    BY DEF IdleRun, Run, PCs, Fetching
  <2>2. QED
    BY <1>2, <2>1, CreateType DEF StartFetchOneFeed, Kinds, TypeOK
<1>3. ASSUME NEW j \in JobIds, Step(j)
      PROVE  TypeOK'
  <2> DEFINE r == run[j]
  <2>0. r \in Run /\ job[j].user \in Users /\ job[j] \in Job
    BY DEF TypeOK, Job
  <2> HIDE DEF r
  <2>1. CASE StartPass(j)
    BY <2>1, <2>0 DEF r, StartPass, TypeOK, Run, PCs, Working, trackerVars
  <2>2. CASE MarkRunning(j)
    BY <2>2, transitionType, <2>0 DEF r, MarkRunning, TypeOK, Run, PCs, Working, Active
  <2>3. CASE Resume(j)
    BY <2>3, <2>0 DEF r, Resume, TypeOK, Run, PCs, Working, trackerVars
  <2>4. CASE \E c \in Collections : Reconcile(j, c)
    BY <2>4, <2>0 DEF r, Reconcile, TypeOK, Run, PCs, trackerVars
  <2>5. CASE JoinTracks(j)
    BY <2>5, <2>0 DEF r, JoinTracks, TypeOK, Run, PCs, Working, trackerVars
  <2>6. CASE Rerun(j)
    BY <2>6, <2>0 DEF r, Rerun, TypeOK, Run, PCs, Working, trackerVars
  <2>7. CASE FinishRun(j)
    <3>1. finishStatus(run[j]) \in Active \cup Finished
      BY DEF finishStatus, Finished
    <3>2. [IdleRun EXCEPT !.pc = "exiting"] \in Run
      BY DEF IdleRun, Run, PCs
    <3>3. QED
      BY <2>7, <3>1, <3>2, transitionType, <2>0 DEF FinishRun, TypeOK
  <2>8. CASE Exit(j)
    BY <2>8, <2>0 DEF r, Exit, TypeOK, Run, PCs, trackerVars
  <2>9. CASE FetchRunning(j)
    BY <2>9, transitionType, <2>0 DEF r, FetchRunning, TypeOK, Run, PCs, Fetching, Active
  <2>10. CASE FetchEnds(j)
    BY <2>10, transitionType, <2>0 DEF r, FetchEnds, TypeOK, Run, PCs
  <2>11. QED
    BY <1>3, <2>1, <2>2, <2>3, <2>4, <2>5, <2>6, <2>7, <2>8, <2>9, <2>10 DEF Step
<1>4. CASE GC
  BY <1>4 DEF GC, collectable, TypeOK, engineVars
<1>5. CASE Cancel \/ ShutdownReturns
  BY <1>5 DEF Cancel, ShutdownReturns, TypeOK, engineVars, trackerVars
<1>6. CASE UNCHANGED vars
  BY <1>6 DEF vars, TypeOK
<1>7. QED
  BY <1>1, <1>2, <1>3, <1>4, <1>5, <1>6 DEF Next, Trigger

(* Every variable keeps its type, in every behaviour of every instance.    *)
THEOREM TypeCorrect == Spec => []TypeOK
<1>1. Init => TypeOK
  BY InitIInv DEF IInv
<1>2. QED
  BY <1>1, TypeInductive, PTL DEF Spec

-----------------------------------------------------------------------------
(* Facts several parts of the induction use.                               *)

(* A goroutine that has begun works on an allocated job.                   *)
LEMMA BegunIsAllocated ==
  ASSUME IInv, NEW j \in JobIds, run[j].pc # "idle"
  PROVE  j < nextJob /\ j \in Nat /\ job[j].user \in Users /\ j # None
<1>1. j \in Nat /\ j # None /\ nextJob \in Nat
  BY SyncAssumption DEF IInv, TypeOK, JobIds, None
<1>2. ~(j >= nextJob)
  BY DEF IInv, FreshIds, IdleRun
<1>3. QED
  BY <1>1, <1>2 DEF IInv, TypeOK, Job

(* A working goroutine is the active run of the user its job belongs to.   *)
LEMMA WorkingIsActive ==
  ASSUME IInv, NEW j \in JobIds, run[j].pc \in Working
  PROVE  /\ job[j].user \in Users
         /\ active[job[j].user] = j /\ j # None
         /\ j \in tracked
         /\ job[j].kind = "sync_user"
         /\ job[j].status \in Active
         /\ latestSync[job[j].user] = j
<1>1. run[j].pc # "idle"
  BY DEF Working
<1>2. active[job[j].user] = j /\ j # None /\ job[j].user \in Users
  BY <1>1, BegunIsAllocated DEF IInv, RunsAreActive
<1>3. QED
  BY <1>2 DEF IInv, RunsAreActive, SyncJobs

(* What Create does to the pointers of a user.                             *)
LEMMA CreateEffect ==
  ASSUME IInv, NEW u \in Users, NEW kind \in Kinds, Create(kind, u)
  PROVE  /\ nextJob \in JobIds /\ nextJob \in Nat /\ nextJob # None
         /\ nextJob' = nextJob + 1
         /\ tracked' = tracked \cup {nextJob}
         /\ job' = [job EXCEPT ![nextJob] =
                       [user |-> u, kind |-> kind, status |-> "pending"]]
         /\ syncFailures' = syncFailures
         /\ latestSync' = IF kind = "sync_user"
                          THEN [latestSync EXCEPT ![u] = nextJob] ELSE latestSync
<1>1. nextJob \in JobIds /\ nextJob \in Nat /\ nextJob # None
  BY SyncAssumption DEF Create, IInv, TypeOK, JobIds, None
<1>2. nextJob > latestSync[u]
  <2>1. latestSync[u] \in Nat
    BY SyncAssumption DEF IInv, TypeOK, JobIds, None
  <2>2. QED
    BY <1>1, <2>1 DEF IInv, FreshIds
<1>3. QED
  BY <1>1, <1>2 DEF Create, trackSyncLocked, jobIsNewer

(* SetRunning on a sync job that is the user's newest and still active.    *)
LEMMA RunningEffect ==
  ASSUME IInv, NEW j \in JobIds, transition(j, "running"),
         job[j].kind = "fetch_one_feed" \/ run[j].pc \in Working
  PROVE  /\ tracked' = tracked /\ nextJob' = nextJob
         /\ latestSync' = latestSync /\ syncFailures' = syncFailures
         /\ job' = IF j \in tracked
                   THEN [job EXCEPT ![j].status = "running"] ELSE job
<1>1. CASE job[j].kind = "fetch_one_feed"
  BY <1>1 DEF transition, trackSyncLocked
<1>2. CASE run[j].pc \in Working
  <2>1. latestSync[job[j].user] = j /\ job[j].user \in Users
    BY <1>2, WorkingIsActive
  <2>2. ~(j > j)
    BY SyncAssumption DEF JobIds
  <2>3. QED
    BY <2>1, <2>2 DEF transition, trackSyncLocked, jobIsNewer
<1>3. QED
  BY <1>1, <1>2

(* The final transition of a sync job: it stays its user's newest, and the *)
(* retained failure becomes this job or is cleared.                        *)
LEMMA FinishEffect ==
  ASSUME IInv, NEW j \in JobIds, NEW s \in Finished, transition(j, s),
         run[j].pc \in Working
  PROVE  /\ tracked' = tracked /\ nextJob' = nextJob
         /\ latestSync' = latestSync
         /\ job' = [job EXCEPT ![j].status = s]
         /\ syncFailures' = [syncFailures EXCEPT ![job[j].user] =
                                IF s = "failed" THEN j ELSE None]
<1> DEFINE u == job[j].user
<1>1. /\ u \in Users /\ latestSync[u] = j /\ j \in tracked
      /\ job[j].kind = "sync_user" /\ job[j].status \in Active
      /\ active[u] = j /\ j # None
  BY WorkingIsActive
<1>2. j \in Nat /\ ~(j > j) /\ j > 0
  BY SyncAssumption DEF JobIds
<1>3. j > syncFailures[u]
  <2>1. CASE syncFailures[u] = None
    BY <2>1, <1>2 DEF None
  <2>2. CASE syncFailures[u] # None
    <3>1. syncFailures[u] \in FinishedSyncs(u)
      BY <2>2, <1>1 DEF IInv, FailuresAreTracked, FailureTracked
    <3>2. syncFailures[u] \in SyncJobs(u) /\ syncFailures[u] # j
      BY <3>1, <1>1 DEF FinishedSyncs, SyncJobs, Active, Finished
    <3>3. syncFailures[u] <= j
      BY <3>2, <1>1 DEF IInv, FailuresAreTracked, FailureTracked
    <3>4. syncFailures[u] \in Nat
      BY <3>2, SyncAssumption DEF SyncJobs, JobIds
    <3>5. QED
      BY <3>2, <3>3, <3>4, <1>2
  <2>3. QED
    BY <2>1, <2>2
<1>4. s = "failed" \/ s = "done"
  BY DEF Finished
<1>5. syncFailures \in [Users -> JobIds \cup {None}]
  BY DEF IInv, TypeOK
<1>6. QED
  BY <1>1, <1>2, <1>3, <1>4, <1>5 DEF transition, trackSyncLocked, jobIsNewer

(* A fetch job moves nothing but its own status.                           *)
LEMMA FetchEffect ==
  ASSUME IInv, NEW j \in JobIds, NEW s, transition(j, s),
         job[j].kind = "fetch_one_feed"
  PROVE  /\ tracked' = tracked /\ nextJob' = nextJob
         /\ latestSync' = latestSync /\ syncFailures' = syncFailures
         /\ job' = IF j \in tracked
                   THEN [job EXCEPT ![j].status = s] ELSE job
  BY DEF transition, trackSyncLocked

(* A status change touches the status alone.                               *)
LEMMA StatusEffect ==
  ASSUME TypeOK, NEW j \in JobIds, NEW s,
         job' = [job EXCEPT ![j].status = s]
  PROVE  /\ job'[j].status = s
         /\ \A k \in JobIds : /\ job'[k].user = job[k].user
                              /\ job'[k].kind = job[k].kind
                              /\ k # j => job'[k].status = job[k].status
<1> DEFINE new == [job[j] EXCEPT !.status = s]
<1>1. job[j] \in Job
  BY DEF TypeOK
<1>2. new.status = s /\ new.user = job[j].user /\ new.kind = job[j].kind
  BY <1>1 DEF Job
<1>3. job' = [job EXCEPT ![j] = new]
  OBVIOUS
<1> HIDE DEF new
<1>4. \A k \in JobIds : job'[k] = IF k = j THEN new ELSE job[k]
  BY <1>3 DEF TypeOK
<1>5. QED
  BY <1>2, <1>4

-----------------------------------------------------------------------------
(* The goroutine's own steps, from a working state to a working state.     *)

LEMMA WorkStep ==
  ASSUME IInv, NEW j \in JobIds, run[j].pc \in Working,
         UNCHANGED <<trackerVars, active>>,
         \A k \in JobIds : k # j => run'[k] = run[k],
         run'[j].pc \in Working
  PROVE  FreshIds' /\ RunsAreActive' /\ FailuresAreTracked'
<1>0. run[j].pc # "idle" /\ run'[j].pc \notin Fetching
  BY DEF Working, Fetching
<1>1. j < nextJob /\ j \in Nat
  BY <1>0, BegunIsAllocated
<1>2. FreshIds'
  <2>1. \A k \in JobIds : k >= nextJob => k # j
    BY <1>1, SyncAssumption DEF IInv, TypeOK
  <2>2. QED
    BY <2>1 DEF IInv, FreshIds, trackerVars
<1>3. RunsAreActive'
  <2>1. active[job[j].user] = j
    BY WorkingIsActive
  <2>2. QED
    BY <1>0, <2>1 DEF IInv, RunsAreActive, SyncJobs, trackerVars
<1>4. FailuresAreTracked'
  BY DEF IInv, FailuresAreTracked, FailureTracked, SyncJobs, FinishedSyncs, trackerVars
<1>5. QED
  BY <1>2, <1>3, <1>4

(* What a step that only moves the counter of run j keeps of the sessions. *)
LEMMA PassStep ==
  ASSUME IInv, NEW j \in JobIds, run[j].pc \in Working \ {"looping"},
         UNCHANGED <<active, owed, latest, shutdown>>,
         \A k \in JobIds : k # j => run'[k] = run[k],
         run'[j].pc \in Working \ {"looping"},
         run'[j].sessionID = run[j].sessionID,
         run'[j].passSessionID = run[j].passSessionID,
         run'[j].rerun = run[j].rerun
  PROVE  PassesAreScheduled' /\ LastSessionServed'
<1>1. \A u \in Users : active[u] # None => active[u] \in JobIds
  BY DEF IInv, TypeOK
<1>2. PassesAreScheduled'
  BY <1>1 DEF IInv, PassesAreScheduled, PassScheduled, parentCancelled
<1>3. LastSessionServed'
  BY <1>1 DEF IInv, LastSessionServed
<1>4. QED
  BY <1>2, <1>3

(* StartPass: the session of the trigger that came last is taken, and what *)
(* was owed is served.                                                     *)
LEMMA StartPassInv ==
  ASSUME IInv, TypeOK', NEW j \in JobIds, StartPass(j)
  PROVE  IInv'
<1> DEFINE u == job[j].user
           new == [run[j] EXCEPT !.pc = "marking",
                      !.passSessionID = run[j].sessionID,
                      !.receipt = {}, !.failed = {}]
<1>1. run[j].pc \in Working /\ run[j] \in Run /\ run' = [run EXCEPT ![j] = new]
  BY DEF StartPass, Working, IInv, TypeOK
<1>2. u \in Users /\ active[u] = j /\ j # None
  BY <1>1, WorkingIsActive
<1>3. /\ new.pc = "marking" /\ new.sessionID = run[j].sessionID
      /\ new.passSessionID = run[j].sessionID /\ new.rerun = run[j].rerun
  BY <1>1 DEF Run
<1> HIDE DEF new
<1>4. \A k \in JobIds : run'[k] = IF k = j THEN new ELSE run[k]
  BY <1>1 DEF IInv, TypeOK
<1>5. FreshIds' /\ RunsAreActive' /\ FailuresAreTracked'
  BY <1>1, <1>3, <1>4, WorkStep DEF StartPass, Working
<1>6. \A v \in Users : active[v] # None => active[v] \in JobIds
  BY DEF IInv, TypeOK
<1>7. \A v \in Users : v # u => active[v] # j
  BY <1>2 DEF IInv, RunsAreActive, SyncJobs
<1>8. owed' = [owed EXCEPT ![u] = FALSE] /\ owed \in [Users -> BOOLEAN]
  BY DEF StartPass, IInv, TypeOK
<1>9. run[j].sessionID \in Sessions /\ run[j].sessionID = latest[u]
  BY <1>2 DEF IInv, PassesAreScheduled, PassScheduled
<1>10. PassesAreScheduled'
  <2> SUFFICES ASSUME NEW v \in Users
               PROVE  PassScheduled(v)'
    BY DEF PassesAreScheduled
  <2>1. CASE v = u
    <3>1. active'[v] = j /\ run'[j] = new /\ owed'[v] = FALSE
          /\ latest'[v] = run[j].sessionID
      BY <2>1, <1>2, <1>4, <1>8, <1>9 DEF StartPass
    <3>2. new.pc # "looping" /\ new.passSessionID # NoSession
      BY <1>3, <1>9, SyncAssumption
    <3>3. QED
      BY <3>1, <3>2, <1>2, <1>3, <1>9 DEF PassScheduled
  <2>2. CASE v # u
    <3>1. owed'[v] = owed[v] /\ PassScheduled(v)
      BY <2>2, <1>8 DEF IInv, PassesAreScheduled
    <3>2. active[v] # None => run'[active[v]] = run[active[v]]
      BY <2>2, <1>4, <1>6, <1>7
    <3>3. QED
      BY <3>1, <3>2 DEF StartPass, PassScheduled, parentCancelled
  <2>3. QED
    BY <2>1, <2>2
<1>11. LastSessionServed'
  BY <1>2, <1>3, <1>4, <1>6, <1>7, <1>9
     DEF StartPass, IInv, LastSessionServed
<1>12. QED
  BY <1>5, <1>10, <1>11 DEF IInv

(* Rerun: the next pass will take the newest session and all that is owed. *)
LEMMA RerunInv ==
  ASSUME IInv, TypeOK', NEW j \in JobIds, Rerun(j)
  PROVE  IInv'
<1> DEFINE u == job[j].user
           new == [run[j] EXCEPT !.pc = "looping", !.rerun = FALSE,
                                 !.passSessionID = NoSession]
<1>1. run[j].pc \in Working /\ run[j] \in Run /\ run' = [run EXCEPT ![j] = new]
  BY DEF Rerun, Working, IInv, TypeOK
<1>2. u \in Users /\ active[u] = j /\ j # None
  BY <1>1, WorkingIsActive
<1>3. /\ new.pc = "looping" /\ new.sessionID = run[j].sessionID
      /\ new.passSessionID = NoSession
  BY <1>1 DEF Run
<1> HIDE DEF new
<1>4. \A k \in JobIds : run'[k] = IF k = j THEN new ELSE run[k]
  BY <1>1 DEF IInv, TypeOK
<1>5. FreshIds' /\ RunsAreActive' /\ FailuresAreTracked'
  BY <1>1, <1>3, <1>4, WorkStep DEF Rerun, Working
<1>6. \A v \in Users : active[v] # None => active[v] \in JobIds
  BY DEF IInv, TypeOK
<1>7. \A v \in Users : v # u => active[v] # j
  BY <1>2 DEF IInv, RunsAreActive, SyncJobs
<1>8. PassesAreScheduled'
  <2> SUFFICES ASSUME NEW v \in Users
               PROVE  PassScheduled(v)'
    BY DEF PassesAreScheduled
  <2>1. PassScheduled(v) /\ UNCHANGED <<active, owed, latest, shutdown>>
    BY DEF Rerun, IInv, PassesAreScheduled
  <2>2. CASE v = u
    BY <2>1, <2>2, <1>2, <1>3, <1>4 DEF PassScheduled, parentCancelled
  <2>3. CASE v # u
    BY <2>1, <2>3, <1>4, <1>6, <1>7 DEF PassScheduled, parentCancelled
  <2>4. QED
    BY <2>2, <2>3
<1>9. LastSessionServed'
  BY <1>2, <1>3, <1>4, <1>6, <1>7 DEF Rerun, IInv, LastSessionServed
<1>10. QED
  BY <1>5, <1>8, <1>9 DEF IInv

(* Resume, Reconcile and JoinTracks move the counter of the pass only.     *)
LEMMA QuietStepInv ==
  ASSUME IInv, TypeOK', NEW j \in JobIds,
         \/ Resume(j) \/ JoinTracks(j)
         \/ \E c \in Collections : Reconcile(j, c)
  PROVE  IInv'
<1>1. /\ run[j].pc \in Working \ {"looping"} /\ run[j] \in Run
      /\ UNCHANGED <<trackerVars, active, shutdown, owed, latest>>
  BY DEF Resume, JoinTracks, Reconcile, Working, IInv, TypeOK
<1>2. /\ run'[j].pc \in Working \ {"looping"}
      /\ run'[j].sessionID = run[j].sessionID
      /\ run'[j].passSessionID = run[j].passSessionID
      /\ run'[j].rerun = run[j].rerun
      /\ \A k \in JobIds : k # j => run'[k] = run[k]
  BY <1>1 DEF Resume, JoinTracks, Reconcile, Working, IInv, TypeOK, Run
<1>3. FreshIds' /\ RunsAreActive' /\ FailuresAreTracked'
  BY <1>1, <1>2, WorkStep
<1>4. PassesAreScheduled' /\ LastSessionServed'
  BY <1>1, <1>2, PassStep
<1>5. QED
  BY <1>3, <1>4 DEF IInv

(* MarkRunning: the job stays active, and the newest of its user.          *)
LEMMA MarkRunningInv ==
  ASSUME IInv, TypeOK', NEW j \in JobIds, MarkRunning(j)
  PROVE  IInv'
<1>1. /\ run[j].pc \in Working \ {"looping"} /\ run[j] \in Run
      /\ UNCHANGED <<active, shutdown, owed, latest>>
  BY DEF MarkRunning, Working, IInv, TypeOK
<1>2. /\ run'[j].pc \in Working \ {"looping"}
      /\ run'[j].sessionID = run[j].sessionID
      /\ run'[j].passSessionID = run[j].passSessionID
      /\ run'[j].rerun = run[j].rerun
      /\ \A k \in JobIds : k # j => run'[k] = run[k]
  BY <1>1 DEF MarkRunning, Working, IInv, TypeOK, Run
<1>3. PassesAreScheduled' /\ LastSessionServed'
  BY <1>1, <1>2, PassStep
<1>4. /\ job[j].user \in Users /\ active[job[j].user] = j /\ j # None
      /\ j \in tracked /\ job[j].kind = "sync_user" /\ job[j].status \in Active
  BY <1>1, WorkingIsActive
<1>5. /\ tracked' = tracked /\ nextJob' = nextJob
      /\ latestSync' = latestSync /\ syncFailures' = syncFailures
      /\ job' = [job EXCEPT ![j].status = "running"]
  BY <1>1, <1>4, RunningEffect DEF MarkRunning
<1>6. /\ job'[j].status = "running"
      /\ \A k \in JobIds : /\ job'[k].user = job[k].user
                           /\ job'[k].kind = job[k].kind
                           /\ k # j => job'[k].status = job[k].status
  BY <1>5, StatusEffect DEF IInv
<1>7. \A u \in Users : SyncJobs(u)' = SyncJobs(u)
  BY <1>5, <1>6 DEF SyncJobs
<1>8. \A u \in Users : FinishedSyncs(u)' = FinishedSyncs(u)
  BY <1>4, <1>5, <1>6 DEF FinishedSyncs, Active, Finished
<1>9. FreshIds'
  <2>1. j < nextJob /\ j \in Nat /\ nextJob \in Nat
    BY <1>1, BegunIsAllocated, SyncAssumption DEF Working, IInv, TypeOK
  <2>2. \A k \in JobIds : k >= nextJob => k # j
    BY <2>1
  <2>3. QED
    BY <2>2, <1>1, <1>2, <1>5 DEF IInv, FreshIds
<1>10. RunsAreActive'
  <2>1. \A k \in JobIds : run'[k].pc \in Working => run[k].pc \in Working
    BY <1>1, <1>2
  <2>2. \A k \in JobIds : run'[k].pc \in Fetching => run[k].pc \in Fetching
    BY <1>2 DEF Working, Fetching
  <2>3. \A u \in Users : active[u] # None =>
           /\ active[u] \in SyncJobs(u) /\ active[u] \in tracked
           /\ run[active[u]].pc \in Working /\ job[active[u]].status \in Active
           /\ latestSync[u] = active[u] /\ active[u] \in JobIds
    BY DEF IInv, RunsAreActive, TypeOK
  <2>4. "running" \in Active
    BY DEF Active
  <2>5. QED
    BY <2>1, <2>2, <2>3, <2>4, <1>1, <1>2, <1>5, <1>6, <1>7
       DEF IInv, RunsAreActive
<1>11. FailuresAreTracked'
  <2> SUFFICES ASSUME NEW u \in Users
               PROVE  FailureTracked(u)'
    BY DEF FailuresAreTracked
  <2>1. FailureTracked(u)
    BY DEF IInv, FailuresAreTracked
  <2>2. FinishedSyncs(u) \subseteq JobIds \ {j} /\ SyncJobs(u) \subseteq JobIds
    BY <1>4 DEF FinishedSyncs, SyncJobs, Active, Finished
  <2>3. \A k \in SyncJobs(u) : job'[k].status \in Active => active[u] = k
    <3>1. j \in SyncJobs(u) => active[u] = j
      BY <1>4 DEF SyncJobs
    <3>2. QED
      BY <3>1, <2>1, <2>2, <1>6 DEF FailureTracked
  <2>4. QED
    BY <2>1, <2>2, <2>3, <1>1, <1>5, <1>6, <1>7, <1>8 DEF FailureTracked
<1>12. QED
  BY <1>3, <1>9, <1>10, <1>11 DEF IInv

(* FinishRun: the user has no run any more, and the retained failure is    *)
(* this job's or none.                                                     *)
LEMMA FinishRunInv ==
  ASSUME IInv, TypeOK', NEW j \in JobIds, FinishRun(j)
  PROVE  IInv'
<1> DEFINE u == job[j].user
           s == finishStatus(run[j])
           new == [IdleRun EXCEPT !.pc = "exiting"]
<1>1. /\ run[j].pc \in Working
      /\ s \in Finished
      /\ s = "failed" \/ s = "done"
  BY DEF FinishRun, Working, finishStatus, Finished
<1>2. new.pc = "exiting" /\ new.pc \notin Working \cup Fetching
  BY DEF IdleRun, Working, Fetching
<1> HIDE DEF new, s
<1>3. /\ u \in Users /\ active[u] = j /\ j # None /\ j \in SyncJobs(u)
      /\ j \in tracked /\ job[j].kind = "sync_user" /\ job[j].status \in Active
      /\ latestSync[u] = j
  BY <1>1, WorkingIsActive DEF IInv, RunsAreActive
<1>4. /\ run' = [run EXCEPT ![j] = new]
      /\ active' = [active EXCEPT ![u] = None]
      /\ latest' = [latest EXCEPT ![u] = NoSession]
      /\ UNCHANGED <<shutdown, owed>>
      /\ ~run[j].rerun \/ parentCancelled
  BY DEF FinishRun, new
<1>5. /\ tracked' = tracked /\ nextJob' = nextJob
      /\ latestSync' = latestSync
      /\ job' = [job EXCEPT ![j].status = s]
      /\ syncFailures' = [syncFailures EXCEPT ![u] =
                             IF s = "failed" THEN j ELSE None]
  BY <1>1, FinishEffect DEF FinishRun, s
<1>6. /\ job'[j].status = s
      /\ \A k \in JobIds : /\ job'[k].user = job[k].user
                           /\ job'[k].kind = job[k].kind
                           /\ k # j => job'[k].status = job[k].status
  BY <1>5, StatusEffect DEF IInv
<1>7. \A v \in Users : SyncJobs(v)' = SyncJobs(v)
  BY <1>5, <1>6 DEF SyncJobs
<1>8. \A k \in JobIds : run'[k] = IF k = j THEN new ELSE run[k]
  BY <1>4 DEF IInv, TypeOK
<1>9. \A v \in Users :
         /\ active'[v] = IF v = u THEN None ELSE active[v]
         /\ latest'[v] = IF v = u THEN NoSession ELSE latest[v]
         /\ syncFailures'[v] = IF v = u THEN IF s = "failed" THEN j ELSE None
                               ELSE syncFailures[v]
  BY <1>4, <1>5 DEF IInv, TypeOK
<1>10. \A v \in Users : active[v] # None =>
          /\ active[v] \in SyncJobs(v) /\ active[v] \in tracked
          /\ run[active[v]].pc \in Working /\ job[active[v]].status \in Active
          /\ latestSync[v] = active[v] /\ active[v] \in JobIds
  BY DEF IInv, RunsAreActive, TypeOK
<1>11. \A v \in Users : v # u => active[v] # j
  BY <1>3, <1>10 DEF SyncJobs
<1>12. j < nextJob /\ j \in Nat /\ nextJob \in Nat
  BY <1>3, SyncAssumption DEF SyncJobs, JobIds, IInv, TypeOK
<1>13. FreshIds'
  <2>1. \A k \in JobIds : k >= nextJob => k # j
    BY <1>12
  <2>2. None < nextJob
    BY SyncAssumption DEF None, IInv, TypeOK
  <2>3. QED
    BY <2>1, <2>2, <1>5, <1>8, <1>9, <1>12 DEF IInv, FreshIds
<1>14. RunsAreActive'
  <2>1. \A k \in JobIds : run'[k].pc \in Working =>
           k # j /\ run[k].pc \in Working /\ active[job[k].user] = k
           /\ job[k].user \in Users
    BY <1>2, <1>8 DEF IInv, RunsAreActive, TypeOK, Job
  <2>2. \A k \in JobIds : run'[k].pc \in Working => active'[job'[k].user] = k
    BY <2>1, <1>3, <1>6, <1>9
  <2>3. \A k \in JobIds :
           run'[k].pc \in Fetching => /\ job'[k].kind = "fetch_one_feed"
                                      /\ job'[k].status \in Active
    BY <1>2, <1>6, <1>8 DEF IInv, RunsAreActive
  <2>4. QED
    BY <2>2, <2>3, <1>5, <1>6, <1>7, <1>8, <1>9, <1>10, <1>11
       DEF RunsAreActive
<1>15. PassesAreScheduled'
  <2> SUFFICES ASSUME NEW v \in Users
               PROVE  PassScheduled(v)'
    BY DEF PassesAreScheduled
  <2>1. PassScheduled(v)
    BY DEF IInv, PassesAreScheduled
  <2>2. CASE v = u
    <3>1. owed[u] => parentCancelled
      BY <2>1, <2>2, <1>3, <1>4, SyncAssumption
         DEF PassScheduled, FinishRun
    <3>2. QED
      BY <2>2, <3>1, <1>4, <1>9 DEF PassScheduled, parentCancelled
  <2>3. CASE v # u
    BY <2>1, <2>3, <1>4, <1>8, <1>9, <1>10, <1>11
       DEF PassScheduled, parentCancelled
  <2>4. QED
    BY <2>2, <2>3
<1>16. LastSessionServed'
  BY <1>8, <1>9, <1>10, <1>11 DEF IInv, LastSessionServed
<1>17. FailuresAreTracked'
  <2> SUFFICES ASSUME NEW v \in Users
               PROVE  FailureTracked(v)'
    BY DEF FailuresAreTracked
  <2>1. FailureTracked(v) /\ FailureTracked(u)
    BY <1>3 DEF IInv, FailuresAreTracked
  <2>2. CASE v = u
    <3>1. FinishedSyncs(v)' = FinishedSyncs(v) \cup {j}
      BY <2>2, <1>1, <1>3, <1>5, <1>6 DEF FinishedSyncs, SyncJobs
    <3>2. \A k \in SyncJobs(v) : k <= j /\ k \in Nat /\ k \in JobIds
      BY <2>2, <2>1, <1>3, SyncAssumption DEF FailureTracked, SyncJobs, JobIds
    <3>3. \A k \in FinishedSyncs(v) : k \in SyncJobs(v) /\ k # j
      BY <2>2, <1>3 DEF FinishedSyncs, SyncJobs, Active, Finished
    <3>4. /\ latestSync'[v] = j /\ j \in SyncJobs(v)'
          /\ \A k \in SyncJobs(v)' : k <= j
      BY <2>2, <3>2, <1>3, <1>5, <1>7
    <3>5. \A k \in SyncJobs(v)' : job'[k].status \notin Active
      <4>1. \A k \in SyncJobs(v) : k # j => job[k].status \notin Active
        BY <2>2, <2>1, <1>3 DEF FailureTracked
      <4>2. QED
        BY <2>2, <4>1, <3>2, <1>1, <1>3, <1>6, <1>7 DEF Active
    <3>6. CASE s = "failed"
      <4>1. /\ syncFailures'[v] = j /\ job'[j].status = "failed"
            /\ j \in FinishedSyncs(v)'
            /\ \A k \in FinishedSyncs(v)' : k <= j
        BY <2>2, <3>6, <3>1, <3>2, <3>3, <1>3, <1>6, <1>9, <1>12
      <4>2. QED
        BY <2>2, <4>1, <3>4, <3>5, <1>3 DEF FailureTracked
    <3>7. CASE s = "done"
      <4>1. /\ syncFailures'[v] = None /\ job'[j].status = "done"
            /\ j \in FinishedSyncs(v)'
        BY <2>2, <3>7, <3>1, <1>3, <1>6, <1>9
      <4>2. \A k \in FinishedSyncs(v) : j > k
        BY <2>2, <3>2, <3>3, <1>12
      <4>3. \A k \in FinishedSyncs(v)' : job'[k].status = "failed" =>
               \E d \in FinishedSyncs(v)' : d > k /\ job'[d].status = "done"
        BY <2>2, <4>1, <4>2, <3>1
      <4>4. QED
        BY <2>2, <4>1, <4>3, <3>4, <3>5, <1>3 DEF FailureTracked
    <3>8. QED
      BY <3>6, <3>7, <1>1
  <2>3. CASE v # u
    <3>1. /\ j \notin SyncJobs(v)
          /\ SyncJobs(v) \subseteq JobIds /\ FinishedSyncs(v) \subseteq SyncJobs(v)
      BY <2>3, <1>3 DEF SyncJobs, FinishedSyncs
    <3>2. FinishedSyncs(v)' = FinishedSyncs(v)
      BY <2>3, <1>3, <1>5, <1>6 DEF FinishedSyncs
    <3>3. \A k \in SyncJobs(v) : job'[k].status = job[k].status
      BY <3>1, <1>6
    <3>4. active'[v] = active[v] /\ syncFailures'[v] = syncFailures[v]
          /\ latestSync'[v] = latestSync[v]
      BY <2>3, <1>5, <1>9
    <3>5. QED
      BY <2>1, <3>1, <3>2, <3>3, <3>4, <1>7 DEF FailureTracked
  <2>4. QED
    BY <2>2, <2>3
<1>18. QED
  BY <1>13, <1>14, <1>15, <1>16, <1>17 DEF IInv

-----------------------------------------------------------------------------
(* Steps of goroutines that are no user's active run.                      *)

LEMMA OffstageStep ==
  ASSUME IInv, TypeOK', NEW j \in JobIds, run[j].pc \notin Working \cup {"idle"},
         UNCHANGED <<tracked, nextJob, latestSync, syncFailures, active,
                     shutdown, owed, latest>>,
         \A k \in JobIds : k # j => run'[k] = run[k],
         run'[j].pc \notin Working,
         run'[j].pc \in Fetching =>
            run[j].pc \in Fetching /\ job'[j].status \in Active,
         \A k \in JobIds : /\ job'[k].user = job[k].user
                           /\ job'[k].kind = job[k].kind
                           /\ \/ job'[k].status = job[k].status
                              \/ k = j /\ job[j].kind = "fetch_one_feed"
  PROVE  IInv'
<1>1. \A v \in Users : active[v] # None =>
          /\ active[v] \in SyncJobs(v) /\ active[v] \in tracked
          /\ run[active[v]].pc \in Working /\ job[active[v]].status \in Active
          /\ latestSync[v] = active[v] /\ active[v] \in JobIds
          /\ active[v] # j
  BY DEF IInv, RunsAreActive, TypeOK
<1>2. \A v \in Users : SyncJobs(v)' = SyncJobs(v)
  BY DEF SyncJobs
<1>3. \A v \in Users : FinishedSyncs(v)' = FinishedSyncs(v)
  BY DEF FinishedSyncs
<1>4. \A v \in Users : /\ FinishedSyncs(v) \subseteq SyncJobs(v)
                       /\ SyncJobs(v) \subseteq JobIds
                       /\ \A k \in SyncJobs(v) : job'[k].status = job[k].status
  BY DEF SyncJobs, FinishedSyncs
<1>5. FreshIds'
  <2>1. j < nextJob /\ j \in Nat /\ nextJob \in Nat
    BY BegunIsAllocated, SyncAssumption DEF IInv, TypeOK
  <2>2. \A k \in JobIds : k >= nextJob => k # j
    BY <2>1
  <2>3. QED
    BY <2>2 DEF IInv, FreshIds
<1>6. RunsAreActive'
  <2>1. \A k \in JobIds : run'[k].pc \in Working => active[job'[k].user] = k
    BY DEF IInv, RunsAreActive
  <2>2. \A k \in JobIds :
           run'[k].pc \in Fetching => /\ job'[k].kind = "fetch_one_feed"
                                      /\ job'[k].status \in Active
    BY DEF IInv, RunsAreActive
  <2>3. \A v \in Users : active[v] # None =>
           job'[active[v]].status = job[active[v]].status
    BY <1>1, <1>4
  <2>4. QED
    BY <2>1, <2>2, <2>3, <1>1, <1>2 DEF RunsAreActive
<1>7. PassesAreScheduled'
  BY <1>1 DEF IInv, PassesAreScheduled, PassScheduled, parentCancelled
<1>8. LastSessionServed'
  BY <1>1 DEF IInv, LastSessionServed
<1>9. FailuresAreTracked'
  <2> SUFFICES ASSUME NEW v \in Users
               PROVE  FailureTracked(v)'
    BY DEF FailuresAreTracked
  <2>1. FailureTracked(v)
    BY DEF IInv, FailuresAreTracked
  <2>2. syncFailures[v] \in FinishedSyncs(v) =>
           job'[syncFailures[v]].status = job[syncFailures[v]].status
    BY <1>4
  <2>3. \A k \in FinishedSyncs(v) : job'[k].status = job[k].status
    BY <1>4
  <2>4. QED
    BY <2>1, <2>2, <2>3, <1>2, <1>3, <1>4 DEF FailureTracked
<1>10. QED
  BY <1>5, <1>6, <1>7, <1>8, <1>9 DEF IInv

LEMMA ExitInv ==
  ASSUME IInv, TypeOK', NEW j \in JobIds, Exit(j)
  PROVE  IInv'
<1>1. run[j] \in Run /\ run[j].pc = "exiting"
  BY DEF Exit, IInv, TypeOK
<1>2. run'[j].pc = "exited" /\ \A k \in JobIds : k # j => run'[k] = run[k]
  BY <1>1 DEF Exit, IInv, TypeOK, Run
<1>3. QED
  BY <1>1, <1>2, OffstageStep DEF Exit, trackerVars, Working, Fetching

LEMMA FetchInv ==
  ASSUME IInv, TypeOK', NEW j \in JobIds, FetchRunning(j) \/ FetchEnds(j)
  PROVE  IInv'
<1>1. /\ run[j] \in Run /\ run[j].pc \in Fetching
      /\ UNCHANGED <<active, shutdown, owed, latest>>
  BY DEF FetchRunning, FetchEnds, Fetching, IInv, TypeOK
<1>2. job[j].kind = "fetch_one_feed"
  BY <1>1 DEF IInv, RunsAreActive
<1>3. PICK s : transition(j, s)
  BY DEF FetchRunning, FetchEnds
<1>4. /\ tracked' = tracked /\ nextJob' = nextJob
      /\ latestSync' = latestSync /\ syncFailures' = syncFailures
      /\ job' = IF j \in tracked
                THEN [job EXCEPT ![j].status = s] ELSE job
  BY <1>2, <1>3, FetchEffect
<1>5. \A k \in JobIds : /\ job'[k].user = job[k].user
                        /\ job'[k].kind = job[k].kind
                        /\ \/ job'[k].status = job[k].status
                           \/ k = j /\ job[j].kind = "fetch_one_feed"
  <2>1. CASE job' = [job EXCEPT ![j].status = s]
    BY <2>1, <1>2, StatusEffect DEF IInv
  <2>2. CASE job' = job
    BY <2>2
  <2>3. QED
    BY <1>4, <2>1, <2>2
<1>6. /\ run'[j].pc \in {"fetching", "exiting"}
      /\ \A k \in JobIds : k # j => run'[k] = run[k]
  BY <1>1 DEF FetchRunning, FetchEnds, IInv, TypeOK, Run
<1>7. run[j].pc \notin Working \cup {"idle"} /\ run'[j].pc \notin Working
  BY <1>1, <1>6 DEF Working, Fetching
<1>8. run'[j].pc \in Fetching => job'[j].status \in Active
  <2>1. CASE FetchEnds(j)
    <3>1. run'[j].pc = "exiting"
      BY <2>1, <1>1 DEF FetchEnds, IInv, TypeOK, Run
    <3>2. QED
      BY <3>1 DEF Fetching
  <2>2. CASE FetchRunning(j)
    <3>1. job[j].status \in Active /\ transition(j, "running")
      BY <2>2, <1>1 DEF FetchRunning, IInv, RunsAreActive
    <3>2. CASE j \in tracked
      BY <3>1, <3>2, <1>2, FetchEffect, StatusEffect DEF IInv, Active
    <3>3. CASE j \notin tracked
      BY <3>1, <3>3, <1>4
    <3>4. QED
      BY <3>2, <3>3
  <2>3. QED
    BY <2>1, <2>2
<1>9. QED
  BY <1>1, <1>4, <1>5, <1>6, <1>7, <1>8, OffstageStep

(* GC drops finished jobs, so no active run's; and a latestSync it clears  *)
(* is no active run's either.                                              *)
LEMMA GCInv ==
  ASSUME IInv, TypeOK', GC
  PROVE  IInv'
<1>1. PICK old \in SUBSET collectable :
         /\ tracked' = tracked \ old
         /\ latestSync' = [u \in Users |->
                 IF latestSync[u] \in old THEN None ELSE latestSync[u]]
  BY DEF GC
<1>2. UNCHANGED <<job, nextJob, syncFailures, shutdown, active, run, owed, latest>>
  BY DEF GC, engineVars
<1>3. \A v \in Users : active[v] # None =>
          /\ active[v] \in SyncJobs(v) /\ active[v] \in tracked'
          /\ run[active[v]].pc \in Working /\ job[active[v]].status \in Active
          /\ latestSync'[v] = active[v]
  <2> SUFFICES ASSUME NEW v \in Users, active[v] # None
               PROVE  /\ active[v] \in SyncJobs(v) /\ active[v] \in tracked'
                      /\ run[active[v]].pc \in Working
                      /\ job[active[v]].status \in Active
                      /\ latestSync'[v] = active[v]
    OBVIOUS
  <2>1. /\ active[v] \in SyncJobs(v) /\ active[v] \in tracked
        /\ run[active[v]].pc \in Working /\ job[active[v]].status \in Active
        /\ latestSync[v] = active[v]
    BY DEF IInv, RunsAreActive
  <2>2. active[v] \notin old
    BY <2>1 DEF collectable, Active, Finished
  <2>3. QED
    BY <2>1, <2>2, <1>1
<1>4. \A v \in Users : latestSync'[v] = latestSync[v] \/ latestSync'[v] = None
  BY <1>1
<1>5. \A v \in Users : /\ SyncJobs(v)' = SyncJobs(v)
                       /\ FinishedSyncs(v)' = FinishedSyncs(v)
  BY <1>2 DEF SyncJobs, FinishedSyncs
<1>6. FreshIds'
  <2>1. nextJob \in Nat /\ None < nextJob
    BY SyncAssumption DEF IInv, TypeOK, None
  <2>2. QED
    BY <2>1, <1>1, <1>2, <1>4 DEF IInv, FreshIds
<1>7. RunsAreActive'
  BY <1>2, <1>3, <1>5 DEF IInv, RunsAreActive
<1>8. PassesAreScheduled' /\ LastSessionServed'
  BY <1>2 DEF IInv, PassesAreScheduled, PassScheduled, LastSessionServed,
              parentCancelled
<1>9. FailuresAreTracked'
  BY <1>2, <1>4, <1>5 DEF IInv, FailuresAreTracked, FailureTracked
<1>10. QED
  BY <1>6, <1>7, <1>8, <1>9 DEF IInv

LEMMA ShutdownInv ==
  ASSUME IInv, TypeOK', Cancel \/ ShutdownReturns \/ UNCHANGED vars
  PROVE  IInv'
<1>1. /\ UNCHANGED <<trackerVars, engineVars>>
      /\ parentCancelled => parentCancelled'
  BY DEF Cancel, ShutdownReturns, parentCancelled, vars, trackerVars, engineVars
<1>2. FreshIds' /\ RunsAreActive' /\ LastSessionServed' /\ FailuresAreTracked'
  BY <1>1 DEF IInv, trackerVars, engineVars, FreshIds, RunsAreActive, SyncJobs,
              LastSessionServed, FailuresAreTracked, FailureTracked, FinishedSyncs
<1>3. PassesAreScheduled'
  BY <1>1 DEF IInv, PassesAreScheduled, PassScheduled, engineVars
<1>4. QED
  BY <1>2, <1>3 DEF IInv

-----------------------------------------------------------------------------
(* Triggers.                                                               *)

(* A trigger folded into the active run: either the pass to come will use  *)
(* its session, or another pass is planned.                                *)
LEMMA CoalesceInv ==
  ASSUME IInv, TypeOK', NEW u \in Users, NEW s \in Sessions,
         NEW manual \in BOOLEAN, SyncUser(u, s, manual), Coalesce(u, s, manual)
  PROVE  IInv'
<1> DEFINE j == active[u]
<1>1. j # None /\ j \in JobIds /\ run[j].pc \in Working /\ run[j] \in Run
  BY DEF Coalesce, IInv, TypeOK, RunsAreActive
<1>2. PICK b \in BOOLEAN :
         b = (run[j].rerun \/ needsPass(run[j], s, manual))
  OBVIOUS
<1> DEFINE new == [run[j] EXCEPT !.sessionID = s, !.rerun = b]
<1>3. /\ run' = [run EXCEPT ![j] = new]
      /\ UNCHANGED <<trackerVars, active, shutdown>>
  BY <1>2 DEF SyncUser, Coalesce
<1>4. /\ new.pc = run[j].pc /\ new.sessionID = s /\ new.rerun = b
      /\ new.passSessionID = run[j].passSessionID
  BY <1>1 DEF Run
<1> HIDE DEF new
<1>5. \A k \in JobIds : run'[k] = IF k = j THEN new ELSE run[k]
  BY <1>3 DEF IInv, TypeOK
<1>6. FreshIds' /\ RunsAreActive' /\ FailuresAreTracked'
  BY <1>1, <1>3, <1>4, <1>5, WorkStep
<1>7. \A v \in Users : active[v] # None => active[v] \in JobIds
  BY DEF IInv, TypeOK
<1>8. \A v \in Users : v # u => active[v] # j
  BY <1>1 DEF IInv, RunsAreActive, SyncJobs
<1>9. latest' = [latest EXCEPT ![u] = s] /\ latest \in [Users -> Sessions \cup {NoSession}]
  BY DEF SyncUser, IInv, TypeOK
<1>10. \A v \in Users : v # u => owed'[v] = owed[v]
  BY DEF SyncUser, IInv, TypeOK
<1>11. owed'[u] => owed[u] \/ manual
  BY <1>1 DEF SyncUser, IInv, TypeOK
<1>12. PassScheduled(u)
  BY DEF IInv, PassesAreScheduled
<1>13. PassesAreScheduled'
  <2> SUFFICES ASSUME NEW v \in Users
               PROVE  PassScheduled(v)'
    BY DEF PassesAreScheduled
  <2>1. CASE v = u
    <3>1. active'[v] = j /\ run'[j] = new /\ latest'[v] = s
      BY <2>1, <1>1, <1>3, <1>5, <1>9
    <3>2. owed'[v] => new.passSessionID = NoSession \/ new.rerun
      BY <2>1, <1>1, <1>2, <1>4, <1>11, <1>12 DEF PassScheduled, needsPass
    <3>3. new.passSessionID = NoSession <=> new.pc = "looping"
      BY <1>1, <1>4, <1>12 DEF PassScheduled
    <3>4. QED
      BY <3>1, <3>2, <3>3, <1>1, <1>4 DEF PassScheduled
  <2>2. CASE v # u
    <3>1. PassScheduled(v)
      BY DEF IInv, PassesAreScheduled
    <3>2. active[v] # None => run'[active[v]] = run[active[v]]
      BY <2>2, <1>5, <1>7, <1>8
    <3>3. latest'[v] = latest[v] /\ owed'[v] = owed[v]
      BY <2>2, <1>9, <1>10
    <3>4. QED
      BY <3>1, <3>2, <3>3, <1>3 DEF PassScheduled, parentCancelled
  <2>3. QED
    BY <2>1, <2>2
<1>14. LastSessionServed'
  <2>1. run[j].sessionID = latest[u]
    BY <1>1, <1>12 DEF PassScheduled
  <2>2. new.passSessionID \in {NoSession, s} \/ new.rerun
    BY <2>1, <1>1, <1>2, <1>4 DEF IInv, LastSessionServed, needsPass
  <2>3. \A v \in Users : v # u /\ active[v] # None =>
           run'[active[v]] = run[active[v]] /\ latest'[v] = latest[v]
    BY <1>5, <1>7, <1>8, <1>9
  <2>4. latest'[u] = s /\ run'[j] = new
    BY <1>1, <1>5, <1>9
  <2>5. QED
    BY <2>2, <2>3, <2>4, <1>3 DEF IInv, LastSessionServed
<1>15. QED
  BY <1>6, <1>13, <1>14 DEF IInv

(* What Create leaves of the other jobs, for either kind of job.           *)
LEMMA CreateKeeps ==
  ASSUME IInv, NEW u \in Users, NEW kind \in Kinds, Create(kind, u)
  PROVE  /\ job'[nextJob].user = u /\ job'[nextJob].kind = kind
         /\ job'[nextJob].status = "pending"
         /\ \A k \in JobIds : k # nextJob => job'[k] = job[k]
         /\ \A v \in Users :
               /\ SyncJobs(v)' = IF kind = "sync_user" /\ v = u
                                 THEN SyncJobs(v) \cup {nextJob} ELSE SyncJobs(v)
               /\ FinishedSyncs(v)' = FinishedSyncs(v)
               /\ nextJob \notin SyncJobs(v)
               /\ \A k \in SyncJobs(v) : k < nextJob /\ k \in Nat
<1> DEFINE new == [user |-> u, kind |-> kind, status |-> "pending"]
<1>1. /\ nextJob \in JobIds /\ nextJob \in Nat /\ nextJob' = nextJob + 1
      /\ job' = [job EXCEPT ![nextJob] = new]
  BY CreateEffect
<1>2. new.user = u /\ new.kind = kind /\ new.status = "pending"
  OBVIOUS
<1> HIDE DEF new
<1>3. \A k \in JobIds : job'[k] = IF k = nextJob THEN new ELSE job[k]
  BY <1>1 DEF IInv, TypeOK
<1>4. \A k \in JobIds : k \in Nat /\ (k < nextJob' <=> k < nextJob \/ k = nextJob)
  BY <1>1, SyncAssumption DEF JobIds
<1>5. ~(nextJob < nextJob)
  BY <1>1
<1>6. ASSUME NEW v \in Users
      PROVE  SyncJobs(v)' = IF kind = "sync_user" /\ v = u
                            THEN SyncJobs(v) \cup {nextJob} ELSE SyncJobs(v)
  BY <1>1, <1>2, <1>3, <1>4, <1>5 DEF SyncJobs
<1>7. ASSUME NEW v \in Users
      PROVE  FinishedSyncs(v)' = FinishedSyncs(v)
  <2>1. "pending" \notin Finished
    BY DEF Finished
  <2>2. QED
    BY <2>1, <1>1, <1>2, <1>3, <1>4, <1>5 DEF FinishedSyncs
<1>8. QED
  BY <1>1, <1>2, <1>3, <1>4, <1>5, <1>6, <1>7 DEF SyncJobs

LEMMA StartRunInv ==
  ASSUME IInv, TypeOK', NEW u \in Users, NEW s \in Sessions,
         NEW manual \in BOOLEAN, SyncUser(u, s, manual), StartRun(u, s)
  PROVE  IInv'
<1> DEFINE n == nextJob
           new == [IdleRun EXCEPT !.pc = "looping", !.sessionID = s]
<1>1. active[u] = None /\ Create("sync_user", u) /\ "sync_user" \in Kinds
  BY DEF StartRun, noRun, Kinds
<1>2. /\ n \in JobIds /\ n \in Nat /\ n # None /\ nextJob' = n + 1
      /\ tracked' = tracked \cup {n} /\ syncFailures' = syncFailures
      /\ latestSync' = [latestSync EXCEPT ![u] = n]
  BY <1>1, CreateEffect
<1>3. /\ job'[n].user = u /\ job'[n].kind = "sync_user"
      /\ job'[n].status = "pending"
      /\ \A k \in JobIds : k # n => job'[k] = job[k]
  BY <1>1, CreateKeeps
<1>4. ASSUME NEW v \in Users
      PROVE  /\ SyncJobs(v)' = IF v = u THEN SyncJobs(v) \cup {n} ELSE SyncJobs(v)
             /\ FinishedSyncs(v)' = FinishedSyncs(v)
             /\ n \notin SyncJobs(v)
             /\ \A k \in SyncJobs(v) : k < n /\ k \in Nat
  BY <1>1, CreateKeeps
<1>5. /\ new.pc = "looping" /\ new.sessionID = s
      /\ new.passSessionID = NoSession
  BY DEF IdleRun
<1>6. /\ run' = [run EXCEPT ![n] = new] /\ active' = [active EXCEPT ![u] = n]
      /\ latest' = [latest EXCEPT ![u] = s] /\ UNCHANGED shutdown
  BY DEF StartRun, SyncUser
<1> HIDE DEF n, new
<1>7. \A k \in JobIds : run'[k] = IF k = n THEN new ELSE run[k]
  BY <1>6 DEF IInv, TypeOK
<1>8. \A v \in Users :
         /\ active'[v] = IF v = u THEN n ELSE active[v]
         /\ latest'[v] = IF v = u THEN s ELSE latest[v]
         /\ latestSync'[v] = IF v = u THEN n ELSE latestSync[v]
         /\ v # u => owed'[v] = owed[v]
  BY <1>2, <1>6 DEF IInv, TypeOK, SyncUser
<1>9. \A v \in Users : active[v] # None =>
         /\ active[v] \in SyncJobs(v) /\ active[v] \in tracked
         /\ run[active[v]].pc \in Working /\ job[active[v]].status \in Active
         /\ latestSync[v] = active[v] /\ active[v] \in JobIds
         /\ active[v] # n
  BY <1>4 DEF IInv, RunsAreActive, TypeOK
<1>10. FreshIds'
  <2>1. \A k \in JobIds : k >= n + 1 => k >= n /\ k # n
    BY <1>2, SyncAssumption DEF JobIds
  <2>2. \A v \in Users :
           /\ latestSync[v] \in Nat /\ latestSync[v] < n
           /\ syncFailures[v] \in Nat /\ syncFailures[v] < n
           /\ active[v] \in Nat /\ active[v] < n
    BY SyncAssumption DEF IInv, TypeOK, FreshIds, JobIds, None, n
  <2>3. \A v \in Users : latestSync'[v] < n + 1 /\ syncFailures'[v] < n + 1
                         /\ active'[v] < n + 1
    BY <2>2, <1>2, <1>8
  <2>4. \A k \in JobIds : k >= n + 1 => run'[k] = IdleRun /\ k \notin tracked'
    BY <2>1, <1>2, <1>7 DEF IInv, FreshIds, n
  <2>5. QED
    BY <2>3, <2>4, <1>2 DEF FreshIds
<1>11. RunsAreActive'
  <2>1. ASSUME NEW k \in JobIds, run'[k].pc \in Working
        PROVE  active'[job'[k].user] = k
    <3>1. CASE k = n
      BY <3>1, <1>3, <1>8
    <3>2. CASE k # n
      <4>1. active[job[k].user] = k /\ job[k].user \in Users /\ k # None
        BY <2>1, <3>2, <1>7, SyncAssumption
           DEF IInv, RunsAreActive, TypeOK, Job, JobIds, None
      <4>2. QED
        BY <3>2, <4>1, <1>1, <1>3, <1>8
    <3>3. QED
      BY <3>1, <3>2
  <2>2. ASSUME NEW k \in JobIds, run'[k].pc \in Fetching
        PROVE  job'[k].kind = "fetch_one_feed" /\ job'[k].status \in Active
    BY <2>2, <1>3, <1>5, <1>7 DEF IInv, RunsAreActive, Fetching
  <2>3. "looping" \in Working /\ "pending" \in Active
    BY DEF Working, Active
  <2>4. QED
    BY <2>1, <2>2, <2>3, <1>2, <1>3, <1>4, <1>5, <1>7, <1>8, <1>9
       DEF RunsAreActive
<1>12. PassesAreScheduled'
  <2> SUFFICES ASSUME NEW v \in Users
               PROVE  PassScheduled(v)'
    BY DEF PassesAreScheduled
  <2>1. CASE v = u
    BY <2>1, <1>2, <1>5, <1>7, <1>8 DEF PassScheduled
  <2>2. CASE v # u
    <3>1. PassScheduled(v)
      BY DEF IInv, PassesAreScheduled
    <3>2. QED
      BY <3>1, <2>2, <1>6, <1>7, <1>8, <1>9 DEF PassScheduled, parentCancelled
  <2>3. QED
    BY <2>1, <2>2
<1>13. LastSessionServed'
  <2> SUFFICES ASSUME NEW v \in Users, active'[v] # None
               PROVE  \/ run'[active'[v]].passSessionID \in {NoSession, latest'[v]}
                      \/ run'[active'[v]].rerun
    BY DEF LastSessionServed
  <2>1. CASE v = u
    BY <2>1, <1>2, <1>5, <1>7, <1>8
  <2>2. CASE v # u
    BY <2>2, <1>7, <1>8, <1>9 DEF IInv, LastSessionServed
  <2>3. QED
    BY <2>1, <2>2
<1>14. FailuresAreTracked'
  <2> SUFFICES ASSUME NEW v \in Users
               PROVE  FailureTracked(v)'
    BY DEF FailuresAreTracked
  <2>1. FailureTracked(v)
    BY DEF IInv, FailuresAreTracked
  <2>2. /\ FinishedSyncs(v) \subseteq SyncJobs(v)
        /\ SyncJobs(v) \subseteq JobIds
        /\ \A k \in SyncJobs(v) : job'[k] = job[k]
    BY <1>3, <1>4 DEF FinishedSyncs, SyncJobs
  <2>3. syncFailures[v] # None =>
           /\ syncFailures[v] \in FinishedSyncs(v)'
           /\ job'[syncFailures[v]].status = "failed"
           /\ \A k \in FinishedSyncs(v)' : k <= syncFailures[v]
    BY <2>1, <2>2, <1>4 DEF FailureTracked
  <2>4. syncFailures[v] = None =>
           \A k \in FinishedSyncs(v)' : job'[k].status = "failed" =>
              \E d \in FinishedSyncs(v)' : d > k /\ job'[d].status = "done"
    BY <2>1, <2>2, <1>4 DEF FailureTracked
  <2>5. latestSync'[v] # None =>
           /\ latestSync'[v] \in SyncJobs(v)'
           /\ \A k \in SyncJobs(v)' : k <= latestSync'[v]
    BY <2>1, <1>2, <1>4, <1>8 DEF FailureTracked
  <2>6. \A k \in SyncJobs(v)' : job'[k].status \in Active => active'[v] = k
    <3>1. v = u => \A k \in SyncJobs(v) : job[k].status \notin Active
      BY <2>1, <2>2, <1>1, SyncAssumption DEF FailureTracked, JobIds, None
    <3>2. QED
      BY <3>1, <2>1, <2>2, <1>4, <1>8 DEF FailureTracked
  <2>7. QED
    BY <2>3, <2>4, <2>5, <2>6, <1>2 DEF FailureTracked
<1>15. QED
  BY <1>10, <1>11, <1>12, <1>13, <1>14 DEF IInv

LEMMA StartFetchInv ==
  ASSUME IInv, TypeOK', NEW u \in Users, StartFetchOneFeed(u)
  PROVE  IInv'
<1> DEFINE n == nextJob
           new == [IdleRun EXCEPT !.pc = "fetchStarting"]
<1>1. Create("fetch_one_feed", u) /\ "fetch_one_feed" \in Kinds
  BY DEF StartFetchOneFeed, Kinds
<1>2. /\ n \in JobIds /\ n \in Nat /\ nextJob' = n + 1
      /\ tracked' = tracked \cup {n} /\ syncFailures' = syncFailures
      /\ latestSync' = latestSync
  BY <1>1, CreateEffect
<1>3. /\ job'[n].kind = "fetch_one_feed" /\ job'[n].status \in Active
      /\ \A k \in JobIds : k # n => job'[k] = job[k]
  BY <1>1, CreateKeeps DEF Active
<1>4. ASSUME NEW v \in Users
      PROVE  /\ SyncJobs(v)' = SyncJobs(v)
             /\ FinishedSyncs(v)' = FinishedSyncs(v)
             /\ n \notin SyncJobs(v)
  BY <1>1, CreateKeeps
<1>5. new.pc = "fetchStarting" /\ new.pc \notin Working
  BY DEF IdleRun, Working
<1>6. /\ run' = [run EXCEPT ![n] = new]
      /\ UNCHANGED <<active, shutdown, owed, latest>>
  BY DEF StartFetchOneFeed
<1> HIDE DEF n, new
<1>7. \A k \in JobIds : run'[k] = IF k = n THEN new ELSE run[k]
  BY <1>6 DEF IInv, TypeOK
<1>8. \A v \in Users : active[v] # None =>
         /\ active[v] \in SyncJobs(v) /\ active[v] \in tracked
         /\ run[active[v]].pc \in Working /\ job[active[v]].status \in Active
         /\ latestSync[v] = active[v] /\ active[v] \in JobIds
         /\ active[v] # n
  BY <1>4 DEF IInv, RunsAreActive, TypeOK
<1>9. FreshIds'
  <2>1. \A k \in JobIds : k >= n + 1 => k >= n /\ k # n
    BY <1>2, SyncAssumption DEF JobIds
  <2>2. \A v \in Users : latestSync[v] < n + 1 /\ syncFailures[v] < n + 1
                         /\ active[v] < n + 1
    <3>1. \A v \in Users :
             /\ latestSync[v] \in Nat /\ latestSync[v] < n
             /\ syncFailures[v] \in Nat /\ syncFailures[v] < n
             /\ active[v] \in Nat /\ active[v] < n
      BY SyncAssumption DEF IInv, TypeOK, FreshIds, JobIds, None, n
    <3>2. QED
      BY <3>1, <1>2
  <2>3. QED
    BY <2>1, <2>2, <1>2, <1>6, <1>7 DEF IInv, FreshIds, n
<1>10. RunsAreActive'
  <2>1. ASSUME NEW k \in JobIds, run'[k].pc \in Working
        PROVE  active'[job'[k].user] = k
    BY <2>1, <1>3, <1>5, <1>6, <1>7 DEF IInv, RunsAreActive
  <2>2. ASSUME NEW k \in JobIds, run'[k].pc \in Fetching
        PROVE  job'[k].kind = "fetch_one_feed" /\ job'[k].status \in Active
    BY <2>2, <1>3, <1>7 DEF IInv, RunsAreActive
  <2>3. ASSUME NEW v \in Users, active[v] # None
        PROVE  /\ job'[active[v]].status \in Active
               /\ run'[active[v]].pc \in Working
    BY <2>3, <1>3, <1>7, <1>8
  <2>4. ASSUME NEW v \in Users, active'[v] # None
        PROVE  /\ active'[v] \in SyncJobs(v)' /\ active'[v] \in tracked'
               /\ run'[active'[v]].pc \in Working
               /\ job'[active'[v]].status \in Active
               /\ latestSync'[v] = active'[v]
    <3>1. active'[v] = active[v] /\ active[v] # None
      BY <2>4, <1>6
    <3>2. active'[v] \in SyncJobs(v)'
      BY <3>1, <1>4, <1>8
    <3>3. QED
      BY <3>1, <3>2, <2>3, <1>2, <1>8
  <2>5. QED
    BY <2>1, <2>2, <2>4 DEF RunsAreActive
<1>11. PassesAreScheduled' /\ LastSessionServed'
  BY <1>6, <1>7, <1>8 DEF IInv, PassesAreScheduled, PassScheduled,
                          LastSessionServed, parentCancelled
<1>12. FailuresAreTracked'
  <2> SUFFICES ASSUME NEW v \in Users
               PROVE  FailureTracked(v)'
    BY DEF FailuresAreTracked
  <2>1. FailureTracked(v)
    BY DEF IInv, FailuresAreTracked
  <2>2. /\ FinishedSyncs(v) \subseteq SyncJobs(v)
        /\ \A k \in SyncJobs(v) : job'[k] = job[k]
    BY <1>3, <1>4 DEF FinishedSyncs, SyncJobs
  <2>3. QED
    BY <2>1, <2>2, <1>2, <1>4, <1>6 DEF FailureTracked
<1>13. QED
  BY <1>9, <1>10, <1>11, <1>12 DEF IInv

-----------------------------------------------------------------------------
LEMMA IInvInductive == IInv /\ [Next]_vars => IInv'
<1> SUFFICES ASSUME IInv, [Next]_vars PROVE IInv'
  OBVIOUS
<1>0. TypeOK'
  BY TypeInductive DEF IInv
<1>1. ASSUME NEW u \in Users, NEW s \in Sessions, NEW manual \in BOOLEAN,
             SyncUser(u, s, manual)
      PROVE  IInv'
  BY <1>0, <1>1, CoalesceInv, StartRunInv DEF SyncUser
<1>2. ASSUME NEW u \in Users, StartFetchOneFeed(u)
      PROVE  IInv'
  BY <1>0, <1>2, StartFetchInv
<1>3. ASSUME NEW j \in JobIds, Step(j)
      PROVE  IInv'
  BY <1>0, <1>3, StartPassInv, MarkRunningInv, QuietStepInv, RerunInv,
     FinishRunInv, ExitInv, FetchInv DEF Step
<1>4. CASE GC \/ Cancel \/ ShutdownReturns \/ UNCHANGED vars
  BY <1>0, <1>4, GCInv, ShutdownInv
<1>5. QED
  BY <1>1, <1>2, <1>3, <1>4 DEF Next, Trigger

(* The invariant the theorems below read their properties off.             *)
THEOREM Inductive == Spec => []IInv
<1>1. QED
  BY InitIInv, IInvInductive, PTL DEF Spec

(* The in-flight guard of SyncUser: at every moment a user has at most one *)
(* sync goroutine, and it is the one in the active map.                    *)
THEOREM AtMostOneRun == Spec => []OneRunPerUser
<1>1. IInv => OneRunPerUser
  <2> SUFFICES ASSUME IInv, NEW u \in Users
               PROVE  {j \in JobIds : run[j].pc \in Working /\ job[j].user = u}
                        = IF active[u] = None THEN {} ELSE {active[u]}
    BY DEF OneRunPerUser
  <2>1. \A j \in JobIds : run[j].pc \in Working /\ job[j].user = u
                             => active[u] = j /\ j # None
    BY WorkingIsActive
  <2>2. active[u] # None => /\ active[u] \in JobIds
                            /\ run[active[u]].pc \in Working
                            /\ job[active[u]].user = u
    BY DEF IInv, RunsAreActive, SyncJobs
  <2>3. QED
    BY <2>1, <2>2
<1>2. QED
  BY <1>1, Inductive, PTL

(* While a goroutine works, what the pill and the Sources page read is its *)
(* job.                                                                    *)
THEOREM PillIsLit == Spec => []PillCoversWork
<1>1. IInv => PillCoversWork
  BY DEF IInv, RunsAreActive, SyncJobs, PillCoversWork, ActiveJobs,
         LatestSyncForUser
<1>2. QED
  BY <1>1, Inductive, PTL

(* A trigger is dropped by shutdown alone.                                 *)
THEOREM TriggersAreServed == Spec => []NoLostTrigger
<1>1. IInv => NoLostTrigger
  BY DEF IInv, PassesAreScheduled, PassScheduled, NoLostTrigger
<1>2. QED
  BY <1>1, Inductive, PTL

(* The pass that ends a run used the session of the last trigger.          *)
THEOREM LastSessionIsServed == Spec => []LastSessionServed
<1>1. IInv => LastSessionServed
  BY DEF IInv
<1>2. QED
  BY <1>1, Inductive, PTL

(* A retained failure is reported exactly while it is unresolved, however  *)
(* much of the tracker GC has dropped.                                     *)
THEOREM FailuresAreRetained == Spec => []FailureRetained
<1>1. IInv => FailureRetained
  <2> SUFFICES ASSUME IInv, NEW u \in Users, active[u] = None,
                      NEW newest \in FinishedSyncs(u),
                      \A k \in FinishedSyncs(u) : k <= newest
               PROVE  (/\ LatestSyncForUser(u) # None
                       /\ job[LatestSyncForUser(u)].status = "failed")
                        <=> job[newest].status = "failed"
    BY DEF FailureRetained
  <2>1. FailureTracked(u)
    BY DEF IInv, FailuresAreTracked
  <2>2. \A k \in FinishedSyncs(u) : k \in Nat /\ k \in SyncJobs(u)
    BY SyncAssumption DEF FinishedSyncs, SyncJobs, JobIds
  <2>3. \A k \in SyncJobs(u) : k # None /\ k \in Nat /\ job[k].status \in Finished
                               /\ k \in FinishedSyncs(u)
    <3>1. \A k \in SyncJobs(u) : k # None /\ k \in Nat /\ k \in JobIds
      BY SyncAssumption DEF SyncJobs, JobIds, None
    <3>2. \A k \in SyncJobs(u) : job[k].status \in Finished
      BY <3>1, <2>1 DEF FailureTracked, IInv, TypeOK, Job
    <3>3. QED
      BY <3>1, <3>2 DEF FinishedSyncs, SyncJobs
  <2>4. LatestSyncForUser(u) = IF syncFailures[u] # None THEN syncFailures[u]
                               ELSE latestSync[u]
    BY <2>1, <2>3 DEF LatestSyncForUser, FailureTracked, Active, Finished
  <2>5. CASE syncFailures[u] # None
    <3>1. /\ syncFailures[u] \in FinishedSyncs(u)
          /\ \A k \in FinishedSyncs(u) : k <= syncFailures[u]
          /\ job[syncFailures[u]].status = "failed"
      BY <2>1, <2>5 DEF FailureTracked
    <3>2. syncFailures[u] = newest
      BY <3>1, <2>2
    <3>3. QED
      BY <3>1, <3>2, <2>4, <2>5
  <2>6. CASE syncFailures[u] = None
    <3>1. job[newest].status # "failed"
      <4>1. \A d \in FinishedSyncs(u) : ~(d > newest)
        BY <2>2
      <4>2. QED
        BY <4>1, <2>1, <2>6 DEF FailureTracked
    <3>2. latestSync[u] # None => latestSync[u] = newest
      <4>1. SUFFICES ASSUME latestSync[u] # None PROVE latestSync[u] = newest
        OBVIOUS
      <4>2. /\ latestSync[u] \in SyncJobs(u)
            /\ \A k \in SyncJobs(u) : k <= latestSync[u]
        BY <4>1, <2>1 DEF FailureTracked
      <4>3. latestSync[u] \in FinishedSyncs(u) /\ newest <= latestSync[u]
        BY <4>2, <2>2, <2>3
      <4>4. QED
        BY <4>3, <2>2
    <3>3. QED
      BY <3>1, <3>2, <2>4, <2>6
  <2>7. QED
    BY <2>5, <2>6
<1>2. QED
  BY <1>1, Inductive, PTL

-----------------------------------------------------------------------------
(* What a step does to the status of a job that exists.                    *)
LEMMA StatusChanges ==
  ASSUME IInv, [Next]_vars, NEW j \in JobIds, j < nextJob,
         job'[j].status # job[j].status
  PROVE  \/ MarkRunning(j) \/ FinishRun(j) \/ FetchRunning(j) \/ FetchEnds(j)
<1>1. ASSUME NEW k \in JobIds, NEW s, transition(k, s), k # j
      PROVE  FALSE
  <2>1. job' = job \/ job' = [job EXCEPT ![k].status = s]
    BY <1>1 DEF transition
  <2>2. QED
    BY <1>1, <2>1, StatusEffect DEF IInv
<1>2. ASSUME NEW u \in Users, NEW kind \in Kinds, Create(kind, u)
      PROVE  FALSE
  <2>1. nextJob # j
    BY SyncAssumption DEF IInv, TypeOK
  <2>2. QED
    BY <1>2, <2>1, CreateKeeps
<1>3. ASSUME NEW u \in Users, NEW s \in Sessions, NEW manual \in BOOLEAN,
             SyncUser(u, s, manual)
      PROVE  FALSE
  BY <1>3, <1>2 DEF SyncUser, Coalesce, StartRun, trackerVars, Kinds
<1>4. ASSUME NEW u \in Users, StartFetchOneFeed(u)
      PROVE  FALSE
  BY <1>4, <1>2 DEF StartFetchOneFeed, Kinds
<1>5. ASSUME NEW k \in JobIds, Step(k)
      PROVE  /\ k = j
             /\ MarkRunning(j) \/ FinishRun(j) \/ FetchRunning(j) \/ FetchEnds(j)
  <2>1. CASE \/ StartPass(k) \/ Resume(k) \/ JoinTracks(k) \/ Rerun(k) \/ Exit(k)
             \/ \E c \in Collections : Reconcile(k, c)
    BY <2>1 DEF StartPass, Resume, JoinTracks, Rerun, Exit, Reconcile, trackerVars
  <2>2. CASE MarkRunning(k) \/ FinishRun(k) \/ FetchRunning(k) \/ FetchEnds(k)
    <3>1. \E s : transition(k, s)
      BY <2>2 DEF MarkRunning, FinishRun, FetchRunning, FetchEnds
    <3>2. k = j
      BY <3>1, <1>1
    <3>3. QED
      BY <2>2, <3>2
  <2>3. QED
    BY <1>5, <2>1, <2>2 DEF Step
<1>6. CASE GC \/ Cancel \/ ShutdownReturns \/ UNCHANGED vars
  BY <1>6 DEF GC, Cancel, ShutdownReturns, vars, trackerVars
<1>7. QED
  BY <1>3, <1>4, <1>5, <1>6 DEF Next, Trigger

(* No transition revives a finished job or turns its outcome.              *)
THEOREM FinishedStays == Spec => FinishedIsFinal
<1>1. ASSUME IInv, [Next]_vars, NEW j \in JobIds, j < nextJob,
             job[j].status \in Finished
      PROVE  job'[j].status = job[j].status
  <2>1. SUFFICES ASSUME job'[j].status # job[j].status PROVE FALSE
    OBVIOUS
  <2>2. \/ MarkRunning(j) \/ FinishRun(j) \/ FetchRunning(j) \/ FetchEnds(j)
    BY <1>1, <2>1, StatusChanges
  <2>3. run[j].pc \in Working \cup Fetching
    BY <2>2 DEF MarkRunning, FinishRun, FetchRunning, FetchEnds, Working, Fetching
  <2>4. job[j].status \in Active
    BY <1>1, <2>3, WorkingIsActive DEF IInv, RunsAreActive
  <2>5. QED
    BY <1>1, <2>4 DEF Active, Finished
<1>2. IInv /\ [Next]_vars =>
         [\A j \in JobIds : j < nextJob /\ job[j].status \in Finished
                               => job'[j].status = job[j].status]_vars
  BY <1>1
<1>3. QED
  BY <1>2, Inductive, PTL DEF Spec, FinishedIsFinal

(* done is reported only on the receipt of all three collections, of a     *)
(* pass nothing is owed after.                                             *)
THEOREM DoneIsFresh == Spec => DoneMeansFresh
<1>1. ASSUME IInv, [Next]_vars, NEW j \in JobIds, j < nextJob,
             job[j].kind = "sync_user", job[j].status = "running",
             job'[j].status = "done"
      PROVE  /\ run[j].receipt = Collections
             /\ run[j].failed = {}
             /\ owed[job[j].user] => parentCancelled
  <2>1. \/ MarkRunning(j) \/ FinishRun(j) \/ FetchRunning(j) \/ FetchEnds(j)
    BY <1>1, StatusChanges
  <2>2. ~FetchRunning(j) /\ ~FetchEnds(j)
    BY <1>1 DEF FetchRunning, FetchEnds, Fetching, IInv, RunsAreActive
  <2>3. ~MarkRunning(j)
    <3>1. SUFFICES ASSUME MarkRunning(j) PROVE FALSE
      OBVIOUS
    <3>2. run[j].pc \in Working /\ transition(j, "running")
      BY <3>1 DEF MarkRunning, Working
    <3>3. job' = [job EXCEPT ![j].status = "running"]
      BY <1>1, <3>2, WorkingIsActive DEF transition
    <3>4. QED
      BY <1>1, <3>3, StatusEffect DEF IInv
  <2>4. FinishRun(j)
    BY <2>1, <2>2, <2>3
  <2>5. run[j].pc \in Working /\ run[j].pc # "looping"
    BY <2>4 DEF FinishRun, Working
  <2>6. job[j].user \in Users /\ active[job[j].user] = j /\ j # None
        /\ j \in tracked
    BY <1>1, <2>5, WorkingIsActive
  <2>7. finishStatus(run[j]) = "done"
    <3>1. job' = [job EXCEPT ![j].status = finishStatus(run[j])]
      BY <2>4, <2>6 DEF FinishRun, transition
    <3>2. QED
      BY <1>1, <3>1, StatusEffect DEF IInv
  <2>8. run[j].receipt = Collections /\ run[j].failed = {}
    BY <2>7 DEF finishStatus
  <2>9. owed[job[j].user] => run[j].rerun
    BY <1>1, <2>5, <2>6 DEF IInv, PassesAreScheduled, PassScheduled
  <2>10. QED
    BY <2>4, <2>8, <2>9 DEF FinishRun
<1>2. IInv /\ [Next]_vars =>
         [\A j \in JobIds :
            /\ j < nextJob
            /\ job[j].kind = "sync_user" /\ job[j].status = "running"
            /\ job'[j].status = "done"
            => /\ run[j].receipt = Collections
               /\ run[j].failed = {}
               /\ owed[job[j].user] => parentCancelled]_vars
  BY <1>1
<1>3. QED
  BY <1>2, Inductive, PTL DEF Spec, DoneMeansFresh

-----------------------------------------------------------------------------
(* The engine and the digest request that reads its results.               *)

(* The reader only reads: every step of the composition is the engine's.   *)
LEMMA PageStepIsEngineStep == [PageNext]_pageVars => [Next]_vars
  BY DEF PageNext, pageVars, Asks, Answers, Writes

LEMMA PageInductive == PageSpec => []IInv
<1>1. PageInit => IInv
  BY InitIInv DEF PageInit
<1>2. IInv /\ [PageNext]_pageVars => IInv'
  BY PageStepIsEngineStep, IInvInductive
<1>3. QED
  BY <1>1, <1>2, PTL DEF PageSpec

-----------------------------------------------------------------------------
(* The engine implements SyncRequests.                                     *)

(* A user's pass is at work.                                               *)
InPass(u) == active[u] # None /\ run[active[u]].passSessionID # NoSession

(* Nothing the refinement mapping reads has moved.                         *)
LEMMA RequestsStutter ==
  ASSUME owed' = owed, parentCancelled' = parentCancelled,
         \A u \in Users : InPass(u)' <=> InPass(u)
  PROVE  UNCHANGED Requests!vars
  BY DEF Requests!vars, InPass

LEMMA ActiveIsJob ==
  ASSUME IInv, NEW u \in Users, active[u] # None
  PROVE  active[u] \in JobIds /\ job[active[u]].user = u /\ active[u] # nextJob
<1>1. active[u] \in SyncJobs(u) /\ active[u] < nextJob
  BY DEF IInv, RunsAreActive, FreshIds
<1>2. active[u] \in Nat /\ nextJob \in Nat
  BY <1>1, SyncAssumption DEF IInv, TypeOK, JobIds, SyncJobs
<1>3. QED
  BY <1>1, <1>2 DEF SyncJobs

LEMMA AskRefines ==
  ASSUME IInv, NEW u \in Users, NEW s \in Sessions, NEW manual \in BOOLEAN,
         SyncUser(u, s, manual)
  PROVE  Requests!Ask(u) \/ UNCHANGED Requests!vars
<1>1. /\ owed' = [owed EXCEPT ![u] = owed[u] \/ manual \/ active[u] = None]
      /\ parentCancelled' = parentCancelled
  BY DEF SyncUser, parentCancelled
<1>2. \A v \in Users : InPass(v)' <=> InPass(v)
  <2>1. CASE Coalesce(u, s, manual)
    <3>1. active' = active /\ active[u] # None /\ active[u] \in JobIds
      BY <2>1, ActiveIsJob DEF Coalesce
    <3>2. run[active[u]] \in Run
      BY <3>1 DEF IInv, TypeOK
    <3>3. \A k \in JobIds : run'[k].passSessionID = run[k].passSessionID
      BY <2>1, <3>1, <3>2 DEF Coalesce, IInv, TypeOK, Run
    <3>4. QED
      BY <3>1, <3>3, ActiveIsJob DEF InPass
  <2>2. CASE StartRun(u, s)
    <3>1. /\ active[u] = None /\ active' = [active EXCEPT ![u] = nextJob]
          /\ run' = [run EXCEPT ![nextJob] =
                        [IdleRun EXCEPT !.pc = "looping", !.sessionID = s]]
          /\ nextJob \in JobIds
      BY <2>2, CreateEffect DEF StartRun, noRun, Kinds
    <3>2. run'[nextJob].passSessionID = NoSession
      BY <3>1 DEF IInv, TypeOK, IdleRun
    <3>3. \A k \in JobIds : k # nextJob => run'[k] = run[k]
      BY <3>1 DEF IInv, TypeOK
    <3>4. /\ active'[u] = nextJob
          /\ \A v \in Users : v # u => active'[v] = active[v]
      BY <3>1 DEF IInv, TypeOK
    <3>5. QED
      BY <3>1, <3>2, <3>3, <3>4, ActiveIsJob DEF InPass
  <2>3. QED
    BY <2>1, <2>2 DEF SyncUser
<1>3. CASE manual \/ active[u] = None
  <2>1. owed'[u] /\ \A v \in Users : v # u => owed'[v] = owed[v]
    BY <1>1, <1>3 DEF IInv, TypeOK
  <2>2. {v \in Users : owed'[v]} = {v \in Users : owed[v]} \cup {u}
    BY <2>1
  <2>3. QED
    BY <1>1, <1>2, <2>2 DEF Requests!Ask, InPass
<1>4. CASE ~(manual \/ active[u] = None)
  <2>1. owed' = owed
    BY <1>1, <1>4 DEF IInv, TypeOK
  <2>2. QED
    BY <1>1, <1>2, <2>1, RequestsStutter
<1>5. QED
  BY <1>3, <1>4

(* A pass begins: the user is no longer owed one.                          *)
LEMMA BeginRefines ==
  ASSUME IInv, NEW j \in JobIds, StartPass(j)
  PROVE  \E u \in Users : Requests!Begin(u)
<1>1. run[j].pc = "looping" /\ run[j].pc \in Working /\ run[j] \in Run
  BY DEF StartPass, Working, IInv, TypeOK
<1>2. PICK u \in Users : u = job[j].user /\ active[u] = j /\ j # None
  BY <1>1, WorkingIsActive
<1>3. run[j].passSessionID = NoSession /\ run[j].sessionID \in Sessions
  BY <1>1, <1>2 DEF IInv, PassesAreScheduled, PassScheduled
<1>4. run'[j].passSessionID = run[j].sessionID
  BY <1>1 DEF StartPass, IInv, TypeOK, Run
<1>5. \A k \in JobIds : k # j => run'[k] = run[k]
  BY DEF StartPass, IInv, TypeOK
<1>6. active' = active /\ parentCancelled' = parentCancelled
  BY DEF StartPass, parentCancelled
<1>7. ~owed'[u] /\ \A v \in Users : v # u => owed'[v] = owed[v]
  BY <1>2 DEF StartPass, IInv, TypeOK
<1>8. ~InPass(u) /\ InPass(u)'
  BY <1>2, <1>3, <1>4, <1>6, SyncAssumption DEF InPass
<1>9. \A v \in Users : v # u => (InPass(v)' <=> InPass(v))
  BY <1>2, <1>5, <1>6, ActiveIsJob DEF InPass
<1>10. {v \in Users : owed'[v]} = {v \in Users : owed[v]} \ {u}
  BY <1>7
<1>11. {v \in Users : InPass(v)'} = {v \in Users : InPass(v)} \cup {u}
  BY <1>2, <1>8, <1>9
<1>12. Requests!Begin(u)
  BY <1>2, <1>6, <1>8, <1>10, <1>11 DEF Requests!Begin, InPass
<1>13. QED
  BY <1>2, <1>12

(* A pass ends, with or without another to follow.                         *)
LEMMA EndRefines ==
  ASSUME IInv, NEW j \in JobIds, Rerun(j) \/ FinishRun(j)
  PROVE  \E u \in Users : Requests!End(u)
<1>1. run[j].pc = "deciding" /\ run[j].pc \in Working /\ run[j] \in Run
  BY DEF Rerun, FinishRun, Working, IInv, TypeOK
<1>2. PICK u \in Users : u = job[j].user /\ active[u] = j /\ j # None
  BY <1>1, WorkingIsActive
<1>3. run[j].passSessionID # NoSession
  BY <1>1, <1>2 DEF IInv, PassesAreScheduled, PassScheduled
<1>4. \A k \in JobIds : k # j => run'[k] = run[k]
  BY DEF Rerun, FinishRun, IInv, TypeOK
<1>5. owed' = owed /\ parentCancelled' = parentCancelled
  BY DEF Rerun, FinishRun, parentCancelled
<1>6. \A v \in Users : v # u => active'[v] = active[v]
  BY <1>2 DEF Rerun, FinishRun, IInv, TypeOK
<1>7. InPass(u) /\ ~InPass(u)'
  <2>1. CASE Rerun(j)
    <3>1. run'[j].passSessionID = NoSession /\ active' = active
      BY <2>1, <1>1 DEF Rerun, IInv, TypeOK, Run
    <3>2. QED
      BY <3>1, <1>2, <1>3 DEF InPass
  <2>2. CASE FinishRun(j)
    <3>1. active'[u] = None
      BY <2>2, <1>2 DEF FinishRun, IInv, TypeOK
    <3>2. QED
      BY <3>1, <1>2, <1>3 DEF InPass
  <2>3. QED
    BY <2>1, <2>2
<1>8. \A v \in Users : v # u => (InPass(v)' <=> InPass(v))
  BY <1>2, <1>4, <1>6, ActiveIsJob DEF InPass
<1>9. {v \in Users : InPass(v)'} = {v \in Users : InPass(v)} \ {u}
  BY <1>2, <1>7, <1>8
<1>10. Requests!End(u)
  BY <1>2, <1>5, <1>7, <1>9 DEF Requests!End, InPass
<1>11. QED
  BY <1>2, <1>10

(* Every other step of a goroutine keeps the session of its pass.          *)
LEMMA WorkRefines ==
  ASSUME IInv, NEW j \in JobIds,
         \/ MarkRunning(j) \/ Resume(j) \/ JoinTracks(j) \/ Exit(j)
         \/ FetchRunning(j) \/ FetchEnds(j)
         \/ \E c \in Collections : Reconcile(j, c)
  PROVE  UNCHANGED Requests!vars
<1>1. run[j] \in Run
  BY DEF IInv, TypeOK
<1>2. \A k \in JobIds : run'[k].passSessionID = run[k].passSessionID
  BY <1>1 DEF MarkRunning, Resume, JoinTracks, Exit, FetchRunning, FetchEnds,
              Reconcile, IInv, TypeOK, Run
<1>3. active' = active /\ owed' = owed /\ parentCancelled' = parentCancelled
  BY DEF MarkRunning, Resume, JoinTracks, Exit, FetchRunning, FetchEnds,
         Reconcile, parentCancelled
<1>4. \A v \in Users : InPass(v)' <=> InPass(v)
  BY <1>2, <1>3, ActiveIsJob DEF InPass
<1>5. QED
  BY <1>3, <1>4, RequestsStutter

LEMMA OtherRefines ==
  ASSUME IInv,
         \/ \E u \in Users : StartFetchOneFeed(u)
         \/ GC \/ Cancel \/ ShutdownReturns \/ UNCHANGED vars
  PROVE  Requests!Close \/ UNCHANGED Requests!vars
<1>1. ASSUME NEW u \in Users, StartFetchOneFeed(u)
      PROVE  UNCHANGED Requests!vars
  <2>1. Create("fetch_one_feed", u)
    BY <1>1 DEF StartFetchOneFeed
  <2>2. nextJob \in JobIds
    BY <2>1, CreateEffect DEF Kinds
  <2>3. \A k \in JobIds : k # nextJob => run'[k] = run[k]
    BY <1>1, <2>2 DEF StartFetchOneFeed, IInv, TypeOK
  <2>4. active' = active /\ owed' = owed /\ parentCancelled' = parentCancelled
    BY <1>1 DEF StartFetchOneFeed, parentCancelled
  <2>5. \A v \in Users : InPass(v)' <=> InPass(v)
    BY <2>3, <2>4, ActiveIsJob DEF InPass
  <2>6. QED
    BY <2>4, <2>5, RequestsStutter
<1>2. CASE GC \/ ShutdownReturns \/ UNCHANGED vars
  <2>1. UNCHANGED <<active, run, owed>> /\ parentCancelled' = parentCancelled
    BY <1>2 DEF GC, ShutdownReturns, vars, engineVars, parentCancelled
  <2>2. QED
    BY <2>1, RequestsStutter DEF InPass
<1>3. CASE Cancel
  BY <1>3 DEF Cancel, engineVars, parentCancelled, Requests!Close
<1>4. QED
  BY <1>1, <1>2, <1>3

LEMMA StepRefines == IInv /\ [Next]_vars => [Requests!Next]_(Requests!vars)
<1> SUFFICES ASSUME IInv, [Next]_vars
             PROVE  Requests!Next \/ UNCHANGED Requests!vars
  OBVIOUS
<1>1. ASSUME NEW u \in Users, NEW s \in Sessions, NEW manual \in BOOLEAN,
             SyncUser(u, s, manual)
      PROVE  Requests!Next \/ UNCHANGED Requests!vars
  BY <1>1, AskRefines DEF Requests!Next
<1>2. ASSUME NEW j \in JobIds, Step(j)
      PROVE  Requests!Next \/ UNCHANGED Requests!vars
  BY <1>2, BeginRefines, EndRefines, WorkRefines DEF Step, Requests!Next
<1>3. CASE \/ \E u \in Users : StartFetchOneFeed(u)
           \/ GC \/ Cancel \/ ShutdownReturns \/ UNCHANGED vars
  BY <1>3, OtherRefines DEF Requests!Next
<1>4. QED
  BY <1>1, <1>2, <1>3 DEF Next, Trigger

(* Whatever devices, triggers, failures and passes interleave, the engine  *)
(* behaves as SyncRequests does: one pass of a user at a time, a request   *)
(* discharged by a pass that begins after it and by nothing else           *)
(* (syncuser.go, SyncUser and run).                                        *)
THEOREM EngineImplementsRequests == PageSpec => Requests!Spec
<1>1. PageInit => Requests!Init
  BY DEF PageInit, Init, Requests!Init, parentCancelled, None
<1>2. IInv /\ [PageNext]_pageVars => [Requests!Next]_(Requests!vars)
  BY PageStepIsEngineStep, StepRefines
<1>3. QED
  BY <1>1, <1>2, PageInductive, PTL DEF PageSpec, Requests!Spec

-----------------------------------------------------------------------------
(* What a final page vouches for.                                          *)

Busy(j) == run[j].pc \in Working \cup Fetching

(* A fetch at work is in the tracker, and the jobs of before a page that   *)
(* found none of its reader's active have ended.                           *)
PageInv ==
    /\ page \in Page
    /\ \A j \in JobIds : run[j].pc \in Fetching => j \in tracked
    /\ page.since <= nextJob
    /\ page.final =>
         \A j \in JobIds : j < page.since /\ job[j].user = Reader => ~Busy(j)
    /\ page.missed => ~page.final

LEMMA PageInvInit == PageInit => PageInv
<1> SUFFICES ASSUME PageInit PROVE PageInv
  OBVIOUS
<1>1. page \in Page /\ ~page.final /\ ~page.missed /\ page.since <= nextJob
  BY SyncAssumption DEF PageInit, Init, IdlePage, Page
<1>2. \A j \in JobIds : run[j].pc = "idle"
  BY DEF PageInit, Init, IdleRun
<1>3. QED
  BY <1>1, <1>2 DEF PageInv, Fetching

(* A tracker without an active job of the reader's: its goroutines are     *)
(* done.                                                                   *)
LEMMA NoneActive ==
  ASSUME IInv, PageInv, ActiveJobs(Reader) = {}, NEW j \in JobIds,
         job[j].user = Reader
  PROVE  ~Busy(j)
<1>1. CASE run[j].pc \in Working
  BY <1>1, WorkingIsActive DEF ActiveJobs
<1>2. CASE run[j].pc \in Fetching
  <2>1. job[j].status \in Active /\ j \in tracked
    BY <1>2 DEF IInv, RunsAreActive, PageInv
  <2>2. QED
    BY <2>1 DEF ActiveJobs
<1>3. QED
  BY <1>1, <1>2 DEF Busy

(* Whose job it is never changes, nor does a goroutine that ended begin    *)
(* again; a fetch at work stays tracked.                                   *)
LEMMA EngineKeeps ==
  ASSUME IInv, PageInv, Next
  PROVE  /\ nextJob <= nextJob'
         /\ \A j \in JobIds : j < nextJob =>
              /\ job'[j].user = job[j].user
              /\ Busy(j)' => Busy(j)
         /\ \A j \in JobIds : run'[j].pc \in Fetching => j \in tracked'
<1>0. nextJob \in Nat
  BY SyncAssumption DEF IInv, TypeOK
<1>1. ASSUME NEW u \in Users, NEW kind \in Kinds, Create(kind, u),
             \A k \in JobIds : k # nextJob =>
                 run'[k].pc = run[k].pc
      PROVE  /\ nextJob <= nextJob'
             /\ \A j \in JobIds : j < nextJob =>
                  /\ job'[j].user = job[j].user
                  /\ Busy(j)' => Busy(j)
             /\ \A j \in JobIds : run'[j].pc \in Fetching => j \in tracked'
  <2>1. nextJob' = nextJob + 1 /\ tracked' = tracked \cup {nextJob}
    BY <1>1, CreateEffect
  <2>2. \A k \in JobIds : k < nextJob => k # nextJob
    BY <1>0
  <2>3. \A k \in JobIds : k # nextJob => job'[k] = job[k]
    BY <1>1, CreateKeeps
  <2>4. QED
    BY <1>0, <1>1, <2>1, <2>2, <2>3 DEF PageInv, Busy
<1>2. ASSUME NEW u \in Users, NEW s \in Sessions, NEW manual \in BOOLEAN,
             SyncUser(u, s, manual)
      PROVE  /\ nextJob <= nextJob'
             /\ \A j \in JobIds : j < nextJob =>
                  /\ job'[j].user = job[j].user
                  /\ Busy(j)' => Busy(j)
             /\ \A j \in JobIds : run'[j].pc \in Fetching => j \in tracked'
  <2>1. CASE Coalesce(u, s, manual)
    <3>1. active[u] \in JobIds
      BY <2>1, ActiveIsJob DEF Coalesce
    <3>2. \A k \in JobIds : run[k] \in Run
      BY DEF IInv, TypeOK
    <3>3. \A k \in JobIds : run'[k].pc = run[k].pc
      BY <2>1, <3>1, <3>2 DEF Coalesce, IInv, TypeOK, Run
    <3>4. UNCHANGED trackerVars
      BY <2>1 DEF Coalesce
    <3>5. QED
      BY <1>0, <3>3, <3>4 DEF trackerVars, PageInv, Busy
  <2>2. CASE StartRun(u, s)
    <3>1. Create("sync_user", u) /\ nextJob \in JobIds
      BY <2>2, CreateEffect DEF StartRun, Kinds
    <3>2. \A k \in JobIds : k # nextJob => run'[k].pc = run[k].pc
      BY <2>2, <3>1 DEF StartRun, IInv, TypeOK
    <3>3. QED
      BY <1>1, <3>1, <3>2 DEF Kinds
  <2>3. QED
    BY <1>2, <2>1, <2>2 DEF SyncUser
<1>3. ASSUME NEW u \in Users, StartFetchOneFeed(u)
      PROVE  /\ nextJob <= nextJob'
             /\ \A j \in JobIds : j < nextJob =>
                  /\ job'[j].user = job[j].user
                  /\ Busy(j)' => Busy(j)
             /\ \A j \in JobIds : run'[j].pc \in Fetching => j \in tracked'
  <2>1. Create("fetch_one_feed", u) /\ nextJob \in JobIds
    BY <1>3, CreateEffect DEF StartFetchOneFeed, Kinds
  <2>2. \A k \in JobIds : k # nextJob => run'[k].pc = run[k].pc
    BY <1>3, <2>1 DEF StartFetchOneFeed, IInv, TypeOK
  <2>3. QED
    BY <1>1, <2>1, <2>2 DEF Kinds
<1>4. ASSUME NEW j \in JobIds, Step(j)
      PROVE  /\ nextJob <= nextJob'
             /\ \A k \in JobIds : k < nextJob =>
                  /\ job'[k].user = job[k].user
                  /\ Busy(k)' => Busy(k)
             /\ \A k \in JobIds : run'[k].pc \in Fetching => k \in tracked'
  <2>0. run[j] \in Run
    BY DEF IInv, TypeOK
  <2>1. /\ \A k \in JobIds : k # j => run'[k] = run[k]
        /\ Busy(j)' => Busy(j)
        /\ run'[j].pc \in Fetching => run[j].pc \in Fetching
    <3>1. CASE StartPass(j) \/ MarkRunning(j) \/ Resume(j) \/ JoinTracks(j)
      BY <3>1, <2>0 DEF StartPass, MarkRunning, Resume, JoinTracks, Busy, Working,
                        Fetching, IInv, TypeOK, Run
    <3>2. CASE Rerun(j) \/ FinishRun(j) \/ Exit(j)
      BY <3>2, <2>0 DEF Rerun, FinishRun, Exit, Busy, Working, Fetching, IInv,
                        TypeOK, Run, IdleRun
    <3>3. CASE FetchRunning(j) \/ FetchEnds(j)
      BY <3>3, <2>0 DEF FetchRunning, FetchEnds, Busy, Working, Fetching, IInv,
                        TypeOK, Run
    <3>4. ASSUME NEW c \in Collections, Reconcile(j, c)
          PROVE  /\ \A k \in JobIds : k # j => run'[k] = run[k]
                 /\ Busy(j)' => Busy(j)
                 /\ run'[j].pc \in Fetching => run[j].pc \in Fetching
      BY <3>4, <2>0 DEF Reconcile, Busy, Working, Fetching, IInv, TypeOK, Run
    <3>5. QED
      BY <1>4, <3>1, <3>2, <3>3, <3>4 DEF Step
  <2>2. /\ nextJob' = nextJob /\ tracked' = tracked
        /\ \A k \in JobIds : job'[k].user = job[k].user
    <3>1. CASE \E s : transition(j, s)
      <4>1. PICK s : transition(j, s)
        BY <3>1
      <4>2. QED
        BY <4>1, StatusEffect DEF transition, IInv
    <3>2. CASE UNCHANGED trackerVars
      BY <3>2 DEF trackerVars
    <3>3. QED
      BY <1>4, <3>1, <3>2 DEF Step, StartPass, MarkRunning, Resume, Reconcile,
         JoinTracks, Rerun, FinishRun, Exit, FetchRunning, FetchEnds
  <2>3. QED
    BY <1>0, <2>1, <2>2 DEF PageInv, Busy
<1>5. CASE GC
  <2>1. PICK old \in SUBSET collectable : tracked' = tracked \ old
    BY <1>5 DEF GC
  <2>2. UNCHANGED <<job, nextJob, run>>
    BY <1>5 DEF GC, engineVars
  <2>3. \A j \in JobIds : run[j].pc \in Fetching => j \notin old
    BY DEF collectable, IInv, RunsAreActive, Active, Finished
  <2>4. QED
    BY <1>0, <2>1, <2>2, <2>3 DEF PageInv, Busy
<1>6. CASE Cancel \/ ShutdownReturns
  <2>1. UNCHANGED <<job, tracked, nextJob, run>>
    BY <1>6 DEF Cancel, ShutdownReturns, trackerVars, engineVars
  <2>2. QED
    BY <1>0, <2>1 DEF PageInv, Busy
<1>7. QED
  BY <1>2, <1>3, <1>4, <1>5, <1>6 DEF Next, Trigger

LEMMA AsksInv ==
  ASSUME IInv, PageInv, Asks
  PROVE  PageInv'
<1>1. nextJob \in 1..(MaxJobs + 1) /\ nextJob \in Nat
  BY SyncAssumption DEF IInv, TypeOK
<1>2. page' = [pc |-> "asked", since |-> nextJob,
               final |-> (ActiveJobs(Reader) = {}), listed |-> FALSE,
               missed |-> FALSE]
  BY DEF Asks, Read, SampleFirst, IdlePage
<1>3. page' \in Page
  BY <1>1, <1>2 DEF Page
<1>4. UNCHANGED <<job, tracked, nextJob, run>>
  BY DEF Asks, vars
<1>5. page'.final => \A j \in JobIds : job[j].user = Reader => ~Busy(j)
  BY <1>2, NoneActive
<1>6. page'.since <= nextJob /\ ~page'.missed
  BY <1>1, <1>2
<1>7. QED
  BY <1>3, <1>4, <1>5, <1>6 DEF PageInv, Busy

LEMMA AnswersInv ==
  ASSUME IInv, PageInv, Answers
  PROVE  PageInv'
<1>1. UNCHANGED <<job, tracked, nextJob, run>>
  BY DEF Answers, vars
<1>2. \/ page' = IdlePage
      \/ page' = [page EXCEPT !.pc = "answered", !.listed = TRUE]
  BY DEF Answers, Read, SampleFirst
<1>3. CASE page' = IdlePage
  <2>1. /\ page' \in Page /\ ~page'.final /\ ~page'.missed
        /\ page'.since <= nextJob
    BY <1>3, SyncAssumption DEF IdlePage, Page, IInv, TypeOK
  <2>2. QED
    BY <2>1, <1>1 DEF PageInv, Busy
<1>4. CASE page' = [page EXCEPT !.pc = "answered", !.listed = TRUE]
  <2>1. /\ page' \in Page /\ page.pc = "asked" /\ page'.since = page.since
        /\ page'.final = page.final /\ page'.missed = page.missed
    BY <1>4 DEF Answers, PageInv, Page
  <2>2. QED
    BY <2>1, <1>1 DEF PageInv, Busy
<1>5. QED
  BY <1>2, <1>3, <1>4

LEMMA WritesInv ==
  ASSUME IInv, PageInv, NEW j \in JobIds, Writes(j)
  PROVE  PageInv'
<1> DEFINE miss == page.missed \/ (page.listed /\ j < page.since
                                               /\ job[j].user = Reader)
<1>1. UNCHANGED <<job, tracked, nextJob, run>> /\ Busy(j)
  BY DEF Writes, vars, Busy, Working, Fetching
<1>2. page' = [page EXCEPT !.missed = miss] /\ miss \in BOOLEAN
  BY DEF Writes, PageInv, Page
<1> HIDE DEF miss
<1>3. /\ page' \in Page /\ page'.pc = page.pc /\ page'.since = page.since
      /\ page'.final = page.final /\ page'.missed = miss
  BY <1>2 DEF PageInv, Page
<1>4. miss => ~page.final
  BY <1>1 DEF PageInv, miss
<1>5. QED
  BY <1>1, <1>3, <1>4 DEF PageInv, Busy

LEMMA PageInvInductive == IInv /\ PageInv /\ [PageNext]_pageVars => PageInv'
<1> SUFFICES ASSUME IInv, PageInv, [PageNext]_pageVars PROVE PageInv'
  OBVIOUS
<1>1. CASE Next /\ UNCHANGED page
  <2>1. \A j \in JobIds : /\ j \in Nat /\ page.since \in Nat
                          /\ nextJob \in Nat /\ nextJob' \in Nat
    BY PageStepIsEngineStep, IInvInductive, SyncAssumption
       DEF IInv, TypeOK, JobIds, PageInv, Page
  <2>2. nextJob \in Nat /\ nextJob' \in Nat /\ page.since \in Nat
    BY PageStepIsEngineStep, IInvInductive, SyncAssumption
       DEF IInv, TypeOK, PageInv, Page
  <2>3. \A j \in JobIds : j < page.since => j < nextJob
    BY <2>1, <2>2 DEF PageInv
  <2>4. /\ nextJob <= nextJob'
        /\ \A j \in JobIds : j < nextJob =>
             /\ job'[j].user = job[j].user
             /\ Busy(j)' => Busy(j)
        /\ \A j \in JobIds : run'[j].pc \in Fetching => j \in tracked'
    BY <1>1, EngineKeeps
  <2>5. QED
    BY <1>1, <2>2, <2>3, <2>4 DEF PageInv
<1>2. CASE Asks
  BY <1>2, AsksInv
<1>3. CASE Answers
  BY <1>3, AnswersInv
<1>4. ASSUME NEW j \in JobIds, Writes(j)
      PROVE  PageInv'
  BY <1>4, WritesInv
<1>5. CASE UNCHANGED pageVars
  BY <1>5 DEF pageVars, vars, PageInv, Busy
<1>6. QED
  BY <1>1, <1>2, <1>3, <1>4, <1>5 DEF PageNext

(* A digest page that says no job is active has read every entry that the  *)
(* jobs of before the request bring (api/digest.go samples the tracker     *)
(* before it lists).                                                       *)
THEOREM FinalPagesAreComplete == PageSpec => []FinalPageIsComplete
<1>1. PageInv => FinalPageIsComplete
  BY DEF PageInv, FinalPageIsComplete
<1>2. QED
  BY <1>1, PageInvInit, PageInvInductive, PageInductive, PTL DEF PageSpec
=============================================================================
