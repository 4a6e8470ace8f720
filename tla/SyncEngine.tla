----------------------------- MODULE SyncEngine -----------------------------
(***************************************************************************)
(* The user sync engine (internal/sync/syncuser.go, internal/sync/sync.go) *)
(* together with the in-memory job tracker it reports to                   *)
(* (internal/jobs/jobs.go).                                                *)
(*                                                                         *)
(* A trigger (login, digest refresh, a failed mirror write) calls          *)
(* SyncUser.  At most one goroutine per user runs passes; a trigger that   *)
(* finds one active is coalesced into it and may ask for another pass.     *)
(* Each pass resumes the session and reconciles three collections; the     *)
(* job it reports is done only with the commit proof of all three.         *)
(*                                                                         *)
(* runMu guards `active` and the run records; the tracker has a mutex of   *)
(* its own.  One action is one critical section of either mutex, or one    *)
(* network or database outcome of the goroutine between them.              *)
(***************************************************************************)
EXTENDS Naturals, FiniteSets

CONSTANTS
    Users,        \* account DIDs
    Sessions,     \* session ids; a user may sign in from several devices
    NoSession,    \* the empty session id, "" in the code
    MaxJobs,      \* bound: jobs created in one behaviour
    MaxReruns     \* bound: times a trigger makes a run plan another pass

ASSUME SyncAssumption ==
    /\ Users # {}
    /\ NoSession \notin Sessions
    /\ MaxJobs \in Nat
    /\ MaxReruns \in Nat

Collections == {"rss", "standardfeed", "saves"}
Kinds == {"sync_user", "fetch_one_feed"}
Active == {"pending", "running"}
Finished == {"done", "failed"}

JobIds == 1..MaxJobs     \* ULIDs: a later job has the larger id
None == 0                \* a nil *Job or *userRun

VARIABLES
    job,           \* every job object ever allocated
    tracked,       \* the ids in Tracker.jobs, the map GC deletes from
    nextJob,       \* the next id the monotonic entropy yields
    latestSync,    \* Tracker.latestSync
    syncFailures,  \* Tracker.syncFailures
    active,        \* Engine.active: user -> the id of its userRun
    run,           \* the goroutines, by the id of the job each works on
    shutdown,      \* the orchestrator's parent context and Shutdown's result
    owed,          \* history: accepted manual triggers no pass has followed yet
    latest,        \* history: the session of the last trigger into the run
    reruns         \* counter for MaxReruns

engineVars == <<active, run, owed, latest, reruns>>
trackerVars == <<job, tracked, nextJob, latestSync, syncFailures>>
vars == <<job, tracked, nextJob, latestSync, syncFailures, active, run,
          shutdown, owed, latest, reruns>>

Job == [user : Users, kind : Kinds, status : Active \cup Finished]
NoJob == [user |-> CHOOSE u \in Users : TRUE, kind |-> "fetch_one_feed",
          status |-> "failed"]

(* Where a goroutine stands.  "looping" is the top of run's for loop,      *)
(* "resuming" and "syncing" the two halves of a pass, "deciding" the       *)
(* critical section after it; "fetching" is a StartFetchOneFeed goroutine. *)
Working == {"looping", "marking", "resuming", "syncing", "deciding"}
Fetching == {"fetchStarting", "fetching"}
PCs == {"idle"} \cup Working \cup Fetching \cup {"exiting", "exited"}

Run == [pc : PCs,
        sessionID : Sessions \cup {NoSession},
        passSessionID : Sessions \cup {NoSession},
        rerun : BOOLEAN,
        receipt : SUBSET Collections,   \* passes whose transaction committed
        failed : SUBSET Collections]    \* passes that returned an error
IdleRun == [pc |-> "idle", sessionID |-> NoSession, passSessionID |-> NoSession,
            rerun |-> FALSE, receipt |-> {}, failed |-> {}]

TypeOK ==
    /\ job \in [JobIds -> Job]
    /\ tracked \in SUBSET JobIds
    /\ nextJob \in 1..(MaxJobs + 1)
    /\ latestSync \in [Users -> JobIds \cup {None}]
    /\ syncFailures \in [Users -> JobIds \cup {None}]
    /\ active \in [Users -> JobIds \cup {None}]
    /\ run \in [JobIds -> Run]
    /\ shutdown \in {"serving", "cancelled", "joined", "timedOut"}
    /\ owed \in [Users -> BOOLEAN]
    /\ latest \in [Users -> Sessions \cup {NoSession}]
    /\ reruns \in 0..MaxReruns

Init ==
    /\ job = [j \in JobIds |-> NoJob]
    /\ tracked = {}
    /\ nextJob = 1
    /\ latestSync = [u \in Users |-> None]
    /\ syncFailures = [u \in Users |-> None]
    /\ active = [u \in Users |-> None]
    /\ run = [j \in JobIds |-> IdleRun]
    /\ shutdown = "serving"
    /\ owed = [u \in Users |-> FALSE]
    /\ latest = [u \in Users |-> NoSession]
    /\ reruns = 0

-----------------------------------------------------------------------------
(* The tracker.                                                            *)

(* StartedAt is taken with the id under one lock, so ids order jobs the    *)
(* way jobIsNewer does; every id is newer than nil.                        *)
jobIsNewer(j, current) == j > current

(* trackSyncLocked after job j of user u took status s.                    *)
trackSyncLocked(j, u, kind, s) ==
    IF kind = "sync_user"
    THEN /\ latestSync' = IF jobIsNewer(j, latestSync[u])
                          THEN [latestSync EXCEPT ![u] = j] ELSE latestSync
         /\ syncFailures' =
                CASE s = "failed" /\ jobIsNewer(j, syncFailures[u])
                        -> [syncFailures EXCEPT ![u] = j]
                  [] s = "done" /\ jobIsNewer(j, syncFailures[u])
                        -> [syncFailures EXCEPT ![u] = None]
                  [] OTHER -> syncFailures
    ELSE UNCHANGED <<latestSync, syncFailures>>

Create(kind, u) ==
    /\ nextJob <= MaxJobs
    /\ job' = [job EXCEPT ![nextJob] =
                  [user |-> u, kind |-> kind, status |-> "pending"]]
    /\ tracked' = tracked \cup {nextJob}
    /\ nextJob' = nextJob + 1
    /\ trackSyncLocked(nextJob, u, kind, "pending")

(* SetRunning, SetDone and SetFailed: a job GC dropped is left alone.      *)
transition(j, s) ==
    /\ UNCHANGED <<tracked, nextJob>>
    /\ IF j \in tracked
       THEN /\ job' = [job EXCEPT ![j].status = s]
            /\ trackSyncLocked(j, job[j].user, job[j].kind, s)
       ELSE UNCHANGED <<job, latestSync, syncFailures>>

(* gcLocked drops finished jobs older than the retention window.  Time is  *)
(* not modelled: any set of finished jobs may have outlived the window.    *)
(* Mutant: a job that has not finished counts as old.                      *)
collectableUnfinished == tracked
collectable == {j \in tracked : job[j].status \in Finished}

GC ==
    /\ \E old \in SUBSET collectable :
         /\ old # {}
         /\ tracked' = tracked \ old
         /\ latestSync' = [u \in Users |->
                             IF latestSync[u] \in old THEN None ELSE latestSync[u]]
    /\ UNCHANGED <<job, nextJob, syncFailures, shutdown, engineVars>>

(* ActiveForUser and LatestSyncForUser are what the refresh pill and the   *)
(* Sources page poll.  The first answers with the newest of these jobs, a  *)
(* fetch begun later than the run among them, or with none: only whether   *)
(* there is one decides what the pill and the digest show.                 *)
ActiveJobs(u) ==
    {j \in tracked : job[j].user = u /\ job[j].status \in Active}

(* Mutant: the newest job alone answers, so GC forgets a failure.          *)
LatestSyncNoRetention(u) == latestSync[u]
LatestSyncForUser(u) ==
    IF latestSync[u] # None /\ job[latestSync[u]].status \in Active
    THEN latestSync[u]
    ELSE IF syncFailures[u] # None THEN syncFailures[u] ELSE latestSync[u]

-----------------------------------------------------------------------------
(* The engine.                                                             *)

(* Does a trigger into run r need a pass after the current one?            *)
(* Mutants: manual triggers are taken for served; changed sessions are.    *)
needsPassLogin(r, s, manual) ==
    r.passSessionID # NoSession /\ r.sessionID # s /\ r.passSessionID # s
needsPassManual(r, s, manual) == r.passSessionID # NoSession /\ manual
needsPass(r, s, manual) ==
    /\ r.passSessionID # NoSession
    /\ \/ manual
       \/ r.sessionID # s /\ r.passSessionID # s

(* SyncUser finds a run of u: the trigger is folded into it.               *)
Coalesce(u, s, manual) ==
    LET j == active[u]
        r == run[j]
        again == needsPass(r, s, manual)
    IN  /\ j # None
        /\ again /\ ~r.rerun => reruns < MaxReruns
        /\ run' = [run EXCEPT ![j].sessionID = s,
                              ![j].rerun = r.rerun \/ again]
        /\ reruns' = IF again /\ ~r.rerun THEN reruns + 1 ELSE reruns
        /\ UNCHANGED <<trackerVars, active>>

(* The in-flight guard.  Mutant: it sees a run only once its pass began.   *)
noRunSeen(u) ==
    active[u] = None \/ run[active[u]].passSessionID = NoSession
noRun(u) == active[u] = None

(* SyncUser finds none: a job, a run and a goroutine, all under runMu.     *)
StartRun(u, s) ==
    /\ noRun(u)
    /\ Create("sync_user", u)
    /\ active' = [active EXCEPT ![u] = nextJob]
    /\ run' = [run EXCEPT ![nextJob] =
                  [IdleRun EXCEPT !.pc = "looping", !.sessionID = s]]
    /\ UNCHANGED reruns

SyncUser(u, s, manual) ==
    /\ Coalesce(u, s, manual) \/ StartRun(u, s)
    /\ owed' = [owed EXCEPT ![u] = owed[u] \/ manual \/ active[u] = None]
    /\ latest' = [latest EXCEPT ![u] = s]
    /\ UNCHANGED shutdown

(* The top of run's loop fixes the session of the pass, whose receipt      *)
(* starts empty.                                                           *)
StartPass(j) ==
    /\ run[j].pc = "looping"
    /\ run' = [run EXCEPT ![j].pc = "marking",
                          ![j].passSessionID = run[j].sessionID,
                          ![j].receipt = {}, ![j].failed = {}]
    /\ owed' = [owed EXCEPT ![job[j].user] = FALSE]
    /\ UNCHANGED <<trackerVars, active, shutdown, latest, reruns>>

MarkRunning(j) ==
    /\ run[j].pc = "marking"
    /\ transition(j, "running")
    /\ run' = [run EXCEPT ![j].pc = "resuming"]
    /\ UNCHANGED <<active, shutdown, owed, latest, reruns>>

(* resumeAndRefresh, then the Tier-1 snapshot: either failing ends the     *)
(* pass with an error and an empty receipt.                                *)
Resume(j) ==
    /\ run[j].pc = "resuming"
    /\ \/ run' = [run EXCEPT ![j].pc = "syncing"]
       \/ run' = [run EXCEPT ![j].pc = "deciding", ![j].failed = Collections]
    /\ UNCHANGED <<trackerVars, active, shutdown, owed, latest, reruns>>

(* One collection's listing or transaction comes to its end.  The two      *)
(* subscription passes share the listings, and run one after the other.    *)
Reconcile(j, c) ==
    /\ run[j].pc = "syncing"
    /\ c \notin run[j].receipt \cup run[j].failed
    /\ c = "standardfeed" => "rss" \in run[j].receipt \cup run[j].failed
    /\ \/ run' = [run EXCEPT ![j].receipt = @ \cup {c}]
       \/ run' = [run EXCEPT ![j].failed = @ \cup {c}]
    /\ UNCHANGED <<trackerVars, active, shutdown, owed, latest, reruns>>

(* Fan-in and the top-up fetch, whose failures are only logged.            *)
JoinTracks(j) ==
    /\ run[j].pc = "syncing"
    /\ run[j].receipt \cup run[j].failed = Collections
    /\ run' = [run EXCEPT ![j].pc = "deciding"]
    /\ UNCHANGED <<trackerVars, active, shutdown, owed, latest, reruns>>

parentCancelled == shutdown # "serving"

(* run starts over when a trigger asked for it.  Mutants: the request is   *)
(* not cleared; the job is finished before the loop goes round.            *)
RerunForever(j) ==
    /\ run[j].pc = "deciding"
    /\ run[j].rerun /\ ~parentCancelled
    /\ run' = [run EXCEPT ![j].pc = "looping", ![j].passSessionID = NoSession]
    /\ UNCHANGED <<trackerVars, active, shutdown, owed, latest, reruns>>
RerunFinished(j) ==
    /\ run[j].pc = "deciding"
    /\ run[j].rerun /\ ~parentCancelled
    /\ transition(j, "failed")
    /\ run' = [run EXCEPT ![j].pc = "looping", ![j].rerun = FALSE,
                          ![j].passSessionID = NoSession]
    /\ UNCHANGED <<active, shutdown, owed, latest, reruns>>
Rerun(j) ==
    /\ run[j].pc = "deciding"
    /\ run[j].rerun /\ ~parentCancelled
    /\ run' = [run EXCEPT ![j].pc = "looping", ![j].rerun = FALSE,
                          ![j].passSessionID = NoSession]
    /\ UNCHANGED <<trackerVars, active, shutdown, owed, latest, reruns>>

(* The status finishSync gives.  Mutant: one that no client knows.         *)
finishStatusUnknown(r) == IF r.failed # {} THEN "error" ELSE "done"
finishStatus(r) ==
    IF r.failed # {} \/ r.receipt # Collections THEN "failed" ELSE "done"

(* finishSync and the removal from active, in the same critical section.   *)
(* Mutant: a pass without errors ends the run whatever a trigger asked.    *)
FinishRunEarly(j) ==
    /\ run[j].pc = "deciding"
    /\ run[j].failed = {} \/ ~run[j].rerun \/ parentCancelled
    /\ transition(j, finishStatus(run[j]))
    /\ active' = [active EXCEPT ![job[j].user] = None]
    /\ run' = [run EXCEPT ![j] = [IdleRun EXCEPT !.pc = "exiting"]]
    /\ latest' = [latest EXCEPT ![job[j].user] = NoSession]
    /\ UNCHANGED <<shutdown, owed, reruns>>
FinishRun(j) ==
    /\ run[j].pc = "deciding"
    /\ ~run[j].rerun \/ parentCancelled
    /\ transition(j, finishStatus(run[j]))
    /\ active' = [active EXCEPT ![job[j].user] = None]
    /\ run' = [run EXCEPT ![j] = [IdleRun EXCEPT !.pc = "exiting"]]
    /\ latest' = [latest EXCEPT ![job[j].user] = NoSession]
    /\ UNCHANGED <<shutdown, owed, reruns>>

(* The deferred wg.Done of any goroutine.                                  *)
Exit(j) ==
    /\ run[j].pc = "exiting"
    /\ run' = [run EXCEPT ![j].pc = "exited"]
    /\ UNCHANGED <<trackerVars, active, shutdown, owed, latest, reruns>>

-----------------------------------------------------------------------------
(* The orchestrator.                                                       *)

StartFetchOneFeed(u) ==
    /\ Create("fetch_one_feed", u)
    /\ run' = [run EXCEPT ![nextJob] = [IdleRun EXCEPT !.pc = "fetchStarting"]]
    /\ UNCHANGED <<active, shutdown, owed, latest, reruns>>

FetchRunning(j) ==
    /\ run[j].pc = "fetchStarting"
    /\ transition(j, "running")
    /\ run' = [run EXCEPT ![j].pc = "fetching"]
    /\ UNCHANGED <<active, shutdown, owed, latest, reruns>>

FetchEnds(j) ==
    /\ run[j].pc = "fetching"
    /\ \E s \in Finished : transition(j, s)
    /\ run' = [run EXCEPT ![j].pc = "exiting"]
    /\ UNCHANGED <<active, shutdown, owed, latest, reruns>>

(* The WaitGroup counts the goroutines not yet exited.                     *)
InFlight == {j \in JobIds : run[j].pc \notin {"idle", "exited"}}

Cancel ==
    /\ shutdown = "serving"
    /\ shutdown' = "cancelled"
    /\ UNCHANGED <<trackerVars, engineVars>>

ShutdownReturns ==
    /\ shutdown = "cancelled"
    /\ \/ InFlight = {} /\ shutdown' = "joined"
       \/ shutdown' = "timedOut"
    /\ UNCHANGED <<trackerVars, engineVars>>

-----------------------------------------------------------------------------
(* The HTTP server stops accepting before cleanup runs, but a handler that *)
(* outlives its Shutdown deadline can still trigger, after the join too.   *)
(* Then the database closes, and what such a goroutine does is not         *)
(* modelled.                                                               *)
Trigger ==
    /\ shutdown \in {"serving", "cancelled"}
    /\ \E u \in Users :
         \/ \E s \in Sessions, manual \in BOOLEAN : SyncUser(u, s, manual)
         \/ StartFetchOneFeed(u)

Step(j) ==
    \/ StartPass(j)
    \/ MarkRunning(j)
    \/ Resume(j)
    \/ \E c \in Collections : Reconcile(j, c)
    \/ JoinTracks(j)
    \/ Rerun(j)
    \/ FinishRun(j)
    \/ Exit(j)
    \/ FetchRunning(j)
    \/ FetchEnds(j)

Next ==
    \/ Trigger
    \/ \E j \in JobIds : Step(j)
    \/ GC
    \/ Cancel
    \/ ShutdownReturns

Spec == Init /\ [][Next]_vars

(* A goroutine is scheduled and every call it makes ends: a pass runs      *)
(* under a five-minute context, a fetch under the fetcher's own timeouts.  *)
Fairness == \A j \in JobIds : WF_vars(Step(j))
FairSpec == Spec /\ Fairness

-----------------------------------------------------------------------------
(* Properties.                                                             *)

(* The in-flight guard (SyncUser): a user has one sync goroutine at most,  *)
(* it is the one in the active map, and no entry outlives its goroutine.   *)
OneRunPerUser ==
    \A u \in Users :
        {j \in JobIds : run[j].pc \in Working /\ job[j].user = u}
            = IF active[u] = None THEN {} ELSE {active[u]}

(* While a user's goroutine works, between passes too, its job is active,  *)
(* so the refresh pill (ActiveForUser) is lit, by it or by a later fetch,  *)
(* and the Sources page (LatestSyncForUser) reports exactly this job: GC,  *)
(* an older failure or another job cannot hide it.                         *)
PillCoversWork ==
    \A u \in Users : active[u] # None =>
        /\ active[u] \in ActiveJobs(u)
        /\ LatestSyncForUser(u) = active[u]

(* No trigger is lost: once a user has no active run, a pass began after   *)
(* every manual trigger and after every trigger that started a run.  Only  *)
(* shutdown may drop one.                                                  *)
NoLostTrigger ==
    \A u \in Users : owed[u] =>
        \/ active[u] # None
        \/ parentCancelled

(* A login on another device while a pass runs makes the next pass use     *)
(* that device's session: the pass a run ends with used the session of the *)
(* user's last trigger, unless shutdown cut the run short.                 *)
LastSessionServed ==
    \A u \in Users : active[u] # None =>
        \/ run[active[u]].passSessionID \in {NoSession, latest[u]}
        \/ run[active[u]].rerun

(* The sync jobs of u that reached an end.                                 *)
FinishedSyncs(u) ==
    {j \in JobIds : /\ j < nextJob
                    /\ job[j].user = u
                    /\ job[j].kind = "sync_user"
                    /\ job[j].status \in Finished}

(* An unresolved failure outlives normal job GC: when no run is active,    *)
(* LatestSyncForUser reports a failure exactly when the user's newest      *)
(* finished sync failed, however many jobs GC has dropped since.           *)
FailureRetained ==
    \A u \in Users : active[u] = None =>
        \A newest \in FinishedSyncs(u) :
            (\A k \in FinishedSyncs(u) : k <= newest) =>
                LET reported == LatestSyncForUser(u)
                IN  (reported # None /\ job[reported].status = "failed")
                        <=> job[newest].status = "failed"

(* finishSync: a job turns done only when each collection committed in a   *)
(* pass that began after the last manual trigger folded into it.           *)
DoneMeansFresh ==
    [][\A j \in JobIds :
         /\ j < nextJob
         /\ job[j].kind = "sync_user" /\ job[j].status = "running"
         /\ job'[j].status = "done"
         => /\ run[j].receipt = Collections
            /\ run[j].failed = {}
            /\ owed[job[j].user] => parentCancelled]_vars

(* A job that finished stays finished: no late SetRunning revives it.      *)
FinishedIsFinal ==
    [][\A j \in JobIds :
         j < nextJob /\ job[j].status \in Finished
            => job'[j].status = job[j].status]_vars

-----------------------------------------------------------------------------
(* The inductive invariant behind the safety properties.                   *)

(* Ids from nextJob on are untouched.                                      *)
FreshIds ==
    /\ \A j \in JobIds : j >= nextJob => run[j] = IdleRun /\ j \notin tracked
    /\ \A u \in Users : /\ latestSync[u] < nextJob
                        /\ syncFailures[u] < nextJob
                        /\ active[u] < nextJob

SyncJobs(u) == {j \in JobIds : /\ j < nextJob
                               /\ job[j].user = u
                               /\ job[j].kind = "sync_user"}

(* A working goroutine is its user's active run, and its job is alive.     *)
RunsAreActive ==
    /\ \A j \in JobIds : run[j].pc \in Working => active[job[j].user] = j
    /\ \A j \in JobIds :
         run[j].pc \in Fetching => /\ job[j].kind = "fetch_one_feed"
                                   /\ job[j].status \in Active
    /\ \A u \in Users : active[u] # None =>
         /\ active[u] \in SyncJobs(u)
         /\ active[u] \in tracked
         /\ run[active[u]].pc \in Working
         /\ job[active[u]].status \in Active
         /\ latestSync[u] = active[u]

(* The session of a pass is set exactly while the pass runs, and a trigger *)
(* that is owed a pass has one ahead of it.                                *)
PassScheduled(u) ==
    /\ active[u] # None =>
         /\ run[active[u]].sessionID \in Sessions
         /\ run[active[u]].passSessionID = NoSession
                <=> run[active[u]].pc = "looping"
         /\ run[active[u]].sessionID = latest[u]
         /\ owed[u] => \/ run[active[u]].passSessionID = NoSession
                       \/ run[active[u]].rerun
    /\ owed[u] => active[u] # None \/ parentCancelled
PassesAreScheduled == \A u \in Users : PassScheduled(u)

(* latestSync is the newest sync job unless GC dropped that; syncFailures  *)
(* is the newest finished one if that failed.                              *)
FailureTracked(u) ==
    /\ latestSync[u] # None =>
         /\ latestSync[u] \in SyncJobs(u)
         /\ \A k \in SyncJobs(u) : k <= latestSync[u]
    /\ \A k \in SyncJobs(u) : job[k].status \in Active => active[u] = k
    /\ syncFailures[u] # None =>
         /\ syncFailures[u] \in FinishedSyncs(u)
         /\ job[syncFailures[u]].status = "failed"
         /\ \A k \in FinishedSyncs(u) : k <= syncFailures[u]
    /\ syncFailures[u] = None =>
         \A k \in FinishedSyncs(u) : job[k].status = "failed" =>
             \E d \in FinishedSyncs(u) : d > k /\ job[d].status = "done"
FailuresAreTracked == \A u \in Users : FailureTracked(u)

IInv ==
    /\ TypeOK
    /\ FreshIds
    /\ RunsAreActive
    /\ PassesAreScheduled
    /\ LastSessionServed
    /\ FailuresAreTracked
=============================================================================
