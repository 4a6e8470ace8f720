---------------------------- MODULE ServerProofs ----------------------------
(***************************************************************************)
(* Proofs about Server, for every set of requests, jobs, loops and         *)
(* connections: a database that is closed in time is closed under no       *)
(* request, job or loop that writes to it.                                 *)
(* And about Sessions, which the server's requests and passes share, for   *)
(* every set of them: what the session's lock protects, and that a pass    *)
(* alone may go around it.                                                 *)
(***************************************************************************)
EXTENDS Server, Sessions, TLAPS

-----------------------------------------------------------------------------
(* The process.                                                            *)

LEMMA InitType == ServerInit => ServerTypeOK
  BY DEF ServerInit, ServerTypeOK

LEMMA WorkType ==
  ASSUME ServerTypeOK,
         \/ \E h \in Handlers : Request(h) \/ Answer(h)
         \/ \E j \in Jobs : StartJob(j) \/ FinishJob(j)
         \/ \E l \in Loops : Tick(l) \/ Worked(l) \/ Returns(l)
         \/ \E c \in Conns : Accept(c) \/ Data(c) \/ Stored(c) \/ Hangup(c)
  PROVE  ServerTypeOK'
<1>1. ASSUME NEW h \in Handlers, Request(h) \/ Answer(h)
      PROVE  ServerTypeOK'
  <2>1. CASE Request(h)
    BY <2>1 DEF ServerTypeOK, Request, process, mail, certificate
  <2>2. CASE Answer(h)
    BY <2>2 DEF ServerTypeOK, Answer, process, mail, certificate
  <2>3. QED
    BY <1>1, <2>1, <2>2
<1>2. ASSUME NEW j \in Jobs, StartJob(j) \/ FinishJob(j)
      PROVE  ServerTypeOK'
  <2>1. CASE StartJob(j)
    BY <2>1 DEF ServerTypeOK, StartJob, process, mail, certificate
  <2>2. CASE FinishJob(j)
    BY <2>2 DEF ServerTypeOK, FinishJob, process, mail, certificate
  <2>3. QED
    BY <1>2, <2>1, <2>2
<1>3. ASSUME NEW l \in Loops, Tick(l) \/ Worked(l) \/ Returns(l)
      PROVE  ServerTypeOK'
  <2>1. CASE Tick(l)
    BY <2>1 DEF ServerTypeOK, Tick, process, mail, certificate
  <2>2. CASE Worked(l)
    BY <2>2 DEF ServerTypeOK, Worked, process, mail, certificate
  <2>3. CASE Returns(l)
    BY <2>3 DEF ServerTypeOK, Returns, process, mail, certificate
  <2>4. QED
    BY <1>3, <2>1, <2>2, <2>3
<1>4. ASSUME NEW c \in Conns, Accept(c) \/ Data(c) \/ Stored(c) \/ Hangup(c)
      PROVE  ServerTypeOK'
  <2>1. CASE Accept(c)
    BY <2>1 DEF ServerTypeOK, Accept, process, tasks, certificate
  <2>2. CASE Data(c)
    BY <2>2 DEF ServerTypeOK, Data, process, tasks, certificate
  <2>3. CASE Stored(c)
    BY <2>3 DEF ServerTypeOK, Stored, process, tasks, certificate
  <2>4. CASE Hangup(c)
    BY <2>4 DEF ServerTypeOK, Hangup, process, tasks, certificate
  <2>5. QED
    BY <1>4, <2>1, <2>2, <2>3, <2>4
<1>5. QED
  BY <1>1, <1>2, <1>3, <1>4

LEMMA CertificateType ==
  ASSUME ServerTypeOK,
         \/ HTTPReady \/ Ensure \/ Rotate \/ Certify
         \/ Retry \/ MaintainerReturns \/ Lapse
  PROVE  ServerTypeOK'
<1>1. CASE HTTPReady
  BY <1>1 DEF ServerTypeOK, HTTPReady, process, tasks, mail
<1>2. CASE Ensure
  BY <1>2 DEF ServerTypeOK, Ensure, process, tasks, mail
<1>3. CASE Rotate
  BY <1>3 DEF ServerTypeOK, Rotate, process, tasks, mail
<1>4. CASE Certify
  BY <1>4 DEF ServerTypeOK, Certify, process, tasks, mail
<1>5. CASE Retry
  BY <1>5 DEF ServerTypeOK, Retry, process, tasks, mail
<1>6. CASE MaintainerReturns
  BY <1>6 DEF ServerTypeOK, MaintainerReturns, process, tasks, mail
<1>7. CASE Lapse
  BY <1>7 DEF ServerTypeOK, Lapse, process, tasks, mail
<1>8. QED
  BY <1>1, <1>2, <1>3, <1>4, <1>5, <1>6, <1>7

LEMMA CleanupType ==
  ASSUME ServerTypeOK,
         \/ Drained \/ CertificatesDone \/ CloseSMTP \/ ProcessorDone
         \/ OrchestratorDone \/ CloseDatabase
  PROVE  ServerTypeOK'
<1>1. CASE Drained
  BY <1>1 DEF ServerTypeOK, Drained, tasks, mail, certificate
<1>2. CASE CertificatesDone
  BY <1>2 DEF ServerTypeOK, CertificatesDone, tasks, mail, certificate
<1>3. CASE CloseSMTP
  BY <1>3 DEF ServerTypeOK, CloseSMTP, tasks, mail, certificate
<1>4. CASE ProcessorDone
  BY <1>4 DEF ServerTypeOK, ProcessorDone, tasks, mail, certificate
<1>5. CASE OrchestratorDone
  BY <1>5 DEF ServerTypeOK, OrchestratorDone, tasks, mail, certificate
<1>6. CASE CloseDatabase
  BY <1>6 DEF ServerTypeOK, CloseDatabase, tasks, mail, certificate
<1>7. QED
  BY <1>1, <1>2, <1>3, <1>4, <1>5, <1>6

LEMMA ShutdownType ==
  ASSUME ServerTypeOK,
         \/ Signal \/ Overdue \/ ServerCrash \/ Restart
  PROVE  ServerTypeOK'
<1>1. CASE Signal
  BY <1>1 DEF ServerTypeOK, Signal, tasks, mail, certificate
<1>2. CASE Overdue
  BY <1>2 DEF ServerTypeOK, Overdue, tasks, mail, certificate
<1>3. CASE ServerCrash
  BY <1>3 DEF ServerTypeOK, ServerCrash, tasks, mail, certificate
<1>4. CASE Restart
  BY <1>4 DEF ServerTypeOK, Restart, tasks, mail, certificate
<1>5. QED
  BY <1>1, <1>2, <1>3, <1>4

LEMMA TypeInductive == ServerTypeOK /\ [ServerNext]_serverVars => ServerTypeOK'
<1>1. CASE UNCHANGED serverVars
  BY <1>1 DEF ServerTypeOK, serverVars
<1>2. QED
  BY <1>1, WorkType, CertificateType, CleanupType, ShutdownType
     DEF ServerNext, Cleanup

THEOREM ServerTypeCorrect == ServerSpec => []ServerTypeOK
  BY InitType, TypeInductive, PTL DEF ServerSpec

-----------------------------------------------------------------------------
(* The order of the shutdown.                                              *)

(* What has ended by the time cleanup is at a phase, if it is in time.     *)
(* Requests end first, because they start jobs; the loops end only before  *)
(* the database closes, which is the last step.                            *)
InOrder ==
    /\ phase \in {"certificates", "smtp", "processor", "orchestrator", "database"}
         => handlers = {}
    /\ phase \in {"orchestrator", "database"} => loop[Processor] = "returned"
    /\ phase = "database" => jobs = {}

ShutdownInv ==
    /\ ServerTypeOK
    /\ db = "closed" => phase = "exited"
    /\ ~overdue => InOrder /\ ClosedMeansQuiet

LEMMA ShutdownInvInit == ServerInit => ShutdownInv
  BY InitType DEF ServerInit, ShutdownInv, InOrder, ClosedMeansQuiet

(* While a process is alive its database is open.                          *)
LEMMA AliveIsOpen ==
  ASSUME ShutdownInv, phase # "exited"
  PROVE  db = "open"
  BY DEF ShutdownInv, ServerTypeOK

LEMMA WorkInOrder ==
  ASSUME ShutdownInv, ServerTypeOK',
         \/ \E h \in Handlers : Request(h) \/ Answer(h)
         \/ \E j \in Jobs : StartJob(j) \/ FinishJob(j)
         \/ \E l \in Loops : Tick(l) \/ Worked(l) \/ Returns(l)
         \/ \E c \in Conns : Accept(c) \/ Data(c) \/ Stored(c) \/ Hangup(c)
  PROVE  ShutdownInv'
<1>1. phase # "exited" /\ UNCHANGED process
  BY DEF Request, Answer, StartJob, FinishJob, Tick, Worked, Returns,
         Accept, Data, Stored, Hangup
<1>2. db' = "open"
  BY <1>1, AliveIsOpen DEF process
<1>3. ~overdue => InOrder'
  <2>1. CASE \E h \in Handlers : Request(h) \/ Answer(h)
    BY <2>1 DEF ShutdownInv, InOrder, Request, Answer, process
  <2>2. CASE \E j \in Jobs : StartJob(j) \/ FinishJob(j)
    BY <2>2 DEF ShutdownInv, InOrder, StartJob, FinishJob, process
  <2>3. CASE \E l \in Loops : Tick(l) \/ Worked(l) \/ Returns(l)
    <3>1. PICK l \in Loops : Tick(l) \/ Worked(l) \/ Returns(l)
      BY <2>3
    <3>2. loop[l] # "returned" /\ \A k \in Loops : k # l => loop'[k] = loop[k]
      BY <3>1 DEF Tick, Worked, Returns, ServerTypeOK, ShutdownInv
    <3>3. loop[Processor] = "returned" => loop'[Processor] = "returned"
      BY <3>2 DEF Loops
    <3>4. UNCHANGED <<handlers, jobs, phase>>
      BY <3>1 DEF Tick, Worked, Returns, process
    <3>5. QED
      BY <3>3, <3>4 DEF ShutdownInv, InOrder
  <2>4. CASE \E c \in Conns : Accept(c) \/ Data(c) \/ Stored(c) \/ Hangup(c)
    BY <2>4 DEF ShutdownInv, InOrder, Accept, Data, Stored, Hangup, process, tasks
  <2>5. QED
    BY <2>1, <2>2, <2>3, <2>4
<1>4. QED
  BY <1>1, <1>2, <1>3 DEF ShutdownInv, ClosedMeansQuiet, process

LEMMA CertificateInOrder ==
  ASSUME ShutdownInv, ServerTypeOK',
         \/ HTTPReady \/ Ensure \/ Rotate \/ Certify \/ Retry
         \/ MaintainerReturns \/ Lapse \/ UNCHANGED serverVars
  PROVE  ShutdownInv'
<1>1. UNCHANGED <<phase, overdue, db, handlers, jobs, loop>>
  BY DEF HTTPReady, Ensure, Rotate, Certify, Retry, MaintainerReturns, Lapse,
         serverVars, process, tasks
<1>2. QED
  BY <1>1 DEF ShutdownInv, InOrder, ClosedMeansQuiet

LEMMA CleanupInOrder ==
  ASSUME ShutdownInv, ServerTypeOK', Cleanup
  PROVE  ShutdownInv'
<1>1. phase # "exited" /\ UNCHANGED <<overdue, handlers, jobs, loop>>
  BY DEF Cleanup, Drained, CertificatesDone, CloseSMTP, ProcessorDone,
         OrchestratorDone, CloseDatabase, tasks
<1>2. CASE Drained \/ CertificatesDone \/ CloseSMTP
  <2>1. db' = "open"
    BY <1>2, <1>1, AliveIsOpen DEF Drained, CertificatesDone, CloseSMTP
  <2>2. ~overdue => InOrder'
    BY <1>1, <1>2 DEF ShutdownInv, InOrder, Drained, CertificatesDone, CloseSMTP
  <2>3. QED
    BY <1>1, <2>1, <2>2 DEF ShutdownInv, ClosedMeansQuiet
<1>3. CASE ProcessorDone \/ OrchestratorDone
  <2>1. db' = "open"
    BY <1>3, <1>1, AliveIsOpen DEF ProcessorDone, OrchestratorDone
  <2>2. ~overdue => InOrder'
    BY <1>1, <1>3 DEF ShutdownInv, InOrder, ProcessorDone, OrchestratorDone,
                      WaitOver
  <2>3. QED
    BY <1>1, <2>1, <2>2 DEF ShutdownInv, ClosedMeansQuiet
<1>4. CASE CloseDatabase
  <2>1. phase' = "exited"
    BY <1>4 DEF CloseDatabase
  <2>2. ~overdue => /\ handlers = {} /\ jobs = {}
                    /\ \A l \in Loops : loop[l] = "returned"
    BY <1>4 DEF ShutdownInv, InOrder, CloseDatabase, WorkersDone, Loops
  <2>3. QED
    BY <1>1, <2>1, <2>2 DEF ShutdownInv, InOrder, ClosedMeansQuiet
<1>5. QED
  BY <1>2, <1>3, <1>4 DEF Cleanup

LEMMA OtherInOrder ==
  ASSUME ShutdownInv, ServerTypeOK', Signal \/ Overdue \/ ServerCrash \/ Restart
  PROVE  ShutdownInv'
<1>1. CASE Signal
  BY <1>1, AliveIsOpen DEF Signal, ShutdownInv, InOrder, ClosedMeansQuiet
<1>2. CASE Overdue
  BY <1>2 DEF Overdue, ShutdownInv
<1>3. CASE ServerCrash
  BY <1>3, AliveIsOpen DEF ServerCrash, ShutdownInv, InOrder, ClosedMeansQuiet
<1>4. CASE Restart
  BY <1>4 DEF Restart, ShutdownInv, InOrder, ClosedMeansQuiet
<1>5. QED
  BY <1>1, <1>2, <1>3, <1>4

LEMMA ShutdownInvInductive == ShutdownInv /\ [ServerNext]_serverVars => ShutdownInv'
<1> SUFFICES ASSUME ShutdownInv, [ServerNext]_serverVars PROVE ShutdownInv'
  OBVIOUS
<1>1. ServerTypeOK'
  BY TypeInductive DEF ShutdownInv
<1>2. QED
  BY <1>1, WorkInOrder, CertificateInOrder, CleanupInOrder, OtherInOrder DEF ServerNext

(* When the database is closed before the deadline, no request, job or     *)
(* loop is left that writes to it (cmd/api gracefulShutdown and the        *)
(* cleanup of server.NewServer).                                           *)
THEOREM ClosedInTimeIsQuiet == ServerSpec => []ClosedMeansQuiet
<1>1. ShutdownInv => ClosedMeansQuiet
  BY DEF ShutdownInv, ClosedMeansQuiet
<1>2. QED
  BY <1>1, ShutdownInvInit, ShutdownInvInductive, PTL DEF ServerSpec

-----------------------------------------------------------------------------
(* The sessions.                                                           *)

(* Past the lock.  A pass keeps it while it resumes, refreshes and         *)
(* persists the refresh; a request keeps it to the end.                    *)
Inside == {"resuming", "refreshing", "using", "persisting", "deleting"}

(* What a task does fits its kind, and its session was signed in.          *)
TaskFits(t) ==
    /\ task[t].pc # "idle" => /\ task[t].sid \in Sids
                              /\ issued[task[t].sid] # NoToken
                              /\ task[t].kind = "pass" <=> t = Pass
    /\ task[t].pc = "refreshing" => task[t].kind = "pass"
    /\ task[t].pc = "deleting" => task[t].kind = "logout"
    /\ task[t].pc \in {"using", "persisting"} => task[t].kind # "logout"
    /\ task[t].pc \in {"refreshing", "using", "persisting"}
         => task[t].copy # NoToken

(* Who is past the lock holds it, but for a pass that let go of it; and    *)
(* who holds it is past it.                                                *)
LockKept ==
    /\ \A t \in Tasks :
         /\ task[t].pc \in {"resuming", "refreshing", "deleting"}
              => holder[task[t].sid] = t
         /\ task[t].pc \in {"using", "persisting"} /\ t # Pass
              => holder[task[t].sid] = t
    /\ \A s \in Sids : holder[s] # None =>
         LET t == holder[s]
         IN  /\ task[t].sid = s
             /\ task[t].pc \in Inside
             /\ t = Pass => task[t].pc # "using"

(* The holder's copy is the token that is good, and the row has it too     *)
(* unless the holder is about to store it.                                 *)
TokensAgree ==
    \A s \in Sids \ strayed :
        /\ \A t \in Tasks :
             holder[s] = t /\ task[t].pc \in {"refreshing", "using", "persisting"}
                => task[t].copy = issued[s]
        /\ \/ row[s] \in {NoToken, issued[s]}
           \/ holder[s] # None /\ task[holder[s]].pc = "persisting"

(* A session nobody signed in has no row; a request that persists found    *)
(* one, which only another logout could have deleted.                      *)
RowsKnown ==
    /\ \A s \in Sids : issued[s] = NoToken => row[s] = NoToken
    /\ \A s \in signedOut : issued[s] # NoToken
    /\ \A t \in Requests :
         task[t].pc \in {"using", "persisting"} => row[task[t].sid] # NoToken

IInv ==
    /\ TypeOK
    /\ \A t \in Tasks : TaskFits(t)
    /\ LockKept
    /\ TokensAgree
    /\ RowsKnown

-----------------------------------------------------------------------------
LEMMA InitInv == Init => IInv
  BY SessionsAssumption
     DEF Init, IInv, TypeOK, TaskFits, LockKept, TokensAgree, RowsKnown,
         IdleTask, Task, Tasks, Tokens, NoToken, Inside

LEMMA LockSessionInv ==
  ASSUME IInv, NEW t \in Tasks, LockSession(t)
  PROVE  IInv'
<1> USE SessionsAssumption DEF Tasks, NoToken
<1>1. TypeOK'
  BY DEF IInv, TypeOK, TaskFits, Task, Tokens, LockSession, sidOf, holdsLock
<1>2. \A u \in Tasks : TaskFits(u)'
  BY DEF IInv, TypeOK, TaskFits, Task, Tokens, LockSession, sidOf, holdsLock
<1>3. LockKept'
  BY DEF IInv, TypeOK, TaskFits, LockKept, Task, Inside, LockSession, sidOf,
         holdsLock
<1>4. TokensAgree'
  BY DEF IInv, TypeOK, TaskFits, LockKept, TokensAgree, Task, Inside,
         LockSession, sidOf, holdsLock
<1>5. RowsKnown'
  BY DEF IInv, TypeOK, TaskFits, LockKept, RowsKnown, Task, Inside,
         LockSession, sidOf, holdsLock
<1>6. QED
  BY <1>1, <1>2, <1>3, <1>4, <1>5 DEF IInv

LEMMA ResumeInv ==
  ASSUME IInv, NEW t \in Tasks, Resume(t)
  PROVE  IInv'
<1> USE SessionsAssumption DEF Tasks, NoToken
<1>1. TypeOK'
  BY DEF IInv, TypeOK, TaskFits, Task, Tokens, Resume, sidOf, HasSession,
         Refused, Return, Unlocked, IdleTask
<1>2. \A u \in Tasks : TaskFits(u)'
  BY DEF IInv, TypeOK, TaskFits, Task, Tokens, Resume, sidOf, HasSession,
         Refused, Return, Unlocked, IdleTask
<1>3. LockKept'
  BY DEF IInv, TypeOK, TaskFits, LockKept, Task, Inside, Resume, sidOf,
         HasSession, Refused, Return, Unlocked, IdleTask
<1>4. TokensAgree'
  BY DEF IInv, TypeOK, TaskFits, LockKept, TokensAgree, Task, Inside, Resume,
         sidOf, HasSession, Refused, Return, Unlocked, IdleTask
<1>5. RowsKnown'
  BY DEF IInv, TypeOK, TaskFits, LockKept, RowsKnown, Task, Inside, Resume,
         sidOf, HasSession, Refused, Return, Unlocked, IdleTask
<1>6. QED
  BY <1>1, <1>2, <1>3, <1>4, <1>5 DEF IInv

LEMMA LogoutInv ==
  ASSUME IInv, NEW t \in Tasks, Logout(t)
  PROVE  IInv'
<1> USE SessionsAssumption DEF Tasks, NoToken
<1>1. TypeOK'
  BY DEF IInv, TypeOK, TaskFits, Task, Tokens, Logout, sidOf, DeleteSession,
         Return, Unlocked, IdleTask
<1>2. \A u \in Tasks : TaskFits(u)'
  BY DEF IInv, TypeOK, TaskFits, Task, Tokens, Logout, sidOf, DeleteSession,
         Return, Unlocked, IdleTask
<1>3. LockKept'
  BY DEF IInv, TypeOK, TaskFits, LockKept, Task, Inside, Logout, sidOf,
         DeleteSession, Return, Unlocked, IdleTask
<1>4. TokensAgree'
  BY DEF IInv, TypeOK, TaskFits, LockKept, TokensAgree, Task, Inside, Logout,
         sidOf, DeleteSession, Return, Unlocked, IdleTask
<1>5. RowsKnown'
  BY DEF IInv, TypeOK, TaskFits, LockKept, RowsKnown, Task, Inside, Logout,
         sidOf, DeleteSession, Return, Unlocked, IdleTask
<1>6. QED
  BY <1>1, <1>2, <1>3, <1>4, <1>5 DEF IInv

LEMMA RefreshTokensInv ==
  ASSUME IInv, NEW t \in Tasks, RefreshTokens(t)
  PROVE  IInv'
<1> USE SessionsAssumption DEF Tasks, NoToken
<1>1. TypeOK'
  BY DEF IInv, TypeOK, TaskFits, Task, Tokens, RefreshTokens, sidOf, TookAway,
         Resumed, Unlocked
<1>2. \A u \in Tasks : TaskFits(u)'
  BY DEF IInv, TypeOK, TaskFits, Task, Tokens, RefreshTokens, sidOf, TookAway,
         Resumed, Unlocked
<1>3. LockKept'
  BY DEF IInv, TypeOK, TaskFits, LockKept, Task, Inside, RefreshTokens, sidOf,
         TookAway, Resumed, Unlocked
<1>4. TokensAgree'
  BY DEF IInv, TypeOK, TaskFits, LockKept, TokensAgree, Task, Inside,
         RefreshTokens, sidOf, TookAway, Resumed, Unlocked
<1>5. RowsKnown'
  BY DEF IInv, TypeOK, TaskFits, LockKept, RowsKnown, Tokens, Task, Inside,
         RefreshTokens, sidOf, TookAway, Resumed, Unlocked
<1>6. QED
  BY <1>1, <1>2, <1>3, <1>4, <1>5 DEF IInv

LEMMA RotateNonceInv ==
  ASSUME IInv, NEW t \in Tasks, RotateNonce(t)
  PROVE  IInv'
<1> USE SessionsAssumption DEF Tasks, NoToken
<1>1. TypeOK'
  BY DEF IInv, TypeOK, TaskFits, Task, Tokens, RotateNonce
<1>2. \A u \in Tasks : TaskFits(u)'
  BY DEF IInv, TypeOK, TaskFits, Task, Tokens, RotateNonce
<1>3. LockKept'
  BY DEF IInv, TypeOK, TaskFits, LockKept, Task, Inside, RotateNonce
<1>4. TokensAgree'
  BY DEF IInv, TypeOK, TaskFits, LockKept, TokensAgree, Task, Inside,
         RotateNonce
<1>5. RowsKnown'
  BY DEF IInv, TypeOK, TaskFits, LockKept, RowsKnown, Task, Inside, RotateNonce
<1>6. QED
  BY <1>1, <1>2, <1>3, <1>4, <1>5 DEF IInv

LEMMA SaveSessionInv ==
  ASSUME IInv, NEW t \in Tasks, SaveSession(t)
  PROVE  IInv'
<1> USE SessionsAssumption DEF Tasks, NoToken
<1>1. TypeOK'
  BY DEF IInv, TypeOK, TaskFits, Task, Tokens, SaveSession, sidOf, PutSession,
         TookAway, Resumed, Unlocked
<1>2. \A u \in Tasks : TaskFits(u)'
  BY DEF IInv, TypeOK, TaskFits, Task, Tokens, SaveSession, sidOf, PutSession,
         TookAway, Resumed, Unlocked
<1>3. LockKept'
  BY DEF IInv, TypeOK, TaskFits, LockKept, Task, Inside, SaveSession, sidOf,
         PutSession, TookAway, Resumed, Unlocked
<1>4. TokensAgree'
  BY DEF IInv, TypeOK, TaskFits, LockKept, TokensAgree, Task, Inside,
         SaveSession, sidOf, PutSession, TookAway, Resumed, Unlocked
<1>5. RowsKnown'
  BY DEF IInv, TypeOK, TaskFits, LockKept, RowsKnown, Task, Inside,
         SaveSession, sidOf, PutSession, TookAway, Resumed, Unlocked
<1>6. QED
  BY <1>1, <1>2, <1>3, <1>4, <1>5 DEF IInv

LEMMA FinishInv ==
  ASSUME IInv, NEW t \in Tasks, Finish(t)
  PROVE  IInv'
<1> USE SessionsAssumption DEF Tasks, NoToken
<1>1. TypeOK'
  BY DEF IInv, TypeOK, TaskFits, Task, Tokens, Finish, Return, Unlocked,
         IdleTask
<1>2. \A u \in Tasks : TaskFits(u)'
  BY DEF IInv, TypeOK, TaskFits, Task, Tokens, Finish, Return, Unlocked,
         IdleTask
<1>3. LockKept'
  BY DEF IInv, TypeOK, TaskFits, LockKept, Task, Inside, Finish, Return,
         Unlocked, IdleTask
<1>4. TokensAgree'
  BY DEF IInv, TypeOK, TaskFits, LockKept, TokensAgree, Task, Inside, Finish,
         Return, Unlocked, IdleTask
<1>5. RowsKnown'
  BY DEF IInv, TypeOK, TaskFits, LockKept, RowsKnown, Task, Inside, Finish,
         Return, Unlocked, IdleTask
<1>6. QED
  BY <1>1, <1>2, <1>3, <1>4, <1>5 DEF IInv

LEMMA NewTask ==
  ASSUME NEW kind \in {"mutate", "logout", "pass"}, NEW s \in Sids
  PROVE  [IdleTask EXCEPT !.pc = "waiting", !.kind = kind, !.sid = s] \in Task
<1>1. IdleTask \in Task
  BY SessionsAssumption DEF IdleTask, Task, NoToken
<1>2. QED
  BY <1>1 DEF Task

LEMMA ArriveInv ==
  ASSUME IInv, NEW t \in Tasks, NEW kind \in {"mutate", "logout", "pass"},
         NEW s \in Sids, Arrive(t, kind, s)
  PROVE  IInv'
<1> USE SessionsAssumption DEF Tasks, NoToken, Arrive, IdleTask
<1>1. TypeOK'
  <2>1. [IdleTask EXCEPT !.pc = "waiting", !.kind = kind, !.sid = s] \in Task
    BY NewTask
  <2>2. task' \in [Tasks -> Task]
    BY <2>1 DEF IInv, TypeOK
  <2>3. QED
    BY <2>2 DEF IInv, TypeOK
<1>2. \A u \in Tasks : TaskFits(u)'
  BY DEF IInv, TypeOK, TaskFits, Task
<1>3. LockKept'
  BY DEF IInv, TypeOK, TaskFits, LockKept, Task, Inside
<1>4. TokensAgree'
  <2>1. \A n \in Sids : holder[n] # t
    BY DEF IInv, LockKept, Inside
  <2>2. \A u \in Tasks \ {t} : task'[u] = task[u]
    BY DEF IInv, TypeOK
  <2>3. \A n \in Sids : holder[n] # None => holder[n] \in Tasks \ {t}
    BY <2>1 DEF IInv, TypeOK
  <2>4. QED
    BY <2>1, <2>2, <2>3 DEF IInv, TokensAgree
<1>5. RowsKnown'
  BY DEF IInv, TypeOK, RowsKnown, Task
<1>6. QED
  BY <1>1, <1>2, <1>3, <1>4, <1>5 DEF IInv

(* Nobody is at work on a session that is only now signed in.              *)
LEMMA CallbackInv ==
  ASSUME IInv, NEW st \in States, NEW s \in Sids, Callback(st, s)
  PROVE  IInv'
<1> USE SessionsAssumption
    DEF Tasks, NoToken, Callback, DeleteAuthRequest, PutSession, HasAuthRequest
<1>1. TypeOK'
  BY DEF IInv, TypeOK, Tokens
<1>2. \A u \in Tasks : TaskFits(u)'
  BY DEF IInv, TypeOK, TaskFits, Task
<1>3. LockKept'
  BY DEF IInv, LockKept
<1>4. TokensAgree'
  <2>1. holder[s] = None
    BY DEF IInv, TypeOK, TaskFits, LockKept, Inside
  <2>2. issued'[s] = 1 /\ row'[s] \in {NoToken, 1}
    BY DEF IInv, TypeOK, RowsKnown
  <2>3. \A n \in Sids \ {s} : issued'[n] = issued[n] /\ row'[n] = row[n]
    BY DEF IInv, TypeOK
  <2>4. UNCHANGED <<holder, task, strayed>>
    OBVIOUS
  <2>5. QED
    BY <2>1, <2>2, <2>3, <2>4 DEF IInv, TokensAgree
<1>5. RowsKnown'
  BY DEF IInv, TypeOK, TaskFits, RowsKnown, Task
<1>6. QED
  BY <1>1, <1>2, <1>3, <1>4, <1>5 DEF IInv

(* The flow's own records are of no session.                               *)
LEMMA FlowInv ==
  ASSUME IInv,
         (\E st \in States : StartAuthFlow(st) \/ Expire(st)) \/ GCExpired
  PROVE  IInv'
<1>1. /\ authRequest' \in [States -> {"none", "pending", "expired"}]
      /\ UNCHANGED <<row, issued, revoked, holder, task, signedOut, strayed>>
  BY DEF IInv, TypeOK, StartAuthFlow, PutAuthRequest, Expire, HasAuthRequest,
         GCExpired, DeleteExpiredAuthRequests
<1>2. QED
  BY <1>1 DEF IInv, TypeOK, TaskFits, LockKept, TokensAgree, RowsKnown

LEMMA CrashInv == IInv /\ Crash => IInv'
<1> SUFFICES ASSUME IInv, Crash
             PROVE  IInv'
  OBVIOUS
<1> USE SessionsAssumption DEF Tasks, NoToken, Crash, IdleTask
<1>1. TypeOK'
  BY DEF IInv, TypeOK, Task, Tokens
<1>2. \A u \in Tasks : TaskFits(u)'
  BY DEF TaskFits
<1>3. LockKept'
  BY DEF LockKept
<1>4. TokensAgree'
  BY DEF IInv, TypeOK, LockKept, TokensAgree, sidOf
<1>5. RowsKnown'
  BY DEF IInv, TypeOK, RowsKnown
<1>6. QED
  BY <1>1, <1>2, <1>3, <1>4, <1>5 DEF IInv

LEMMA NextInv == IInv /\ [Next]_vars => IInv'
<1> SUFFICES ASSUME IInv, [Next]_vars
             PROVE  IInv'
  OBVIOUS
<1>1. ASSUME NEW t \in Tasks, Step(t)
      PROVE  IInv'
  BY <1>1, LockSessionInv, ResumeInv, LogoutInv, RefreshTokensInv,
     RotateNonceInv, SaveSessionInv, FinishInv DEF Step
<1>2. CASE UNCHANGED vars
  BY <1>2 DEF vars, IInv, TypeOK, TaskFits, LockKept, TokensAgree, RowsKnown
<1>3. QED
  BY <1>1, <1>2, ArriveInv, CallbackInv, FlowInv, CrashInv DEF Next

LEMMA InvHolds == Spec => []IInv
  BY InitInv, NextInv, PTL DEF Spec

(* The rows, the lock and what requests hold of a session keep their       *)
(* types: a token in memory is one the authorization server issued.        *)
THEOREM TypeCorrect == Spec => []TypeOK
  BY InvHolds, PTL DEF IInv

-----------------------------------------------------------------------------
(* The row that the next holder of the lock finds has the token that is    *)
(* good, however requests, passes, lost saves and crashes interleave.      *)
THEOREM LockKeepsTheRow == Spec => []RowHoldsTheGoodToken
<1>1. IInv => RowHoldsTheGoodToken
  BY DEF IInv, TokensAgree, RowHoldsTheGoodToken
<1>2. QED
  BY <1>1, InvHolds, PTL

(* Only a pass that took its copy away from the lock presents a spent      *)
(* token while the row and the token agree.                                *)
THEOREM RequestsDoNotBoot == Spec => ValidUserIsNotBooted
<1>1. IInv /\ [Next]_vars =>
        [\A t \in Tasks, s \in Sids :
           RefreshTokens(t) /\ s \in revoked' \ revoked /\ s \notin strayed
             => TookAway(t)]_vars
  <2> SUFFICES ASSUME IInv, NEW t \in Tasks, NEW s \in Sids,
                      RefreshTokens(t), s \in revoked' \ revoked,
                      s \notin strayed, ~TookAway(t)
               PROVE  FALSE
    OBVIOUS
  <2>1. s = sidOf(t) /\ task[t].copy # issued[s]
    BY DEF RefreshTokens
  <2>2. holder[s] = t
    BY <2>1 DEF IInv, LockKept, TookAway, RefreshTokens, sidOf, Tasks
  <2>3. QED
    BY <2>1, <2>2 DEF IInv, TokensAgree, RefreshTokens
<1>2. QED
  BY <1>1, InvHolds, PTL DEF Spec, ValidUserIsNotBooted

(* After a logout the row stays away from every request that was under     *)
(* way, and from every callback: a pass alone may bring it back.           *)
THEOREM OnlyThePassRevives == Spec => RequestsDoNotRevive
<1>1. IInv /\ [Next]_vars =>
        [\A s \in signedOut :
           row[s] = NoToken /\ row'[s] # NoToken => SaveSession(Pass)]_vars
  <2> SUFFICES ASSUME IInv, Next, NEW s \in signedOut,
                      row[s] = NoToken, row'[s] # NoToken, ~SaveSession(Pass)
               PROVE  FALSE
    OBVIOUS
  <2>1. s \in Sids /\ issued[s] # NoToken /\ row \in [Sids -> Tokens \cup {NoToken}]
    BY DEF IInv, TypeOK, RowsKnown
  <2>2. ASSUME NEW t \in Tasks, Step(t)
        PROVE  FALSE
    <3>1. CASE SaveSession(t)
      BY <2>1, <3>1 DEF SaveSession, sidOf, PutSession, IInv, RowsKnown, Tasks
    <3>2. CASE Logout(t)
      BY <2>1, <3>2 DEF Logout, DeleteSession
    <3>3. CASE ~SaveSession(t) /\ ~Logout(t)
      BY <2>2, <3>3
         DEF Step, LockSession, Resume, RefreshTokens, RotateNonce, Finish
    <3>4. QED
      BY <3>1, <3>2, <3>3
  <2>3. ASSUME NEW st \in States, NEW n \in Sids, Callback(st, n)
        PROVE  FALSE
    BY <2>1, <2>3 DEF Callback, PutSession
  <2>4. QED
    BY <2>2, <2>3 DEF Next, Arrive, StartAuthFlow, Expire, GCExpired, Crash
<1>2. QED
  BY <1>1, InvHolds, PTL DEF Spec, RequestsDoNotRevive
=============================================================================
