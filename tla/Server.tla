------------------------------- MODULE Server -------------------------------
(***************************************************************************)
(* The process: what internal/server assembles, how it shuts down, and the *)
(* certificate of the mail listener.                                       *)
(*                                                                         *)
(* Shutdown (cmd/api, NewServer's cleanup) stops the parts one after       *)
(* another, all against one deadline, and closes the database last, so     *)
(* that no request, job or loop that uses it is still at work.  A part     *)
(* that misses the deadline is left behind, and so is mail that is being   *)
(* stored when the listener closes: nobody waits for it.                   *)
(*                                                                         *)
(* With ACME, one goroutine keeps a certificate for SMTP: it loads the     *)
(* stored key and certificate, has the pair renewed when it is due, and    *)
(* publishes what it loaded.  A renewal writes the key before the          *)
(* certificate, so that a crash, a timeout or a shutdown between the two   *)
(* leaves a pair that does not match.                                      *)
(*                                                                         *)
(* The ACME client, net/http and the SMTP library are external, and        *)
(* modelled by what this code relies on.                                   *)
(***************************************************************************)
EXTENDS Naturals, FiniteSets

CONSTANTS
    Handlers,        \* HTTP requests in flight
    Jobs,            \* goroutines of the sync orchestrator
    Workers,         \* the background loops that gcWG counts
    Processor,       \* the newsletter processor
    Conns,           \* SMTP connections
    MaxConnections   \* SMTP_MAX_CONNECTIONS

Loops == Workers \cup {Processor}

ASSUME ServerAssumption ==
    /\ Processor \notin Workers
    /\ MaxConnections \in Nat \ {0}

VARIABLES
    phase,       \* how far the process is
    overdue,     \* the shutdown deadline has passed
    cancelled,   \* contexts that have been cancelled
    handlers,    \* requests being handled
    jobs,        \* orchestrator goroutines at work
    loop,        \* what each background loop does
    db,          \* the database handle
    smtp,        \* the mail listener
    conn,        \* SMTP connections
    pair,        \* the certificate and key in storage
    current,     \* the certificate in memory
    maintainer   \* the goroutine that maintains it

serverVars == <<phase, overdue, cancelled, handlers, jobs, loop, db,
          smtp, conn, pair, current, maintainer>>
tasks == <<handlers, jobs, loop>>
mail == <<smtp, conn>>
certificate == <<pair, current, maintainer>>
process == <<phase, overdue, cancelled, db>>

ServerTypeOK ==
    /\ phase \in {"serving", "draining", "certificates", "smtp", "processor",
                  "orchestrator", "database", "exited"}
    /\ overdue \in BOOLEAN
    /\ cancelled \in SUBSET {"gc", "certificates", "processor", "orchestrator"}
    /\ handlers \in SUBSET Handlers
    /\ jobs \in SUBSET Jobs
    /\ loop \in [Loops -> {"waiting", "working", "returned"}]
    /\ db \in {"open", "closed"}
    /\ smtp \in {"off", "serving", "closed"}
    /\ conn \in [Conns -> {"none", "open", "storing"}]
    /\ pair \in {"none", "split", "valid", "lapsed"}
    /\ current \in {"none", "valid", "lapsed"}
    /\ maintainer \in {"off", "starting", "waiting", "renewing", "rotated", "done"}

(* NewServer: the loops start, SMTP listens when a domain is configured,   *)
(* and a maintainer runs when ACME is.                                     *)
ServerInit ==
    /\ phase = "serving"
    /\ overdue = FALSE
    /\ cancelled = {}
    /\ handlers = {}
    /\ jobs = {}
    /\ loop = [l \in Loops |-> "waiting"]
    /\ db = "open"
    /\ smtp \in {"off", "serving"}
    /\ conn = [c \in Conns |-> "none"]
    /\ pair = "none"
    /\ current = "none"
    /\ maintainer \in {"off", "starting"}
    /\ smtp = "off" => maintainer = "off"

-----------------------------------------------------------------------------
(* Work.                                                                   *)

Request(h) ==
    /\ phase = "serving"
    /\ handlers' = handlers \cup {h}
    /\ UNCHANGED <<process, jobs, loop, mail, certificate>>

Answer(h) ==
    /\ phase # "exited"
    /\ h \in handlers
    /\ handlers' = handlers \ {h}
    /\ UNCHANGED <<process, jobs, loop, mail, certificate>>

(* Orchestrator.StartFetchOneFeed and SyncUser: a handler starts a job.    *)
StartJob(j) ==
    /\ phase # "exited"
    /\ handlers # {}
    /\ jobs' = jobs \cup {j}
    /\ UNCHANGED <<process, handlers, loop, mail, certificate>>

FinishJob(j) ==
    /\ phase # "exited"
    /\ j \in jobs
    /\ jobs' = jobs \ {j}
    /\ UNCHANGED <<process, handlers, loop, mail, certificate>>

(* A background loop: at its tick it works, and it returns once it waits   *)
(* and sees its context cancelled.  A tick that is due at the same time    *)
(* may win.                                                                *)
Context(l) == IF l = Processor THEN "processor" ELSE "gc"

Tick(l) ==
    /\ phase # "exited"
    /\ loop[l] = "waiting"
    /\ loop' = [loop EXCEPT ![l] = "working"]
    /\ UNCHANGED <<process, handlers, jobs, mail, certificate>>

Worked(l) ==
    /\ phase # "exited"
    /\ loop[l] = "working"
    /\ loop' = [loop EXCEPT ![l] = "waiting"]
    /\ UNCHANGED <<process, handlers, jobs, mail, certificate>>

Returns(l) ==
    /\ phase # "exited"
    /\ loop[l] = "waiting"
    /\ Context(l) \in cancelled
    /\ loop' = [loop EXCEPT ![l] = "returned"]
    /\ UNCHANGED <<process, handlers, jobs, mail, certificate>>

-----------------------------------------------------------------------------
(* Mail.                                                                   *)

OpenConns == {c \in Conns : conn[c] # "none"}

(* getCertificate: with ACME, only a valid certificate is served.          *)
Certified == maintainer # "off" => current = "valid"

(* A slot of the limited listener and a certificate, before and after the  *)
(* accept.                                                                 *)
Accept(c) ==
    /\ phase # "exited"
    /\ smtp = "serving"
    /\ conn[c] = "none"
    /\ Cardinality(OpenConns) < MaxConnections
    /\ Certified
    /\ conn' = [conn EXCEPT ![c] = "open"]
    /\ UNCHANGED <<process, tasks, smtp, certificate>>

(* smtpSession.Data stores the receipts under a context that nobody        *)
(* cancels.                                                                *)
Data(c) ==
    /\ phase # "exited"
    /\ conn[c] = "open"
    /\ conn' = [conn EXCEPT ![c] = "storing"]
    /\ UNCHANGED <<process, tasks, smtp, certificate>>

(* The receipts are stored, or refused for a later try; a connection that  *)
(* was closed meanwhile is gone.                                           *)
Stored(c) ==
    /\ phase # "exited"
    /\ conn[c] = "storing"
    /\ conn' = [conn EXCEPT ![c] = IF smtp = "serving" THEN "open" ELSE "none"]
    /\ UNCHANGED <<process, tasks, smtp, certificate>>

Hangup(c) ==
    /\ phase # "exited"
    /\ conn[c] = "open"
    /\ conn' = [conn EXCEPT ![c] = "none"]
    /\ UNCHANGED <<process, tasks, smtp, certificate>>

-----------------------------------------------------------------------------
(* The certificate.                                                        *)

(* certificates.run waits until the HTTP server listens: it answers the    *)
(* challenges.                                                             *)
HTTPReady ==
    /\ phase # "exited"
    /\ maintainer = "starting"
    /\ maintainer' = "waiting"
    /\ UNCHANGED <<process, tasks, mail, pair, current>>

(* Which stored pairs ensure has issued anew, whatever their date.         *)
(* Mutant: a pair that does not match is an error like any other.          *)
ObtainsMissing(p) == p \in {"none", "lapsed"}
Obtains(p) == p \in {"none", "split", "lapsed"}

(* ensure: a missing pair is obtained, one that does not match is forced,  *)
(* a valid one is published and renewed when it is due.                    *)
Ensure ==
    /\ phase # "exited"
    /\ maintainer = "waiting"
    /\ \/ /\ Obtains(pair)
          /\ maintainer' = "renewing"
          /\ UNCHANGED current
       \/ /\ pair = "valid"
          /\ current' = "valid"
          /\ maintainer' \in {"waiting", "renewing"}
    /\ UNCHANGED <<process, tasks, mail, pair>>

(* The issuer answers, and the new key is written.                         *)
Rotate ==
    /\ phase # "exited"
    /\ maintainer = "renewing"
    /\ maintainer' = "rotated"
    /\ pair' = IF pair = "none" THEN "none" ELSE "split"
    /\ UNCHANGED <<process, tasks, mail, current>>

(* The certificate is written, loaded and published.                       *)
Certify ==
    /\ phase # "exited"
    /\ maintainer = "rotated"
    /\ maintainer' = "waiting"
    /\ pair' = "valid"
    /\ current' = "valid"
    /\ UNCHANGED <<process, tasks, mail>>

(* An attempt fails or runs out of time; run tries again later.            *)
Retry ==
    /\ phase # "exited"
    /\ maintainer \in {"renewing", "rotated"}
    /\ maintainer' = "waiting"
    /\ UNCHANGED <<process, tasks, mail, pair, current>>

MaintainerReturns ==
    /\ phase # "exited"
    /\ "certificates" \in cancelled
    /\ maintainer \notin {"off", "done"}
    /\ maintainer' = "done"
    /\ UNCHANGED <<process, tasks, mail, pair, current>>

(* A certificate runs out: the one in memory is the stored one or older.   *)
Lapse ==
    /\ current = "valid" \/ pair = "valid"
    /\ current' = IF current = "valid" THEN "lapsed" ELSE current
    /\ pair' \in {pair, IF pair = "valid" THEN "lapsed" ELSE pair}
    /\ UNCHANGED <<process, tasks, mail, maintainer>>

-----------------------------------------------------------------------------
(* Shutdown.                                                               *)

(* gracefulShutdown: the signal, and net/http stops accepting; it fires    *)
(* what was registered on shutdown without waiting for it.                 *)
Signal ==
    /\ phase = "serving"
    /\ phase' = "draining"
    /\ cancelled' = {"gc", "certificates"}
    /\ UNCHANGED <<overdue, db, tasks, mail, certificate>>

Overdue ==
    /\ phase \notin {"serving", "exited"}
    /\ overdue' = TRUE
    /\ UNCHANGED <<phase, cancelled, db, tasks, mail, certificate>>

Drained ==
    /\ phase = "draining"
    /\ handlers = {} \/ overdue
    /\ phase' = "certificates"
    /\ UNCHANGED <<overdue, cancelled, db, tasks, mail, certificate>>

(* The first wait of cleanup: past the deadline it gives up altogether.    *)
(* Mutant: it waits for as long as it takes.                               *)
WaitsForever(done) == done
WaitOver(done) == done \/ overdue

CertificatesDone ==
    /\ phase = "certificates"
    /\ WaitOver(maintainer \in {"off", "done"})
    /\ \/ maintainer \in {"off", "done"} /\ phase' = "smtp"
       \/ overdue /\ phase' = "exited"
    /\ UNCHANGED <<overdue, cancelled, db, tasks, mail, certificate>>

(* smtpServer.Close closes the listener and the connections; it does not   *)
(* wait for a command that is being carried out.                           *)
CloseSMTP ==
    /\ phase = "smtp"
    /\ smtp' = IF smtp = "serving" THEN "closed" ELSE smtp
    /\ conn' = [c \in Conns |-> IF conn[c] = "open" THEN "none" ELSE conn[c]]
    /\ phase' = "processor"
    /\ cancelled' = cancelled \cup {"processor"}
    /\ UNCHANGED <<overdue, db, tasks, certificate>>

ProcessorDone ==
    /\ phase = "processor"
    /\ WaitOver(loop[Processor] = "returned")
    /\ phase' = "orchestrator"
    /\ cancelled' = cancelled \cup {"orchestrator"}
    /\ UNCHANGED <<overdue, db, tasks, mail, certificate>>

(* Orchestrator.Shutdown.                                                  *)
OrchestratorDone ==
    /\ phase = "orchestrator"
    /\ WaitOver(jobs = {})
    /\ phase' = "database"
    /\ UNCHANGED <<overdue, cancelled, db, tasks, mail, certificate>>

(* closeDatabase waits for the loops.  Mutant: it does not.                *)
CloseAtOnce == TRUE
WorkersDone == \A l \in Workers : loop[l] = "returned"

CloseDatabase ==
    /\ phase = "database"
    /\ \/ WorkersDone /\ db' = "closed"
       \/ overdue /\ UNCHANGED db
    /\ phase' = "exited"
    /\ UNCHANGED <<overdue, cancelled, tasks, mail, certificate>>

ServerCrash ==
    /\ phase # "exited"
    /\ phase' = "exited"
    /\ UNCHANGED <<overdue, cancelled, db, tasks, mail, certificate>>

(* The process starts again with the same configuration; what is stored is *)
(* all it finds.                                                           *)
Restart ==
    /\ phase = "exited"
    /\ phase' = "serving"
    /\ overdue' = FALSE
    /\ cancelled' = {}
    /\ handlers' = {}
    /\ jobs' = {}
    /\ loop' = [l \in Loops |-> "waiting"]
    /\ db' = "open"
    /\ smtp' = IF smtp = "off" THEN "off" ELSE "serving"
    /\ conn' = [c \in Conns |-> "none"]
    /\ current' = "none"
    /\ maintainer' = IF maintainer = "off" THEN "off" ELSE "starting"
    /\ UNCHANGED pair

-----------------------------------------------------------------------------
Cleanup ==
    \/ Drained \/ CertificatesDone \/ CloseSMTP \/ ProcessorDone
    \/ OrchestratorDone \/ CloseDatabase

ServerNext ==
    \/ \E h \in Handlers : Request(h) \/ Answer(h)
    \/ \E j \in Jobs : StartJob(j) \/ FinishJob(j)
    \/ \E l \in Loops : Tick(l) \/ Worked(l) \/ Returns(l)
    \/ \E c \in Conns : Accept(c) \/ Data(c) \/ Stored(c) \/ Hangup(c)
    \/ HTTPReady \/ Ensure \/ Rotate \/ Certify \/ Retry
    \/ MaintainerReturns \/ Lapse
    \/ Signal \/ Overdue \/ Cleanup \/ ServerCrash \/ Restart

ServerSpec == ServerInit /\ [][ServerNext]_serverVars

(* The deadline passes and cleanup goes on; a process that ended is        *)
(* started again.  An attempt whose issuer answers comes again and again,  *)
(* however often the process dies: maintenance is tried for ever.          *)
ServerFairSpec ==
    /\ ServerSpec
    /\ WF_serverVars(Overdue) /\ WF_serverVars(Cleanup) /\ WF_serverVars(Restart)
    /\ SF_serverVars(HTTPReady) /\ SF_serverVars(Ensure)
    /\ SF_serverVars(Rotate) /\ SF_serverVars(Certify)

-----------------------------------------------------------------------------
(* Properties.                                                             *)

(* "returns a cleanup func ... draining sync writes, closing the DB"       *)
(* (server.go): when the database is closed within the deadline, no        *)
(* request, job or loop that writes to it is left at work.  Mail being     *)
(* stored may be: CloseSMTP does not wait for it.  Its transaction then    *)
(* fails or is done, and the sender, who hears nothing, sends it again.    *)
ClosedMeansQuiet ==
    db = "closed" /\ ~overdue
        => /\ handlers = {} /\ jobs = {}
           /\ \A l \in Loops : loop[l] = "returned"

(* Shutdown ends whatever hangs: a handler, the maintainer in its ACME     *)
(* exchange, a job that does not see its context.                          *)
ShutdownEnds == phase = "draining" ~> phase = "exited"

(* "interruption can split the pair" (smtp_certificates.go): a stored key  *)
(* that does not match its certificate is replaced sooner or later, across *)
(* restarts, and mail is not turned away for good.                         *)
SplitPairHeals == pair = "split" ~> pair = "valid"
=============================================================================
