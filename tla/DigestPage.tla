----------------------------- MODULE DigestPage -----------------------------
(***************************************************************************)
(* The sync engine together with a reader of its results: the digest       *)
(* request (internal/api/digest.go), which answers with the day's entries  *)
(* and with whether a job is still at work.  The page polls until none is, *)
(* and then takes the entries for final.                                   *)
(*                                                                         *)
(* The request makes two reads at different times, of the tracker and of   *)
(* the database, and the jobs go on between and after them.                *)
(***************************************************************************)
EXTENDS SyncEngine

CONSTANT Reader   \* the user whose page is open

ASSUME ReaderAssumption == Reader \in Users

VARIABLE page

Page == [pc : {"idle", "asked", "answered"},
         since : 1..(MaxJobs + 1),   \* jobs below it were there when it asked
         final : BOOLEAN,            \* no job was active
         listed : BOOLEAN,           \* the entries have been read
         missed : BOOLEAN]           \* history: such a job wrote since
IdlePage == [pc |-> "idle", since |-> 1, final |-> FALSE, listed |-> FALSE,
             missed |-> FALSE]

PageTypeOK == page \in Page

(* DigestHandler samples the jobs, then lists the entries.                 *)
(* Mutant: the other way round.                                            *)
ListFirst(first) == ~first
SampleFirst(first) == first

Read(p, first) ==
    IF SampleFirst(first)
    THEN [p EXCEPT !.final = (ActiveJobs(Reader) = {})]
    ELSE [p EXCEPT !.listed = TRUE]

Asks ==
    /\ page.pc # "asked"
    /\ page' = Read([IdlePage EXCEPT !.pc = "asked", !.since = nextJob], TRUE)
    /\ UNCHANGED vars

(* An answer that is not final is polled for again.                        *)
Answers ==
    /\ page.pc = "asked"
    /\ LET answer == Read([page EXCEPT !.pc = "answered"], FALSE)
       IN  page' = IF answer.final THEN answer ELSE IdlePage
    /\ UNCHANGED vars

(* A job's goroutine stores entries or follows, before it reports its end. *)
Writes(j) ==
    /\ run[j].pc \in {"syncing", "fetching"}
    /\ page' = [page EXCEPT !.missed =
                   @ \/ (page.listed /\ j < page.since /\ job[j].user = Reader)]
    /\ UNCHANGED vars

pageVars == <<vars, page>>

PageNext ==
    \/ Next /\ UNCHANGED page
    \/ Asks \/ Answers
    \/ \E j \in JobIds : Writes(j)

PageInit == Init /\ page = IdlePage

PageSpec == PageInit /\ [][PageNext]_pageVars
PageFairSpec == PageSpec /\ \A j \in JobIds : WF_pageVars(Step(j) /\ UNCHANGED page)

-----------------------------------------------------------------------------
(* Properties.                                                             *)

(* "Sampling first prevents a completed job from making an earlier entry   *)
(* snapshot look final" (digest.go): a page that says no job is active     *)
(* misses nothing that the jobs of before the request bring.               *)
FinalPageIsComplete ==
    page.pc = "answered" /\ page.final => ~page.missed

(* The engine as its callers see it.                                       *)
Requests == INSTANCE SyncRequests WITH
    wanted <- {u \in Users : owed[u]},
    working <- {u \in Users : /\ active[u] # None
                              /\ run[active[u]].passSessionID # NoSession},
    closing <- parentCancelled

(* Whatever devices, triggers, failures and passes interleave, the engine  *)
(* does what SyncRequests says: no request is dropped or served by a pass  *)
(* that had begun, and each gets its pass (syncuser.go, SyncUser and run). *)
ServesRequests == Requests!FairSpec
=============================================================================
