----------------------------- MODULE WebSource -----------------------------
(***************************************************************************)
(* Server-generated feeds for sites without one (internal/websource).  A   *)
(* reader's create request finds the site's source by its listing key or   *)
(* has a setup make one; setups run in a few slots, may pay for a model    *)
(* while the day's budget lasts, may end on another listing of the site    *)
(* (a section page), and may replace the list of a source others follow.   *)
(* One poller polls followed sources and, once for sources of an older     *)
(* version, looks for a section page.  A sweep deletes what nobody used.   *)
(*                                                                         *)
(* A setup's verdict, listing and cost are any the generator may give; a   *)
(* model call costs one unit or nothing, as a call that fails may. Times   *)
(* are kept as what they decide: an unsure setup is stale or not (either), *)
(* a source was offered, served or followed lately or not. Titles, items,  *)
(* reasons and database failures are left out. What a poll does to its own *)
(* source is WebPoll.                                                      *)
(***************************************************************************)
EXTENDS Naturals, FiniteSets

CONSTANTS
    Readers,       \* by DID
    Clients,       \* create requests that may run together
    Keys,          \* listing keys of one site
    Ids,           \* source ids, random in the code
    None,
    SetupSlots,    \* setupSlots
    DailySources,  \* dailySources
    ModelDaily,    \* ModelDailyUSD, in model calls
    SetupCalls,    \* model calls of one setup: judgeVotes and induceRounds
    LegacyRows,    \* sources an older version may have stored
    MaxRuns        \* bound: generations and polls begun

ASSUME WebSourceAssumption ==
    /\ {SetupSlots, SetupCalls} \subseteq Nat \ {0}
    /\ {DailySources, ModelDaily, MaxRuns} \subseteq Nat
    /\ IsFiniteSet(Readers)
    /\ None \notin Readers \cup Keys \cup Ids

SetupHealths == {"ok", "needs_attention", "blocked_by_site"}
Health == SetupHealths \cup {"broken"}

Row == [key : Keys, setup : SetupHealths, health : Health,
        seq : Nat,                 \* setup_seq
        by : Readers \cup {None},    \* created_by_did, within the day
        checked : BOOLEAN,           \* no section check is due
        lately : BOOLEAN]            \* offered, served or followed lately

(* What a setup's verdict is worth.                                        *)
rank(h) == CASE h = "ok" -> 3 [] h = "needs_attention" -> 2
             [] h = "blocked_by_site" -> 1 [] OTHER -> 0

(* What an older version stored is a row like any other: a poll has left   *)
(* its source no healthier than its setup, and what a reader added within  *)
(* the day counts.                                                         *)
ASSUME LegacyAssumption ==
    /\ None \notin Row
    /\ \A r \in LegacyRows :
         /\ r \in Row /\ rank(r.health) <= rank(r.setup)
         /\ r.by # None => DailySources > 0

(* What create and the poller remember of a row they read.                 *)
FoundRow == [key : Keys, setup : SetupHealths, health : Health]
ListedRow == [key : Keys, setup : SetupHealths, seq : Nat,
              by : Readers \cup {None}, checked : BOOLEAN]
Found(row) == [key |-> row.key, setup |-> row.setup, health |-> row.health]
Listed(row) == [key |-> row.key, setup |-> row.setup, seq |-> row.seq,
                by |-> row.by, checked |-> row.checked]

Request ==
    [pc : {"idle", "claim", "own", "inOwn", "setup", "inSetup", "vet",
           "confirm", "store"},
     did : Readers \cup {None}, key : Keys \cup {None},
     anchor : BOOLEAN,
     id : Ids \cup {None},           \* the source it found
     snap : FoundRow \cup {None},
     allowed : BOOLEAN,              \* the setup may use the model
     health : SetupHealths, ended : Keys \cup {None},
     cost : 0..SetupCalls,           \* what the setup answered
     unvetted : BOOLEAN]             \* others follow, the model did not agree
Poll == [pc : {"idle", "due", "polling", "check", "checking", "stopped"},
         id : Ids \cup {None},
         snap : ListedRow \cup {None}, allowed : BOOLEAN]

VARIABLES
    sources,  \* web_sources
    aliases,  \* web_source_aliases
    follows,  \* user_subscriptions of the sources' feeds
    spent,    \* web_model_spend of the last 24 hours
    req,      \* create requests
    poll,     \* PollDue at work on one source
    runs,     \* counter for MaxRuns
    unpaid    \* history: a model call's cost that was never recorded

vars == <<sources, aliases, follows, spent, req, poll, runs, unpaid>>
tables == <<sources, aliases, follows>>

IdleReq == [pc |-> "idle", did |-> None, key |-> None, anchor |-> FALSE,
            id |-> None, snap |-> None, allowed |-> FALSE, health |-> "ok",
            ended |-> None, cost |-> 0, unvetted |-> FALSE]
IdlePoll == [pc |-> "idle", id |-> None, snap |-> None, allowed |-> FALSE]

SourceRows == {s \in Ids : sources[s] # None}

(* UNIQUE (listing_key), a source's own key wins over another's alias.     *)
Owners(src, al, k) ==
    LET own == {s \in Ids : src[s] # None /\ src[s].key = k}
    IN  IF own # {} THEN own ELSE {al[k]} \ {None}
GetWebSourceByKey(k) ==
    IF Owners(sources, aliases, k) = {} THEN None
    ELSE CHOOSE s \in Owners(sources, aliases, k) : TRUE

TypeOK ==
    /\ sources \in [Ids -> Row \cup {None}]
    /\ aliases \in [Keys -> Ids \cup {None}]
    /\ follows \in [Ids -> SUBSET Readers]
    /\ spent \in Nat
    /\ req \in [Clients -> Request]
    /\ poll \in Poll
    /\ runs \in 0..MaxRuns
    /\ unpaid \in BOOLEAN
    /\ \A s, t \in SourceRows : sources[s].key = sources[t].key => s = t
    /\ \A k \in Keys : aliases[k] # None => sources[aliases[k]] # None

Init ==
    /\ sources \in {[s \in Ids |-> None]} \cup
         {[[s \in Ids |-> None] EXCEPT ![i] = r] : i \in Ids, r \in LegacyRows}
    /\ aliases = [k \in Keys |-> None]
    /\ follows = [s \in Ids |-> {}]
    /\ spent = 0
    /\ req = [c \in Clients |-> IdleReq]
    /\ poll = IdlePoll
    /\ runs = 0
    /\ unpaid = FALSE

-----------------------------------------------------------------------------
(* Mutant: only the source's health now is compared.                       *)
improvesNow(next, row) == next = "ok" \/ rank(next) > rank(row.health)
improves(next, row) ==
    \/ next = "ok"
    \/ rank(next) > rank(row.setup) /\ rank(next) > rank(row.health)

(* Only a source that is not healthy, or whose setup doubted its list,     *)
(* takes a reader's post as an anchor.                                     *)
takesAnchor(row) == row.health # "ok" \/ row.setup = "needs_attention"

SumModelSpendSince == spent
modelBudgetLeft == SumModelSpendSince < ModelDaily

(* A call's cost, in the window.                                           *)
recordSpend(cost) == spent' = spent + cost

InSlot == {c \in Clients : req[c].pc \in {"inOwn", "inSetup"}}
SlotFree ==
    Cardinality(InSlot) + (IF poll.pc = "checking" THEN 1 ELSE 0) < SetupSlots

(* claimReader: one generation per reader.  Mutant: nobody is claimed.     *)
NobodyClaimed(did) == FALSE
InFlight(did) ==
    \E c \in Clients : req[c].did = did /\ req[c].pc \notin {"idle", "claim"}

-----------------------------------------------------------------------------
(* Create: the source a listing key finds is stamped as it is found.       *)

Stamped(s) == [sources EXCEPT ![s].lately = TRUE]

Offer(c) ==
    /\ req[c].pc = "idle"
    /\ \E did \in Readers, k \in Keys, anchor \in BOOLEAN :
         LET s == GetWebSourceByKey(k)
             claim == [IdleReq EXCEPT !.pc = "claim", !.did = did, !.key = k]
             anchored == s # None /\ anchor /\ takesAnchor(sources[s])
             unsure == s # None /\ sources[s].setup # "ok"
         IN  /\ sources' = IF s = None THEN sources ELSE Stamped(s)
             /\ \/ /\ s = None \/ anchored \/ unsure
                   /\ runs < MaxRuns
                   /\ runs' = runs + 1
                   /\ req' = [req EXCEPT ![c] = IF s = None
                        THEN [claim EXCEPT !.anchor = anchor]
                        ELSE [claim EXCEPT !.anchor = anchored, !.id = s,
                                           !.snap = Found(sources[s])]]
                \/ /\ s # None /\ ~anchored \* it is shown as it is
                   /\ UNCHANGED <<req, runs>>
    /\ UNCHANGED <<aliases, follows, spent, poll, unpaid>>

Regenerates(c) == req[c].id # None

(* The request has its answer: a source, a failure, or, where all it was   *)
(* to do was to refresh an unsure source, that source as it is.            *)
Answered(c) == req' = [req EXCEPT ![c] = IdleReq]

CreatedBy(did) == {s \in SourceRows : sources[s].by = did}
underDailyCap(did) == Cardinality(CreatedBy(did)) < DailySources

(* The claim, the daily cap and the limiter, whose refusal is any.  Only a *)
(* paste that came through an alias tries the source's own listing first.  *)
Claim(c) ==
    /\ req[c].pc = "claim"
    /\ ~InFlight(req[c].did)
    /\ Regenerates(c) \/ underDailyCap(req[c].did)
    /\ req' = [req EXCEPT ![c].pc =
         IF Regenerates(c) /\ req[c].anchor /\ req[c].snap.key # req[c].key
         THEN "own" ELSE "setup"]
    /\ UNCHANGED <<tables, spent, poll, runs, unpaid>>
Refused(c) ==
    /\ req[c].pc = "claim"
    /\ Answered(c)
    /\ UNCHANGED <<tables, spent, poll, runs, unpaid>>

-----------------------------------------------------------------------------
(* The setup.                                                              *)

(* The budget is asked in the slot, before anything is spent.              *)
EnterSlot(c) ==
    /\ req[c].pc \in {"own", "setup"}
    /\ SlotFree
    /\ req' = [req EXCEPT
         ![c].pc = IF req[c].pc = "own" THEN "inOwn" ELSE "inSetup",
         ![c].allowed = modelBudgetLeft]
    /\ UNCHANGED <<tables, spent, poll, runs, unpaid>>

(* No slot comes free before the deadline, which both tries share.         *)
SlotBusy(c) ==
    /\ req[c].pc \in {"own", "setup"}
    /\ Answered(c)
    /\ UNCHANGED <<tables, spent, poll, runs, unpaid>>

(* SetupAnchored asks no model; any other setup may ask it to judge the    *)
(* lists, a few votes, and then to write a recipe, a few rounds.           *)
Costs(c) ==
    IF req[c].allowed /\ ~req[c].anchor THEN 0..SetupCalls ELSE {0}

(* An anchored setup stays on the listing it was given.                    *)
SetupEnds(c) ==
    /\ req[c].pc = "inSetup"
    /\ \E h \in SetupHealths, cost \in Costs(c),
          ended \in IF req[c].anchor THEN {req[c].key} ELSE Keys :
         req' = [req EXCEPT ![c] =
             [@ EXCEPT !.health = h, !.cost = cost, !.ended = ended,
                       !.pc = IF Regenerates(c) /\ req[c].anchor THEN "vet"
                              ELSE "store"]]
    /\ UNCHANGED <<tables, spent, poll, runs, unpaid>>

(* anchoredSetup's first try, on the listing the source moved to: it       *)
(* counts only when that page links the post.                              *)
OwnEnds(c) ==
    /\ req[c].pc = "inOwn"
    /\ \/ \E h \in SetupHealths :
            req' = [req EXCEPT ![c] =
              [@ EXCEPT !.health = h, !.cost = 0,
                        !.key = req[c].snap.key, !.ended = req[c].snap.key,
                        !.pc = "vet"]]
       \/ req' = [req EXCEPT ![c].pc = "setup"]
    /\ UNCHANGED <<tables, spent, poll, runs, unpaid>>

(* A setup that fails has its cost recorded at once.                       *)
SetupFails(c) ==
    /\ req[c].pc \in {"inOwn", "inSetup"}
    /\ \E cost \in Costs(c) : recordSpend(cost)
    /\ IF req[c].pc = "inOwn" THEN req' = [req EXCEPT ![c].pc = "setup"]
       ELSE Answered(c)
    /\ UNCHANGED <<tables, poll, runs, unpaid>>

-----------------------------------------------------------------------------
(* vetAnchor: before a reader's post changes a list others follow.         *)

FollowedByOthers(c) == follows[req[c].id] \ {req[c].did} # {}

(* The page may link the post or not.  A setup that links it and is no     *)
(* better goes on: storeSetup will keep the old one.  Rejected, the source *)
(* stays and is what the reader sees.                                      *)
Vet(c) ==
    /\ req[c].pc = "vet"
    /\ \/ /\ ~FollowedByOthers(c) \/ ~improves(req[c].health, req[c].snap)
          /\ req' = [req EXCEPT ![c] =
               [@ EXCEPT !.pc = "store", !.unvetted = FollowedByOthers(c)]]
       \/ /\ FollowedByOthers(c) /\ improves(req[c].health, req[c].snap)
          /\ modelBudgetLeft
          /\ req' = [req EXCEPT ![c] =
               [@ EXCEPT !.pc = "confirm", !.unvetted = TRUE]]
       \/ FollowedByOthers(c) /\ Answered(c) \* no link, no model or no budget
    /\ UNCHANGED <<tables, spent, poll, runs, unpaid>>

(* The model's one look is paid for whatever it says, or fails to.         *)
Confirm(c) ==
    /\ req[c].pc = "confirm"
    /\ \E cost \in {0, 1} : recordSpend(cost)
    /\ \/ req' = [req EXCEPT ![c] =
               [@ EXCEPT !.pc = "store", !.unvetted = FALSE]]
       \/ Answered(c)
    /\ UNCHANGED <<tables, poll, runs, unpaid>>

-----------------------------------------------------------------------------
(* storeSetup, one transaction, for a setup g = [key, ended, health, cost, *)
(* by, replaces, atSeq], atSeq being None where any replacement will do.   *)

(* The source it replaces, else the one its listings already have.         *)
GetWebSource(s) == IF s \in SourceRows THEN s ELSE None
storedSource(g) ==
    IF GetWebSource(g.replaces) # None THEN g.replaces
    ELSE IF GetWebSourceByKey(g.key) # None THEN GetWebSourceByKey(g.key)
    ELSE GetWebSourceByKey(g.ended)

(* A key that already has a source keeps it (ON CONFLICT DO NOTHING).      *)
InsertWebSourceAlias(al, k, s) ==
    [al EXCEPT ![k] = IF @ = None THEN s ELSE @]
DeleteWebSourceAlias(k, s) == [aliases EXCEPT ![k] = IF @ = s THEN None ELSE @]
addAlias(al, k, s, ownKey) ==
    IF k = ownKey THEN al ELSE InsertWebSourceAlias(al, k, s)

(* The key of the listing the new setup ended on, unless another source    *)
(* answers to it; the old key becomes an alias.  Mutant: it is forgotten.  *)
rekeyForgets(s, k) ==
    IF k = sources[s].key \/ GetWebSourceByKey(k) \notin {None, s}
    THEN [key |-> sources[s].key, aliases |-> aliases]
    ELSE [key |-> k, aliases |-> DeleteWebSourceAlias(k, s)]
rekey(s, k) ==
    IF k = sources[s].key \/ GetWebSourceByKey(k) \notin {None, s}
    THEN [key |-> sources[s].key, aliases |-> aliases]
    ELSE [key |-> k,
          aliases |-> InsertWebSourceAlias(DeleteWebSourceAlias(k, s),
                                           sources[s].key, s)]

NewRow(g, key, seq, by) ==
    [key |-> key, setup |-> g.health, health |-> g.health, seq |-> seq,
     by |-> by, checked |-> TRUE, lately |-> TRUE]

(* Ids no row and nobody at work knows.                                    *)
NewId(s) ==
    /\ sources[s] = None /\ poll.id # s
    /\ \A c \in Clients : req[c].id # s

Replaced(g, s) ==
    LET moved == rekey(s, g.ended)
    IN  /\ sources' = [sources EXCEPT ![s] =
              NewRow(g, moved.key, sources[s].seq + 1, sources[s].by)]
        /\ aliases' = moved.aliases

storeSetup(g, id) ==
    /\ recordSpend(g.cost)
    /\ LET s == storedSource(g)
       IN  \/ /\ s = None                    \* a new source
              /\ NewId(id)
              /\ sources' = [sources EXCEPT ![id] = NewRow(g, g.ended, 0, g.by)]
              /\ aliases' = addAlias(aliases, g.key, id, g.ended)
           \/ /\ s # None /\ s = id
              /\ s # g.replaces              \* somebody else's stands
              /\ aliases' = addAlias(aliases, g.key, s, sources[s].key)
              /\ UNCHANGED sources
           \/ /\ s # None /\ s = id
              /\ s = g.replaces
              /\ IF g.atSeq \in {None, sources[s].seq}
                    /\ improves(g.health, sources[s])
                 THEN Replaced(g, s)
                 ELSE UNCHANGED <<sources, aliases>> \* the old one is kept

Store(c) ==
    /\ req[c].pc = "store"
    /\ \E id \in Ids :
         storeSetup([key |-> req[c].key, ended |-> req[c].ended,
                     health |-> req[c].health, cost |-> req[c].cost,
                     by |-> req[c].did, replaces |-> req[c].id,
                     atSeq |-> None], id)
    /\ Answered(c)
    /\ UNCHANGED <<follows, poll, runs, unpaid>>

-----------------------------------------------------------------------------
(* The poller.                                                             *)

(* ListDueWebSources: a setup the site refused is never polled.            *)
Due(s) ==
    /\ sources[s].setup \in {"ok", "needs_attention"}
    /\ follows[s] # {} \/ sources[s].lately

PollStart ==
    /\ poll = IdlePoll
    /\ runs < MaxRuns
    /\ runs' = runs + 1
    /\ \E s \in SourceRows :
         /\ Due(s)
         /\ poll' = [pc |-> "due", id |-> s, snap |-> Listed(sources[s]),
                     allowed |-> FALSE]
    /\ UNCHANGED <<tables, spent, req, unpaid>>

(* pollOne's turn in the batch comes later; only the budget is read anew.  *)
PollOne ==
    /\ poll.pc = "due"
    /\ poll' = [poll EXCEPT !.pc = "polling", !.allowed = modelBudgetLeft]
    /\ UNCHANGED <<tables, spent, req, runs, unpaid>>

(* pollUpdate: an unsure setup is answered by a later setup alone.         *)
PolledHealth(row, verdict) ==
    IF verdict \in {"broken", "blocked_by_site"} \/ row.setup = "ok"
    THEN verdict ELSE row.setup

Current(s, snap) == sources[s] # None /\ sources[s].seq = snap.seq

(* What the weekly check and the repair's judge rung, a setup of its own,  *)
(* cost: both were allowed by the one reading of the budget.               *)
CheckCosts == IF poll.allowed THEN {0, 1} ELSE {0}
RepairCosts == IF poll.allowed THEN 0..SetupCalls ELSE {0}

(* storePoll.                                                              *)
PollEnds ==
    /\ poll.pc = "polling"
    /\ \E check \in CheckCosts, repair \in RepairCosts :
         recordSpend(check + repair)
    /\ \E verdict \in Health :
         sources' = IF Current(poll.id, poll.snap)
                    THEN [sources EXCEPT ![poll.id].health =
                             PolledHealth(poll.snap, verdict)]
                    ELSE sources
    /\ poll' = IF poll.snap.checked THEN IdlePoll
               ELSE [poll EXCEPT !.pc = "check"]
    /\ UNCHANGED <<aliases, follows, req, runs, unpaid>>

(* A shutdown ends the poll and the poller.  A repair it cuts short has    *)
(* its cost recorded, the check before it has not; a poll that was through *)
(* with the model fails to be stored, cost and all.                        *)
PollCut ==
    /\ poll.pc = "polling"
    /\ \E check \in CheckCosts, repair \in RepairCosts :
         \/ /\ recordSpend(repair)
            /\ unpaid' = (unpaid \/ check > 0)
         \/ /\ recordSpend(0)
            /\ unpaid' = (unpaid \/ check + repair > 0)
    /\ poll' = [IdlePoll EXCEPT !.pc = "stopped"]
    /\ UNCHANGED <<tables, req, runs>>

(* checkSection never waits for a slot and never uses the model.           *)
CheckStart ==
    /\ poll.pc = "check"
    /\ \/ SlotFree /\ poll' = [poll EXCEPT !.pc = "checking"]
       \/ poll' = IdlePoll
    /\ UNCHANGED <<tables, spent, req, runs, unpaid>>

MarkWebSourceSectionChecked ==
    sources' = IF Current(poll.id, poll.snap)
               THEN [sources EXCEPT ![poll.id].checked = TRUE]
               ELSE sources

(* It moves the source to a healthy section page that keeps every post     *)
(* readers see, or marks it checked; a newer setup answers for itself.     *)
CheckEnds ==
    /\ poll.pc = "checking"
    /\ \/ \E ended \in Keys \ {poll.snap.key}, id \in Ids :
            storeSetup([key |-> poll.snap.key, ended |-> ended,
                        health |-> "ok", cost |-> 0, by |-> poll.snap.by,
                        replaces |-> poll.id, atSeq |-> poll.snap.seq], id)
       \/ /\ MarkWebSourceSectionChecked
          /\ UNCHANGED <<aliases, spent>>
    /\ poll' = IdlePoll
    /\ UNCHANGED <<follows, req, runs, unpaid>>

-----------------------------------------------------------------------------
(* The world, and the sweep.                                               *)

Follow ==
    /\ \E s \in SourceRows, d \in Readers :
         follows' = [follows EXCEPT ![s] = @ \cup {d}]
    /\ UNCHANGED <<sources, aliases, spent, req, poll, runs, unpaid>>

Unfollow ==
    /\ \E s \in SourceRows, d \in Readers :
         /\ d \in follows[s]
         /\ follows' = [follows EXCEPT ![s] = @ \ {d}]
         /\ sources' = Stamped(s)
    /\ UNCHANGED <<aliases, spent, req, poll, runs, unpaid>>

(* PublicFeedHandler: an outside feed reader fetched the feed.             *)
MarkServed ==
    /\ \E s \in SourceRows : sources' = Stamped(s)
    /\ UNCHANGED <<aliases, follows, spent, req, poll, runs, unpaid>>

(* FeedSweepGrace goes by: no request or poll takes a month.               *)
GracePasses ==
    /\ \A c \in Clients : req[c] = IdleReq
    /\ poll = IdlePoll
    /\ sources' = [s \in Ids |-> IF sources[s] = None THEN None
                                 ELSE [sources[s] EXCEPT !.lately = FALSE,
                                                         !.by = None]]
    /\ spent' = 0
    /\ UNCHANGED <<aliases, follows, req, poll, runs, unpaid>>

DeleteUnfollowedWebSources ==
    LET gone == {s \in SourceRows : ~sources[s].lately /\ follows[s] = {}}
    IN  /\ gone # {}
        /\ sources' = [s \in Ids |-> IF s \in gone THEN None ELSE sources[s]]
        /\ aliases' = [k \in Keys |-> IF aliases[k] \in gone THEN None
                                      ELSE aliases[k]]
        /\ UNCHANGED <<follows, spent, req, poll, runs, unpaid>>

(* Claims, slots and setups in flight are memory only, and so is the cost  *)
(* of a setup that answered and is not stored yet.                         *)
Restart ==
    /\ req' = [c \in Clients |-> IdleReq]
    /\ poll' = IdlePoll
    /\ unpaid' = (unpaid \/ \E c \in Clients : req[c].cost > 0)
    /\ UNCHANGED <<tables, spent, runs>>

-----------------------------------------------------------------------------
Create(c) ==
    \/ Offer(c) \/ Claim(c) \/ Refused(c) \/ EnterSlot(c) \/ SlotBusy(c)
    \/ SetupEnds(c) \/ OwnEnds(c) \/ SetupFails(c) \/ Vet(c) \/ Confirm(c)
    \/ Store(c)
PollDue ==
    PollStart \/ PollOne \/ PollEnds \/ PollCut \/ CheckStart \/ CheckEnds
World ==
    Follow \/ Unfollow \/ MarkServed \/ GracePasses
    \/ DeleteUnfollowedWebSources \/ Restart

Next == (\E c \in Clients : Create(c)) \/ PollDue \/ World

Spec == Init /\ [][Next]_vars

-----------------------------------------------------------------------------
(* A listing key that finds a source keeps finding that source, whatever   *)
(* setups, checks and moves to section pages do to it, for as long as the *)
(* source is there: a site never gets a second feed under the same paste.  *)
KeysStay ==
    [][\A k \in Keys :
         LET s == GetWebSourceByKey(k)
         IN  s # None /\ sources'[s] # None => GetWebSourceByKey(k)' = s]_vars

(* A reader's post replaces a list that others followed when it was vetted *)
(* only once the model agreed, though polls and other setups change the  *)
(* source between the vetting and the store.                               *)
ReplacedOnlyOnceVetted ==
    [][\A c \in Clients :
         /\ req[c].pc = "store" /\ req'[c].pc = "idle" /\ Regenerates(c)
         /\ sources'[req[c].id] # None
         /\ sources'[req[c].id].seq # sources[req[c].id].seq
         => ~req[c].unvetted]_vars

(* underDailyCap is read before a setup, the source is counted after it:   *)
(* one claim per reader keeps a reader to the sources of a day.            *)
DailyCapHolds ==
    \A d \in Readers : Cardinality(CreatedBy(d)) <= DailySources

(* The budget is read before the calls, their cost is recorded after them, *)
(* so a day's spend passes the budget, but by no more than what can be at  *)
(* work at once: a setup per reader, the poller's check and its repair.    *)
SpendIsBounded ==
    spent <= ModelDaily + (Cardinality(Readers) + 1) * SetupCalls

(* Config (service.go:55): "ModelDailyUSD caps model spend over any 24     *)
(* hours across all sources", so every model call's cost is recorded.      *)
SpendIsRecorded == ~unpaid
=============================================================================
