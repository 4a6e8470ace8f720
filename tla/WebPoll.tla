------------------------------ MODULE WebPoll ------------------------------
(***************************************************************************)
(* How one generated feed is polled (internal/websource service.go,        *)
(* webfeedgen.go; internal/webfeed poll.go, repair.go, watch.go): a recipe *)
(* extracts a list from the listing page, a detector compares it with the  *)
(* source's last good polls, now and then a model looks at the list, and a *)
(* repair looks for another one.  A look that finds the list wrong raises  *)
(* an alarm that only a later look, a repair onto another list or a new    *)
(* setup may close; it is not stored but derived from three timestamps.    *)
(* Setups (WebSource) replace the source at any moment of a poll.          *)
(*                                                                         *)
(* A page holds lists that have no links in common, and has a layout; in   *)
(* the layout it was made for a recipe finds its list, in another any list *)
(* or none.  What a heuristic picks, what the detector doubts in a list it *)
(* knows, what the model says and whether the budget lasts are any.        *)
(* Backoff is any delay; a sitemap's polls, which have no page for a model *)
(* to see, are left out.  One tick is the poll interval.                   *)
(***************************************************************************)
EXTENDS Naturals, Sequences

CONSTANTS
    Lists,         \* lists of links on the page: the posts and another
    Layouts,       \* of the page
    None,
    HistoryPolls,  \* historyPolls
    CheckEvery,    \* checkEvery, in ticks
    CheckRetry,    \* checkRetry
    ModelGap,      \* modelRepairGap
    MaxNow,        \* bound: ticks
    MaxSetups      \* bound: setups that replace the first

ASSUME WebPollAssumption ==
    /\ {HistoryPolls, CheckEvery, CheckRetry, ModelGap} \subseteq Nat \ {0}
    /\ {MaxNow, MaxSetups} \subseteq Nat
    /\ None \notin Lists \cup Layouts \cup Nat
    /\ "trusted" \notin Lists \cup {None}

Times == 0..MaxNow
SetupHealths == {"ok", "needs_attention"}
Health == SetupHealths \cup {"broken", "blocked_by_site"}
Recipe == [list : Lists, layout : Layouts]
Site == [answers : {"page", "error", "refusal"}, layout : Layouts,
         news : BOOLEAN]          \* flips when the page's links change
Hash == Layouts \X BOOLEAN

Row == [recipe : Recipe, setup : SetupHealths, health : Health,
        seq : 0..MaxSetups, setupAt : Times, polledAt : Times \cup {None},
        checkedAt : Times \cup {None}, hash : Hash \cup {None}]
GoodPoll == [list : Lists, seq : 0..MaxSetups]  \* seq is history
Outcomes == {"accepted", "unresolved"}
Repair == [at : Times, outcome : Outcomes]
Tried == [cause : {"detector", "weekly_check"}, model : BOOLEAN,
          outcome : Outcomes]     \* a poll's repair, before it is stored
State == [at : Times, history : Seq(GoodPoll), modelRepair : BOOLEAN,
          check : BOOLEAN, alarm : BOOLEAN]

ASSUME NoneIsNoRecord == None \notin Repair \cup Tried

VARIABLES
    site,      \* what the next fetch meets
    row,       \* the web_sources row
    polls,     \* web_source_polls, newest first
    weekly,    \* the last web_source_repairs row of cause weekly_check
    modelAt,   \* when the last repair that used the model was
    poll,      \* the poll at work: [pc, row, state, out]
    now,
    doubt      \* history: the list an unanswered look found wrong

vars == <<site, row, polls, weekly, modelAt, poll, now, doubt>>

NoPoll == [pc |-> "idle"]

TypeOK ==
    /\ site \in Site
    /\ row \in Row
    /\ polls \in Seq(GoodPoll) /\ Len(polls) <= HistoryPolls
    /\ weekly \in Repair \cup {None}
    /\ modelAt \in Times \cup {None}
    /\ poll.pc \in {"idle", "fetch", "store"}
    /\ now \in Times
    /\ doubt \in Lists \cup {None}

(* storeSetup: a healthy setup also starts the detector's history.         *)
Stored(l, y, h, seq) ==
    [recipe |-> [list |-> l, layout |-> y], setup |-> h, health |-> h,
     seq |-> seq, setupAt |-> now, polledAt |-> None, checkedAt |-> None,
     hash |-> None]
FirstPolls(l, h, seq) ==
    IF h = "ok" THEN <<[list |-> l, seq |-> seq]>> ELSE <<>>

Init ==
    /\ now = 0
    /\ site \in [answers : {"page"}, layout : Layouts, news : {FALSE}]
    /\ \E l \in Lists, h \in SetupHealths :
         row = Stored(l, site.layout, h, 0) /\ polls = FirstPolls(l, h, 0)
    /\ weekly = None /\ modelAt = None
    /\ poll = NoPoll
    /\ doubt = None

-----------------------------------------------------------------------------
(* What a poll starts from.                                                *)

(* Mutant: a look since then does not count.                               *)
AnyUnresolved(r) ==
    weekly # None /\ weekly.outcome = "unresolved" /\ weekly.at >= r.setupAt
weeklyAlarmOpen(r) ==
    /\ weekly # None /\ weekly.outcome = "unresolved"
    /\ r.checkedAt # None
    /\ weekly.at >= r.checkedAt /\ weekly.at >= r.setupAt

(* The newest good polls (LIMIT historyPolls).                             *)
ListWebSourcePolls == IF Len(polls) <= HistoryPolls THEN polls
                      ELSE SubSeq(polls, 1, HistoryPolls)

pollState(budget) ==
    LET alarm == weeklyAlarmOpen(row)
        since == IF row.checkedAt = None THEN row.setupAt ELSE row.checkedAt
    IN  [at |-> now, history |-> ListWebSourcePolls, alarm |-> alarm,
         modelRepair |-> budget /\ (modelAt = None \/ now - modelAt >= ModelGap),
         check |-> /\ budget
                   /\ now - since >= (IF alarm THEN CheckRetry ELSE CheckEvery)]

Due == /\ row.setupAt < now
       /\ row.polledAt # None => row.polledAt < now

PollStarts ==
    /\ poll = NoPoll
    /\ Due
    /\ \E budget \in BOOLEAN :
         poll' = [pc |-> "fetch", row |-> row, state |-> pollState(budget)]
    /\ UNCHANGED <<site, row, polls, weekly, modelAt, now, doubt>>

-----------------------------------------------------------------------------
(* The fetch and the detector.                                             *)

(* refind: the list in the container the recipe names, else one of the     *)
(* same structure, else any whose links have the shape of its posts'.      *)
Extracted(r) == IF r.layout = site.layout THEN {r.list} ELSE Lists \cup {None}
PageHash == <<site.layout, site.news>>

(* A list it does not know is drift; so may be a sudden change of one it   *)
(* knows.                                                                  *)
drift(list, history) ==
    IF list = None \/ (history # <<>> /\ list # history[1].list)
    THEN {TRUE} ELSE BOOLEAN

-----------------------------------------------------------------------------
(* The repair ladder.  A result is a recipe, or None: unresolved.          *)

OnPage(l) == [list |-> l, layout |-> site.layout]

(* What the good polls vouch for: known posts, their URL shape, titles.    *)
acceptRepair(l, history) ==
    IF l = history[1].list THEN {TRUE} ELSE BOOLEAN

(* A doubted list vouches for nothing: only another list will do.          *)
acceptOther(l, doubted) == IF l = doubted THEN {FALSE} ELSE BOOLEAN

(* Mutant: a doubted list is repaired like one that drifted.               *)
trustingAccept(l, doubted, state) == acceptRepair(l, state.history)
Accept(l, doubted, state) ==
    IF doubted # "trusted" THEN acceptOther(l, doubted)
    ELSE acceptRepair(l, state.history)

(* doubted is the list a look doubts, "trusted" when none does.  The judge *)
(* rung, a setup, reads the page anew and asks the model only when unsure. *)
WebfeedRepair(state, doubted) ==
    LET taken == {l \in Lists : TRUE \in Accept(l, doubted, state)}
        judge == IF state.modelRepair THEN BOOLEAN ELSE {}
    IN  IF state.history = <<>> THEN {[recipe |-> None, model |-> FALSE]}
        ELSE {[recipe |-> OnPage(l), model |-> FALSE] : l \in taken}
             \cup {[recipe |-> [list |-> l, layout |-> y], model |-> m] :
                      l \in taken, y \in Layouts, m \in judge}
             \cup {[recipe |-> None, model |-> m] : m \in {FALSE} \cup judge}

-----------------------------------------------------------------------------
(* The poll's outcome: its verdict, the list it publishes, its repair.     *)

Outcome(v) == [verdict |-> v, recipe |-> None, list |-> None, hash |-> None,
               seen |-> None, checked |-> FALSE, found |-> "unasked",
               repair |-> None]

repair(out, state, cause, doubted) ==
    {[out EXCEPT
        !.verdict = IF r.recipe = None THEN "suspect" ELSE "ok",
        !.recipe = r.recipe,
        !.list = IF r.recipe = None THEN None ELSE r.recipe.list,
        !.repair = [cause |-> cause, model |-> r.model,
                    outcome |-> IF r.recipe = None THEN "unresolved"
                                ELSE "accepted"]] :
       r \in WebfeedRepair(state, doubted)}

(* The model's look, once it is due; "failed" says nothing.                *)
WeeklyCheck(state) ==
    IF state.check THEN {"healthy", "broken", "failed"} ELSE {"unasked"}

(* A page that answers, with links that changed or were asked for.         *)
PageOutcomes(state, list) ==
    LET read == [Outcome("ok") EXCEPT !.hash = PageHash, !.seen = list]
        looked(v) == [read EXCEPT !.checked = v # "unasked", !.found = v]
        suspect ==
            IF state.alarm THEN repair(read, state, "weekly_check", list)
            ELSE repair(read, state, "detector", "trusted")
        steady ==
            UNION {IF v = "broken" \/ (state.alarm /\ v # "healthy")
                   THEN repair(looked(v), state, "weekly_check", list)
                   ELSE {[looked(v) EXCEPT !.list = list]} :
                     v \in WeeklyCheck(state)}
    IN  (IF TRUE \in drift(list, state.history) THEN suspect ELSE {})
        \cup (IF FALSE \in drift(list, state.history) THEN steady ELSE {})

ReadPage(r, state) ==
    UNION {PageOutcomes(state, list) : list \in Extracted(r.recipe)}

(* A server may answer 304 whatever it was asked; the hash of the links is *)
(* compared only by a poll that neither looks nor minds an alarm.          *)
Poll(r, state) ==
    CASE site.answers = "error" -> {Outcome("broken")}
      [] site.answers = "refusal" -> {Outcome("blocked")}
      [] OTHER ->
           LET same == [Outcome("ok") EXCEPT !.hash = PageHash]
           IN  IF r.hash = PageHash /\ ~(state.check \/ state.alarm)
               THEN {same}
               ELSE ReadPage(r, state)
                    \cup (IF r.hash = PageHash THEN {same} ELSE {})

answersAlarm(rep) ==
    rep # None /\ rep.cause = "weekly_check" /\ rep.outcome = "accepted"

(* pollOne: an ok that answers no alarm leaves the source in doubt.        *)
(* Mutant: any ok is taken.                                                *)
takenAsIs(out, state) == out
settled(out, state) ==
    IF state.alarm /\ out.verdict = "ok" /\ ~out.checked /\ ~answersAlarm(out.repair)
    THEN [Outcome("suspect") EXCEPT !.repair = out.repair]
    ELSE out

PollReads ==
    /\ poll.pc = "fetch"
    /\ \E out \in Poll(poll.row, poll.state) :
         poll' = [pc |-> "store", row |-> poll.row, state |-> poll.state,
                  out |-> settled(out, poll.state)]
    /\ UNCHANGED <<site, row, polls, weekly, modelAt, now, doubt>>

-----------------------------------------------------------------------------
(* storePoll, one transaction; the poll's row was read when it began.      *)

verdictHealth(v) ==
    CASE v = "ok" -> "ok" [] v = "suspect" -> "needs_attention"
      [] v = "blocked" -> "blocked_by_site" [] OTHER -> "broken"

(* Only a later setup answers an unsure one.                               *)
pollUpdate(src, out, at) ==
    LET up == out.verdict \in {"ok", "suspect"}
        kept == [src EXCEPT
                   !.polledAt = at,
                   !.checkedAt = IF out.checked THEN at ELSE @,
                   !.health = IF up /\ src.setup # "ok" THEN src.setup
                              ELSE verdictHealth(out.verdict)]
    IN  IF out.verdict # "ok" THEN kept
        ELSE [kept EXCEPT !.hash = IF out.hash = None THEN @ ELSE out.hash,
                          !.recipe = IF out.recipe = None THEN @ ELSE out.recipe]

(* Mutant: a poll writes over a setup that replaced its source.            *)
anySetup(seq) == TRUE
sameSetup(seq) == row.seq = seq

InsertWebSourcePoll(list) == <<[list |-> list, seq |-> poll.row.seq]>> \o polls
PruneWebSourcePolls(all) ==
    IF Len(all) <= HistoryPolls THEN all ELSE SubSeq(all, 1, HistoryPolls)
recordPoll(list) == PruneWebSourcePolls(InsertWebSourcePoll(list))

(* Any weekly repair that was accepted is an answer.                       *)
Answered(out) ==
    out.found = "healthy" \/ answersAlarm(out.repair)
Doubts(out) ==
    out.repair # None /\ out.repair.cause = "weekly_check"

storePoll(out, at) ==
    /\ row' = pollUpdate(poll.row, out, at)
    /\ weekly' = IF Doubts(out) THEN [at |-> at, outcome |-> out.repair.outcome]
                 ELSE weekly
    /\ modelAt' = IF out.repair # None /\ out.repair.model THEN at ELSE modelAt
    /\ polls' = IF out.verdict = "ok" /\ out.list # None
                THEN recordPoll(out.list) ELSE polls
    /\ doubt' = IF Answered(out) THEN None
                ELSE IF out.found = "broken" THEN out.seen
                ELSE doubt

(* A poll of a source that a setup replaced meanwhile writes nothing.      *)
PollStores ==
    /\ poll.pc = "store"
    /\ IF sameSetup(poll.row.seq) THEN storePoll(poll.out, poll.state.at)
       ELSE UNCHANGED <<row, polls, weekly, modelAt, doubt>>
    /\ poll' = NoPoll
    /\ UNCHANGED <<site, now>>

(* A shutdown or crash: what the poll learnt is lost.                      *)
PollDies ==
    /\ poll # NoPoll
    /\ poll' = NoPoll
    /\ UNCHANGED <<site, row, polls, weekly, modelAt, now, doubt>>

-----------------------------------------------------------------------------
(* Setups, the site and the clock.                                         *)

ReplaceWebSourceSetup ==
    /\ row.seq < MaxSetups
    /\ \E l \in Lists, h \in SetupHealths :
         /\ row' = Stored(l, site.layout, h, row.seq + 1)
         /\ polls' = FirstPolls(l, h, row.seq + 1)
    /\ doubt' = None
    /\ UNCHANGED <<site, weekly, modelAt, poll, now>>

(* A change after the page was read is a change before the next read.      *)
SiteChanges ==
    /\ poll.pc # "store"
    /\ \E s \in Site : s # site /\ site' = s
    /\ UNCHANGED <<row, polls, weekly, modelAt, poll, now, doubt>>

Tick ==
    /\ now < MaxNow
    /\ now' = now + 1
    /\ UNCHANGED <<site, row, polls, weekly, modelAt, poll, doubt>>

-----------------------------------------------------------------------------
Next == PollStarts \/ PollReads \/ PollStores \/ PollDies
        \/ ReplaceWebSourceSetup \/ SiteChanges \/ Tick
Spec == Init /\ [][Next]_vars

-----------------------------------------------------------------------------
(* The alarm that three timestamps encode stands exactly while a look that *)
(* found the list wrong is unanswered by a later look that did not, by a   *)
(* repair that took a list or by a new setup, whatever else was polled or  *)
(* replaced.                                                               *)
AlarmIsTheDoubt == weeklyAlarmOpen(row) <=> doubt # None

(* While a look's doubt stands, no poll publishes what the doubted recipe  *)
(* extracts: only once the model found it healthy, or another list than    *)
(* the recipe finds in the page.                                           *)
DoubtedRecipeWaits ==
    [][row'.seq = row.seq /\ polls' # polls /\ doubt # None
       => \/ poll.out.found = "healthy"
          \/ polls'[1].list # poll.out.seen]_vars

(* answersAlarm (service.go:792): "one that left the doubted list for      *)
(* another".  The repair compares with what its own poll extracted.        *)
AnsweredByAnother ==
    [][row'.seq = row.seq /\ doubt # None /\ doubt' = None
       /\ poll.out.found = "unasked"
       => polls'[1].list # doubt]_vars

(* What polls leave behind is of the setup in force: its good polls, and a *)
(* health no better than a setup that doubted itself or an open alarm.     *)
PollsAreOfThisSetup ==
    /\ \A i \in DOMAIN polls : polls[i].seq = row.seq
    /\ row.setup # "ok" \/ weeklyAlarmOpen(row) => row.health # "ok"
=============================================================================
