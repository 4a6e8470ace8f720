--------------------------- MODULE WebPollProofs ---------------------------
(***************************************************************************)
(* Proofs about WebPoll, for every set of lists and layouts, every bound   *)
(* and every delay: the alarm that three timestamps encode is the doubt    *)
(* they stand for, and what a doubted recipe extracts is not published on   *)
(* the word of the polls that trust it.                                    *)
(***************************************************************************)
EXTENDS WebPoll, TLAPS

Verdicts == {"ok", "suspect", "blocked", "broken"}
Looks == {"unasked", "healthy", "broken", "failed"}
Learnt == [verdict : Verdicts, recipe : Recipe \cup {None},
           list : Lists \cup {None}, hash : Hash \cup {None},
           seen : Lists \cup {None}, checked : BOOLEAN, found : Looks,
           repair : Tried \cup {None}]

(* What a poll's outcome says of its list, its look and its repair.        *)
Read(out) ==
    /\ out \in Learnt
    /\ out.checked <=> out.found # "unasked"
    /\ out.found = "healthy" => out.repair = None
    /\ out.found = "broken" => Doubts(out) /\ out.seen # None
    /\ Doubts(out) /\ ~answersAlarm(out.repair) => out.verdict # "ok"
    /\ answersAlarm(out.repair) => out.list # out.seen

(* With an alarm open a look that says nothing is followed by a repair, and*)
(* without one only a look that found the list wrong is.                   *)
Heeds(out, alarm) ==
    /\ Doubts(out) => alarm \/ out.found = "broken"
    /\ alarm /\ out.checked
         => out.found = "healthy" \/ Doubts(out)

(* And an ok answers the alarm.                                            *)
Answers(out, alarm) ==
    alarm /\ out.verdict = "ok"
      => out.found = "healthy" \/ answersAlarm(out.repair)

(* The poll at work: what it began from is still so unless a setup replaced*)
(* the source, and its time is later than any that is stored.              *)
PollKnown ==
    poll.pc # "idle" =>
        /\ poll.row \in Row
        /\ poll.state.at \in Times
        /\ poll.state.at <= now
        /\ poll.state.alarm \in BOOLEAN
        /\ poll.state.modelRepair \in BOOLEAN
        /\ poll.row.seq <= row.seq
        /\ poll.row.seq = row.seq => poll.row = row
        /\ poll.row.setupAt < poll.state.at
        /\ poll.state.alarm <=> weeklyAlarmOpen(poll.row)
        /\ weekly # None => weekly.at < poll.state.at

OutKnown ==
    poll.pc = "store" =>
        /\ Read(poll.out)
        /\ Heeds(poll.out, poll.state.alarm)
        /\ Answers(poll.out, poll.state.alarm)

(* The last weekly repair is no later than the setup or the last poll.     *)
WeeklyPast ==
    weekly # None =>
        /\ weekly.at <= now
        /\ \/ weekly.at <= row.setupAt
           \/ row.polledAt # None /\ weekly.at <= row.polledAt

IInv ==
    /\ TypeOK
    /\ PollKnown
    /\ OutKnown
    /\ WeeklyPast
    /\ AlarmIsTheDoubt
    /\ PollsAreOfThisSetup
-----------------------------------------------------------------------------
(* The constants, as arithmetic needs them.                                *)
LEMMA Bounds ==
    /\ HistoryPolls \in Nat \ {0} /\ MaxNow \in Nat /\ MaxSetups \in Nat
    /\ Times \subseteq Nat
    /\ None \notin Lists /\ None \notin Layouts /\ None \notin Nat
    /\ "trusted" \notin Lists /\ None # "trusted"
    /\ None \notin Repair /\ None \notin Tried
BY WebPollAssumption, NoneIsNoRecord DEF Times

(* What extraction reads is a list or nothing.                             *)
LEMMA ExtractsLists ==
  ASSUME NEW r \in Recipe
  PROVE  Extracted(r) \subseteq Lists \cup {None}
BY DEF Extracted, Recipe

(* An outcome before anything was learnt.                                  *)
LEMMA OutcomeLearnt ==
  ASSUME NEW v \in Verdicts
  PROVE  Outcome(v) \in Learnt
BY DEF Outcome, Learnt, Looks

(* The repair ladder's recipes are of this page, and where the list is     *)
(* doubted they are of another list.                                       *)
LEMMA LadderFinds ==
  ASSUME site \in Site, NEW state, state.modelRepair \in BOOLEAN, NEW doubted,
         NEW r \in WebfeedRepair(state, doubted)
  PROVE  /\ r.model \in BOOLEAN
         /\ r.recipe \in Recipe \cup {None}
         /\ r.recipe # None /\ doubted # "trusted" => r.recipe.list # doubted
<1> DEFINE taken == {l \in Lists : TRUE \in Accept(l, doubted, state)}
           judge == IF state.modelRepair THEN BOOLEAN ELSE {}
           free == {[recipe |-> OnPage(l), model |-> FALSE] : l \in taken}
           judged == {[recipe |-> [list |-> l, layout |-> y], model |-> m] :
                        l \in taken, y \in Layouts, m \in judge}
           none == {[recipe |-> None, model |-> m] : m \in {FALSE} \cup judge}
<1>1. \/ r = [recipe |-> None, model |-> FALSE]
      \/ r \in free \/ r \in judged \/ r \in none
  <2>1. WebfeedRepair(state, doubted) =
          IF state.history = <<>> THEN {[recipe |-> None, model |-> FALSE]}
          ELSE free \cup judged \cup none
    BY DEF WebfeedRepair
  <2> HIDE DEF free, judged, none
  <2> QED
    BY <2>1
<1>2. ASSUME NEW m \in judge PROVE m \in BOOLEAN
  BY <1>2, Zenon
<1>3. ASSUME NEW l \in taken, NEW y \in Layouts, NEW m \in BOOLEAN,
             r = [recipe |-> [list |-> l, layout |-> y], model |-> m]
      PROVE  /\ r.model \in BOOLEAN /\ r.recipe \in Recipe
             /\ doubted # "trusted" => r.recipe.list # doubted
  <2>1. l \in Lists /\ (doubted # "trusted" => l # doubted)
    BY DEF Accept, acceptOther
  <2>2. PICK recipe : recipe = [list |-> l, layout |-> y]
    OBVIOUS
  <2>3. recipe \in Recipe /\ recipe.list = l
    BY <2>1, <2>2 DEF Recipe
  <2>4. r.recipe = recipe /\ r.model = m
    BY <1>3, <2>2
  <2> QED
    BY <2>1, <2>3, <2>4, Zenon
<1>4. CASE r \in free
  <2>1. PICK l \in taken : r = [recipe |-> OnPage(l), model |-> FALSE]
    BY <1>4
  <2>2. site.layout \in Layouts
    BY DEF Site
  <2> QED
    BY <1>3, <2>1, <2>2 DEF OnPage
<1>5. CASE r \in judged
  <2> HIDE DEF taken, judge
  <2>1. PICK l \in taken, y \in Layouts, m \in judge :
          r = [recipe |-> [list |-> l, layout |-> y], model |-> m]
    BY <1>5
  <2>2. m \in BOOLEAN
    BY <1>2, Zenon
  <2> QED
    BY <1>3, <2>1, <2>2
<1>6. CASE r \in none \/ r = [recipe |-> None, model |-> FALSE]
  <2> HIDE DEF judge
  <2>1. PICK m \in {FALSE} \cup judge : r = [recipe |-> None, model |-> m]
    BY <1>6
  <2>2. m \in BOOLEAN
    BY <1>2, Zenon
  <2>3. r.recipe = None /\ r.model = m
    BY <2>1
  <2> QED
    BY <2>2, <2>3, Zenon
<1> HIDE DEF free, judged, none
<1> QED
  BY <1>1, <1>4, <1>5, <1>6

(* What a repair adds to what a poll has read.                             *)
LEMMA RepairLearns ==
  ASSUME site \in Site, NEW state, state.modelRepair \in BOOLEAN, NEW doubted,
         NEW base \in Learnt, NEW cause \in {"detector", "weekly_check"},
         NEW out \in repair(base, state, cause, doubted)
  PROVE  /\ out \in Learnt
         /\ out.checked = base.checked /\ out.found = base.found
         /\ out.seen = base.seen
         /\ out.repair \in Tried /\ out.repair.cause = cause
         /\ out.repair.outcome # "accepted" => out.verdict = "suspect"
         /\ out.repair.outcome = "accepted" /\ doubted # "trusted"
              => out.list # doubted
<1>1. PICK r \in WebfeedRepair(state, doubted) :
        out = [base EXCEPT
                 !.verdict = IF r.recipe = None THEN "suspect" ELSE "ok",
                 !.recipe = r.recipe,
                 !.list = IF r.recipe = None THEN None ELSE r.recipe.list,
                 !.repair = [cause |-> cause, model |-> r.model,
                             outcome |-> IF r.recipe = None THEN "unresolved"
                                         ELSE "accepted"]]
  BY DEF repair
<1>2. /\ r.model \in BOOLEAN
      /\ r.recipe \in Recipe \cup {None}
      /\ r.recipe # None /\ doubted # "trusted" => r.recipe.list # doubted
  BY LadderFinds
<1>3. r.recipe # None => r.recipe.list \in Lists
  BY <1>2 DEF Recipe
<1>4. PICK t : t = [cause |-> cause, model |-> r.model,
                    outcome |-> IF r.recipe = None THEN "unresolved"
                                ELSE "accepted"]
  OBVIOUS
<1>5. /\ t \in Tried /\ t.cause = cause
      /\ t.outcome = IF r.recipe = None THEN "unresolved" ELSE "accepted"
  BY <1>2, <1>4 DEF Tried, Outcomes
<1>6. /\ out = [base EXCEPT
                  !.verdict = IF r.recipe = None THEN "suspect" ELSE "ok",
                  !.recipe = r.recipe,
                  !.list = IF r.recipe = None THEN None ELSE r.recipe.list,
                  !.repair = t]
  BY <1>1, <1>4
<1>7. /\ out \in Learnt
      /\ out.checked = base.checked /\ out.found = base.found
      /\ out.seen = base.seen
      /\ out.repair = t
      /\ out.verdict = IF r.recipe = None THEN "suspect" ELSE "ok"
      /\ out.list = IF r.recipe = None THEN None ELSE r.recipe.list
  BY <1>2, <1>3, <1>5, <1>6 DEF Learnt, Verdicts
<1> QED
  BY <1>2, <1>5, <1>7

(* An outcome with a weekly repair.                                        *)
LEMMA WeeklyRepairLearns ==
  ASSUME site \in Site, NEW state, state.modelRepair \in BOOLEAN,
         NEW list \in Lists \cup {None}, NEW base \in Learnt,
         base.seen = list,
         base.checked <=> base.found # "unasked",
         base.found # "healthy",
         base.found = "broken" => base.seen # None,
         NEW out \in repair(base, state, "weekly_check", list)
  PROVE  /\ Read(out)
         /\ Doubts(out)
         /\ out.found = base.found
<1>1. /\ out \in Learnt
      /\ out.checked = base.checked /\ out.found = base.found
      /\ out.seen = base.seen
      /\ out.repair \in Tried /\ out.repair.cause = "weekly_check"
      /\ out.repair.outcome # "accepted" => out.verdict = "suspect"
      /\ out.repair.outcome = "accepted" /\ list # "trusted"
           => out.list # list
  BY RepairLearns
<1>2. list # "trusted"
  BY Bounds
<1>3. out.repair # None
  BY <1>1, Bounds
<1> QED
  BY <1>1, <1>2, <1>3 DEF Read, Doubts, answersAlarm

-----------------------------------------------------------------------------
(* What a poll may learn.                                                  *)

(* From a page whose links it reads.                                       *)
LEMMA PagesAreRead ==
  ASSUME site \in Site, NEW list \in Lists \cup {None},
         NEW state, state.modelRepair \in BOOLEAN, state.alarm \in BOOLEAN,
         NEW out \in PageOutcomes(state, list)
  PROVE  Read(out) /\ Heeds(out, state.alarm)
<1> DEFINE read == [Outcome("ok") EXCEPT !.hash = PageHash, !.seen = list]
           looked(v) == [read EXCEPT !.checked = v # "unasked", !.found = v]
<1>1. PageHash \in Hash
  BY DEF Site, PageHash, Hash
<1>2. /\ read \in Learnt /\ read.verdict = "ok" /\ ~read.checked
      /\ read.found = "unasked" /\ read.seen = list /\ read.repair = None
  BY <1>1 DEF Outcome, Learnt, Looks, Verdicts
<1>3. ASSUME NEW v \in Looks
      PROVE  /\ looked(v) \in Learnt /\ looked(v).verdict = "ok"
             /\ looked(v).checked <=> v # "unasked"
             /\ looked(v).found = v /\ looked(v).seen = list
             /\ looked(v).repair = None
  BY <1>2, <1>3 DEF Learnt, Verdicts
<1> DEFINE suspect == IF state.alarm
                      THEN repair(read, state, "weekly_check", list)
                      ELSE repair(read, state, "detector", "trusted")
           after(v) == IF v = "broken" \/ (state.alarm /\ v # "healthy")
                       THEN repair(looked(v), state, "weekly_check", list)
                       ELSE {[looked(v) EXCEPT !.list = list]}
<1>4. \/ out \in suspect
      \/ list # None /\ \E v \in WeeklyCheck(state) : out \in after(v)
  <2>1. PageOutcomes(state, list)
          = (IF TRUE \in drift(list, state.history) THEN suspect ELSE {})
            \cup (IF FALSE \in drift(list, state.history)
                  THEN UNION {after(v) : v \in WeeklyCheck(state)} ELSE {})
    BY DEF PageOutcomes
  <2>2. FALSE \in drift(list, state.history) => list # None
    BY DEF drift
  <2> HIDE DEF read, looked, suspect, after
  <2>3. out \in suspect \/ (/\ FALSE \in drift(list, state.history)
                           /\ out \in UNION {after(v) : v \in WeeklyCheck(state)})
    BY <2>1
  <2> QED
    BY <2>2, <2>3
<1> HIDE DEF read, looked
<1>5. CASE state.alarm /\ out \in repair(read, state, "weekly_check", list)
  <2>1. read.found # "healthy" /\ read.found # "broken"
    BY <1>2
  <2>2. /\ Read(out) /\ Doubts(out)
    BY <1>2, <1>5, <2>1, WeeklyRepairLearns
  <2> QED
    BY <1>5, <2>2 DEF Heeds
<1>6. CASE ~state.alarm /\ out \in repair(read, state, "detector", "trusted")
  <2>1. /\ out \in Learnt
        /\ out.checked = read.checked /\ out.found = read.found
        /\ out.seen = read.seen
        /\ out.repair \in Tried /\ out.repair.cause = "detector"
    BY <1>2, <1>6, RepairLearns
  <2> QED
    BY <1>1, <1>2, <1>6, <2>1 DEF Read, Heeds, Doubts, answersAlarm
<1>7. ASSUME list # None, NEW v \in Looks,
             v = "broken" \/ (state.alarm /\ v # "healthy"),
             out \in repair(looked(v), state, "weekly_check", list)
      PROVE  Read(out) /\ Heeds(out, state.alarm)
  <2>1. PICK b : b = looked(v)
    OBVIOUS
  <2>2. /\ b \in Learnt /\ b.seen = list /\ b.found = v
        /\ b.checked <=> v # "unasked"
    BY <1>3, <2>1
  <2>3. b.found # "healthy" /\ (b.found = "broken" => b.seen # None)
    BY <1>7, <2>2
  <2>4. /\ Read(out) /\ Doubts(out) /\ out.found = v
    BY <1>7, <2>1, <2>2, <2>3, WeeklyRepairLearns
  <2> QED
    BY <1>7, <2>4 DEF Heeds
<1>8. ASSUME list # None, NEW v \in Looks,
             ~(v = "broken" \/ (state.alarm /\ v # "healthy")),
             out = [looked(v) EXCEPT !.list = list]
      PROVE  Read(out) /\ Heeds(out, state.alarm)
  <2>1. PICK b : b = looked(v)
    OBVIOUS
  <2>2. /\ b \in Learnt /\ b.seen = list /\ b.found = v
        /\ b.checked <=> v # "unasked"
        /\ b.repair = None
    BY <1>3, <2>1
  <2>3. /\ out \in Learnt /\ out.seen = list /\ out.found = v
        /\ out.checked <=> v # "unasked"
        /\ out.repair = None
    BY <1>1, <1>8, <2>1, <2>2 DEF Learnt
  <2> QED
    BY <1>1, <1>8, <2>3 DEF Read, Heeds, Doubts, answersAlarm
<1>9. WeeklyCheck(state) \subseteq Looks
  BY DEF WeeklyCheck, Looks
<1> QED
  BY <1>4, <1>5, <1>6, <1>7, <1>8, <1>9

LEMMA PollsRead ==
  ASSUME site \in Site, NEW r, r.recipe \in Recipe,
         NEW state, state.modelRepair \in BOOLEAN, state.alarm \in BOOLEAN,
         NEW out \in Poll(r, state)
  PROVE  Read(out) /\ Heeds(out, state.alarm)
<1> DEFINE same == [Outcome("ok") EXCEPT !.hash = PageHash]
<1>1. site.answers \in {"page", "error", "refusal"} /\ PageHash \in Hash
  BY DEF Site, PageHash, Hash
<1>2. ASSUME NEW v \in Verdicts, out = Outcome(v)
      PROVE  Read(out) /\ Heeds(out, state.alarm)
  <2>1. out \in Learnt
    BY <1>2, OutcomeLearnt
  <2>2. /\ ~out.checked /\ out.found = "unasked" /\ out.seen = None
        /\ out.repair = None
    BY <1>2 DEF Outcome
  <2> QED
    BY <2>1, <2>2 DEF Read, Heeds, Doubts, answersAlarm
<1>3. CASE out = same
  <2>1. /\ out \in Learnt /\ ~out.checked /\ out.found = "unasked"
        /\ out.seen = None /\ out.repair = None
    BY <1>1, <1>3 DEF Outcome, Learnt, Looks, Verdicts
  <2> QED
    BY <2>1 DEF Read, Heeds, Doubts, answersAlarm
<1>4. CASE out \in ReadPage(r, state)
  <2>1. PICK list \in Lists \cup {None} : out \in PageOutcomes(state, list)
    BY <1>4, ExtractsLists DEF ReadPage
  <2> QED
    BY <2>1, PagesAreRead
<1>5. CASE site.answers = "error"
  <2>1. out = Outcome("broken")
    BY <1>5 DEF Poll
  <2> QED
    BY <1>2, <2>1 DEF Verdicts
<1>6. CASE site.answers = "refusal"
  <2>1. out = Outcome("blocked")
    BY <1>6 DEF Poll
  <2> QED
    BY <1>2, <2>1 DEF Verdicts
<1>7. CASE site.answers = "page"
  <2>1. out = same \/ out \in ReadPage(r, state)
    BY <1>7 DEF Poll
  <2> QED
    BY <1>3, <1>4, <2>1
<1> QED
  BY <1>1, <1>5, <1>6, <1>7

(* Settling leaves no alarm with an ok that does not answer it.            *)
LEMMA Settles ==
  ASSUME NEW state, state.alarm \in BOOLEAN,
         NEW out, Read(out), Heeds(out, state.alarm)
  PROVE  /\ Read(settled(out, state))
         /\ Heeds(settled(out, state), state.alarm)
         /\ Answers(settled(out, state), state.alarm)
<1> DEFINE new == [Outcome("suspect") EXCEPT !.repair = out.repair]
           unanswered == /\ state.alarm /\ out.verdict = "ok"
                         /\ ~out.checked /\ ~answersAlarm(out.repair)
<1>1. CASE ~unanswered
  <2>1. settled(out, state) = out
    BY <1>1 DEF settled
  <2>2. Answers(out, state.alarm)
    BY <1>1 DEF Answers, Heeds, Read
  <2> QED
    BY <2>1, <2>2
<1>2. CASE unanswered
  <2>1. settled(out, state) = new
    BY <1>2 DEF settled
  <2>2. /\ new \in Learnt /\ new.verdict = "suspect" /\ ~new.checked
        /\ new.found = "unasked" /\ new.seen = None
        /\ new.repair = out.repair
    BY DEF Read, Outcome, Learnt, Looks, Verdicts
  <2>3. ~Doubts(out)
    BY <1>2 DEF Read
  <2> QED
    BY <1>2, <2>1, <2>2, <2>3 DEF Read, Heeds, Answers, Doubts, answersAlarm
<1> QED
  BY <1>1, <1>2

-----------------------------------------------------------------------------
(* The detector's history: good polls, cut to the bound.                   *)
LEMMA PollsRecorded ==
  ASSUME polls \in Seq(GoodPoll), NEW list \in Lists,
         poll.row.seq \in 0..MaxSetups
  PROVE  /\ recordPoll(list) \in Seq(GoodPoll)
         /\ Len(recordPoll(list)) <= HistoryPolls
         /\ recordPoll(list)[1].list = list
         /\ \A i \in DOMAIN recordPoll(list) :
              \/ recordPoll(list)[i].seq = poll.row.seq
              \/ \E j \in DOMAIN polls :
                   recordPoll(list)[i].seq = polls[j].seq
<1> DEFINE new == [list |-> list, seq |-> poll.row.seq]
           all == <<new>> \o polls
<1>1. new \in GoodPoll /\ new.list = list /\ new.seq = poll.row.seq
  BY DEF GoodPoll
<1> HIDE DEF new
<1>2. /\ all \in Seq(GoodPoll) /\ all[1] = new
      /\ Len(all) = Len(polls) + 1 /\ Len(polls) \in Nat
      /\ \A i \in 1..Len(all) : i = 1 \/ (i - 1 \in DOMAIN polls /\ all[i] = polls[i - 1])
  BY <1>1
<1> HIDE DEF all
<1>3. recordPoll(list) = IF Len(all) <= HistoryPolls THEN all
                         ELSE SubSeq(all, 1, HistoryPolls)
  BY DEF recordPoll, PruneWebSourcePolls, InsertWebSourcePoll, all, new
<1>4. CASE Len(all) <= HistoryPolls
  BY <1>1, <1>2, <1>3, <1>4
<1>5. CASE ~(Len(all) <= HistoryPolls)
  <2>1. /\ SubSeq(all, 1, HistoryPolls) \in Seq(GoodPoll)
        /\ Len(SubSeq(all, 1, HistoryPolls)) = HistoryPolls
        /\ \A i \in 1..HistoryPolls :
             SubSeq(all, 1, HistoryPolls)[i] = all[i]
    BY <1>2, <1>5, Bounds
  <2> QED
    BY <1>1, <1>2, <1>3, <1>5, <2>1, Bounds
<1> QED
  BY <1>4, <1>5

(* The row a setup stores, and the history it starts.                      *)
LEMMA SetupStored ==
  ASSUME now \in Times, NEW l \in Lists, NEW y \in Layouts,
         NEW h \in SetupHealths, NEW seq \in 0..MaxSetups
  PROVE  /\ Stored(l, y, h, seq) \in Row
         /\ Stored(l, y, h, seq).seq = seq
         /\ Stored(l, y, h, seq).setupAt = now
         /\ Stored(l, y, h, seq).checkedAt = None
         /\ Stored(l, y, h, seq).setup = h /\ Stored(l, y, h, seq).health = h
         /\ FirstPolls(l, h, seq) \in Seq(GoodPoll)
         /\ Len(FirstPolls(l, h, seq)) <= HistoryPolls
         /\ \A i \in DOMAIN FirstPolls(l, h, seq) :
              FirstPolls(l, h, seq)[i].seq = seq
<1>1. /\ Stored(l, y, h, seq) \in Row
      /\ Stored(l, y, h, seq).seq = seq
      /\ Stored(l, y, h, seq).setupAt = now
      /\ Stored(l, y, h, seq).checkedAt = None
      /\ Stored(l, y, h, seq).setup = h /\ Stored(l, y, h, seq).health = h
  BY DEF Stored, Row, Recipe, Health
<1>2. [list |-> l, seq |-> seq] \in GoodPoll
  BY DEF GoodPoll
<1>3. /\ FirstPolls(l, h, seq) \in Seq(GoodPoll)
      /\ Len(FirstPolls(l, h, seq)) <= HistoryPolls
      /\ \A i \in DOMAIN FirstPolls(l, h, seq) :
           FirstPolls(l, h, seq)[i].seq = seq
  <2>1. CASE h = "ok"
    BY <1>2, <2>1, Bounds DEF FirstPolls
  <2>2. CASE h # "ok"
    BY <2>2, Bounds DEF FirstPolls
  <2> QED
    BY <2>1, <2>2
<1> QED
  BY <1>1, <1>3

-----------------------------------------------------------------------------
(* The invariant holds at first and at every step.                         *)

LEMMA InitHolds == Init => IInv
<1> SUFFICES ASSUME Init PROVE IInv
  OBVIOUS
<1>1. PICK l \in Lists, h \in SetupHealths :
        row = Stored(l, site.layout, h, 0) /\ polls = FirstPolls(l, h, 0)
  BY DEF Init
<1>2. /\ now = 0 /\ now \in Times /\ weekly = None /\ modelAt = None
      /\ poll.pc = "idle" /\ doubt = None
      /\ site \in Site /\ site.layout \in Layouts
      /\ 0 \in 0..MaxSetups
  <2>1. 0 \in Times /\ 0 \in 0..MaxSetups
    BY Bounds DEF Times
  <2>2. site \in [answers : {"page"}, layout : Layouts, news : {FALSE}]
    BY DEF Init
  <2>3. PICK a \in {"page"}, y \in Layouts, n \in {FALSE} :
          site = [answers |-> a, layout |-> y, news |-> n]
    BY <2>2
  <2>4. a \in {"page", "error", "refusal"} /\ n \in BOOLEAN
    BY <2>3, Zenon
  <2>5. site \in Site /\ site.layout \in Layouts
    BY <2>3, <2>4 DEF Site
  <2> QED
    BY <2>1, <2>5 DEF Init, NoPoll
<1>3. /\ row \in Row /\ row.seq = 0 /\ row.checkedAt = None
      /\ row.health = row.setup
      /\ polls \in Seq(GoodPoll) /\ Len(polls) <= HistoryPolls
      /\ \A i \in DOMAIN polls : polls[i].seq = 0
  BY <1>1, <1>2, SetupStored
<1>4. TypeOK
  BY <1>2, <1>3 DEF TypeOK
<1> QED
  BY <1>2, <1>3, <1>4
     DEF IInv, PollKnown, OutKnown, WeeklyPast, AlarmIsTheDoubt,
         PollsAreOfThisSetup, weeklyAlarmOpen

(* A poll begins with the row as it is, and later than all that is stored. *)
LEMMA PollStartsKeeps ==
  ASSUME IInv, PollStarts
  PROVE  IInv'
<1>1. PICK budget \in BOOLEAN :
        poll' = [pc |-> "fetch", row |-> row, state |-> pollState(budget)]
  BY DEF PollStarts
<1>2. UNCHANGED <<site, row, polls, weekly, modelAt, now, doubt>> /\ Due
  BY DEF PollStarts
<1>3. /\ pollState(budget).at = now
      /\ pollState(budget).alarm = weeklyAlarmOpen(row)
      /\ pollState(budget).modelRepair
           = (budget /\ (modelAt = None \/ now - modelAt >= ModelGap))
  BY DEF pollState
<1>4. /\ poll'.pc = "fetch" /\ poll'.row = row
      /\ poll'.state.at = now /\ poll'.state.alarm = weeklyAlarmOpen(row)
      /\ poll'.state.modelRepair
           = (budget /\ (modelAt = None \/ now - modelAt >= ModelGap))
  BY <1>1, <1>3
<1>5. TypeOK'
  BY <1>2, <1>4 DEF IInv, TypeOK
<1>6. weeklyAlarmOpen(row)' <=> weeklyAlarmOpen(row)
  BY <1>2 DEF weeklyAlarmOpen
<1>7. weekly # None => weekly.at < now
  <2>1. /\ weekly # None => weekly.at \in Nat
        /\ now \in Nat /\ row.setupAt \in Nat
        /\ row.polledAt # None => row.polledAt \in Nat
    BY Bounds DEF IInv, TypeOK, Row, Repair
  <2>2. /\ row.setupAt < now
        /\ row.polledAt # None => row.polledAt < now
    BY <1>2 DEF Due
  <2>3. WeeklyPast
    BY DEF IInv
  <2> QED
    BY <2>1, <2>2, <2>3 DEF WeeklyPast
<1>8. /\ row \in Row /\ now \in Times /\ row.setupAt < now
      /\ now <= now /\ row.seq <= row.seq
  BY <1>2, Bounds DEF IInv, TypeOK, Due, Row
<1>9. poll'.state.alarm \in BOOLEAN /\ poll'.state.modelRepair \in BOOLEAN
  BY <1>4, Zenon DEF weeklyAlarmOpen
<1>10. PollKnown'
  <2>1. weeklyAlarmOpen(poll'.row) <=> weeklyAlarmOpen(row)
    BY <1>4
  <2>2. weeklyAlarmOpen(poll.row)' <=> weeklyAlarmOpen(poll'.row)
    BY <1>2 DEF weeklyAlarmOpen
  <2> QED
    BY <1>2, <1>4, <1>7, <1>8, <1>9, <2>1, <2>2 DEF PollKnown
<1>11. OutKnown'
  BY <1>4 DEF OutKnown
<1>12. WeeklyPast'
  BY <1>2 DEF IInv, WeeklyPast
<1>13. AlarmIsTheDoubt' /\ PollsAreOfThisSetup'
  BY <1>2, <1>6 DEF IInv, AlarmIsTheDoubt, PollsAreOfThisSetup
<1> QED
  BY <1>5, <1>10, <1>11, <1>12, <1>13 DEF IInv

LEMMA PollReadsKeeps ==
  ASSUME IInv, PollReads
  PROVE  IInv'
<1>1. PICK out \in Poll(poll.row, poll.state) :
        poll' = [pc |-> "store", row |-> poll.row, state |-> poll.state,
                 out |-> settled(out, poll.state)]
  BY DEF PollReads
<1>2. /\ UNCHANGED <<site, row, polls, weekly, modelAt, now, doubt>>
      /\ poll.pc = "fetch"
  BY DEF PollReads
<1>3. /\ poll'.pc = "store" /\ poll'.row = poll.row
      /\ poll'.state = poll.state /\ poll'.out = settled(out, poll.state)
  BY <1>1
<1>4. /\ site \in Site /\ poll.row.recipe \in Recipe
      /\ poll.state.modelRepair \in BOOLEAN /\ poll.state.alarm \in BOOLEAN
  BY <1>2 DEF IInv, TypeOK, PollKnown, Row
<1>5. Read(out) /\ Heeds(out, poll.state.alarm)
  BY <1>4, PollsRead
<1>6. /\ Read(poll'.out)
      /\ Heeds(poll'.out, poll.state.alarm)
      /\ Answers(poll'.out, poll.state.alarm)
  BY <1>3, <1>4, <1>5, Settles
<1>7. OutKnown'
  <2>1. /\ Read(poll.out)' <=> Read(poll'.out)
        /\ Heeds(poll.out, poll.state.alarm)'
             <=> Heeds(poll'.out, poll.state.alarm)
        /\ Answers(poll.out, poll.state.alarm)'
             <=> Answers(poll'.out, poll.state.alarm)
    BY <1>3 DEF Read, Heeds, Answers, Doubts, answersAlarm, Learnt
  <2> QED
    BY <1>6, <2>1 DEF OutKnown
<1>8. weeklyAlarmOpen(row)' <=> weeklyAlarmOpen(row)
  BY <1>2 DEF weeklyAlarmOpen
<1>9. TypeOK' /\ WeeklyPast'
  BY <1>2, <1>3 DEF IInv, TypeOK, WeeklyPast
<1>10. AlarmIsTheDoubt' /\ PollsAreOfThisSetup'
  BY <1>2, <1>8 DEF IInv, AlarmIsTheDoubt, PollsAreOfThisSetup
<1>11. PollKnown'
  <2>1. weeklyAlarmOpen(poll.row)' <=> weeklyAlarmOpen(poll.row)
    BY <1>2, <1>3 DEF weeklyAlarmOpen
  <2> QED
    BY <1>2, <1>3, <2>1 DEF IInv, PollKnown
<1> QED
  BY <1>7, <1>9, <1>10, <1>11 DEF IInv

(* Storing.  The row is the one the poll began with: its type, its times   *)
(* and what the outcome changes.                                           *)
LEMMA RowStored ==
  ASSUME NEW src \in Row, NEW out, Read(out), NEW at \in Times
  PROVE  /\ pollUpdate(src, out, at) \in Row
         /\ pollUpdate(src, out, at).seq = src.seq
         /\ pollUpdate(src, out, at).setup = src.setup
         /\ pollUpdate(src, out, at).setupAt = src.setupAt
         /\ pollUpdate(src, out, at).polledAt = at
         /\ pollUpdate(src, out, at).checkedAt
              = IF out.checked THEN at ELSE src.checkedAt
         /\ pollUpdate(src, out, at).health = "ok"
              => src.setup = "ok" /\ out.verdict = "ok"
         /\ out.verdict # "ok" \/ out.recipe = None
              => pollUpdate(src, out, at).recipe = src.recipe
<1> DEFINE health == IF out.verdict \in {"ok", "suspect"} /\ src.setup # "ok"
                     THEN src.setup ELSE verdictHealth(out.verdict)
           kept == [src EXCEPT !.polledAt = at,
                               !.checkedAt = IF out.checked THEN at ELSE @,
                               !.health = health]
           hash == IF out.hash = None THEN src.hash ELSE out.hash
           recipe == IF out.recipe = None THEN src.recipe ELSE out.recipe
<1>1. /\ out.verdict \in Verdicts /\ out.checked \in BOOLEAN
      /\ out.hash \in Hash \cup {None} /\ out.recipe \in Recipe \cup {None}
  BY DEF Read, Learnt
<1>2. /\ verdictHealth(out.verdict) \in Health
      /\ verdictHealth(out.verdict) = "ok" => out.verdict = "ok"
  <2>1. CASE out.verdict = "ok"
    BY <2>1 DEF verdictHealth, Health, SetupHealths
  <2>2. CASE out.verdict = "suspect"
    BY <2>2 DEF verdictHealth, Health, SetupHealths
  <2>3. CASE out.verdict = "blocked"
    BY <2>3 DEF verdictHealth, Health, SetupHealths
  <2>4. CASE out.verdict = "broken"
    BY <2>4 DEF verdictHealth, Health, SetupHealths
  <2> QED
    BY <1>1, <2>1, <2>2, <2>3, <2>4 DEF Verdicts
<1>3. /\ health \in Health
      /\ health = "ok" => src.setup = "ok" /\ out.verdict = "ok"
  BY <1>1, <1>2 DEF Row, Health, Verdicts
<1> HIDE DEF health
<1>4. /\ kept \in Row /\ kept.seq = src.seq /\ kept.setup = src.setup
      /\ kept.setupAt = src.setupAt /\ kept.polledAt = at
      /\ kept.checkedAt = IF out.checked THEN at ELSE src.checkedAt
      /\ kept.health = health /\ kept.recipe = src.recipe
      /\ kept.hash = src.hash
  BY <1>1, <1>3 DEF Row
<1>5. pollUpdate(src, out, at) =
        IF out.verdict # "ok" THEN kept
        ELSE [kept EXCEPT !.hash = IF out.hash = None THEN @ ELSE out.hash,
                          !.recipe = IF out.recipe = None THEN @ ELSE out.recipe]
  BY DEF pollUpdate, health
<1> HIDE DEF kept
<1>6. CASE out.verdict # "ok"
  BY <1>3, <1>4, <1>5, <1>6
<1>7. CASE out.verdict = "ok"
  <2>1. pollUpdate(src, out, at) = [kept EXCEPT !.hash = hash, !.recipe = recipe]
    BY <1>4, <1>5, <1>7
  <2>2. hash \in Hash \cup {None} /\ recipe \in Recipe
    BY <1>1 DEF Row
  <2> HIDE DEF hash
  <2>3. /\ [kept EXCEPT !.hash = hash, !.recipe = recipe] \in Row
        /\ [kept EXCEPT !.hash = hash, !.recipe = recipe].recipe = recipe
    BY <1>4, <2>2 DEF Row
  <2>4. ASSUME NEW f \in {"seq", "setup", "setupAt", "polledAt", "checkedAt",
                           "health"}
        PROVE  [kept EXCEPT !.hash = hash, !.recipe = recipe][f] = kept[f]
    BY <1>4 DEF Row
  <2> QED
    BY <1>3, <1>4, <1>7, <2>1, <2>3, <2>4
<1> QED
  BY <1>6, <1>7

(* An open alarm after a poll of the source in force stores what it learnt.*)
LEMMA AlarmStored ==
  ASSUME IInv, poll.pc = "store", poll.row.seq = row.seq,
         storePoll(poll.out, poll.state.at), now' = now
  PROVE  /\ AlarmIsTheDoubt'
         /\ WeeklyPast'
         /\ PollsAreOfThisSetup'
<1> DEFINE out == poll.out
           at == poll.state.at
           alarm == poll.state.alarm
<1>1. /\ poll.row = row /\ row \in Row /\ at \in Times /\ at <= now
      /\ row.setupAt < at
      /\ alarm <=> weeklyAlarmOpen(row)
      /\ alarm <=> doubt # None
      /\ weekly # None => weekly.at < at
      /\ weekly \in Repair \cup {None}
      /\ now' = now
  BY DEF IInv, PollKnown, AlarmIsTheDoubt, TypeOK, storePoll
<1>2. /\ Read(out) /\ Heeds(out, alarm) /\ Answers(out, alarm)
  BY <1>1 DEF IInv, OutKnown
<1>3. /\ row' = pollUpdate(row, out, at)
      /\ weekly' = IF Doubts(out) THEN [at |-> at, outcome |-> out.repair.outcome]
                   ELSE weekly
      /\ polls' = IF out.verdict = "ok" /\ out.list # None
                  THEN recordPoll(out.list) ELSE polls
      /\ doubt' = IF Answered(out) THEN None
                  ELSE IF out.found = "broken" THEN out.seen ELSE doubt
  BY <1>1 DEF storePoll
<1> HIDE DEF out, at, alarm
<1>4. /\ row' \in Row /\ row'.seq = row.seq /\ row'.setup = row.setup
      /\ row'.setupAt = row.setupAt /\ row'.polledAt = at
      /\ row'.checkedAt = IF out.checked THEN at ELSE row.checkedAt
      /\ row'.health = "ok" => row.setup = "ok" /\ out.verdict = "ok"
      /\ out.verdict # "ok" => row'.recipe = row.recipe
  BY <1>1, <1>2, <1>3, RowStored
<1>5. /\ at \in Nat /\ now \in Nat /\ at # None
      /\ row.setupAt \in Nat
      /\ row.checkedAt # None => row.checkedAt \in Nat
      /\ weekly # None => weekly.at \in Nat
  BY <1>1, Bounds DEF Row, Repair, IInv, TypeOK
<1>6. CASE Doubts(out) /\ ~answersAlarm(out.repair)
  <2>1. /\ out.repair # None /\ out.repair.cause = "weekly_check"
        /\ out.repair \in Tried /\ out.verdict # "ok"
        /\ out.found # "healthy"
    BY <1>2, <1>6 DEF Read, Doubts, Learnt
  <2>2. out.repair.outcome = "unresolved"
    BY <1>6, <2>1 DEF answersAlarm, Tried, Outcomes
  <2>3. weekly' = [at |-> at, outcome |-> "unresolved"] /\ weekly' # None
    <3>1. weekly' = [at |-> at, outcome |-> "unresolved"]
      BY <1>3, <1>6, <2>2
    <3>2. weekly' \in Repair
      BY <1>1, <3>1 DEF Repair, Outcomes
    <3> QED
      BY <3>1, <3>2, Bounds
  <2>4. weekly'.at = at /\ weekly'.outcome = "unresolved"
    BY <2>3
  <2>5. ~out.checked => alarm
    BY <1>2, <1>6 DEF Read, Heeds
  <2>6. row'.checkedAt # None /\ at >= row'.checkedAt /\ at >= row'.setupAt
    BY <1>1, <1>4, <1>5, <2>5 DEF weeklyAlarmOpen
  <2>7. weeklyAlarmOpen(row)'
    BY <2>3, <2>4, <2>6 DEF weeklyAlarmOpen
  <2>8. doubt' = IF out.found = "broken" THEN out.seen ELSE doubt
    BY <1>3, <2>1, <1>6 DEF Answered
  <2>9. doubt' # None
    <3>1. out.found # "broken" => doubt # None
      BY <1>1, <1>2, <1>6 DEF Heeds
    <3> QED
      BY <1>2, <2>8, <3>1 DEF Read
  <2>10. polls' = polls /\ row'.recipe = row.recipe /\ row'.health # "ok"
    BY <1>3, <1>4, <2>1
  <2> QED
    BY <1>1, <1>4, <1>5, <2>3, <2>4, <2>7, <2>9, <2>10
       DEF AlarmIsTheDoubt, WeeklyPast, PollsAreOfThisSetup, IInv
<1>7. ASSUME out.verdict = "ok"
      PROVE  \A i \in DOMAIN polls' : polls'[i].seq = row'.seq
  <2>1. \A i \in DOMAIN polls : polls[i].seq = row.seq
    BY DEF IInv, PollsAreOfThisSetup
  <2>2. CASE out.list = None
    BY <1>3, <1>4, <2>1, <2>2
  <2>3. CASE out.list # None
    <3>1. out.list \in Lists /\ poll.row.seq \in 0..MaxSetups
          /\ polls \in Seq(GoodPoll)
      BY <1>1, <1>2, <2>3 DEF Read, Learnt, Row, IInv, TypeOK
    <3> QED
      BY <1>1, <1>3, <1>4, <1>7, <2>1, <2>3, <3>1, PollsRecorded
  <2> QED
    BY <2>2, <2>3
<1>8. \A i \in DOMAIN polls' : polls'[i].seq = row'.seq
  BY <1>3, <1>4, <1>7 DEF IInv, PollsAreOfThisSetup
<1>9. CASE answersAlarm(out.repair)
  <2>1. Doubts(out) /\ Answered(out) /\ out.repair.outcome = "accepted"
    BY <1>9 DEF Doubts, answersAlarm, Answered
  <2>2. weekly' = [at |-> at, outcome |-> "accepted"] /\ doubt' = None
    BY <1>3, <2>1
  <2>3. weekly'.at = at /\ weekly'.outcome = "accepted"
    BY <2>2
  <2>4. ~weeklyAlarmOpen(row)'
    BY <2>3 DEF weeklyAlarmOpen
  <2> QED
    BY <1>1, <1>4, <1>5, <1>8, <2>2, <2>3, <2>4
       DEF AlarmIsTheDoubt, WeeklyPast, PollsAreOfThisSetup
<1>10. CASE ~Doubts(out)
  <2>1. /\ weekly' = weekly
        /\ out.found \in {"unasked", "healthy", "failed"}
        /\ ~answersAlarm(out.repair)
    BY <1>2, <1>3, <1>10 DEF Read, Doubts, answersAlarm, Learnt, Looks
  <2>2. WeeklyPast'
    BY <1>1, <1>4, <1>5, <2>1 DEF WeeklyPast
  <2>3. out.checked => ~weeklyAlarmOpen(row)'
    BY <1>1, <1>4, <1>5, <2>1 DEF weeklyAlarmOpen
  <2>4. CASE out.found = "unasked"
    <3>1. ~out.checked
      BY <1>2, <2>4 DEF Read
    <3>2. weeklyAlarmOpen(row)' <=> weeklyAlarmOpen(row)
      BY <1>4, <2>1, <3>1 DEF weeklyAlarmOpen
    <3>3. doubt' = doubt
      BY <1>3, <2>1, <2>4 DEF Answered
    <3>4. alarm => out.verdict # "ok"
      BY <1>2, <2>1, <2>4 DEF Answers
    <3> QED
      BY <1>1, <1>4, <1>8, <2>2, <3>2, <3>3, <3>4
         DEF AlarmIsTheDoubt, PollsAreOfThisSetup, IInv
  <2>5. CASE out.found = "healthy" \/ out.found = "failed"
    <3>1. out.checked
      BY <1>2, <2>5 DEF Read
    <3>2. doubt' = None
      BY <1>1, <1>2, <1>3, <1>10, <2>1, <2>5, <3>1 DEF Answered, Heeds
    <3> QED
      BY <1>4, <1>8, <2>2, <2>3, <3>1, <3>2
         DEF AlarmIsTheDoubt, PollsAreOfThisSetup
  <2> QED
    BY <2>1, <2>4, <2>5
<1> QED
  BY <1>6, <1>9, <1>10

LEMMA PollStoresKeeps ==
  ASSUME IInv, PollStores
  PROVE  IInv'
<1>1. poll.pc = "store" /\ poll' = NoPoll /\ UNCHANGED <<site, now>>
  BY DEF PollStores
<1>2. poll'.pc = "idle"
  BY <1>1 DEF NoPoll
<1>3. PollKnown' /\ OutKnown'
  BY <1>2 DEF PollKnown, OutKnown
<1>4. CASE poll.row.seq = row.seq
  <2>1. storePoll(poll.out, poll.state.at)
    BY <1>4 DEF PollStores, sameSetup
  <2>2. AlarmIsTheDoubt' /\ WeeklyPast' /\ PollsAreOfThisSetup'
    BY <1>1, <1>4, <2>1, AlarmStored
  <2>3. /\ poll.row = row /\ row \in Row /\ poll.state.at \in Times
        /\ Read(poll.out) /\ row.seq \in 0..MaxSetups
    BY <1>1, <1>4 DEF IInv, PollKnown, OutKnown, Row, TypeOK
  <2>4. /\ poll.out.list \in Lists \cup {None}
        /\ poll.out.seen \in Lists \cup {None}
        /\ poll.out.repair \in Tried \cup {None}
    BY <2>3 DEF Read, Learnt
  <2>5. row' \in Row
    BY <2>1, <2>3, RowStored DEF storePoll
  <2>6. weekly' \in Repair \cup {None}
    <3>1. CASE Doubts(poll.out)
      <4>1. poll.out.repair.outcome \in Outcomes
        BY <2>4, <3>1 DEF Doubts, Tried
      <4> QED
        BY <2>1, <2>3, <3>1, <4>1 DEF storePoll, Repair
    <3>2. CASE ~Doubts(poll.out)
      BY <2>1, <3>2 DEF storePoll, IInv, TypeOK
    <3> QED
      BY <3>1, <3>2
  <2>7. modelAt' \in Times \cup {None} /\ doubt' \in Lists \cup {None}
    BY <2>1, <2>3, <2>4 DEF storePoll, IInv, TypeOK
  <2>8. polls' \in Seq(GoodPoll) /\ Len(polls') <= HistoryPolls
    <3>1. polls' = polls \/ (poll.out.list \in Lists
                             /\ polls' = recordPoll(poll.out.list))
      BY <2>1, <2>4 DEF storePoll
    <3>2. polls \in Seq(GoodPoll) /\ Len(polls) <= HistoryPolls
      BY DEF IInv, TypeOK
    <3> QED
      BY <2>3, <3>1, <3>2, PollsRecorded
  <2>9. TypeOK'
    BY <1>1, <1>2, <2>5, <2>6, <2>7, <2>8 DEF IInv, TypeOK
  <2> QED
    BY <1>3, <2>2, <2>9 DEF IInv
<1>5. CASE poll.row.seq # row.seq
  <2>1. UNCHANGED <<row, polls, weekly, modelAt, doubt>>
    BY <1>5 DEF PollStores, sameSetup
  <2>2. weeklyAlarmOpen(row)' <=> weeklyAlarmOpen(row)
    BY <2>1 DEF weeklyAlarmOpen
  <2> QED
    BY <1>1, <1>2, <1>3, <2>1, <2>2
       DEF IInv, TypeOK, WeeklyPast, AlarmIsTheDoubt,
           PollsAreOfThisSetup
<1> QED
  BY <1>4, <1>5

LEMMA SetupKeeps ==
  ASSUME IInv, ReplaceWebSourceSetup
  PROVE  IInv'
<1>1. PICK l \in Lists, h \in SetupHealths :
        /\ row' = Stored(l, site.layout, h, row.seq + 1)
        /\ polls' = FirstPolls(l, h, row.seq + 1)
  BY DEF ReplaceWebSourceSetup
<1>2. /\ doubt' = None /\ row.seq < MaxSetups
      /\ UNCHANGED <<site, weekly, modelAt, poll, now>>
  BY DEF ReplaceWebSourceSetup
<1>3. /\ site.layout \in Layouts /\ now \in Times /\ row \in Row
      /\ row.seq \in Nat /\ row.seq + 1 \in 0..MaxSetups
  BY <1>2, Bounds DEF IInv, TypeOK, Site, Row
<1>4. /\ row' \in Row /\ row'.seq = row.seq + 1 /\ row'.setupAt = now
      /\ row'.checkedAt = None /\ row'.health = row'.setup
      /\ polls' \in Seq(GoodPoll) /\ Len(polls') <= HistoryPolls
      /\ \A i \in DOMAIN polls' : polls'[i].seq = row.seq + 1
  BY <1>1, <1>3, SetupStored
<1>5. TypeOK'
  BY <1>2, <1>4 DEF IInv, TypeOK
<1>6. PollKnown'
  <2>1. poll.pc # "idle" => poll.row.seq \in Nat /\ poll.row.seq <= row.seq
    BY DEF IInv, PollKnown, Row
  <2>2. poll.pc # "idle" => poll.row.seq <= row'.seq /\ poll.row.seq # row'.seq
    BY <1>3, <1>4, <2>1
  <2>3. weeklyAlarmOpen(poll.row)' <=> weeklyAlarmOpen(poll.row)
    BY <1>2 DEF weeklyAlarmOpen
  <2> QED
    BY <1>2, <2>2, <2>3 DEF IInv, PollKnown
<1>7. OutKnown'
  BY <1>2 DEF IInv, OutKnown
<1>8. WeeklyPast'
  BY <1>2, <1>4 DEF IInv, WeeklyPast
<1>9. ~weeklyAlarmOpen(row)'
  BY <1>4 DEF weeklyAlarmOpen
<1>10. AlarmIsTheDoubt' /\ PollsAreOfThisSetup'
  BY <1>2, <1>4, <1>9 DEF AlarmIsTheDoubt, PollsAreOfThisSetup
<1> QED
  BY <1>5, <1>6, <1>7, <1>8, <1>10 DEF IInv

(* The site, the clock and a crash touch nothing that is stored.           *)
LEMMA WorldKeeps ==
  ASSUME IInv, UNCHANGED <<row, polls, weekly, modelAt, doubt>>,
         site' \in Site, now' \in Times, now' >= now,
         poll' = poll \/ poll' = NoPoll
  PROVE  IInv'
<1>1. weeklyAlarmOpen(row)' <=> weeklyAlarmOpen(row)
  BY DEF weeklyAlarmOpen
<1>2. now \in Nat /\ now' \in Nat
  BY Bounds DEF IInv, TypeOK
<1>3. TypeOK'
  BY DEF IInv, TypeOK, NoPoll
<1>4. WeeklyPast'
  <2>1. weekly # None => weekly.at \in Nat /\ weekly.at <= now
    BY Bounds DEF IInv, TypeOK, WeeklyPast, Repair
  <2>2. weekly # None => weekly.at <= now'
    BY <1>2, <2>1
  <2> QED
    BY <2>2 DEF IInv, WeeklyPast
<1>5. AlarmIsTheDoubt' /\ PollsAreOfThisSetup'
  BY <1>1 DEF IInv, AlarmIsTheDoubt, PollsAreOfThisSetup
<1>6. CASE poll' = NoPoll
  <2>1. poll'.pc = "idle"
    BY <1>6 DEF NoPoll
  <2> QED
    BY <1>3, <1>4, <1>5, <2>1 DEF IInv, PollKnown, OutKnown
<1>7. CASE poll' = poll
  <2>1. weeklyAlarmOpen(poll.row)' <=> weeklyAlarmOpen(poll.row)
    BY <1>7 DEF weeklyAlarmOpen
  <2>2. poll.pc # "idle" => poll.state.at \in Nat /\ poll.state.at <= now
    BY Bounds DEF IInv, PollKnown
  <2>3. poll.pc # "idle" => poll.state.at <= now'
    BY <1>2, <2>2
  <2>4. PollKnown' /\ OutKnown'
    BY <1>7, <2>1, <2>3 DEF IInv, PollKnown, OutKnown
  <2> QED
    BY <1>3, <1>4, <1>5, <2>4 DEF IInv
<1> QED
  BY <1>6, <1>7

LEMMA StepHolds == IInv /\ [Next]_vars => IInv'
<1> SUFFICES ASSUME IInv, [Next]_vars PROVE IInv'
  OBVIOUS
<1>1. site \in Site /\ now \in Times /\ now \in Nat /\ MaxNow \in Nat
  BY Bounds DEF IInv, TypeOK
<1>2. CASE PollStarts
  BY <1>2, PollStartsKeeps
<1>3. CASE PollReads
  BY <1>3, PollReadsKeeps
<1>4. CASE PollStores
  BY <1>4, PollStoresKeeps
<1>5. CASE PollDies
  <2>1. now' >= now
    BY <1>1, <1>5 DEF PollDies
  <2> QED
    BY <1>1, <1>5, <2>1, WorldKeeps DEF PollDies
<1>6. CASE ReplaceWebSourceSetup
  BY <1>6, SetupKeeps
<1>7. CASE SiteChanges
  <2>1. site' \in Site /\ now' >= now
    BY <1>1, <1>7 DEF SiteChanges
  <2> QED
    BY <1>1, <1>7, <2>1, WorldKeeps DEF SiteChanges
<1>8. CASE Tick
  <2>1. now' \in Times /\ now' >= now
    BY <1>1, <1>8 DEF Tick, Times
  <2> QED
    BY <1>1, <1>8, <2>1, WorldKeeps DEF Tick
<1>9. CASE UNCHANGED vars
  <2>1. now' >= now
    BY <1>1, <1>9 DEF vars
  <2> QED
    BY <1>1, <1>9, <2>1, WorldKeeps DEF vars
<1> QED
  BY <1>2, <1>3, <1>4, <1>5, <1>6, <1>7, <1>8, <1>9 DEF Next

LEMMA InvariantHolds == Spec => []IInv
BY InitHolds, StepHolds, PTL DEF Spec

-----------------------------------------------------------------------------
(* Every state is of the declared types.                                   *)
THEOREM TypeCorrect == Spec => []TypeOK
<1>1. IInv => TypeOK
  BY DEF IInv
<1> QED
  BY <1>1, InvariantHolds, PTL

(* The alarm that weeklyAlarmOpen derives from three timestamps stands     *)
(* exactly while a look that found the list wrong has no answer.           *)
THEOREM AlarmsAreDoubts == Spec => []AlarmIsTheDoubt
<1>1. IInv => AlarmIsTheDoubt
  BY DEF IInv
<1> QED
  BY <1>1, InvariantHolds, PTL

(* storePoll leaves polls and a health of the setup in force.              *)
THEOREM PollsStayWithTheirSetup == Spec => []PollsAreOfThisSetup
<1>1. IInv => PollsAreOfThisSetup
  BY DEF IInv
<1> QED
  BY <1>1, InvariantHolds, PTL

(* While a look's doubt stands no poll publishes what the doubted recipe   *)
(* extracts, unless the model found it healthy.                            *)
THEOREM DoubtIsHeeded == Spec => DoubtedRecipeWaits
<1> DEFINE Out == row'.seq = row.seq /\ polls' # polls /\ doubt # None
                  => \/ poll.out.found = "healthy"
                     \/ polls'[1].list # poll.out.seen
<1>1. ASSUME IInv, Next PROVE Out
  <2> SUFFICES ASSUME row'.seq = row.seq, polls' # polls, doubt # None
               PROVE  \/ poll.out.found = "healthy"
                      \/ polls'[1].list # poll.out.seen
    OBVIOUS
  <2>1. ~ReplaceWebSourceSetup
    <3> SUFFICES ASSUME ReplaceWebSourceSetup PROVE FALSE
      OBVIOUS
    <3>1. row'.seq = row.seq + 1
      BY DEF ReplaceWebSourceSetup, Stored
    <3>2. row.seq \in Nat
      BY <1>1 DEF IInv, TypeOK, Row
    <3> QED
      BY <3>1, <3>2
  <2>2. PollStores
    BY <1>1, <2>1 DEF Next, PollStarts, PollReads, PollDies, SiteChanges, Tick
  <2>3. /\ poll.pc = "store" /\ poll.row.seq = row.seq
        /\ poll.out.verdict = "ok" /\ poll.out.list # None
        /\ polls' = recordPoll(poll.out.list)
    BY <2>2 DEF PollStores, sameSetup, storePoll
  <2>4. /\ poll.row = row /\ row \in Row
        /\ Read(poll.out) /\ Answers(poll.out, poll.state.alarm)
        /\ poll.state.alarm
        /\ polls \in Seq(GoodPoll)
    BY <1>1, <2>3
       DEF IInv, PollKnown, OutKnown, AlarmIsTheDoubt, TypeOK
  <2>5. poll.out.list \in Lists /\ poll.row.seq \in 0..MaxSetups
    BY <2>3, <2>4 DEF Read, Learnt, Row
  <2>6. polls'[1].list = poll.out.list
    BY <2>3, <2>4, <2>5, PollsRecorded
  <2>7. poll.out.found = "healthy" \/ poll.out.list # poll.out.seen
    BY <2>3, <2>4 DEF Answers, Read
  <2> QED
    BY <2>6, <2>7
<1>2. ASSUME UNCHANGED vars PROVE Out
  BY <1>2 DEF vars
<1> HIDE DEF Out
<1>3. IInv /\ [Next]_vars => [Out]_vars
  BY <1>1, <1>2
<1>4. Spec => [][Out]_vars
  BY <1>3, InvariantHolds, PTL DEF Spec
<1> QED
  BY <1>4 DEF DoubtedRecipeWaits, Out
=============================================================================
