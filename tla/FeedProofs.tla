----------------------------- MODULE FeedProofs -----------------------------
(***************************************************************************)
(* Proofs about feeds.  About FeedPipeline and FeedViews, for every number *)
(* of fetches, posts, documents and ticks and every ladder: the sweep      *)
(* takes no feed that is followed, fetched or about to be followed, so     *)
(* what validators vouch for stays stored, and with it what the pages      *)
(* show.  About RssMirror, in the second half, for every set of devices    *)
(* and feeds and every bound: what a pass repairs, and what an import      *)
(* leaves alone.                                                           *)
(***************************************************************************)
EXTENDS FeedViews, RssMirror, WellFoundedInduction, TLAPS

Vouched(v) == v # 0 => Listed(v) \subseteq Stored \cup refused
Idle == \A c \in Fetches : call[c].pc = "idle"
Fresh == row.orphaned = 0 \/ row.orphaned + Grace > now

(* A call's validators are a row's, a flight's its leader's; an answer of  *)
(* "same" confirms a flight's, and one with a document names one there is. *)
Vouching ==
    /\ row # None => row.etag \in 0..Version /\ Vouched(row.etag)
    /\ \A c \in Fetches :
         call[c].pc = "read" =>
           call[c].etag \in 0..Version /\ Vouched(call[c].etag)
    /\ flight # None => flight.etag \in 0..Version /\ Vouched(flight.etag)
    /\ \A c \in Fetches :
         call[c].pc = "answered" /\ call[c].answer.kind \in {"full", "same"} =>
           /\ call[c].answer.etag \in 1..Version
           /\ call[c].answer.kind = "same" => Vouched(call[c].answer.etag)

(* Who flies with validators is still waiting for the answer.              *)
FlightsAreLed ==
    flight # None /\ flight.etag # 0 =>
      flight.leader \in Fetches /\ call[flight.leader].pc = "flying"

(* The feed of a reader, a call or a follow is there, and too fresh for    *)
(* the sweep.                                                              *)
UsedFeedsAreFresh ==
    /\ followed \/ ~Idle => row # None /\ Fresh
    /\ following # 0 =>
         /\ row # None
         /\ following <= now /\ now <= following + 1
         /\ row.orphaned = 0 \/ row.orphaned >= following

(* Posts come with the first fetch.                                        *)
UnfetchedIsEmpty == row = None \/ ~row.fetched => Stored = {}

IInv ==
    /\ TypeOK
    /\ Vouching
    /\ FlightsAreLed
    /\ UsedFeedsAreFresh
    /\ UnfetchedIsEmpty
    /\ BackoffWithinCap

-----------------------------------------------------------------------------
(* Type correctness.                                                       *)

LEMMA LadderFacts ==
  /\ Len(Steps) \in Nat \ {0}
  /\ Cap \in Nat \ {0}
  /\ \A i \in 1..Len(Steps) : Steps[i] \in Nat /\ Steps[i] <= Cap
<1>1. Steps \in Seq(Nat \ {0}) /\ Len(Steps) \in Nat /\ Len(Steps) # 0
  BY FeedPipelineAssumption
<1>2. \A i \in 1..Len(Steps) : Steps[i] \in Nat \ {0}
  BY <1>1
<1>3. \A n \in Nat : n # 0 => n \in 1..n /\ \A i \in 1..n : n \in i..n
  OBVIOUS
<1>4. /\ Len(Steps) \in 1..Len(Steps)
      /\ \A i \in 1..Len(Steps) : Len(Steps) \in i..Len(Steps)
  BY <1>1, <1>3
<1>5. \A i \in 1..Len(Steps) : Steps[i] <= Steps[Len(Steps)]
  BY <1>4, FeedPipelineAssumption
<1>6. QED
  BY <1>1, <1>2, <1>4, <1>5 DEF Cap

(* A failure waits for a step of the ladder, or as long as the server says *)
(* up to the last of them.                                                 *)
LEMMA DelayIsCapped ==
  ASSUME NEW failures \in 1..Len(Steps), NEW wait \in Nat
  PROVE  BackoffDelay(failures, wait) \in 0..Cap
  BY LadderFacts DEF BackoffDelay, Delay, Earlier

LEMMA CallType ==
  ASSUME TypeOK, NEW c \in Fetches
  PROVE  /\ call[c].pc = "read" =>
              /\ call[c].etag \in Versions /\ call[c].new \in BOOLEAN
              /\ call[c].failures \in 0..Len(Steps)
         /\ call[c].pc \in {"flying", "answered"} =>
              /\ call[c].new \in BOOLEAN /\ call[c].failures \in 0..Len(Steps)
         /\ call[c].pc = "answered" => call[c].answer \in Answer
         /\ call[c].pc \in {"idle", "read", "flying", "answered"}
         /\ call[c].pc = "idle" <=> call[c] = NoCall
  BY DEF TypeOK, Call, NoCall

LEMMA DocumentType ==
  ASSUME TypeOK, NEW v \in 1..Version
  PROVE  docs[v] \in Document
  BY DEF TypeOK, Version

LEMMA InitType == Init => TypeOK
<1>1. ASSUME Init
      PROVE  TypeOK
  <2>1. PICK d \in Document : docs = <<d>>
    BY <1>1 DEF Init
  <2>2. docs \in Seq(Document) /\ Version = 1
    BY <2>1 DEF Version
  <2>3. Times = 0..MaxNow /\ 1 \in Times /\ 0 \in Times /\ 1 \in 1..MaxVersions
    BY FeedPipelineAssumption DEF Times
  <2>4. /\ call \in [Fetches -> Call]
        /\ entries \in [Posts -> FeedEntry \cup {None}]
    BY <1>1 DEF Init, Call
  <2>5. QED
    BY <1>1, <2>2, <2>3, <2>4 DEF Init, TypeOK
<1>2. QED
  BY <1>1

LEMMA Bounds ==
  /\ MaxNow \in Nat \ {0} /\ MaxVersions \in Nat \ {0} /\ Grace \in Nat
  /\ Grace >= 2
  /\ 0 \in Versions /\ 0 \in Times /\ 0 \in 0..Len(Steps)
  /\ 0 \in 0..(MaxNow + Cap)
  BY FeedPipelineAssumption, LadderFacts DEF Versions, Times

LEMMA NewRowType == NewRow \in Row /\ NewRow # None
<1>1. NewRow \in Row
  BY Bounds DEF NewRow, Row
<1>2. QED
  BY <1>1, NoRowIsNone

LEMMA RowTypes ==
  ASSUME NEW r \in Row \cup {None}
  PROVE  /\ UpsertFeed(r) \in Row
         /\ \A v \in Versions : UpdateFeedFetchState(r, v) \in Row \cup {None}
         /\ \A n \in 0..Len(Steps), t \in 0..(MaxNow + Cap) :
              UpdateFeedFetchFailure(r, n, t) \in Row \cup {None}
         /\ r # None => \A t \in Times : Marked(r, t) \in Row
<1>1. UpsertFeed(r) \in Row
  BY NewRowType, Bounds DEF UpsertFeed, Row
<1>2. \A v \in Versions : UpdateFeedFetchState(r, v) \in Row \cup {None}
  BY Bounds DEF UpdateFeedFetchState, Row
<1>3. \A n \in 0..Len(Steps), t \in 0..(MaxNow + Cap) :
        UpdateFeedFetchFailure(r, n, t) \in Row \cup {None}
  BY DEF UpdateFeedFetchFailure, Row
<1>4. r # None => \A t \in Times : Marked(r, t) \in Row
  BY Bounds DEF Marked, Row
<1>5. QED
  BY <1>1, <1>2, <1>3, <1>4

(* What the statements leave of a row there is.                            *)
LEMMA MarkedFields ==
  ASSUME NEW r \in Row, NEW t \in Times
  PROVE  /\ Marked(r, t) \in Row
         /\ Marked(r, t).etag = r.etag /\ Marked(r, t).next = r.next
         /\ Marked(r, t).fetched = r.fetched
         /\ Marked(r, t).orphaned =
              IF followed THEN 0 ELSE IF r.orphaned = 0 THEN t ELSE r.orphaned
  BY Bounds DEF Marked, Row

LEMMA UpsertFields ==
  ASSUME NEW r \in Row
  PROVE  /\ UpsertFeed(r) \in Row
         /\ UpsertFeed(r).etag = r.etag /\ UpsertFeed(r).next = r.next
         /\ UpsertFeed(r).fetched = r.fetched /\ UpsertFeed(r).orphaned = 0
  BY NoRowIsNone, Bounds DEF UpsertFeed, Row

LEMMA StateFields ==
  ASSUME NEW r \in Row, NEW v \in Versions
  PROVE  /\ UpdateFeedFetchState(r, v) \in Row
         /\ UpdateFeedFetchState(r, v).etag = v
         /\ UpdateFeedFetchState(r, v).fetched
         /\ UpdateFeedFetchState(r, v).next = 0
         /\ UpdateFeedFetchState(r, v).orphaned = r.orphaned
  BY NoRowIsNone, Bounds DEF UpdateFeedFetchState, Row

LEMMA FailureFields ==
  ASSUME NEW r \in Row, NEW n \in 0..Len(Steps), NEW t \in 0..(MaxNow + Cap)
  PROVE  /\ UpdateFeedFetchFailure(r, n, t) \in Row
         /\ UpdateFeedFetchFailure(r, n, t).etag = r.etag
         /\ UpdateFeedFetchFailure(r, n, t).fetched = r.fetched
         /\ UpdateFeedFetchFailure(r, n, t).next = t
         /\ UpdateFeedFetchFailure(r, n, t).orphaned = r.orphaned
  BY NoRowIsNone DEF UpdateFeedFetchFailure, Row

LEMMA StoredDateType ==
  ASSUME TypeOK, NEW old \in Times \cup {None}, NEW date \in Times,
         NEW keepUndated \in BOOLEAN
  PROVE  /\ StoredDate(old, date, keepUndated) \in Times
         /\ old \in Times \ {0} => StoredDate(old, date, keepUndated) <= old
  BY FeedPipelineAssumption DEF TypeOK, StoredDate, Earlier, Times

LEMMA UpsertEntryType ==
  ASSUME TypeOK, NEW p \in Posts, NEW item \in Items, NEW keepUndated \in BOOLEAN
  PROVE  /\ UpsertFeedEntry(p, item, keepUndated) \in FeedEntry
         /\ UpsertFeedEntry(p, item, keepUndated) # None
         /\ entries[p] # None /\ entries[p].date # 0 =>
              UpsertFeedEntry(p, item, keepUndated).date <= entries[p].date
<1>1. item.date \in Times /\ item.url \in Urls
  BY ItemsAssumption DEF FeedEntry
<1>2. entries[p] # None => entries[p].date \in Times
  BY DEF TypeOK, FeedEntry
<1>3. PICK date : date = StoredDate(Published(p), item.date, keepUndated)
  OBVIOUS
<1>4. /\ date \in Times
      /\ entries[p] # None /\ entries[p].date # 0 => date <= entries[p].date
  BY <1>1, <1>2, <1>3, StoredDateType DEF Published
<1>5. UpsertFeedEntry(p, item, keepUndated) = [date |-> date, url |-> item.url]
  BY <1>3 DEF UpsertFeedEntry
<1>6. UpsertFeedEntry(p, item, keepUndated) \in FeedEntry
  BY <1>1, <1>4, <1>5 DEF FeedEntry
<1>7. QED
  BY <1>4, <1>5, <1>6, NoRowIsNone

LEMMA SweepType ==
  ASSUME TypeOK, NEW t \in Times, SweepAt(t)
  PROVE  /\ row' \in Row \cup {None}
         /\ entries' \in [Posts -> FeedEntry \cup {None}]
  BY RowTypes DEF TypeOK, SweepAt

LEMMA AnsweredType ==
  ASSUME TypeOK, NEW a \in Answer, Answered(a)
  PROVE  TypeOK'
<1>1. call' \in [Fetches -> Call]
  <2>1. ASSUME NEW c \in Fetches
        PROVE  (IF call[c].pc # "flying" THEN call[c]
                ELSE [pc |-> "answered", answer |-> a,
                      new |-> a.kind = "full" /\ call[c].new,
                      failures |-> IF a.kind = "failed" THEN call[c].failures
                                   ELSE 0]) \in Call
    <3>1. CASE call[c].pc # "flying"
      BY <3>1 DEF TypeOK
    <3>2. CASE call[c].pc = "flying"
      <4>1. (a.kind = "full" /\ call[c].new) \in BOOLEAN
        OBVIOUS
      <4>2. (IF a.kind = "failed" THEN call[c].failures ELSE 0) \in 0..Len(Steps)
        BY <3>2, CallType, LadderFacts
      <4>3. QED
        BY <3>2, <4>1, <4>2 DEF Call
    <3>3. QED
      BY <3>1, <3>2
  <2>2. QED
    BY <2>1 DEF Answered
<1>2. QED
  BY <1>1 DEF TypeOK, Answered, Version

LEMMA BatchType ==
  ASSUME TypeOK, NEW c \in Fetches, call[c].pc = "answered",
         call[c].answer.kind = "full", call[c].answer.etag \in 1..Version,
         Batch(c)
  PROVE  /\ row' \in Row
         /\ entries' \in [Posts -> FeedEntry \cup {None}]
         /\ refused' \subseteq Posts
<1> DEFINE v == call[c].answer.etag
<1>1. v \in Versions /\ v \in 1..Version
  BY Bounds DEF TypeOK, Versions
<1>2. PICK bad \in SUBSET Listed(v) :
        /\ row' = UpsertFeed(UpdateFeedFetchState(row, v))
        /\ entries' = [p \in Posts |->
              IF p \in Listed(v) \ bad
              THEN UpsertFeedEntry(p, docs[v][p], call[c].new \/ Generated)
              ELSE entries[p]]
        /\ refused' = (refused \ Listed(v)) \cup bad
  BY DEF Batch
<1>3. row' \in Row
  BY <1>1, <1>2, RowTypes DEF TypeOK
<1>4. \A p \in Listed(v) : docs[v][p] \in Items
  BY <1>1, DocumentType DEF Listed, Document
<1>5. ASSUME NEW p \in Posts
      PROVE  entries'[p] \in FeedEntry \cup {None}
  <2>1. /\ entries[p] \in FeedEntry \cup {None}
        /\ (call[c].new \/ Generated) \in BOOLEAN
    BY DEF TypeOK
  <2>2. p \in Listed(v) =>
          UpsertFeedEntry(p, docs[v][p], call[c].new \/ Generated) \in FeedEntry
    BY <1>4, <2>1, UpsertEntryType
  <2>3. QED
    BY <1>2, <2>1, <2>2
<1>6. QED
  BY <1>2, <1>3, <1>5 DEF TypeOK, Listed

LEMMA NextType == TypeOK /\ Vouching /\ [Next]_vars => TypeOK'
<1> SUFFICES ASSUME TypeOK, Vouching, [Next]_vars
             PROVE  TypeOK'
  OBVIOUS
<1>1. ASSUME NEW c \in Fetches, ReadFeed(c)
      PROVE  TypeOK'
  <2>1. PICK state \in Row :
          call' = [call EXCEPT ![c] =
                     [pc |-> "read", etag |-> state.etag, new |-> ~state.fetched,
                      failures |-> state.failures]]
    BY <1>1, NewRowType DEF ReadFeed, TypeOK
  <2>2. [pc |-> "read", etag |-> state.etag, new |-> ~state.fetched,
         failures |-> state.failures] \in Call
    BY DEF Row, Call
  <2>3. QED
    BY <1>1, <2>1, <2>2 DEF ReadFeed, TypeOK, Version
<1>2. ASSUME NEW c \in Fetches, Fetch(c)
      PROVE  TypeOK'
  <2>1. [pc |-> "flying", new |-> call[c].new, failures |-> call[c].failures]
          \in Call
    BY <1>2, CallType DEF Fetch, Call
  <2>2. call[c].etag \in Versions
    BY <1>2, CallType DEF Fetch
  <2>3. QED
    BY <1>2, <2>1, <2>2 DEF Fetch, TypeOK, Version
<1>3. ASSUME NEW c \in Fetches, Store(c)
      PROVE  TypeOK'
  <2>1. call' \in [Fetches -> Call]
    BY <1>3 DEF Store, TypeOK, Call
  <2>2. call[c].pc = "answered" /\ call[c].answer \in Answer
    BY <1>3, CallType DEF Store
  <2>3. /\ row' \in Row \cup {None}
        /\ entries' \in [Posts -> FeedEntry \cup {None}]
        /\ refused' \subseteq Posts
    <3>1. CASE call[c].answer.kind = "full"
      BY <1>3, <2>2, <3>1, BatchType DEF Store, Vouching
    <3>2. CASE call[c].answer.kind = "same"
      <4>1. call[c].answer.etag \in Versions
        BY <2>2, <3>2 DEF Answer
      <4>2. QED
        BY <1>3, <3>2, <4>1, RowTypes DEF Store, TypeOK
    <3>3. CASE call[c].answer.kind = "failed"
      <4>1. recordFetchFailure(c) /\ UNCHANGED <<entries, refused>>
        BY <1>3, <3>3 DEF Store
      <4>2. call[c].answer.wait \in Nat /\ call[c].failures \in 0..Len(Steps)
        BY <2>2, <3>3, CallType, LadderFacts DEF Answer
      <4>3. PICK failures \in 1..Len(Steps) :
              row' = UpdateFeedFetchFailure(row, failures,
                       now + BackoffDelay(failures, call[c].answer.wait))
        BY <4>1, <4>2, LadderFacts DEF recordFetchFailure, Earlier
      <4>4. now + BackoffDelay(failures, call[c].answer.wait)
              \in 0..(MaxNow + Cap)
        <5>1. BackoffDelay(failures, call[c].answer.wait) \in 0..Cap
          BY <4>2, DelayIsCapped
        <5>2. now \in 0..MaxNow
          BY DEF TypeOK, Times
        <5>3. QED
          BY <5>1, <5>2, LadderFacts, Bounds
      <4>5. failures \in 0..Len(Steps)
        BY LadderFacts
      <4>6. QED
        BY <4>1, <4>3, <4>4, <4>5, RowTypes DEF TypeOK
    <3>4. CASE call[c].answer.kind = "canceled"
      BY <1>3, <3>4 DEF Store, TypeOK
    <3>5. QED
      BY <2>2, <3>1, <3>2, <3>3, <3>4 DEF Answer
  <2>4. QED
    BY <1>3, <2>1, <2>3 DEF Store, TypeOK, Version
<1>4. ASSUME NEW c \in Fetches, StoreFails(c)
      PROVE  TypeOK'
  BY <1>4 DEF StoreFails, TypeOK, Call, Version
<1>5. CASE previewItems
  BY <1>5, Bounds DEF previewItems, TypeOK, Version
<1>6. CASE fetchOne \/ PreviewCanceled
  <2>1. PICK a \in Answer : Answered(a)
    BY <1>6, LadderFacts, Bounds
       DEF fetchOne, PreviewCanceled, Answer, TypeOK, Versions
  <2>2. QED
    BY <2>1, AnsweredType
<1>7. CASE FollowBegins \/ FollowEnds \/ Unfollow
  <2>1. UpsertFeed(row) \in Row
    BY RowTypes DEF TypeOK
  <2>2. QED
    BY <1>7, <2>1, Bounds DEF FollowBegins, FollowEnds, Unfollow, TypeOK, Version
<1>8. CASE Save \/ Unsave
  <2>1. saved' \subseteq UserSave
    BY <1>8 DEF Save, Unsave, ListEntriesForSource, Stored, TypeOK, FeedEntry,
                UserSave
  <2>2. QED
    BY <1>8, <2>1 DEF Save, Unsave, TypeOK, Version
<1>9. CASE Publish
  <2>1. PICK d \in Document : docs' = Append(docs, d)
    BY <1>9 DEF Publish
  <2>2. docs' \in Seq(Document) /\ Version' = Version + 1
    BY <2>1 DEF TypeOK, Version
  <2>3. Version' \in 1..MaxVersions
    BY <1>9, <2>2, Bounds DEF Publish, TypeOK
  <2>4. QED
    BY <1>9, <2>2, <2>3 DEF Publish, TypeOK
<1>10. CASE Tick
  <2>1. now + 1 \in Times
    BY <1>10, Bounds DEF Tick, TypeOK, Times
  <2>2. QED
    BY <1>10, <2>1, SweepType DEF Tick, TypeOK, Version
<1>11. CASE SweepUnfollowedFeeds
  BY <1>11, SweepType DEF SweepUnfollowedFeeds, TypeOK, Version
<1>12. CASE Restart
  BY <1>12, Bounds DEF Restart, TypeOK, Call, Version
<1>13. CASE UNCHANGED vars
  BY <1>13 DEF vars, TypeOK, Version
<1>14. QED
  BY <1>1, <1>2, <1>3, <1>4, <1>5, <1>6, <1>7, <1>8, <1>9, <1>10, <1>11, <1>12,
     <1>13 DEF Next

-----------------------------------------------------------------------------
(* What a step keeps.                                                      *)

SweptAway ==
    /\ row # None /\ row' = None
    /\ Idle /\ ~followed /\ following = 0
    /\ \A p \in Stored : ~IsSaved(entries[p].url)
    /\ entries' = [p \in Posts |-> None]
    /\ UNCHANGED <<docs, followed, following, saved, call, flight, refused>>

(* The sweep either takes a feed nobody uses, with all its posts, or marks *)
(* it at most.                                                             *)
LEMMA SweepTakesTheUnused ==
  ASSUME IInv, NEW t \in Times, SweepAt(t),
         t = now \/ (t = now + 1 /\ Idle /\ following \in {0, now}),
         UNCHANGED <<docs, followed, following, saved, call, flight, refused>>
  PROVE  \/ SweptAway
         \/ /\ entries' = entries
            /\ row' = IF row = None THEN None ELSE Marked(row, t)
<1>1. CASE row # None /\ DeleteOrphaned(Marked(row, t), t)
  <2>1. row \in Row /\ row.orphaned \in Times /\ now \in Times
    BY <1>1 DEF IInv, TypeOK, Row
  <2>2. /\ ~followed /\ \A p \in Stored : ~IsSaved(entries[p].url)
        /\ Marked(row, t).orphaned + Grace <= t
    BY <1>1 DEF DeleteOrphaned
  <2>3. row.orphaned # 0 /\ row.orphaned + Grace <= t
    <3>1. Marked(row, t).orphaned = IF row.orphaned = 0 THEN t ELSE row.orphaned
      BY <2>1, <2>2, MarkedFields
    <3>2. t \in Nat /\ row.orphaned \in Nat /\ Grace \in Nat /\ Grace >= 2
      BY <2>1, Bounds DEF Times
    <3>3. QED
      BY <2>2, <3>1, <3>2
  <2>4. Idle
    BY <2>1, <2>3, Bounds DEF IInv, UsedFeedsAreFresh, Fresh, Times
  <2>5. following = 0
    <3>1. /\ now \in Nat /\ following \in Nat /\ row.orphaned \in Nat
          /\ Grace \in Nat /\ Grace >= 2
      BY <2>1, Bounds DEF IInv, TypeOK, Times
    <3>2. following # 0 =>
            following <= now /\ now <= following + 1 /\ row.orphaned >= following
      BY <2>3 DEF IInv, UsedFeedsAreFresh
    <3>3. t = now \/ (t = now + 1 /\ following \in {0, now})
      OBVIOUS
    <3>4. QED
      BY <2>3, <3>1, <3>2, <3>3
  <2>6. row' = None /\ entries' = [p \in Posts |-> None]
    BY <1>1 DEF SweepAt
  <2>7. QED
    BY <1>1, <2>2, <2>4, <2>5, <2>6 DEF SweptAway
<1>2. CASE ~(row # None /\ DeleteOrphaned(Marked(row, t), t))
  BY <1>2 DEF SweepAt
<1>3. QED
  BY <1>1, <1>2

LEMMA DocumentsStay ==
  ASSUME TypeOK, [Next]_vars, NEW v \in 1..Version
  PROVE  v \in 1..Version' /\ Listed(v)' = Listed(v)
<1>1. CASE UNCHANGED docs
  BY <1>1 DEF Version, Listed
<1>2. CASE Publish
  <2>1. PICK d \in Document : docs' = Append(docs, d)
    BY <1>2 DEF Publish
  <2>2. Version' = Version + 1 /\ docs'[v] = docs[v] /\ Version \in Nat
    BY <2>1 DEF TypeOK, Version
  <2>3. QED
    BY <2>2 DEF Listed
<1>3. QED
  BY <1>1, <1>2
     DEF Next, vars, ReadFeed, Fetch, Store, StoreFails, previewItems, fetchOne,
         PreviewCanceled, Answered, FollowBegins, FollowEnds, Unfollow, Save,
         Unsave, Tick, SweepUnfollowedFeeds, Restart

(* A step that is not the sweep's deletion keeps every post and moves no   *)
(* date later.                                                             *)
Kept ==
    /\ row # None => row' # None
    /\ \A p \in Stored :
         /\ p \in Stored'
         /\ entries[p].date # 0 => entries'[p].date <= entries[p].date
    /\ Stored \cup refused \subseteq Stored' \cup refused'

LEMMA BatchKeeps ==
  ASSUME IInv, NEW c \in Fetches, call[c].pc = "answered",
         call[c].answer.kind = "full", Batch(c)
  PROVE  /\ row' \in Row /\ row # None
         /\ row'.etag = call[c].answer.etag /\ row'.next = 0
         /\ row'.orphaned = 0 /\ row'.fetched
         /\ Listed(call[c].answer.etag) \subseteq Stored' \cup refused'
         /\ Kept
<1> DEFINE v == call[c].answer.etag
<1>1. v \in 1..Version /\ v \in Versions
  BY Bounds DEF IInv, TypeOK, Vouching, Versions
<1>2. row # None /\ row \in Row
  BY DEF IInv, UsedFeedsAreFresh, Idle, TypeOK
<1>3. PICK bad \in SUBSET Listed(v) :
        /\ row' = UpsertFeed(UpdateFeedFetchState(row, v))
        /\ entries' = [p \in Posts |->
              IF p \in Listed(v) \ bad
              THEN UpsertFeedEntry(p, docs[v][p], call[c].new \/ Generated)
              ELSE entries[p]]
        /\ refused' = (refused \ Listed(v)) \cup bad
  BY DEF Batch
<1>4. /\ row' \in Row /\ row'.etag = v /\ row'.next = 0
      /\ row'.orphaned = 0 /\ row'.fetched
  <2>1. PICK r \in Row : /\ r = UpdateFeedFetchState(row, v)
                         /\ r.etag = v /\ r.fetched /\ r.next = 0
    BY <1>1, <1>2, StateFields
  <2>2. row' = UpsertFeed(r)
    BY <1>3, <2>1
  <2>3. QED
    BY <2>1, <2>2, UpsertFields
<1>7. \A p \in Posts : entries[p] # None => entries[p].date <= entries[p].date
  BY Bounds DEF IInv, TypeOK, FeedEntry, Times
<1>5. ASSUME NEW p \in Posts
      PROVE  /\ p \in Listed(v) \ bad => entries'[p] # None
             /\ p \notin Listed(v) \ bad => entries'[p] = entries[p]
             /\ entries[p] # None =>
                  /\ entries'[p] # None
                  /\ entries[p].date # 0 => entries'[p].date <= entries[p].date
  <2>1. /\ entries[p] # None => entries[p].date <= entries[p].date
        /\ (call[c].new \/ Generated) \in BOOLEAN
    BY <1>7
  <2>2. p \in Listed(v) => docs[v][p] \in Items
    <3>1. docs[v] \in Document
      BY <1>1, DocumentType DEF IInv
    <3>2. QED
      BY <3>1 DEF Listed, Document
  <2>3. ASSUME p \in Listed(v)
        PROVE  \E new : /\ new = UpsertFeedEntry(p, docs[v][p], call[c].new \/ Generated)
                        /\ new # None
                        /\ entries[p] # None /\ entries[p].date # 0 =>
                             new.date <= entries[p].date
    <3>1. PICK item \in Items : item = docs[v][p]
      BY <2>2, <2>3
    <3>2. PICK keep \in BOOLEAN : keep = (call[c].new \/ Generated)
      BY <2>1
    <3>3. TypeOK
      BY DEF IInv
    <3>4. /\ UpsertFeedEntry(p, item, keep) # None
          /\ entries[p] # None /\ entries[p].date # 0 =>
               UpsertFeedEntry(p, item, keep).date <= entries[p].date
      BY <3>3, UpsertEntryType
    <3>5. QED
      BY <3>1, <3>2, <3>4
  <2>4. QED
    BY <1>3, <2>1, <2>3
<1>8. Listed(v) \subseteq Stored' \cup refused'
  BY <1>3, <1>5 DEF Stored, Listed
<1>9. Kept
  BY <1>2, <1>3, <1>4, <1>5, NoRowIsNone DEF Kept, Stored, Listed
<1>10. QED
  BY <1>2, <1>4, <1>8, <1>9

LEMMA StoreKeeps ==
  ASSUME IInv, NEW c \in Fetches, Store(c)
  PROVE  /\ row \in Row /\ row # None /\ row' \in Row /\ row' # None
         /\ row'.orphaned \in {0, row.orphaned}
         /\ \/ /\ call[c].answer.kind \in {"full", "same"}
               /\ row'.etag = call[c].answer.etag
               /\ Listed(row'.etag) \subseteq Stored' \cup refused'
               /\ row'.fetched /\ row'.next = 0
            \/ /\ row'.etag = row.etag /\ row'.fetched = row.fetched
               /\ row'.next <= now + Cap
               /\ UNCHANGED entries
         /\ Kept
<1>1. call[c].pc = "answered" /\ call[c].answer \in Answer
  BY CallType DEF Store, IInv
<1>2. row # None /\ row \in Row
  BY <1>1 DEF IInv, UsedFeedsAreFresh, Idle, TypeOK
<1>3. \A p \in Stored : entries[p].date <= entries[p].date
  BY Bounds DEF IInv, TypeOK, FeedEntry, Stored, Times
<1>4. ASSUME UNCHANGED <<entries, refused>>, row' \in Row
      PROVE  Kept
  BY <1>3, <1>4, NoRowIsNone DEF Kept, Stored
<1>5. CASE call[c].answer.kind = "full"
  <2>1. Batch(c)
    BY <1>5 DEF Store
  <2>2. QED
    BY <1>1, <1>2, <1>5, <2>1, BatchKeeps, NoRowIsNone
<1>6. CASE call[c].answer.kind = "same"
  <2>1. /\ row' = UpdateFeedFetchState(row, call[c].answer.etag)
        /\ UNCHANGED <<entries, refused>>
    BY <1>6 DEF Store
  <2>2. call[c].answer.etag \in Versions
    BY <1>1, <1>6 DEF Answer
  <2>3. /\ row' \in Row /\ row'.etag = call[c].answer.etag /\ row'.fetched
        /\ row'.next = 0 /\ row'.orphaned = row.orphaned
    BY <1>2, <2>1, <2>2, StateFields
  <2>4. Listed(call[c].answer.etag) \subseteq Stored \cup refused
    BY <1>1, <1>6 DEF IInv, Vouching, Vouched
  <2>5. Listed(row'.etag) \subseteq Stored' \cup refused'
    BY <2>1, <2>3, <2>4 DEF Stored
  <2>6. Kept
    BY <1>4, <2>1, <2>3
  <2>7. QED
    BY <1>2, <1>6, <2>3, <2>5, <2>6, NoRowIsNone
<1>7. CASE call[c].answer.kind = "failed"
  <2>1. recordFetchFailure(c) /\ UNCHANGED <<entries, refused>>
    BY <1>7 DEF Store
  <2>2. call[c].answer.wait \in Nat /\ call[c].failures \in 0..Len(Steps)
    BY <1>1, <1>7, CallType, LadderFacts DEF Answer, IInv
  <2>3. PICK failures \in 1..Len(Steps) :
          row' = UpdateFeedFetchFailure(row, failures,
                   now + BackoffDelay(failures, call[c].answer.wait))
    BY <2>1, <2>2, LadderFacts DEF recordFetchFailure, Earlier
  <2>4. PICK t \in 0..(MaxNow + Cap) :
          /\ t = now + BackoffDelay(failures, call[c].answer.wait)
          /\ t <= now + Cap
    <3>1. BackoffDelay(failures, call[c].answer.wait) \in 0..Cap
      BY <2>2, DelayIsCapped
    <3>2. now \in 0..MaxNow
      BY DEF IInv, TypeOK, Times
    <3>3. QED
      BY <3>1, <3>2, LadderFacts, Bounds
  <2>5. failures \in 0..Len(Steps) /\ row' = UpdateFeedFetchFailure(row, failures, t)
    BY <2>3, <2>4, LadderFacts
  <2>6. /\ row' \in Row /\ row'.etag = row.etag /\ row'.fetched = row.fetched
        /\ row'.next = t /\ row'.orphaned = row.orphaned
    BY <1>2, <2>5, FailureFields
  <2>7. Kept
    BY <1>4, <2>1, <2>6
  <2>8. QED
    BY <1>2, <2>1, <2>4, <2>6, <2>7, NoRowIsNone
<1>8. CASE call[c].answer.kind = "canceled"
  <2>1. UNCHANGED <<row, entries, refused>>
    BY <1>8 DEF Store
  <2>2. Kept
    BY <1>2, <1>4, <2>1
  <2>3. row.next <= now + Cap
    BY <1>2 DEF IInv, BackoffWithinCap
  <2>4. QED
    BY <1>2, <2>1, <2>2, <2>3
<1>9. QED
  BY <1>1, <1>5, <1>6, <1>7, <1>8 DEF Answer

LEMMA StepKeeps ==
  ASSUME IInv, [Next]_vars
  PROVE  SweptAway \/ Kept
<1>1. ASSUME UNCHANGED <<entries, refused>>, row # None => row' # None
      PROVE  Kept
  <2>1. \A p \in Stored : entries[p].date <= entries[p].date
    BY Bounds DEF IInv, TypeOK, FeedEntry, Stored, Times
  <2>2. QED
    BY <1>1, <2>1 DEF Kept, Stored
<1>2. CASE \E c \in Fetches : Store(c)
  BY <1>2, StoreKeeps
<1>3. CASE FollowBegins
  BY <1>1, <1>3, RowTypes, NoRowIsNone DEF FollowBegins, IInv, TypeOK
<1>4. CASE Tick \/ SweepUnfollowedFeeds
  <2>1. PICK t \in Times :
          /\ SweepAt(t)
          /\ t = now \/ (t = now + 1 /\ Idle /\ following \in {0, now})
          /\ UNCHANGED <<docs, followed, following, saved, call, flight, refused>>
    BY <1>4, CallType, Bounds
       DEF Tick, SweepUnfollowedFeeds, Idle, IInv, TypeOK, Times, NoCall
  <2>2. \/ SweptAway
        \/ /\ entries' = entries
           /\ row' = IF row = None THEN None ELSE Marked(row, t)
    BY <2>1, SweepTakesTheUnused
  <2>3. row # None => Marked(row, t) # None
    BY <2>1, MarkedFields, NoRowIsNone DEF IInv, TypeOK
  <2>4. QED
    BY <1>1, <2>1, <2>2, <2>3
<1>5. CASE UNCHANGED <<row, entries, refused>>
  BY <1>1, <1>5
<1>6. QED
  BY <1>2, <1>3, <1>4, <1>5
     DEF Next, vars, ReadFeed, Fetch, StoreFails, previewItems, fetchOne,
         PreviewCanceled, Answered, FollowEnds, Unfollow, Save, Unsave, Publish,
         Restart

-----------------------------------------------------------------------------
(* The parts of the invariant.                                             *)

(* What Tick and the sweep do, in the invariant's words.                   *)
LEMMA SweepStep ==
  ASSUME IInv, Tick \/ SweepUnfollowedFeeds
  PROVE  \/ SweptAway
         \/ \E t \in Times :
              /\ entries' = entries
              /\ row' = IF row = None THEN None ELSE Marked(row, t)
              /\ t = now' /\ (now' = now \/ (now' = now + 1 /\ Idle
                                             /\ following \in {0, now}))
              /\ UNCHANGED <<docs, followed, following, saved, call, flight, refused>>
<1>1. PICK t \in Times :
        /\ SweepAt(t) /\ t = now'
        /\ t = now \/ (t = now + 1 /\ Idle /\ following \in {0, now})
        /\ UNCHANGED <<docs, followed, following, saved, call, flight, refused>>
  BY CallType, Bounds
     DEF Tick, SweepUnfollowedFeeds, Idle, IInv, TypeOK, Times, NoCall
<1>2. QED
  BY <1>1, SweepTakesTheUnused

LEMMA FreshKept ==
  ASSUME IInv, [Next]_vars
  PROVE  UsedFeedsAreFresh'
<1> USE DEF IInv
<1>1. CASE \E c \in Fetches : Store(c)
  <2>1. PICK c \in Fetches : Store(c)
    BY <1>1
  <2>2. /\ row # None /\ row' # None /\ row'.orphaned \in {0, row.orphaned}
    BY <2>1, StoreKeeps
  <2>3. UNCHANGED <<now, followed, following>> /\ ~Idle
    BY <2>1 DEF Store, Idle
  <2>4. QED
    BY <2>2, <2>3 DEF UsedFeedsAreFresh, Fresh
<1>2. CASE FollowBegins
  <2>1. /\ UpsertFeed(row) \in Row /\ UpsertFeed(row) # None
        /\ UpsertFeed(row).orphaned = 0
    BY RowTypes, UpsertFields, NoRowIsNone DEF TypeOK, UpsertFeed, NewRow
  <2>2. now \in Nat
    BY Bounds DEF TypeOK, Times
  <2>3. QED
    BY <1>2, <2>1, <2>2 DEF FollowBegins, UsedFeedsAreFresh, Fresh
<1>3. CASE FollowEnds
  <2>1. row # None /\ row \in Row
    BY <1>3 DEF FollowEnds, UsedFeedsAreFresh, TypeOK
  <2>2. /\ row.orphaned \in Nat /\ now \in Nat /\ following \in Nat
        /\ Grace \in Nat /\ Grace >= 2
    BY <2>1, Bounds DEF TypeOK, Times, Row
  <2>3. Fresh
    BY <1>3, <2>2 DEF FollowEnds, UsedFeedsAreFresh, Fresh
  <2>4. QED
    BY <1>3, <2>1, <2>3 DEF FollowEnds, UsedFeedsAreFresh, Fresh
<1>4. CASE Tick \/ SweepUnfollowedFeeds
  <2>1. CASE SweptAway
    BY <2>1 DEF SweptAway, UsedFeedsAreFresh, Idle
  <2>2. CASE ~SweptAway
    <3>1. PICK t \in Times :
            /\ row' = IF row = None THEN None ELSE Marked(row, t)
            /\ t = now' /\ (now' = now \/ (now' = now + 1 /\ Idle
                                           /\ following \in {0, now}))
            /\ UNCHANGED <<followed, following, call>>
      BY <1>4, <2>2, SweepStep
    <3>2. CASE row = None
      BY <3>1, <3>2 DEF UsedFeedsAreFresh, Idle
    <3>3. CASE row # None
      <4>1. row \in Row
        BY <3>3 DEF TypeOK
      <4>2. /\ row' \in Row /\ row' # None
            /\ row'.orphaned = IF followed THEN 0
                               ELSE IF row.orphaned = 0 THEN t ELSE row.orphaned
        BY <3>1, <3>3, <4>1, MarkedFields, NoRowIsNone
      <4>3. /\ row.orphaned \in Nat /\ now \in Nat /\ t \in Nat
            /\ following \in Nat /\ Grace \in Nat /\ Grace >= 2
        BY <4>1, Bounds DEF TypeOK, Times, Row
      <4>4. /\ followed \/ ~Idle => Fresh
            /\ following # 0 =>
                 /\ following <= now /\ now <= following + 1
                 /\ row.orphaned = 0 \/ row.orphaned >= following
        BY DEF UsedFeedsAreFresh
      <4>5. Idle' <=> Idle
        BY <3>1 DEF Idle
      <4>6. followed \/ ~Idle => Fresh'
        BY <3>1, <4>2, <4>3, <4>4 DEF Fresh
      <4>7. following # 0 =>
              /\ following <= now' /\ now' <= following + 1
              /\ row'.orphaned = 0 \/ row'.orphaned >= following
        <5>1. SUFFICES ASSUME following # 0
                       PROVE  /\ following <= t /\ t <= following + 1
                              /\ row'.orphaned = 0 \/ row'.orphaned >= following
          BY <3>1
        <5>2. /\ following <= now /\ now <= following + 1
              /\ row.orphaned = 0 \/ row.orphaned >= following
          BY <4>4, <5>1
        <5>3. t = now \/ (t = now + 1 /\ following = now)
          BY <3>1, <5>1
        <5>4. following <= t /\ t <= following + 1
          BY <4>3, <5>2, <5>3
        <5>5. QED
          BY <4>2, <4>3, <5>2, <5>4
      <4>8. QED
        BY <3>1, <4>2, <4>5, <4>6, <4>7 DEF UsedFeedsAreFresh
    <3>4. QED
      BY <3>2, <3>3
  <2>3. QED
    BY <2>1, <2>2
<1>5. ASSUME NEW c \in Fetches, ReadFeed(c)
      PROVE  UsedFeedsAreFresh'
  BY <1>5 DEF ReadFeed, ListFollowedFeedURLs, UsedFeedsAreFresh, Fresh
<1>6. ASSUME NEW c \in Fetches, Fetch(c) \/ StoreFails(c)
      PROVE  UsedFeedsAreFresh'
  <2>1. ~Idle
    BY <1>6 DEF Fetch, StoreFails, Idle
  <2>2. UNCHANGED <<now, row, followed, following>>
    BY <1>6 DEF Fetch, StoreFails
  <2>3. QED
    BY <2>1, <2>2 DEF UsedFeedsAreFresh, Fresh
<1>7. CASE fetchOne \/ PreviewCanceled \/ previewItems \/ Unfollow \/ Save
             \/ Unsave \/ Publish \/ Restart \/ UNCHANGED vars
  <2>1. Idle => Idle'
    BY <1>7 DEF fetchOne, PreviewCanceled, previewItems, Unfollow, Save, Unsave,
                Publish, Restart, vars, Answered, Idle, NoCall
  <2>2. /\ UNCHANGED <<now, row>>
        /\ followed' => followed
        /\ following' \in {0, following}
    BY <1>7 DEF fetchOne, PreviewCanceled, previewItems, Unfollow, Save, Unsave,
                Publish, Restart, vars, Answered
  <2>3. QED
    BY <2>1, <2>2 DEF UsedFeedsAreFresh, Fresh
<1>8. QED
  BY <1>1, <1>2, <1>3, <1>4, <1>5, <1>6, <1>7 DEF Next

LEMMA LedKept ==
  ASSUME IInv, [Next]_vars
  PROVE  FlightsAreLed'
<1>1. ASSUME NEW c \in Fetches, Fetch(c)
      PROVE  FlightsAreLed'
  <2>1. /\ call' = [call EXCEPT ![c] = [pc |-> "flying", new |-> call[c].new,
                                        failures |-> call[c].failures]]
        /\ call \in [Fetches -> Call]
    BY <1>1 DEF Fetch, IInv, TypeOK
  <2>2. \A d \in Fetches : call[d].pc = "flying" => call'[d].pc = "flying"
    BY <2>1
  <2>3. call'[c].pc = "flying"
    BY <2>1
  <2>4. flight' = IF flight # None THEN flight
                  ELSE [leader |-> c, etag |-> call[c].etag]
    BY <1>1 DEF Fetch
  <2>5. QED
    BY <2>2, <2>3, <2>4 DEF FlightsAreLed, IInv
<1>2. ASSUME NEW c \in Fetches, ReadFeed(c) \/ Store(c) \/ StoreFails(c)
      PROVE  FlightsAreLed'
  <2>1. call[c].pc \in {"idle", "answered"} /\ flight' = flight
    <3>1. CASE ReadFeed(c)
      BY <3>1 DEF ReadFeed, NoCall
    <3>2. CASE Store(c)
      BY <3>2 DEF Store
    <3>3. CASE StoreFails(c)
      BY <3>3 DEF StoreFails
    <3>4. QED
      BY <1>2, <3>1, <3>2, <3>3
  <2>2. \A d \in Fetches \ {c} : call'[d] = call[d]
    BY <1>2 DEF ReadFeed, Store, StoreFails, IInv, TypeOK
  <2>3. QED
    BY <2>1, <2>2 DEF FlightsAreLed, IInv
<1>3. CASE fetchOne \/ PreviewCanceled \/ Restart
  BY <1>3 DEF fetchOne, PreviewCanceled, Restart, Answered, FlightsAreLed
<1>4. CASE previewItems
  BY <1>4 DEF previewItems, FlightsAreLed
<1>5. CASE UNCHANGED <<call, flight>>
  BY <1>5 DEF FlightsAreLed, IInv
<1>6. QED
  BY <1>1, <1>2, <1>3, <1>4, <1>5
     DEF Next, vars, FollowBegins, FollowEnds, Unfollow, Save, Unsave, Publish,
         Tick, SweepUnfollowedFeeds

LEMMA VouchingKept ==
  ASSUME IInv, [Next]_vars
  PROVE  Vouching'
<1>1. CASE SweptAway
  <2>1. flight # None => flight.etag = 0
    BY <1>1 DEF SweptAway, Idle, IInv, FlightsAreLed
  <2>2. Version' = Version
    BY <1>1 DEF SweptAway, Version
  <2>3. QED
    BY <1>1, <2>1, <2>2, Bounds
       DEF SweptAway, Idle, IInv, TypeOK, Vouching, Vouched
<1>2. CASE Kept
  <2>1. \A v \in 0..Version : v \in 0..Version' /\ (Vouched(v) => Vouched(v)')
    <3>1. \A v \in 1..Version : v \in 1..Version' /\ Listed(v)' = Listed(v)
      BY DocumentsStay DEF IInv
    <3>2. Version \in Nat /\ Version' \in Nat
      BY NextType, Bounds DEF IInv, TypeOK
    <3>3. QED
      BY <1>2, <3>1, <3>2 DEF Vouched, Kept
  <2>2. \A v \in 1..Version : v \in 1..Version'
    BY DocumentsStay DEF IInv
  <2>3. ASSUME UNCHANGED call, UNCHANGED flight,
               row' # None =>
                 (row # None /\ row'.etag = row.etag) \/ row'.etag = 0
        PROVE  Vouching'
    BY <2>1, <2>2, <2>3, Bounds DEF IInv, TypeOK, Vouching, Vouched
  <2>4. CASE \E c \in Fetches : ReadFeed(c)
    <3>1. PICK c \in Fetches : ReadFeed(c)
      BY <2>4
    <3>2. PICK state \in {NewRow} \cup (IF row = None THEN {} ELSE {row}) :
            /\ UNCHANGED <<row, flight>>
            /\ call'[c].pc = "read" /\ call'[c].etag = state.etag
            /\ \A d \in Fetches \ {c} : call'[d] = call[d]
      BY <3>1 DEF ReadFeed, IInv, TypeOK
    <3>3. state.etag \in 0..Version /\ Vouched(state.etag)
      BY Bounds DEF IInv, TypeOK, Vouching, Vouched, NewRow
    <3>4. QED
      BY <2>1, <2>2, <3>2, <3>3 DEF IInv, Vouching
  <2>5. CASE \E c \in Fetches : Fetch(c)
    <3>1. PICK c \in Fetches : Fetch(c)
      BY <2>5
    <3>2. /\ UNCHANGED row
          /\ call[c].pc = "read" /\ call'[c].pc = "flying"
          /\ \A d \in Fetches \ {c} : call'[d] = call[d]
          /\ flight' # None => flight'.etag = call[c].etag
                                  \/ (flight # None /\ flight' = flight)
      BY <3>1 DEF Fetch, IInv, TypeOK
    <3>3. QED
      BY <2>1, <2>2, <3>2 DEF IInv, Vouching
  <2>6. CASE \E c \in Fetches : Store(c)
    <3>1. PICK c \in Fetches : Store(c)
      BY <2>6
    <3>2. /\ UNCHANGED <<docs, flight>>
          /\ call[c].pc = "answered" /\ call'[c].pc = "idle"
          /\ \A d \in Fetches \ {c} : call'[d] = call[d]
      BY <3>1 DEF Store, IInv, TypeOK, NoCall
    <3>3. PICK v \in 0..Version : row'.etag = v /\ Vouched(v)'
      <4>1. CASE /\ call[c].answer.kind \in {"full", "same"}
                 /\ row'.etag = call[c].answer.etag
                 /\ Listed(row'.etag) \subseteq Stored' \cup refused'
        <5>1. PICK v \in 1..Version : row'.etag = v
          BY <3>2, <4>1 DEF IInv, Vouching
        <5>2. Listed(v)' = Listed(v)
          BY <3>2 DEF Listed
        <5>3. v \in 0..Version
          BY Bounds DEF IInv, TypeOK
        <5>4. QED
          BY <4>1, <5>1, <5>2, <5>3 DEF Vouched
      <4>2. CASE row'.etag = row.etag
        <5>1. row # None
          BY <3>1, StoreKeeps
        <5>2. PICK v \in 0..Version : row.etag = v /\ Vouched(v)
          BY <5>1 DEF IInv, Vouching
        <5>3. QED
          BY <2>1, <4>2, <5>2
      <4>3. QED
        BY <3>1, <4>1, <4>2, StoreKeeps
    <3>4. row' # None => row'.etag \in 0..Version' /\ Vouched(row.etag)'
      BY <2>1, <3>3 DEF Vouched
    <3>5. QED
      BY <2>1, <2>2, <3>2, <3>4 DEF IInv, Vouching, Vouched
  <2>7. CASE \E c \in Fetches : StoreFails(c)
    <3>1. PICK c \in Fetches : StoreFails(c)
      BY <2>7
    <3>2. /\ UNCHANGED <<row, flight>> /\ call'[c].pc = "idle"
          /\ \A d \in Fetches \ {c} : call'[d] = call[d]
      BY <3>1 DEF StoreFails, IInv, TypeOK, NoCall
    <3>3. QED
      BY <2>1, <2>2, <3>2 DEF IInv, Vouching
  <2>8. CASE previewItems
    BY <2>1, <2>2, <2>8, Bounds DEF previewItems, IInv, TypeOK, Vouching, Vouched
  <2>9. CASE fetchOne \/ PreviewCanceled
    <3>1. PICK a \in Answer :
            /\ Answered(a)
            /\ a.kind \in {"full", "same"} => a.etag = Version
            /\ a.kind = "same" => flight # None /\ flight.etag = Version
      <4>1. Version \in Versions /\ Version # 0
        BY Bounds DEF IInv, TypeOK, Versions
      <4>2. /\ [kind |-> "same", etag |-> Version] \in Answer
            /\ [kind |-> "full", etag |-> Version] \in Answer
        BY <4>1 DEF Answer
      <4>3. /\ [kind |-> "canceled"] \in Answer
            /\ \A wait \in {0, Cap + 1} : [kind |-> "failed", wait |-> wait] \in Answer
        BY LadderFacts DEF Answer
      <4>4. CASE fetchOne
        BY <4>2, <4>3, <4>4 DEF fetchOne
      <4>5. CASE PreviewCanceled
        BY <4>3, <4>5 DEF PreviewCanceled
      <4>6. QED
        BY <2>9, <4>4, <4>5
    <3>2. /\ UNCHANGED <<docs, row>> /\ flight' = None
          /\ \A d \in Fetches : \/ call'[d] = call[d]
                                 \/ /\ call'[d].pc = "answered"
                                    /\ call'[d].answer = a
      BY <3>1 DEF Answered
    <3>3. Version \in 1..Version /\ Version' = Version /\ Version \in 0..Version
      BY <3>2, Bounds DEF IInv, TypeOK, Version
    <3>4. a.kind = "same" => Vouched(Version)'
      BY <2>1, <3>1, <3>3 DEF IInv, Vouching
    <3>5. ASSUME NEW d \in Fetches, call'[d].pc = "read"
          PROVE  call'[d].etag \in 0..Version' /\ Vouched(call[d].etag)'
      BY <2>1, <3>1, <3>2, <3>5 DEF IInv, Vouching, Vouched
    <3>6. ASSUME NEW d \in Fetches, call'[d].pc = "answered",
                 call'[d].answer.kind \in {"full", "same"}
          PROVE  /\ call'[d].answer.etag \in 1..Version'
                 /\ call'[d].answer.kind = "same" => Vouched(call[d].answer.etag)'
      <4>1. CASE call'[d] = call[d]
        BY <2>1, <2>2, <3>6, <4>1, <3>3 DEF IInv, Vouching, Vouched
      <4>2. CASE call'[d].answer = a
        BY <3>1, <3>3, <3>4, <3>6, <4>2 DEF Vouched
      <4>3. QED
        BY <3>2, <4>1, <4>2
    <3>7. row' # None => row'.etag \in 0..Version' /\ Vouched(row.etag)'
      BY <2>1, <3>2 DEF IInv, Vouching, Vouched
    <3>8. QED
      BY <3>2, <3>5, <3>6, <3>7 DEF Vouching
  <2>10. CASE FollowBegins
    <3>1. row' # None => (row # None /\ row'.etag = row.etag) \/ row'.etag = 0
      BY <2>10, UpsertFields DEF FollowBegins, UpsertFeed, NewRow, IInv, TypeOK
    <3>2. QED
      BY <2>3, <2>10, <3>1 DEF FollowBegins
  <2>11. CASE Tick \/ SweepUnfollowedFeeds
    <3>1. PICK t \in Times :
            row' = IF row = None THEN None ELSE Marked(row, t)
      BY <1>2, <2>11, SweepStep DEF Kept, SweptAway
    <3>2. row' # None => row # None /\ row'.etag = row.etag
      BY <3>1, MarkedFields DEF IInv, TypeOK
    <3>3. QED
      BY <2>3, <2>11, <3>2 DEF Tick, SweepUnfollowedFeeds
  <2>12. CASE Restart
    BY <2>1, <2>2, <2>12 DEF Restart, NoCall, IInv, Vouching
  <2>13. CASE UNCHANGED <<row, call, flight>>
    BY <2>3, <2>13
  <2>14. QED
    BY <2>4, <2>5, <2>6, <2>7, <2>8, <2>9, <2>10, <2>11, <2>12, <2>13
       DEF Next, vars, FollowEnds, Unfollow, Save, Unsave, Publish
<1>3. QED
  BY <1>1, <1>2, StepKeeps

LEMMA UnfetchedKept ==
  ASSUME IInv, [Next]_vars
  PROVE  UnfetchedIsEmpty'
<1>1. CASE SweptAway
  BY <1>1 DEF SweptAway, UnfetchedIsEmpty, Stored
<1>2. CASE \E c \in Fetches : Store(c)
  <2>1. PICK c \in Fetches : Store(c)
    BY <1>2
  <2>2. /\ row # None /\ row' # None
        /\ row'.fetched \/ (row'.fetched = row.fetched /\ UNCHANGED entries)
    BY <2>1, StoreKeeps
  <2>3. QED
    BY <2>2 DEF IInv, UnfetchedIsEmpty, Stored
<1>3. ASSUME UNCHANGED entries,
             row' = None \/ ~row'.fetched => row = None \/ ~row.fetched
      PROVE  UnfetchedIsEmpty'
  BY <1>3 DEF IInv, UnfetchedIsEmpty, Stored
<1>4. CASE FollowBegins
  BY <1>3, <1>4, UpsertFields, RowTypes, NoRowIsNone
     DEF FollowBegins, IInv, TypeOK
<1>5. CASE Tick \/ SweepUnfollowedFeeds
  <2>1. CASE ~SweptAway
    <3>1. PICK t \in Times :
            /\ entries' = entries
            /\ row' = IF row = None THEN None ELSE Marked(row, t)
      BY <1>5, <2>1, SweepStep
    <3>2. QED
      BY <1>3, <3>1, MarkedFields, NoRowIsNone DEF IInv, TypeOK
  <2>2. QED
    BY <1>1, <2>1
<1>6. CASE UNCHANGED <<row, entries>>
  BY <1>3, <1>6
<1>7. QED
  BY <1>2, <1>4, <1>5, <1>6
     DEF Next, vars, ReadFeed, Fetch, StoreFails, previewItems, fetchOne,
         PreviewCanceled, Answered, FollowEnds, Unfollow, Save, Unsave, Publish,
         Restart

LEMMA BackoffKept ==
  ASSUME IInv, [Next]_vars
  PROVE  BackoffWithinCap'
<1>1. /\ now \in Nat /\ now' \in Nat /\ now <= now' /\ Cap \in Nat
      /\ row \in Row => row.next \in Nat
  <2>1. now \in Nat /\ now' \in Nat
    BY NextType, Bounds DEF IInv, TypeOK, Times
  <2>2. now' = now \/ now' = now + 1
    BY DEF Next, vars, ReadFeed, Fetch, Store, StoreFails, previewItems, fetchOne,
           PreviewCanceled, Answered, FollowBegins, FollowEnds, Unfollow, Save,
           Unsave, Publish, Tick, SweepUnfollowedFeeds, Restart
  <2>3. row \in Row => row.next \in Nat
    BY LadderFacts, Bounds DEF Row
  <2>4. QED
    BY <2>1, <2>2, <2>3, LadderFacts
<1>2. CASE \E c \in Fetches : Store(c)
  <2>1. PICK c \in Fetches : Store(c)
    BY <1>2
  <2>2. UNCHANGED now /\ row'.next <= now + Cap
    <3>1. UNCHANGED now
      BY <2>1 DEF Store
    <3>2. row'.next = 0 \/ row'.next <= now + Cap
      BY <2>1, StoreKeeps
    <3>3. QED
      BY <1>1, <3>1, <3>2
  <2>3. QED
    BY <2>2 DEF BackoffWithinCap
<1>3. ASSUME row' # None => row'.next = 0 \/ (row # None /\ row'.next = row.next)
      PROVE  BackoffWithinCap'
  BY <1>1, <1>3 DEF IInv, TypeOK, BackoffWithinCap
<1>4. CASE FollowBegins
  BY <1>3, <1>4, UpsertFields DEF FollowBegins, UpsertFeed, NewRow, IInv, TypeOK
<1>5. CASE Tick \/ SweepUnfollowedFeeds
  <2>1. \/ row' = None
        \/ \E t \in Times : row' = IF row = None THEN None ELSE Marked(row, t)
    BY <1>5, SweepStep DEF SweptAway
  <2>2. QED
    BY <1>3, <2>1, MarkedFields DEF IInv, TypeOK
<1>6. CASE UNCHANGED row
  BY <1>3, <1>6
<1>7. QED
  BY <1>2, <1>4, <1>5, <1>6
     DEF Next, vars, ReadFeed, Fetch, StoreFails, previewItems, fetchOne,
         PreviewCanceled, Answered, FollowEnds, Unfollow, Save, Unsave, Publish,
         Restart

LEMMA Inductive ==
  /\ Init => IInv
  /\ IInv /\ [Next]_vars => IInv'
<1>1. ASSUME Init
      PROVE  IInv
  <2>1. TypeOK
    BY <1>1, InitType
  <2>2. row = None /\ flight = None /\ Stored = {} /\ ~followed /\ following = 0
    BY <1>1 DEF Init, Stored
  <2>3. \A c \in Fetches : call[c].pc = "idle"
    BY <1>1 DEF Init, NoCall
  <2>4. QED
    BY <2>1, <2>2, <2>3
       DEF IInv, Vouching, FlightsAreLed, UsedFeedsAreFresh, Idle,
           UnfetchedIsEmpty, BackoffWithinCap
<1>2. ASSUME IInv, [Next]_vars
      PROVE  IInv'
  BY <1>2, NextType, VouchingKept, LedKept, FreshKept, UnfetchedKept, BackoffKept
     DEF IInv
<1>3. QED
  BY <1>1, <1>2

LEMMA Invariance == Spec => []IInv
  BY Inductive, PTL DEF Spec

-----------------------------------------------------------------------------
(* Theorems.                                                               *)

(* The catalog row, the calls of the pipeline and the flight keep their    *)
(* types; a row's backoff keeps the bounds of the ladder.                  *)
THEOREM TypeCorrect == Spec => []TypeOK
<1>1. IInv => TypeOK
  BY DEF IInv
<1>2. QED
  BY <1>1, Invariance, PTL

(* The validators of the feeds row vouch for stored posts only             *)
(* (FetchAndStore), whatever order answers are stored in.                  *)
THEOREM StoredIsVouchedFor == Spec => []ValidatorsVouch
<1>1. IInv => ValidatorsVouch
  BY DEF IInv, Vouching, Vouched, ValidatorsVouch
<1>2. QED
  BY <1>1, Invariance, PTL

(* A followed feed, and one whose follow is under way, is never swept      *)
(* (SweepUnfollowedFeeds).                                                 *)
THEOREM FollowedFeedsStay == Spec => []FollowedStays
<1>1. IInv => FollowedStays
  BY DEF IInv, UsedFeedsAreFresh, FollowedStays
<1>2. QED
  BY <1>1, Invariance, PTL

(* The health a source is listed with is true (withSourceHealth), whatever *)
(* a late failure overwrote.                                               *)
THEOREM ListedStatusIsTrue == Spec => []StatusIsTrue
<1>1. ASSUME IInv
      PROVE  StatusIsTrue
  <2>1. ASSUME followed
        PROVE  /\ withSourceHealth.status = "waiting" => Stored = {}
               /\ withSourceHealth.status = "ready" /\ row.etag # 0 =>
                    Listed(row.etag) \subseteq SubscriptionEntries \cup refused
               /\ withSourceHealth.status = "unavailable" =>
                    withSourceHealth.nextFetch <= now + Cap
    <3>1. row # None /\ row \in Row
      BY <1>1, <2>1 DEF IInv, UsedFeedsAreFresh, TypeOK
    <3>2. row.fetched \in BOOLEAN /\ (row.failures > 0 \/ row.failures = 0)
      BY <3>1, LadderFacts DEF Row
    <3>3. CASE row.failures > 0
      <4>1. withSourceHealth = [status |-> "unavailable", nextFetch |-> row.next]
        BY <3>1, <3>3 DEF withSourceHealth
      <4>2. QED
        BY <1>1, <3>1, <4>1 DEF IInv, BackoffWithinCap
    <3>4. CASE row.failures = 0 /\ row.fetched
      <4>1. withSourceHealth = [status |-> "ready"]
        BY <3>1, <3>4 DEF withSourceHealth
      <4>2. SubscriptionEntries = Stored
        BY <2>1, <3>1
           DEF SubscriptionEntries, GetUserSubscription, ListEntriesForSource
      <4>3. QED
        BY <1>1, <3>1, <4>1, <4>2 DEF IInv, Vouching, Vouched
    <3>5. CASE row.failures = 0 /\ ~row.fetched
      <4>1. withSourceHealth = [status |-> "waiting"]
        BY <3>1, <3>5 DEF withSourceHealth
      <4>2. QED
        BY <1>1, <3>5, <4>1 DEF IInv, UnfetchedIsEmpty
    <3>6. QED
      BY <3>2, <3>3, <3>4, <3>5
  <2>2. QED
    BY <2>1 DEF StatusIsTrue, ListUserSourcesWithStats, GetUserSourceWithStats
<1>2. QED
  BY <1>1, Invariance, PTL

(* Neither a fetch nor the sweep takes a post off a source page, nor its   *)
(* link from the library unless the publisher changes it                   *)
(* (UpsertFeedEntry, DeleteOrphanedFeeds).                                 *)
THEOREM PostsStayReadable == Spec => ReadablePostsStay
<1>1. ASSUME IInv, [Next]_vars
      PROVE  /\ \A p \in SubscriptionEntries : Entry(p)' \/ Unfollow
             /\ \A s \in Library :
                  (s \in Library)' \/ Unsave \/ Relinked(s.url)
  <2>1. followed /\ ~followed' => Unfollow
    BY <1>1 DEF Next, vars, ReadFeed, Fetch, Store, StoreFails, previewItems,
        fetchOne, PreviewCanceled, Answered, FollowBegins, FollowEnds, Save,
        Unsave, Publish, Tick, SweepUnfollowedFeeds, Restart
  <2>2. saved \subseteq saved' \/ Unsave
    BY <1>1 DEF Next, vars, ReadFeed, Fetch, Store, StoreFails, previewItems,
        fetchOne, PreviewCanceled, Answered, FollowBegins, FollowEnds, Save,
        Unfollow, Publish, Tick, SweepUnfollowedFeeds, Restart
  <2>3. ASSUME NEW p \in SubscriptionEntries, ~Unfollow
        PROVE  Entry(p)'
    <3>1. followed /\ row # None /\ p \in Stored
      BY <2>3 DEF SubscriptionEntries, GetUserSubscription, ListEntriesForSource
    <3>2. Kept
      BY <1>1, <3>1, StepKeeps DEF SweptAway
    <3>3. followed' /\ row' # None /\ p \in Stored'
      BY <2>1, <2>3, <3>1, <3>2 DEF Kept, IInv, TypeOK
    <3>4. QED
      BY <3>3 DEF Entry, loadAndAuthorize, GetFeedEntryBySlug, GetFeed
  <2>4. ASSUME NEW s \in Library, ~Unsave, ~Relinked(s.url)
        PROVE  (s \in Library)'
    <3>1. PICK p \in Stored : s \in saved /\ entries[p].url = s.url
      BY <2>4 DEF Library, ListUserSaves, Cached
    <3>2. Kept
      BY <1>1, <3>1, StepKeeps DEF SweptAway, IsSaved
    <3>3. s \in saved' /\ p \in Stored'
      BY <2>2, <2>4, <3>1, <3>2 DEF Kept
    <3>4. entries'[p].url = s.url
      BY <2>4, <3>1, <3>3 DEF Relinked, Stored
    <3>5. QED
      BY <3>3, <3>4 DEF Library, ListUserSaves, Cached
  <2>5. QED
    BY <2>3, <2>4
<1>2. QED
  BY <1>1, Invariance, PTL DEF Spec, ReadablePostsStay

(* No date a feed gives a post moves it to a later digest                  *)
(* (UpsertFeedEntry).                                                      *)
THEOREM PostsNeverResurface == Spec => NeverResurfaces
<1>1. ASSUME IInv, [Next]_vars, NEW d \in 1..MaxNow,
             NEW p \in ListDigestForUser(d), NEW e \in (d + 1)..MaxNow
      PROVE  p \notin ListDigestForUser(e)'
  <2>1. p \in Stored /\ entries[p].date = d /\ d # 0 /\ row # None
    BY <1>1, Bounds DEF ListDigestForUser, ListEntriesForSource
  <2>2. CASE SweptAway
    BY <2>2 DEF SweptAway, ListDigestForUser, ListEntriesForSource
  <2>3. CASE Kept
    <3>1. entries'[p].date <= d
      BY <2>1, <2>3 DEF Kept
    <3>2. ~(e <= d)
      BY Bounds
    <3>3. QED
      BY <3>1, <3>2 DEF ListDigestForUser
  <2>4. QED
    BY <1>1, <2>2, <2>3, StepKeeps
<1>2. IInv /\ [Next]_vars =>
        \A p \in ListEntriesForSource : \A d \in 1..MaxNow :
          p \in ListDigestForUser(d) =>
            \A e \in (d + 1)..MaxNow : p \notin ListDigestForUser(e)'
  BY <1>1
<1>3. QED
  BY <1>2, Invariance, PTL DEF Spec, NeverResurfaces

-----------------------------------------------------------------------------
(* RssMirror.                                                              *)

(* What a request is about is a feed, and its key was given out.           *)
Founded(r) ==
    /\ r.pc # "idle" => r.feed \in Feeds
    /\ r.rkey < nextRkey
    /\ r.pc \in {"snapshot", "head", "listing"} => r.op = "import"
    /\ r.pc = "mirroring" => r.rkey # 0
    /\ r.pc = "committing" /\ ~Creates(r) => r.rkey # 0

(* An import that found no record of its feed is right about that until a  *)
(* commit moves the head it has read.                                      *)
Waits(r) ==
    r.pc = "committing" /\ r.op = "import" /\ r.read = Absent /\ ~r.moved
RightlyNew(r) == Waits(r) => existing(r.feed) = {}

(* What was listed has a key that was given out; unless a record moved, it *)
(* is what the PDS holds at and above the cursor, and unless a row was     *)
(* mirrored the baseline is the index.                                     *)
PassKnown ==
    /\ \A k \in Rkeys : k >= nextRkey => pass.listed[k] = Absent
    /\ pass.pc = "baseline" => pass.cursor = MaxRkey + 1 /\ pass.listed = Empty
    /\ pass.pc = "listing" /\ ~pdsMoved =>
         \A k \in Rkeys :
           pass.listed[k] = IF k >= pass.cursor THEN pds[k] ELSE Absent
    /\ pass.pc = "applying" /\ ~pdsMoved => pass.listed = pds
    /\ pass.pc \in {"listing", "applying"} /\ mirrored = {}
         => pass.baseline = subs

RssInv ==
    /\ RssTypeOK
    /\ \A s \in Sessions : Founded(req[s]) /\ RightlyNew(req[s])
    /\ PassKnown

-----------------------------------------------------------------------------
(* Types of what the actions build.                                        *)

LEMMA RssBounds ==
  /\ MaxRkey \in Nat /\ MaxRequests \in Nat /\ MaxExternal \in Nat
  /\ MaxAttempts = 3
  /\ Rkeys = 1..MaxRkey /\ Rkeys \subseteq Nat /\ 0 \notin Rkeys
  BY RssAssumption DEF Rkeys, MaxAttempts

LEMMA NoRowIsAbsent == Absent \notin Record
  BY RssAssumption

LEMMA RssIdleTypes ==
  /\ IdleReq \in Request /\ IdlePass \in Pass /\ Empty \in Repo
  /\ IdleReq.pc = "idle" /\ IdleReq.rkey = 0
<1>1. IdleReq \in Request
  BY RssBounds DEF IdleReq, Request
<1>2. Empty \in Repo
  BY DEF Empty, Repo
<1>3. MaxRkey + 1 \in 1..(MaxRkey + 1)
  BY RssBounds
<1>4. IdlePass \in Pass
  BY <1>2, <1>3 DEF IdlePass, Pass, Index
<1>5. QED
  BY <1>1, <1>2, <1>4 DEF IdleReq

LEMMA DesiredType ==
  ASSUME NEW r \in Request, r.feed \in Feeds
  PROVE  Desired(r) \in Record
<1>1. r.tags \in SUBSET TagNames /\ r.read \in Record \cup {Absent}
  BY DEF Request
<1>2. ASSUME r.read \in Record
      PROVE  [r.read EXCEPT !.tags = @ \cup r.tags] \in Record
  BY <1>1, <1>2 DEF Record
<1>3. [feed |-> r.feed, tags |-> r.tags] \in Record
  BY <1>1 DEF Record
<1>4. QED
  BY <1>1, <1>2, <1>3 DEF Desired

LEMMA MirroringType ==
  ASSUME NEW r \in Request, r.feed \in Feeds, NEW k \in Rkeys
  PROVE  /\ Mirroring(r, k) \in Request
         /\ Mirroring(r, k).pc = "mirroring"
         /\ Mirroring(r, k).rkey = k
         /\ Mirroring(r, k).feed \in Feeds
<1>1. Desired(r).feed \in Feeds /\ Desired(r).tags \in SUBSET TagNames
  BY DesiredType DEF Record
<1>2. /\ r.op \in {"create", "patch", "delete", "import"}
      /\ r.local \in [rkey : Rkeys, row : Record] \cup {Absent}
  BY DEF Request
<1>3. PICK d : d = Desired(r)
  OBVIOUS
<1>4. Mirroring(r, k) =
        [IdleReq EXCEPT !.pc = "mirroring", !.op = r.op, !.rkey = k,
            !.feed = d.feed, !.tags = d.tags, !.local = r.local]
  BY <1>3 DEF Mirroring
<1>5. PICK l : l = r.local
  OBVIOUS
<1>6. PICK o : o = r.op
  OBVIOUS
<1>7. PICK n : n = [IdleReq EXCEPT !.pc = "mirroring", !.op = o, !.rkey = k,
                      !.feed = d.feed, !.tags = d.tags, !.local = l]
  OBVIOUS
<1>8. n \in Request /\ n.pc = "mirroring" /\ n.rkey = k /\ n.feed = d.feed
  BY <1>1, <1>2, <1>3, <1>5, <1>6, <1>7, RssIdleTypes DEF Request
<1>9. QED
  BY <1>1, <1>3, <1>4, <1>5, <1>6, <1>7, <1>8

LEMMA RowOfType ==
  ASSUME subs \in Index, NEW f
  PROVE  rowOf(f) \in [rkey : Rkeys, row : Record] \cup {Absent}
<1>1. CASE \E k \in Rows(subs) : subs[k].feed = f
  <2> DEFINE k == CHOOSE k \in Rows(subs) : subs[k].feed = f
  <2>1. k \in Rows(subs)
    BY <1>1
  <2>2. k \in Rkeys /\ subs[k] \in Record
    BY <2>1 DEF Rows, Index, Repo
  <2>3. rowOf(f) = [rkey |-> k, row |-> subs[k]]
    BY <1>1 DEF rowOf
  <2>4. QED
    BY <2>2, <2>3
<1>2. CASE ~\E k \in Rows(subs) : subs[k].feed = f
  BY <1>2 DEF rowOf
<1>3. QED
  BY <1>1, <1>2

(* A commit tells the imports that had found nothing, and changes nothing  *)
(* else of any request.                                                    *)
LEMMA HeadMovesOnly ==
  ASSUME NEW reqs \in [Sessions -> Request]
  PROVE  /\ HeadMoves(reqs) \in [Sessions -> Request]
         /\ \A s \in Sessions :
              /\ HeadMoves(reqs)[s].pc = reqs[s].pc
              /\ HeadMoves(reqs)[s].op = reqs[s].op
              /\ HeadMoves(reqs)[s].rkey = reqs[s].rkey
              /\ HeadMoves(reqs)[s].feed = reqs[s].feed
              /\ HeadMoves(reqs)[s].read = reqs[s].read
              /\ ~Waits(HeadMoves(reqs)[s])
<1>1. ASSUME NEW s \in Sessions
      PROVE  /\ HeadMoves(reqs)[s] \in Request
             /\ HeadMoves(reqs)[s].pc = reqs[s].pc
             /\ HeadMoves(reqs)[s].op = reqs[s].op
             /\ HeadMoves(reqs)[s].rkey = reqs[s].rkey
             /\ HeadMoves(reqs)[s].feed = reqs[s].feed
             /\ HeadMoves(reqs)[s].read = reqs[s].read
             /\ ~Waits(HeadMoves(reqs)[s])
  <2>1. PICK r \in Request : r = reqs[s]
    OBVIOUS
  <2>2. HeadMoves(reqs)[s] =
          IF r.op = "import" /\ r.read = Absent
             /\ r.pc \in {"listing", "committing"}
          THEN [r EXCEPT !.moved = TRUE] ELSE r
    BY <2>1 DEF HeadMoves
  <2>3. [r EXCEPT !.moved = TRUE] \in Request
    BY DEF Request
  <2>4. QED
    BY <2>1, <2>2, <2>3 DEF Waits, Request
<1>2. HeadMoves(reqs) \in [Sessions -> Request]
  BY <1>1 DEF HeadMoves
<1>3. QED
  BY <1>1, <1>2

-----------------------------------------------------------------------------
(* What a session's handler goes on to.                                    *)

GoesOn(s, r) ==
    /\ req' = [req EXCEPT ![s] = r]
    /\ UNCHANGED <<pds, nextRkey>>
Sound(r) == r \in Request /\ Founded(r) /\ RightlyNew(r)

LEMMA RssInitHolds == RssInit => RssInv
<1> SUFFICES ASSUME RssInit PROVE RssInv
  OBVIOUS
<1> USE DEF RssInit
<1>1. RssTypeOK
  <2>1. UniqueFeeds(subs)
    BY DEF UniqueFeeds, Rows, Empty
  <2>2. \A k \in Rkeys : pds[k] = Absent /\ subs[k] = Absent
    BY DEF Empty
  <2>3. req \in [Sessions -> Request] /\ pass \in Pass
    BY RssIdleTypes
  <2>4. nextRkey \in 1..(MaxRkey + 1) /\ begun \in 0..MaxRequests
        /\ external \in 0..MaxExternal
    BY RssBounds
  <2>5. QED
    BY <2>1, <2>2, <2>3, <2>4, RssIdleTypes DEF RssTypeOK, Index
<1>2. \A s \in Sessions : Founded(req[s]) /\ RightlyNew(req[s])
  BY RssIdleTypes DEF Founded, RightlyNew, Waits, IdleReq
<1>3. PassKnown
  BY DEF PassKnown, IdlePass, Empty
<1>4. QED
  BY <1>1, <1>2, <1>3 DEF RssInv

LEMMA BeginsSoundly ==
  ASSUME RssInv, NEW s \in Sessions,
         CreateProbe(s) \/ PatchLoad(s) \/ DeleteLoad(s) \/ ImportBegins(s)
  PROVE  \E r : Sound(r) /\ GoesOn(s, r)
<1>1. /\ nextRkey \in 1..(MaxRkey + 1) /\ subs \in Index
      /\ \A k \in Rows(subs) : k < nextRkey /\ k \in Rkeys
                               /\ subs[k].feed \in Feeds
  BY RssBounds DEF RssInv, RssTypeOK, Rows, Index, Repo, Record
<1>2. NewTags \subseteq SUBSET TagNames
  BY RssAssumption
<1> USE DEF GoesOn, Begin
<1>3. CASE CreateProbe(s)
  <2>1. PICK f \in Feeds, t \in NewTags :
          Begin(s, [IdleReq EXCEPT !.pc = "committing", !.op = "create",
                       !.feed = f, !.tags = t])
    BY <1>3 DEF CreateProbe
  <2>2. PICK r : r = [IdleReq EXCEPT !.pc = "committing", !.op = "create",
                         !.feed = f, !.tags = t]
    OBVIOUS
  <2>3. Sound(r)
    <3>1. r \in Request
      BY <1>1, <1>2, <2>2, RssIdleTypes DEF Request
    <3>2. /\ r.pc = "committing" /\ r.op = "create"
          /\ r.feed = f /\ r.rkey = 0
      BY <2>2, RssIdleTypes DEF Request
    <3>3. QED
      BY <1>1, <1>2, <3>1, <3>2, RssBounds
      DEF Sound, Founded, RightlyNew, Waits, Creates
  <2>4. QED
    BY <2>1, <2>2, <2>3
<1>4. CASE PatchLoad(s)
  <2>1. PICK k \in Rows(subs), f \in Feeds, t \in SUBSET TagNames :
          Begin(s, [IdleReq EXCEPT !.pc = "committing", !.op = "patch",
                       !.rkey = k, !.feed = f, !.tags = t])
    BY <1>4 DEF PatchLoad
  <2>2. PICK r : r = [IdleReq EXCEPT !.pc = "committing", !.op = "patch",
                         !.rkey = k, !.feed = f, !.tags = t]
    OBVIOUS
  <2>3. Sound(r)
    <3>1. r \in Request
      BY <1>1, <2>2, RssIdleTypes DEF Request
    <3>2. /\ r.pc = "committing" /\ r.op = "patch"
          /\ r.feed = f /\ r.rkey = k
      BY <2>2, RssIdleTypes DEF Request
    <3>3. QED
      BY <1>1, <3>1, <3>2, RssBounds
      DEF Sound, Founded, RightlyNew, Waits, Creates
  <2>4. QED
    BY <2>1, <2>2, <2>3
<1>5. CASE DeleteLoad(s)
  <2>1. PICK k \in Rows(subs) :
          Begin(s, [IdleReq EXCEPT !.pc = "committing", !.op = "delete",
                       !.rkey = k, !.feed = subs[k].feed])
    BY <1>5 DEF DeleteLoad
  <2>2. PICK f \in Feeds : f = subs[k].feed
    BY <1>1
  <2>3. PICK r : r = [IdleReq EXCEPT !.pc = "committing", !.op = "delete",
                         !.rkey = k, !.feed = f]
    OBVIOUS
  <2>4. Sound(r)
    <3>1. r \in Request
      BY <1>1, <2>3, RssIdleTypes DEF Request
    <3>2. /\ r.pc = "committing" /\ r.op = "delete"
          /\ r.feed = f /\ r.rkey = k
      BY <2>3, RssIdleTypes DEF Request
    <3>3. QED
      BY <1>1, <3>1, <3>2, RssBounds
      DEF Sound, Founded, RightlyNew, Waits, Creates
  <2>5. QED
    BY <2>1, <2>2, <2>3, <2>4
<1>6. CASE ImportBegins(s)
  <2>1. PICK f \in Feeds, t \in NewTags :
          Begin(s, [IdleReq EXCEPT !.pc = "snapshot", !.op = "import",
                       !.feed = f, !.tags = t])
    BY <1>6 DEF ImportBegins
  <2>2. PICK r : r = [IdleReq EXCEPT !.pc = "snapshot", !.op = "import",
                         !.feed = f, !.tags = t]
    OBVIOUS
  <2>3. Sound(r)
    <3>1. r \in Request
      BY <1>1, <1>2, <2>2, RssIdleTypes DEF Request
    <3>2. /\ r.pc = "snapshot" /\ r.op = "import"
          /\ r.feed = f /\ r.rkey = 0
      BY <2>2, RssIdleTypes DEF Request
    <3>3. QED
      BY <1>1, <1>2, <3>1, <3>2, RssBounds
      DEF Sound, Founded, RightlyNew, Waits, Creates
  <2>4. QED
    BY <2>1, <2>2, <2>3
<1>7. QED
  BY <1>3, <1>4, <1>5, <1>6

LEMMA ListsSoundly ==
  ASSUME RssInv, NEW s \in Sessions, ImportList(s)
  PROVE  \E r : Sound(r) /\ GoesOn(s, r)
<1>1. PICK r \in Request : r = req[s] /\ r.pc = "listing" /\ Founded(r)
  BY DEF RssInv, RssTypeOK, ImportList
<1>2. r.feed \in Feeds /\ nextRkey \in 1..(MaxRkey + 1)
  BY <1>1 DEF Founded, RssInv, RssTypeOK
<1>3. CASE existing(r.feed) = {}
               /\ Continue(s, [r EXCEPT !.pc = "committing", !.rkey = 0,
                                        !.read = Absent])
  <2>1. PICK m : m = [r EXCEPT !.pc = "committing", !.rkey = 0, !.read = Absent]
    OBVIOUS
  <2>2. /\ m.feed = r.feed /\ m.rkey = 0 /\ m.pc = "committing"
        /\ m.op = r.op /\ m.read = Absent /\ m \in Request
    BY <2>1 DEF Request
  <2>3. r.op = "import"
    BY <1>1 DEF Founded
  <2>4. Sound(m)
    BY <1>2, <1>3, <2>2, <2>3, RssBounds DEF Sound, Founded, RightlyNew, Creates
  <2>5. QED
    BY <1>3, <2>1, <2>4 DEF GoesOn, Continue
<1>4. CASE \E k \in existing(r.feed) :
             IF pds[k].feed # r.feed /\ ~r.rekeyed
             THEN Continue(s, [r EXCEPT !.pc = "snapshot",
                          !.feed = pds[k].feed, !.rekeyed = TRUE,
                          !.local = Absent, !.moved = FALSE])
             ELSE LET m == [r EXCEPT !.pc = "committing", !.rkey = k,
                              !.read = pds[k], !.moved = FALSE]
                  IN  Continue(s, IF r.tags \subseteq pds[k].tags
                                  THEN Mirroring(m, k) ELSE m)
  <2>1. PICK k \in existing(r.feed) :
             IF pds[k].feed # r.feed /\ ~r.rekeyed
             THEN Continue(s, [r EXCEPT !.pc = "snapshot",
                          !.feed = pds[k].feed, !.rekeyed = TRUE,
                          !.local = Absent, !.moved = FALSE])
             ELSE LET m == [r EXCEPT !.pc = "committing", !.rkey = k,
                              !.read = pds[k], !.moved = FALSE]
                  IN  Continue(s, IF r.tags \subseteq pds[k].tags
                                  THEN Mirroring(m, k) ELSE m)
    BY <1>4
  <2>2. /\ k \in Rkeys /\ k < nextRkey /\ pds[k] \in Record
        /\ pds[k].feed \in Feeds
    BY RssBounds DEF existing, Rows, RssInv, RssTypeOK, Repo, Record
  <2>3. PICK d \in Record : d = pds[k]
    BY <2>2
  <2>4. CASE d.feed # r.feed /\ ~r.rekeyed
    <3>1. PICK m : m = [r EXCEPT !.pc = "snapshot", !.feed = d.feed,
                          !.rekeyed = TRUE, !.local = Absent, !.moved = FALSE]
      OBVIOUS
    <3>2. /\ m \in Request /\ m.feed \in Feeds /\ m.rkey = r.rkey
          /\ m.pc = "snapshot" /\ m.op = r.op
      BY <2>2, <2>3, <3>1 DEF Request
    <3>3. Sound(m)
      BY <1>1, <3>2 DEF Sound, Founded, RightlyNew, Waits
    <3>4. QED
      BY <2>1, <2>3, <2>4, <3>1, <3>3 DEF GoesOn, Continue
  <2>5. CASE ~(d.feed # r.feed /\ ~r.rekeyed)
    <3>1. PICK m : m = [r EXCEPT !.pc = "committing", !.rkey = k,
                          !.read = d, !.moved = FALSE]
      OBVIOUS
    <3>2. /\ m \in Request /\ m.feed = r.feed /\ m.rkey = k
          /\ m.pc = "committing" /\ m.read = d
      BY <2>2, <2>3, <3>1 DEF Request
    <3>3. k # 0 /\ d # Absent
      BY <2>2, RssBounds, NoRowIsAbsent
    <3>4. Sound(m)
      BY <1>2, <2>2, <3>2, <3>3 DEF Sound, Founded, RightlyNew, Waits
    <3>5. PICK n : n = Mirroring(m, k)
      OBVIOUS
    <3>6. n \in Request /\ n.pc = "mirroring" /\ n.rkey = k /\ n.feed \in Feeds
      BY <1>2, <2>2, <3>2, <3>5, MirroringType
    <3>7. Sound(n)
      BY <2>2, <3>3, <3>6 DEF Sound, Founded, RightlyNew, Waits
    <3>8. req' = [req EXCEPT ![s] = n] \/ req' = [req EXCEPT ![s] = m]
      BY <2>1, <2>3, <2>5, <3>1, <3>5 DEF Continue
    <3>9. UNCHANGED <<pds, nextRkey>>
      BY <2>1, <2>3, <2>5 DEF Continue
    <3>10. QED
      BY <3>4, <3>7, <3>8, <3>9 DEF GoesOn
  <2>6. QED
    BY <2>3, <2>4, <2>5
<1>5. QED
  BY <1>1, <1>3, <1>4 DEF ImportList

LEMMA HandlesSoundly ==
  ASSUME RssInv, NEW s \in Sessions, Handle(s), ~Commit(s)
  PROVE  \E r : Sound(r) /\ GoesOn(s, r)
<1>1. PICK r \in Request : r = req[s] /\ Founded(r) /\ RightlyNew(r)
  BY DEF RssInv, RssTypeOK
<1>2. nextRkey \in 1..(MaxRkey + 1) /\ subs \in Index
  BY DEF RssInv, RssTypeOK
<1>3. Sound(IdleReq)
  BY <1>2, RssIdleTypes, RssBounds DEF Sound, Founded, RightlyNew, Waits
<1>4. CASE ImportSnapshot(s)
  <2>1. PICK w : w = rowOf(r.feed)
    OBVIOUS
  <2>2. w \in [rkey : Rkeys, row : Record] \cup {Absent}
    BY <1>2, <2>1, RowOfType
  <2>3. PICK m : m = [r EXCEPT !.pc = "head", !.local = w]
    OBVIOUS
  <2>4. /\ m \in Request /\ m.pc = "head" /\ m.op = r.op
        /\ m.rkey = r.rkey /\ m.feed = r.feed
    BY <2>2, <2>3 DEF Request
  <2>5. Sound(m)
    BY <1>1, <1>4, <2>4
    DEF Sound, Founded, RightlyNew, Waits, ImportSnapshot
  <2>6. QED
    BY <1>1, <1>4, <2>1, <2>3, <2>5 DEF ImportSnapshot, GoesOn, Continue
<1>5. CASE ReadHead(s)
  <2>1. PICK m : m = [r EXCEPT !.pc = "listing", !.moved = FALSE]
    OBVIOUS
  <2>2. /\ m \in Request /\ m.pc = "listing" /\ m.op = r.op
        /\ m.rkey = r.rkey /\ m.feed = r.feed
    BY <2>1 DEF Request
  <2>3. Sound(m)
    BY <1>1, <1>5, <2>2 DEF Sound, Founded, RightlyNew, Waits, ReadHead
  <2>4. QED
    BY <1>1, <1>5, <2>1, <2>3 DEF ReadHead, GoesOn, Continue
<1>6. CASE SwapRefused(s)
  <2>1. PICK m : m = [r EXCEPT !.pc = "snapshot", !.read = Absent,
                        !.rkey = 0, !.local = Absent,
                        !.moved = FALSE, !.attempt = @ + 1]
    OBVIOUS
  <2>2. ASSUME r.attempt < MaxAttempts
        PROVE  Sound(m)
    <3>1. r.attempt + 1 \in 1..MaxAttempts
      BY <2>2, RssBounds DEF Request
    <3>2. /\ m \in Request /\ m.pc = "snapshot" /\ m.op = r.op
          /\ m.rkey = 0 /\ m.feed = r.feed
      BY <2>1, <3>1 DEF Request
    <3>3. r.op = "import"
      BY <1>1, <1>6 DEF SwapRefused, SwapHolds
    <3>4. QED
      BY <1>1, <1>2, <1>6, <3>2, <3>3, RssBounds
      DEF Sound, Founded, RightlyNew, Waits, SwapRefused
  <2>3. \/ r.attempt < MaxAttempts /\ Continue(s, m)
        \/ Continue(s, IdleReq)
    BY <1>1, <1>6, <2>1 DEF SwapRefused
  <2>4. QED
    BY <1>3, <2>2, <2>3 DEF GoesOn, Continue
<1>7. CASE RequestFails(s)
  BY <1>3, <1>7 DEF RequestFails, GoesOn, Continue
<1>8. CASE Mirror(s)
  BY <1>3, <1>8 DEF Mirror, GoesOn
<1>9. QED
  BY <1>4, <1>5, <1>6, <1>7, <1>8, BeginsSoundly, ListsSoundly DEF Handle

-----------------------------------------------------------------------------
(* Commits.                                                                *)

(* What a commit writes and what its request goes on to.                   *)
LEMMA CommitWrites ==
  ASSUME RssInv, NEW s \in Sessions, Commit(s)
  PROVE  \E k \in Rkeys, d \in Record \cup {Absent}, m \in Request :
           /\ pds' = [pds EXCEPT ![k] = d]
           /\ nextRkey' \in 1..(MaxRkey + 1) /\ nextRkey <= nextRkey'
           /\ k < nextRkey'
           /\ Founded(m)'
           /\ req' = HeadMoves([req EXCEPT ![s] = m])
<1>1. PICK r \in Request : r = req[s] /\ Founded(r) /\ r.pc = "committing"
  BY DEF RssInv, RssTypeOK, Commit
<1>2. nextRkey \in 1..(MaxRkey + 1) /\ r.feed \in Feeds
  BY <1>1 DEF RssInv, RssTypeOK, Founded
<1>3. PICK k : k = IF Creates(r) THEN nextRkey ELSE r.rkey
  OBVIOUS
<1>4. /\ k \in Rkeys
      /\ nextRkey' = IF Creates(r) THEN nextRkey + 1 ELSE nextRkey
      /\ nextRkey' \in 1..(MaxRkey + 1) /\ nextRkey <= nextRkey'
      /\ k < nextRkey'
  <2>1. Creates(r) => nextRkey <= MaxRkey
    BY <1>1 DEF Commit
  <2>2. nextRkey' = IF Creates(r) THEN nextRkey + 1 ELSE nextRkey
    BY <1>1 DEF Commit
  <2>3. ~Creates(r) => r.rkey \in Rkeys /\ r.rkey < nextRkey
    BY <1>1 DEF Founded, Request
  <2>4. QED
    BY <1>2, <1>3, <2>1, <2>2, <2>3, RssBounds
<1>5. PICK d : d = IF r.op = "delete" THEN Absent ELSE Desired(r)
  OBVIOUS
<1>6. d \in Record \cup {Absent}
  BY <1>2, <1>5, DesiredType
<1>7. pds' = [pds EXCEPT ![k] = d]
  BY <1>1, <1>3, <1>5 DEF Commit
<1>8. PICK n : n = Mirroring(r, k)
  OBVIOUS
<1>9. n \in Request /\ n.pc = "mirroring" /\ n.rkey = k /\ n.feed \in Feeds
  BY <1>2, <1>4, <1>8, MirroringType
<1>10. Founded(n)'
  BY <1>4, <1>9, RssBounds DEF Founded
<1>11. IdleReq \in Request /\ Founded(IdleReq)'
  BY <1>4, RssIdleTypes, RssBounds DEF Founded
<1>12. \/ req' = HeadMoves([req EXCEPT ![s] = n])
       \/ req' = HeadMoves([req EXCEPT ![s] = IdleReq])
  BY <1>1, <1>3, <1>8 DEF Commit
<1>13. QED
  BY <1>4, <1>6, <1>7, <1>9, <1>10, <1>11, <1>12

LEMMA OtherClientWrites ==
  ASSUME RssInv, OtherClient
  PROVE  /\ pds' \in Repo
         /\ nextRkey' \in 1..(MaxRkey + 1) /\ nextRkey <= nextRkey'
         /\ \A k \in Rkeys : k >= nextRkey' => pds'[k] = Absent
         /\ req' = HeadMoves(req)
<1>1. /\ pds \in Repo /\ nextRkey \in 1..(MaxRkey + 1)
      /\ \A k \in Rkeys : k >= nextRkey => pds[k] = Absent
  BY DEF RssInv, RssTypeOK
<1>2. CASE \E d \in Record : /\ nextRkey <= MaxRkey
                             /\ pds' = [pds EXCEPT ![nextRkey] = d]
                             /\ nextRkey' = nextRkey + 1
  BY <1>1, <1>2, RssBounds DEF OtherClient, Repo
<1>3. CASE \E new \in [Rows(pds) -> Record \cup {Absent}] :
             /\ pds' = [k \in Rkeys |-> IF k \in Rows(pds) THEN new[k] ELSE Absent]
             /\ UNCHANGED nextRkey
  <2>1. PICK new \in [Rows(pds) -> Record \cup {Absent}] :
          /\ pds' = [k \in Rkeys |-> IF k \in Rows(pds) THEN new[k] ELSE Absent]
          /\ UNCHANGED nextRkey
    BY <1>3
  <2>2. pds' \in Repo
    BY <2>1 DEF Repo
  <2>3. \A k \in Rkeys : k >= nextRkey' => pds'[k] = Absent
    BY <1>1, <2>1 DEF Rows
  <2>4. QED
    BY <1>1, <2>1, <2>2, <2>3, RssBounds DEF OtherClient
<1>4. QED
  BY <1>2, <1>3 DEF OtherClient

-----------------------------------------------------------------------------
(* Each part of RssInv is kept by every step.                              *)

LEMMA RequestsStayKnown ==
  ASSUME RssInv, [RssNext]_rssVars
  PROVE  /\ req' \in [Sessions -> Request]
         /\ \A s \in Sessions : Founded(req[s])' /\ RightlyNew(req[s])'
<1>1. /\ req \in [Sessions -> Request] /\ nextRkey \in 1..(MaxRkey + 1)
      /\ \A s \in Sessions : Founded(req[s]) /\ RightlyNew(req[s])
  BY DEF RssInv, RssTypeOK
<1>2. CASE UNCHANGED <<req, pds, nextRkey>>
  BY <1>1, <1>2 DEF Founded, RightlyNew, existing, Rows
<1>3. ASSUME NEW s \in Sessions, Handle(s), ~Commit(s)
      PROVE  /\ req' \in [Sessions -> Request]
             /\ \A t \in Sessions : Founded(req[t])' /\ RightlyNew(req[t])'
  <2>1. PICK r : Sound(r) /\ GoesOn(s, r)
    BY <1>3, HandlesSoundly
  <2>2. req' = [req EXCEPT ![s] = r] /\ UNCHANGED <<pds, nextRkey>>
    BY <2>1 DEF GoesOn
  <2>3. ASSUME NEW t \in Sessions
        PROVE  /\ req'[t] \in Request
               /\ Founded(req[t])' /\ RightlyNew(req[t])'
    <3>1. PICK m : m = req'[t]
      OBVIOUS
    <3>2. Sound(m)
      BY <1>1, <2>1, <2>2, <3>1 DEF Sound
    <3>3. QED
      BY <2>2, <3>1, <3>2
      DEF Sound, Founded, RightlyNew, Waits, Creates, existing, Rows
  <2>4. QED
    BY <1>1, <2>2, <2>3
<1>4. ASSUME NEW reqs \in [Sessions -> Request],
             \A t \in Sessions : Founded(reqs[t]) \/ Founded(reqs[t])',
             nextRkey' \in Nat, nextRkey <= nextRkey',
             req' = HeadMoves(reqs)
      PROVE  /\ req' \in [Sessions -> Request]
             /\ \A t \in Sessions : Founded(req[t])' /\ RightlyNew(req[t])'
  <2>1. /\ req' \in [Sessions -> Request]
        /\ \A t \in Sessions :
             /\ req'[t].pc = reqs[t].pc /\ req'[t].op = reqs[t].op
             /\ req'[t].rkey = reqs[t].rkey /\ req'[t].feed = reqs[t].feed
             /\ req'[t].read = reqs[t].read /\ ~Waits(req'[t])
    BY <1>4, HeadMovesOnly
  <2>2. ASSUME NEW t \in Sessions
        PROVE  Founded(req[t])' /\ RightlyNew(req[t])'
    <3>1. PICK r \in Request : r = reqs[t]
      BY <1>4
    <3>2. Founded(r) \/ Founded(r)'
      BY <1>4, <3>1
    <3>3. Founded(r)'
      <4>1. r.rkey \in Nat
        BY RssBounds DEF Request
      <4>2. QED
        BY <1>1, <1>4, <3>2, <4>1, RssBounds DEF Founded, Creates
    <3>4. Founded(req[t])'
      BY <2>1, <3>1, <3>3 DEF Founded, Creates
    <3>5. RightlyNew(req[t])'
      BY <2>1 DEF RightlyNew, Waits
    <3>6. QED
      BY <3>4, <3>5
  <2>3. QED
    BY <2>1, <2>2
<1>5. ASSUME NEW s \in Sessions, Commit(s)
      PROVE  /\ req' \in [Sessions -> Request]
             /\ \A t \in Sessions : Founded(req[t])' /\ RightlyNew(req[t])'
  <2>1. PICK m \in Request :
          /\ nextRkey' \in 1..(MaxRkey + 1) /\ nextRkey <= nextRkey'
          /\ Founded(m)'
          /\ req' = HeadMoves([req EXCEPT ![s] = m])
    BY <1>5, CommitWrites
  <2>2. PICK reqs : reqs = [req EXCEPT ![s] = m]
    OBVIOUS
  <2>3. reqs \in [Sessions -> Request]
    BY <1>1, <2>2
  <2>4. \A t \in Sessions : reqs[t] = m \/ reqs[t] = req[t]
    BY <1>1, <2>2
  <2>5. \A t \in Sessions : Founded(reqs[t]) \/ Founded(reqs[t])'
    BY <1>1, <2>1, <2>4 DEF Founded, Creates
  <2>6. nextRkey' \in Nat
    BY <2>1, RssBounds
  <2>7. QED
    BY <1>4, <2>1, <2>2, <2>3, <2>5, <2>6
<1>6. CASE OtherClient \/ OtherCollection
  <2>1. /\ req' = HeadMoves(req)
        /\ nextRkey' \in 1..(MaxRkey + 1) /\ nextRkey <= nextRkey'
    BY <1>1, <1>6, OtherClientWrites, RssBounds DEF OtherCollection
  <2>2. PICK reqs : reqs = req
    OBVIOUS
  <2>3. \A t \in Sessions : Founded(reqs[t])
    BY <1>1, <2>2 DEF Founded, Creates
  <2>4. nextRkey' \in Nat
    BY <2>1, RssBounds
  <2>5. reqs \in [Sessions -> Request]
    BY <1>1, <2>2
  <2>6. QED
    BY <1>4, <2>1, <2>2, <2>3, <2>4, <2>5
<1>7. CASE Crash
  <2>1. req' = [s \in Sessions |-> IdleReq] /\ UNCHANGED <<pds, nextRkey>>
    BY <1>7 DEF Crash
  <2>2. Founded(IdleReq)' /\ ~Waits(IdleReq)
    BY <1>1, <2>1, RssIdleTypes, RssBounds DEF Founded, Waits
  <2>3. QED
    BY <2>1, <2>2, RssIdleTypes DEF Founded, Creates, RightlyNew, Waits
<1>8. CASE PassBegins \/ ReadBaseline \/ ListPage \/ PassFails \/ Apply \/ Trigger
  BY <1>2, <1>8 DEF PassBegins, ReadBaseline, ListPage, PassFails, Apply, Trigger
<1>9. CASE UNCHANGED rssVars
  BY <1>2, <1>9 DEF rssVars
<1>10. QED
  BY <1>3, <1>5, <1>6, <1>7, <1>8, <1>9 DEF RssNext

LEMMA StoreStaysTyped ==
  ASSUME RssInv, [RssNext]_rssVars
  PROVE  /\ pds' \in Repo
         /\ nextRkey' \in 1..(MaxRkey + 1) /\ nextRkey <= nextRkey'
         /\ \A k \in Rkeys : k >= nextRkey' => pds'[k] = Absent
<1>1. /\ pds \in Repo /\ nextRkey \in 1..(MaxRkey + 1)
      /\ \A k \in Rkeys : k >= nextRkey => pds[k] = Absent
  BY DEF RssInv, RssTypeOK
<1>2. CASE UNCHANGED <<pds, nextRkey>>
  BY <1>1, <1>2, RssBounds
<1>3. ASSUME NEW s \in Sessions, Commit(s)
      PROVE  /\ pds' \in Repo
             /\ nextRkey' \in 1..(MaxRkey + 1) /\ nextRkey <= nextRkey'
             /\ \A k \in Rkeys : k >= nextRkey' => pds'[k] = Absent
  <2>1. PICK k \in Rkeys, d \in Record \cup {Absent} :
          /\ pds' = [pds EXCEPT ![k] = d]
          /\ nextRkey' \in 1..(MaxRkey + 1) /\ nextRkey <= nextRkey'
          /\ k < nextRkey'
    BY <1>3, CommitWrites
  <2>2. pds' \in Repo
    BY <1>1, <2>1 DEF Repo
  <2>3. \A j \in Rkeys : j >= nextRkey' => pds'[j] = Absent
    BY <1>1, <2>1, RssBounds DEF Repo
  <2>4. QED
    BY <2>1, <2>2, <2>3
<1>4. ASSUME NEW s \in Sessions, Handle(s), ~Commit(s)
      PROVE  UNCHANGED <<pds, nextRkey>>
  BY <1>4, HandlesSoundly DEF GoesOn
<1>5. QED
  BY <1>2, <1>3, <1>4, OtherClientWrites
  DEF RssNext, rssVars, PassBegins, ReadBaseline, ListPage, PassFails, Apply,
      Trigger, Crash, OtherCollection

(* Of two rows after the transaction, both canonical means the same key,   *)
(* and one that is written is checked against one that is not.             *)
LEMMA ApplyKeepsFeedsUnique ==
  ASSUME RssInv, Apply
  PROVE  /\ subs' \in Index /\ UniqueFeeds(subs')
         /\ \A k \in Rkeys : k >= nextRkey' => subs'[k] = Absent
<1>1. /\ subs \in Repo /\ UniqueFeeds(subs) /\ pass.listed \in Repo
      /\ \A k \in Rkeys : k >= nextRkey =>
           subs[k] = Absent /\ pass.listed[k] = Absent
  BY DEF RssInv, RssTypeOK, PassKnown, Pass, Index
<1>2. /\ subs' = [k \in Rkeys |-> IF k \in upserted THEN pass.listed[k] ELSE kept[k]]
      /\ nextRkey' = nextRkey
  BY DEF Apply
<1>3. kept \in Repo /\ \A k \in Rkeys : kept[k] # Absent => kept[k] = subs[k]
  BY <1>1 DEF kept, Repo
<1>4. \A k \in upserted : /\ k \in Rkeys /\ pass.listed[k] # Absent
                          /\ k \in canonicalByKey(pass.listed)
  BY DEF upserted, Keep, canonicalByKey, Rows
<1>5. subs' \in Index /\ \A k \in Rkeys : k >= nextRkey' => subs'[k] = Absent
  BY <1>1, <1>2, <1>3, <1>4 DEF Index, Repo
<1>6. ASSUME NEW j \in Rkeys, NEW k \in Rkeys, j # k,
             subs'[j] # Absent, subs'[k] # Absent
      PROVE  subs'[j].feed # subs'[k].feed
  <2>1. ASSUME NEW x \in Rkeys, NEW y \in Rkeys, x # y,
               x \in upserted, y \notin upserted, kept[y] # Absent
        PROVE  kept[y].feed # pass.listed[x].feed
    <3>1. PICK rank \in Orders : Admits(rank)
      BY DEF Apply
    <3>2. y \in Rows(kept) \ {x}
      BY <2>1 DEF Rows
    <3>3. QED
      BY <2>1, <3>1, <3>2 DEF Admits
  <2>2. CASE j \in upserted /\ k \in upserted
    <3>1. pass.listed[j].feed # pass.listed[k].feed
      BY <1>4, <1>6, <2>2, RssBounds DEF canonicalByKey, Rows
    <3>2. QED
      BY <1>2, <2>2, <3>1
  <2>3. CASE j \in upserted /\ k \notin upserted
    BY <1>2, <1>6, <2>1, <2>3
  <2>4. CASE j \notin upserted /\ k \in upserted
    BY <1>2, <1>6, <2>1, <2>4
  <2>5. CASE j \notin upserted /\ k \notin upserted
    <3>1. subs'[j] = subs[j] /\ subs'[k] = subs[k]
      BY <1>2, <1>3, <1>6, <2>5
    <3>2. QED
      BY <1>1, <1>6, <3>1 DEF UniqueFeeds, Rows
  <2>6. QED
    BY <2>2, <2>3, <2>4, <2>5
<1>7. QED
  BY <1>5, <1>6 DEF UniqueFeeds, Rows

LEMMA MirrorKeepsFeedsUnique ==
  ASSUME RssInv, NEW s \in Sessions, Mirror(s)
  PROVE  /\ subs' \in Index /\ UniqueFeeds(subs')
         /\ \A k \in Rkeys : k >= nextRkey' => subs'[k] = Absent
<1>1. /\ subs \in Repo /\ UniqueFeeds(subs)
      /\ nextRkey \in 1..(MaxRkey + 1) /\ nextRkey' = nextRkey
      /\ \A k \in Rkeys : k >= nextRkey => subs[k] = Absent
  BY DEF RssInv, RssTypeOK, Index, Mirror
<1>2. PICK r \in Request : r = req[s] /\ Founded(r) /\ r.pc = "mirroring"
  BY DEF RssInv, RssTypeOK, Mirror
<1>3. PICK k \in Rkeys : k = r.rkey /\ k < nextRkey
  BY <1>2 DEF Founded, Request
<1>4. PICK d \in Record : d = [feed |-> r.feed, tags |-> r.tags]
  BY <1>2 DEF Founded, Request, Record
<1>5. CASE UNCHANGED subs
  BY <1>1, <1>5 DEF Index, UniqueFeeds, Rows
<1>6. CASE subs' = [subs EXCEPT ![k] = Absent]
  BY <1>1, <1>6 DEF Index, Repo, UniqueFeeds, Rows
<1>7. CASE Upsertable(subs, k, d.feed) /\ subs' = [subs EXCEPT ![k] = d]
  <2>1. subs' \in Index
    BY <1>1, <1>7 DEF Index, Repo
  <2>2. \A j \in Rkeys : j # k => subs'[j] = subs[j]
    BY <1>1, <1>7 DEF Repo
  <2>3. subs'[k] = d
    BY <1>1, <1>7 DEF Repo
  <2>4. UniqueFeeds(subs')
    BY <1>1, <1>7, <2>2, <2>3 DEF UniqueFeeds, Upsertable, Rows
  <2>5. \A j \in Rkeys : j >= nextRkey' => subs'[j] = Absent
    BY <1>1, <1>3, <2>2, RssBounds
  <2>6. QED
    BY <2>1, <2>4, <2>5
<1>8. d.feed = r.feed
  BY <1>4
<1>9. \/ UNCHANGED subs
      \/ subs' = [subs EXCEPT ![k] = Absent]
      \/ Upsertable(subs, k, d.feed) /\ subs' = [subs EXCEPT ![k] = d]
  BY <1>2, <1>3, <1>4, <1>8
  DEF Mirror, MirrorWrite, MirrorFails, Upsert
<1>10. QED
  BY <1>5, <1>6, <1>7, <1>9

LEMMA IndexStaysTyped ==
  ASSUME RssInv, [RssNext]_rssVars
  PROVE  /\ subs' \in Index /\ UniqueFeeds(subs')
         /\ \A k \in Rkeys : k >= nextRkey' => subs'[k] = Absent
<1>1. CASE UNCHANGED subs
  BY <1>1, StoreStaysTyped, RssBounds
  DEF RssInv, RssTypeOK, UniqueFeeds, Rows
<1>2. ASSUME NEW s \in Sessions, Handle(s), ~Mirror(s)
      PROVE  UNCHANGED subs
  BY <1>2
  DEF Handle, CreateProbe, PatchLoad, DeleteLoad, ImportBegins, Begin,
      ImportSnapshot, ReadHead, ImportList, Commit, SwapRefused, RequestFails,
      Continue
<1>3. QED
  BY <1>1, <1>2, MirrorKeepsFeedsUnique, ApplyKeepsFeedsUnique
  DEF RssNext, rssVars, PassBegins, ReadBaseline, ListPage, PassFails,
      Trigger, Crash, OtherClient, OtherCollection

Less == {ss \in Nat \X Nat : ss[1] < ss[2]}

LEMMA LessFounded == IsWellFoundedOn(Less, Nat)
  BY NatLessThanWellFounded DEF OpToRel, Less

LEMMA Least ==
  ASSUME NEW T \in SUBSET Nat, T # {}
  PROVE  \E x \in T : \A y \in T : x <= y
<1>1. PICK x \in T : \A y \in T : ~(<<y, x>> \in Less)
  BY LessFounded, WFMin, Zenon
<1>2. ASSUME NEW y \in T
      PROVE  x <= y
  <2>1. x \in Nat /\ y \in Nat
    OBVIOUS
  <2>2. y < x => <<y, x>> \in Less
    BY <2>1 DEF Less
  <2>3. QED
    BY <1>1, <2>1, <2>2
<1>3. QED
  BY <1>2

LEMMA ListPageSteps ==
  ASSUME RssInv, ListPage
  PROVE  \/ /\ pass' = [pass EXCEPT !.pc = "applying"]
            /\ \A k \in Rkeys : k < pass.cursor => pds[k] = Absent
         \/ \E k \in Rkeys :
              /\ pass' = [pass EXCEPT !.cursor = k, !.listed[k] = pds[k]]
              /\ k < pass.cursor /\ pds[k] # Absent
              /\ \A j \in Rkeys : k < j /\ j < pass.cursor => pds[j] = Absent
<1> DEFINE rest == {k \in Rows(pds) : k < pass.cursor}
<1>1. \A k \in Rkeys : k \in rest <=> k < pass.cursor /\ pds[k] # Absent
  BY DEF Rows
<1>2. CASE rest = {} /\ pass' = [pass EXCEPT !.pc = "applying"]
  BY <1>1, <1>2
<1>3. CASE \E k \in rest :
             /\ \A j \in rest : j <= k
             /\ pass' = [pass EXCEPT !.cursor = k, !.listed[k] = pds[k]]
  <2>1. PICK k \in rest :
             /\ \A j \in rest : j <= k
             /\ pass' = [pass EXCEPT !.cursor = k, !.listed[k] = pds[k]]
    BY <1>3
  <2>2. k \in Rkeys
    BY DEF Rows
  <2>3. ASSUME NEW j \in Rkeys, k < j, j < pass.cursor
        PROVE  pds[j] = Absent
    BY <1>1, <2>1, <2>2, <2>3, RssBounds
  <2>4. QED
    BY <1>1, <2>1, <2>2, <2>3
<1>4. QED
  BY <1>2, <1>3 DEF ListPage

LEMMA PassStaysKnown ==
  ASSUME RssInv, [RssNext]_rssVars
  PROVE  pass' \in Pass /\ PassKnown'
<1>1. /\ pass \in Pass /\ PassKnown /\ pds \in Repo /\ subs \in Repo
      /\ nextRkey \in 1..(MaxRkey + 1) /\ mirrored \in SUBSET Rkeys
      /\ \A k \in Rkeys : k >= nextRkey => pds[k] = Absent
  BY DEF RssInv, RssTypeOK, Index
<1>2. /\ pass.listed \in Repo /\ pass.baseline \in Repo
      /\ pass.cursor \in 1..(MaxRkey + 1)
      /\ pass.pc \in {"idle", "baseline", "listing", "applying"}
  BY <1>1 DEF Pass, Index
<1>3. \A k \in Rkeys : k >= nextRkey' => k >= nextRkey
  BY <1>1, StoreStaysTyped, RssBounds
<1>4. CASE UNCHANGED <<pass, pds, subs, pdsMoved, mirrored>>
  BY <1>1, <1>3, <1>4 DEF PassKnown
<1>5. CASE UNCHANGED <<pass, subs, mirrored>> /\ pdsMoved' = (pass.pc # "idle")
  BY <1>1, <1>2, <1>3, <1>5 DEF PassKnown
<1>6. ASSUME NEW s \in Sessions, Mirror(s)
      PROVE  pass' \in Pass /\ PassKnown'
  <2>1. /\ UNCHANGED <<pass, pds, pdsMoved>>
        /\ \/ UNCHANGED <<subs, mirrored>>
           \/ mirrored' # {} \/ pass.pc = "idle"
    BY <1>6 DEF Mirror, MirrorWrite, MirrorFails
  <2>2. QED
    BY <1>1, <1>3, <2>1 DEF PassKnown
<1>7. CASE pass' = IdlePass
  BY <1>7, RssIdleTypes DEF PassKnown, IdlePass, Empty
<1>8. CASE PassBegins
  <2>1. pass' = [IdlePass EXCEPT !.pc = "baseline"]
    BY <1>8 DEF PassBegins
  <2>2. pass' \in Pass
    BY <2>1, RssIdleTypes DEF Pass
  <2>3. QED
    BY <2>1, <2>2 DEF PassKnown, IdlePass, Empty
<1>9. CASE ReadBaseline
  <2>1. /\ pass.pc = "baseline"
        /\ pass' = [pass EXCEPT !.pc = "listing", !.baseline = subs]
        /\ UNCHANGED <<pds, subs, nextRkey, pdsMoved, mirrored>>
    BY <1>9 DEF ReadBaseline, history
  <2>2. pass' \in Pass
    BY <1>1, <2>1 DEF Pass, Index
  <2>3. /\ pass'.pc = "listing" /\ pass'.baseline = subs
        /\ pass'.cursor = MaxRkey + 1 /\ pass'.listed = Empty
    BY <1>1, <2>1 DEF Pass, PassKnown
  <2>4. \A k \in Rkeys : ~(k >= MaxRkey + 1)
    BY RssBounds
  <2>5. QED
    BY <2>1, <2>2, <2>3, <2>4 DEF PassKnown, Empty
<1>10. CASE ListPage
  <2>1. pass.pc = "listing" /\ UNCHANGED <<pds, subs, nextRkey, pdsMoved, mirrored>>
    BY <1>10 DEF ListPage, history
  <2>2. CASE /\ pass' = [pass EXCEPT !.pc = "applying"]
             /\ \A k \in Rkeys : k < pass.cursor => pds[k] = Absent
    <3>1. /\ pass' \in Pass /\ pass'.pc = "applying"
          /\ pass'.listed = pass.listed /\ pass'.baseline = pass.baseline
      BY <1>1, <2>2 DEF Pass
    <3>2. ASSUME ~pdsMoved
          PROVE  pass.listed = pds
      <4>1. ASSUME NEW k \in Rkeys
            PROVE  pass.listed[k] = pds[k]
        BY <1>1, <1>2, <2>1, <2>2, <3>2, RssBounds DEF PassKnown
      <4>2. QED
        BY <1>1, <1>2, <4>1 DEF Repo
    <3>3. QED
      BY <1>1, <2>1, <3>1, <3>2 DEF PassKnown
  <2>3. ASSUME NEW k \in Rkeys,
               pass' = [pass EXCEPT !.cursor = k, !.listed[k] = pds[k]],
               k < pass.cursor, pds[k] # Absent,
               \A j \in Rkeys : k < j /\ j < pass.cursor => pds[j] = Absent
        PROVE  pass' \in Pass /\ PassKnown'
    <3>1. PICK d : d = pds[k]
      OBVIOUS
    <3>2. d \in Record \cup {Absent} /\ k \in 1..(MaxRkey + 1)
      BY <1>1, <3>1, RssBounds DEF Repo
    <3>3. PICK l : l = [pass.listed EXCEPT ![k] = d]
      OBVIOUS
    <3>4. l \in Repo
      BY <1>2, <3>2, <3>3 DEF Repo
    <3>5. pass' = [pass EXCEPT !.cursor = k, !.listed = l]
      BY <1>1, <2>3, <3>1, <3>3 DEF Pass
    <3>6. /\ pass' \in Pass /\ pass'.pc = "listing" /\ pass'.cursor = k
          /\ pass'.listed = l /\ pass'.baseline = pass.baseline
      BY <1>1, <2>1, <3>2, <3>4, <3>5 DEF Pass
    <3>7. \A j \in Rkeys : l[j] = IF j = k THEN pds[k] ELSE pass.listed[j]
      BY <1>2, <3>1, <3>3 DEF Repo
    <3>8. ASSUME ~pdsMoved, NEW j \in Rkeys
          PROVE  l[j] = IF j >= k THEN pds[j] ELSE Absent
      BY <1>1, <1>2, <2>1, <2>3, <3>7, <3>8, RssBounds DEF PassKnown
    <3>9. \A j \in Rkeys : j >= nextRkey => l[j] = Absent
      BY <1>1, <3>7 DEF PassKnown
    <3>10. QED
      BY <1>1, <2>1, <3>6, <3>8, <3>9 DEF PassKnown
  <2>4. QED
    BY <1>10, <2>2, <2>3, ListPageSteps
<1>11. ASSUME NEW s \in Sessions, Handle(s), ~Mirror(s)
       PROVE  pass' \in Pass /\ PassKnown'
  <2>1. CASE Commit(s)
    BY <1>5, <2>1 DEF Commit, RecordsMove
  <2>2. CASE ~Commit(s)
    BY <1>4, <1>11, <2>2
    DEF Handle, CreateProbe, PatchLoad, DeleteLoad, ImportBegins, Begin,
        ImportSnapshot, ReadHead, ImportList, SwapRefused, RequestFails,
        Continue, history
  <2>3. QED
    BY <2>1, <2>2
<1>12. CASE OtherClient
  BY <1>5, <1>12 DEF OtherClient, RecordsMove
<1>13. CASE OtherCollection \/ Trigger \/ UNCHANGED rssVars
  BY <1>4, <1>13 DEF OtherCollection, Trigger, rssVars, history
<1>14. CASE PassFails \/ Apply \/ Crash
  BY <1>7, <1>14 DEF PassFails, Apply, Crash
<1>15. QED
  BY <1>6, <1>8, <1>9, <1>10, <1>11, <1>12, <1>13, <1>14 DEF RssNext

LEMMA CountersStayTyped ==
  ASSUME RssInv, [RssNext]_rssVars
  PROVE  /\ wanted' \in BOOLEAN /\ pdsMoved' \in BOOLEAN
         /\ begun' \in 0..MaxRequests /\ external' \in 0..MaxExternal
         /\ mirrored' \in SUBSET Rkeys
<1>1. /\ wanted \in BOOLEAN /\ pdsMoved \in BOOLEAN
      /\ begun \in 0..MaxRequests /\ external \in 0..MaxExternal
      /\ mirrored \in SUBSET Rkeys
  BY DEF RssInv, RssTypeOK
<1>2. wanted' \in BOOLEAN
  <2>1. ASSUME NEW s \in Sessions, Handle(s)
        PROVE  wanted' \in BOOLEAN
    <3>1. CASE Mirror(s)
      BY <1>1, <3>1 DEF Mirror, MirrorWrite, MirrorFails
    <3>2. CASE ~Mirror(s)
      BY <1>1, <2>1, <3>2
      DEF Handle, CreateProbe, PatchLoad, DeleteLoad, ImportBegins, Begin,
          ImportSnapshot, ReadHead, ImportList, Commit, SwapRefused,
          RequestFails, Continue
    <3>3. QED
      BY <3>1, <3>2
  <2>2. CASE PassBegins \/ ReadBaseline \/ ListPage \/ PassFails \/ Apply
    BY <1>1, <2>2 DEF PassBegins, ReadBaseline, ListPage, PassFails, Apply
  <2>3. CASE \/ OtherClient \/ OtherCollection \/ Trigger \/ Crash
             \/ UNCHANGED rssVars
    BY <1>1, <2>3 DEF OtherClient, OtherCollection, Trigger, Crash, rssVars
  <2>4. QED
    BY <2>1, <2>2, <2>3 DEF RssNext
<1>3. pdsMoved' \in BOOLEAN
  <2>1. ASSUME NEW s \in Sessions, Handle(s)
        PROVE  pdsMoved' \in BOOLEAN
    <3>1. CASE Mirror(s)
      BY <1>1, <3>1 DEF Mirror, history
    <3>2. CASE ~Mirror(s)
      BY <1>1, <2>1, <3>2
      DEF Handle, CreateProbe, PatchLoad, DeleteLoad, ImportBegins, Begin,
          ImportSnapshot, ReadHead, ImportList, Commit, SwapRefused,
          RequestFails, Continue,
          RecordsMove, history
    <3>3. QED
      BY <3>1, <3>2
  <2>2. CASE PassBegins \/ ReadBaseline \/ ListPage \/ PassFails \/ Apply
    BY <1>1, <2>2 DEF PassBegins, ReadBaseline, ListPage, PassFails, Apply,
        ForgetPass, history
  <2>3. CASE \/ OtherClient \/ OtherCollection \/ Trigger \/ Crash
             \/ UNCHANGED rssVars
    BY <1>1, <2>3 DEF OtherClient, OtherCollection, Trigger, Crash, rssVars,
        RecordsMove, ForgetPass, history
  <2>4. QED
    BY <2>1, <2>2, <2>3 DEF RssNext
<1>4. begun' \in 0..MaxRequests
  <2>1. ASSUME NEW s \in Sessions, Handle(s)
        PROVE  begun' = begun \/ (begun < MaxRequests /\ begun' = begun + 1)
    <3>1. CASE Mirror(s)
      BY <3>1 DEF Mirror
    <3>2. CASE ~Mirror(s)
      BY <2>1, <3>2
      DEF Handle, CreateProbe, PatchLoad, DeleteLoad, ImportBegins, Begin,
          ImportSnapshot, ReadHead, ImportList, Commit, SwapRefused,
          RequestFails, Continue
    <3>3. QED
      BY <3>1, <3>2
  <2>2. CASE PassBegins \/ ReadBaseline \/ ListPage \/ PassFails \/ Apply
    BY <1>1, <2>2 DEF PassBegins, ReadBaseline, ListPage, PassFails, Apply
  <2>3. ASSUME \/ OtherClient \/ OtherCollection \/ Trigger \/ Crash
               \/ UNCHANGED rssVars
        PROVE  begun' = begun \/ (begun < MaxRequests /\ begun' = begun + 1)
    BY <2>3 DEF OtherClient, OtherCollection, Trigger, Crash, rssVars
  <2>4. QED
    BY <1>1, <2>1, <2>2, <2>3, RssBounds DEF RssNext
<1>5. external' \in 0..MaxExternal
  <2>1. ASSUME NEW s \in Sessions, Handle(s)
        PROVE  external' = external \/ (external < MaxExternal /\ external' = external + 1)
    <3>1. CASE Mirror(s)
      BY <3>1 DEF Mirror
    <3>2. CASE ~Mirror(s)
      BY <2>1, <3>2
      DEF Handle, CreateProbe, PatchLoad, DeleteLoad, ImportBegins, Begin,
          ImportSnapshot, ReadHead, ImportList, Commit, SwapRefused,
          RequestFails, Continue
    <3>3. QED
      BY <3>1, <3>2
  <2>2. CASE PassBegins \/ ReadBaseline \/ ListPage \/ PassFails \/ Apply
    BY <1>1, <2>2 DEF PassBegins, ReadBaseline, ListPage, PassFails, Apply
  <2>3. ASSUME \/ OtherClient \/ OtherCollection \/ Trigger \/ Crash
               \/ UNCHANGED rssVars
        PROVE  external' = external \/ (external < MaxExternal /\ external' = external + 1)
    BY <2>3 DEF OtherClient, OtherCollection, Trigger, Crash, rssVars
  <2>4. QED
    BY <1>1, <2>1, <2>2, <2>3, RssBounds DEF RssNext
<1>6. mirrored' \in SUBSET Rkeys
  <2>1. ASSUME NEW s \in Sessions, Handle(s), ~(Mirror(s) /\ MirrorWrite(s))
        PROVE  mirrored' = mirrored
    <3>1. CASE Mirror(s)
      BY <2>1, <3>1 DEF Mirror, MirrorFails, history
    <3>2. CASE ~Mirror(s)
      BY <2>1, <3>2
      DEF Handle, CreateProbe, PatchLoad, DeleteLoad, ImportBegins, Begin,
          ImportSnapshot, ReadHead, ImportList, Commit, SwapRefused,
          RequestFails, Continue, RecordsMove, history
    <3>3. QED
      BY <3>1, <3>2
  <2>2. ASSUME NEW s \in Sessions, Mirror(s), MirrorWrite(s)
        PROVE  mirrored' \in SUBSET Rkeys
    <3>1. req[s].rkey \in Rkeys
      BY <2>2 DEF Mirror, RssInv, RssTypeOK, Founded, Request
    <3>2. QED
      BY <1>1, <2>2, <3>1 DEF MirrorWrite
  <2>3. CASE PassBegins \/ ReadBaseline \/ ListPage \/ PassFails \/ Apply
    BY <1>1, <2>3 DEF PassBegins, ReadBaseline, ListPage, PassFails, Apply,
                      ForgetPass, history
  <2>4. CASE \/ OtherClient \/ OtherCollection \/ Trigger \/ Crash
             \/ UNCHANGED rssVars
    BY <1>1, <2>4 DEF OtherClient, OtherCollection, Trigger, Crash, rssVars,
                      RecordsMove, ForgetPass, history
  <2>5. QED
    BY <1>1, <2>1, <2>2, <2>3, <2>4 DEF RssNext, Handle
<1>7. QED
  BY <1>2, <1>3, <1>4, <1>5, <1>6

LEMMA RssStepHolds == RssInv /\ [RssNext]_rssVars => RssInv'
<1> SUFFICES ASSUME RssInv, [RssNext]_rssVars PROVE RssInv'
  OBVIOUS
<1>1. RssTypeOK'
  BY RequestsStayKnown, StoreStaysTyped, IndexStaysTyped, PassStaysKnown,
     CountersStayTyped DEF RssTypeOK
<1>2. QED
  BY <1>1, RequestsStayKnown, PassStaysKnown DEF RssInv

LEMMA RssInvHolds == RssSpec => []RssInv
  BY RssInitHolds, RssStepHolds, PTL DEF RssSpec

-----------------------------------------------------------------------------
(* The theorems.                                                           *)

(* Records, rows and requests keep their types, and the index its one row  *)
(* per feed URL, through any mix of requests, imports, passes and writes   *)
(* of other clients.                                                       *)
THEOREM RssTypeCorrect == RssSpec => []RssTypeOK
<1>1. RssInv => RssTypeOK
  BY DEF RssInv
<1>2. QED
  BY <1>1, RssInvHolds, PTL

(* A quiet pass leaves one row per feed of the PDS, that of the oldest     *)
(* record, whatever went wrong before.                                     *)
THEOREM RssPassesConverge == RssSpec => QuietPassConverges
<1>1. ASSUME RssInv, Apply, Settled, NEW k \in Rkeys
      PROVE  /\ subs'[k] # Absent => subs'[k] = pds[k]
             /\ pds[k] # Absent =>
                  /\ \E j \in Rows(subs') : subs'[j].feed = pds[k].feed
                  /\ subs'[k] = Absent => \E j \in 1..(k - 1) :
                        pds[j] # Absent /\ pds[j].feed = pds[k].feed
  <2>1. pass.listed = pds /\ pass.baseline = subs
    BY <1>1 DEF Apply, Settled, RssInv, PassKnown
  <2>2. \A j \in Rkeys : ~changedDuringListing(j) /\ ~deletedDuringListing(j)
    BY <2>1 DEF changedDuringListing, deletedDuringListing
  <2>3. Keep = canonicalByKey(pds) /\ Keep \subseteq Rkeys
    BY <2>1 DEF Keep, canonicalByKey, Rows
  <2>4. upserted = Keep
    BY <2>2, <2>3 DEF upserted
  <2>5. \A j \in Rkeys : subs'[j] = IF j \in Keep THEN pds[j] ELSE Absent
    BY <1>1, <2>1, <2>2, <2>4 DEF Apply, kept
  <2>6. ASSUME pds[k] # Absent
        PROVE  \E j \in Rows(subs') : subs'[j].feed = pds[k].feed
    <3> DEFINE Same == {j \in Rows(pds) : pds[j].feed = pds[k].feed}
    <3>1. Same \in SUBSET Nat /\ Same # {}
      BY <2>6, RssBounds DEF Rows
    <3>2. PICK j \in Same : \A i \in Same : j <= i
      BY <3>1, Least
    <3>3. j \in Keep /\ j \in Rkeys
      BY <2>3, <3>2 DEF canonicalByKey, Rows
    <3>4. subs'[j] = pds[j] /\ pds[j] # Absent
      BY <2>5, <3>2, <3>3 DEF Rows
    <3>5. QED
      BY <3>2, <3>3, <3>4 DEF Rows
  <2>7. ASSUME pds[k] # Absent, subs'[k] = Absent
        PROVE  \E j \in 1..(k - 1) : pds[j] # Absent /\ pds[j].feed = pds[k].feed
    <3>1. k \notin Keep /\ k \in Rows(pds)
      BY <2>5, <2>7 DEF Rows
    <3>2. PICK j \in Rows(pds) : pds[j].feed = pds[k].feed /\ ~(k <= j)
      BY <2>3, <3>1 DEF canonicalByKey
    <3>3. j \in Rkeys /\ pds[j] # Absent
      BY <3>2 DEF Rows
    <3>4. j \in 1..(k - 1)
      BY <3>2, <3>3, RssBounds
    <3>5. QED
      BY <3>2, <3>3, <3>4
  <2>8. subs'[k] # Absent => subs'[k] = pds[k]
    BY <2>5
  <2>9. QED
    BY <2>6, <2>7, <2>8
<1>2. RssInv /\ [RssNext]_rssVars =>
        [Apply /\ Settled => \A k \in Rkeys :
           /\ subs'[k] # Absent => subs'[k] = pds[k]
           /\ pds[k] # Absent =>
                /\ \E j \in Rows(subs') : subs'[j].feed = pds[k].feed
                /\ subs'[k] = Absent => \E j \in 1..(k - 1) :
                      pds[j] # Absent /\ pds[j].feed = pds[k].feed]_rssVars
  BY <1>1
<1>3. QED
  BY <1>2, RssInvHolds, PTL DEF QuietPassConverges, RssSpec

(* An import adds a record only for a feed that no record has, and         *)
(* otherwise only adds tags, whatever is committed between its reads and   *)
(* its commit: the head or the CID its commit names says so.               *)
THEOREM ImportsMerge == RssSpec => ImportsOnlyMerge
<1>1. ASSUME RssInv, NEW s \in Sessions, Commit(s), req[s].op = "import",
             NEW k \in Rkeys, pds'[k] # pds[k]
      PROVE  IF pds[k] = Absent
             THEN \A j \in Rows(pds) : pds[j].feed # pds'[k].feed
             ELSE /\ pds'[k].feed = pds[k].feed
                  /\ pds[k].tags \subseteq pds'[k].tags
  <2>1. PICK r \in Request : /\ r = req[s] /\ r.op = "import"
                             /\ r.pc = "committing" /\ RightlyNew(r)
    BY <1>1 DEF RssInv, RssTypeOK, Commit
  <2>2. /\ pds \in Repo /\ nextRkey \in 1..(MaxRkey + 1)
        /\ \A j \in Rkeys : j >= nextRkey => pds[j] = Absent
    BY <1>1 DEF RssInv, RssTypeOK
  <2>3. SwapHolds(r)
    BY <1>1, <2>1 DEF Commit
  <2>4. CASE r.read = Absent
    <3>1. existing(r.feed) = {}
      BY <2>1, <2>3, <2>4 DEF SwapHolds, RightlyNew, Waits
    <3>2. PICK d : d = [feed |-> r.feed, tags |-> r.tags]
      OBVIOUS
    <3>3. pds' = [pds EXCEPT ![nextRkey] = d] /\ nextRkey <= MaxRkey
      BY <1>1, <2>1, <2>4, <3>2 DEF Commit, Creates, Desired
    <3>4. k = nextRkey
      BY <1>1, <2>2, <3>3 DEF Repo
    <3>5. pds[k] = Absent /\ pds'[k] = d
      BY <1>1, <2>2, <3>3, <3>4, RssBounds DEF Repo
    <3>6. \A j \in Rows(pds) : pds[j].feed # r.feed
      BY <3>1 DEF existing, sameFeedURLs
    <3>7. QED
      BY <3>2, <3>5, <3>6
  <2>5. CASE r.read # Absent
    <3>1. pds[r.rkey] = r.read
      BY <2>1, <2>3, <2>5 DEF SwapHolds
    <3>2. PICK t \in SUBSET TagNames : t = r.tags
      BY DEF Request
    <3>3. PICK d \in Record : d = r.read
      BY <2>5 DEF Request
    <3>4. PICK e : e = [d EXCEPT !.tags = @ \cup t]
      OBVIOUS
    <3>5. e.feed = d.feed /\ d.tags \subseteq e.tags
      BY <3>4 DEF Record
    <3>6. pds' = [pds EXCEPT ![r.rkey] = e]
      BY <1>1, <2>1, <2>5, <3>2, <3>3, <3>4 DEF Commit, Creates, Desired
    <3>7. k = r.rkey
      BY <1>1, <2>2, <3>6 DEF Repo
    <3>8. pds'[k] = e /\ pds[k] = d
      BY <1>1, <2>2, <3>1, <3>3, <3>6, <3>7 DEF Repo
    <3>9. QED
      BY <3>3, <3>5, <3>8, NoRowIsAbsent
  <2>6. QED
    BY <2>4, <2>5
<1>2. RssInv /\ [RssNext]_rssVars =>
        [\A s \in Sessions :
           Commit(s) /\ req[s].op = "import" =>
              \A k \in Rkeys : pds'[k] # pds[k] =>
                 IF pds[k] = Absent
                 THEN \A j \in Rows(pds) : pds[j].feed # pds'[k].feed
                 ELSE /\ pds'[k].feed = pds[k].feed
                      /\ pds[k].tags \subseteq pds'[k].tags]_rssVars
  BY <1>1
<1>3. QED
  BY <1>2, RssInvHolds, PTL DEF ImportsOnlyMerge, RssSpec

(* The pass leaves a row that was written since its baseline as the last   *)
(* mirror write left it (LAWS.md).                                         *)
THEOREM RssListingsSpareRows == RssSpec => StaleListingSparesMirror
<1>1. ASSUME RssInv, Apply, NEW k \in mirrored, subs[k] # pass.baseline[k]
      PROVE  subs'[k] = subs[k]
  <2>1. k \in Rkeys
    BY <1>1 DEF RssInv, RssTypeOK
  <2>2. k \notin upserted
    BY <1>1 DEF upserted, deletedDuringListing, changedDuringListing
  <2>3. kept[k] = subs[k]
    BY <1>1, <2>1 DEF kept, changedDuringListing
  <2>4. QED
    BY <1>1, <2>1, <2>2, <2>3 DEF Apply
<1>2. RssInv /\ [RssNext]_rssVars =>
        [Apply => \A k \in mirrored :
           subs[k] # pass.baseline[k] => subs'[k] = subs[k]]_rssVars
  BY <1>1
<1>3. QED
  BY <1>2, RssInvHolds, PTL DEF StaleListingSparesMirror, RssSpec
=============================================================================
