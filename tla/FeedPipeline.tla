---------------------------- MODULE FeedPipeline ----------------------------
(***************************************************************************)
(* One RSS feed in the shared catalog: fetched by every reader's sync, the *)
(* global refresh and a fresh follow (internal/sync feedpipeline.go) over  *)
(* a fetcher that collapses concurrent requests for one URL                *)
(* (internal/fetcher), previewed through the same fetcher before anyone    *)
(* follows it (internal/api subscriptions_preview.go), and swept once      *)
(* nobody does (internal/database feed_sweep.go).                          *)
(*                                                                         *)
(* The publisher's document at version v is docs[v], the posts it lists    *)
(* with their dates and links, and v is its ETag; a row's ETag 0 is none.  *)
(* A date is a time, 0 is no date.  A post is known by its guid, a save by *)
(* the link it was saved under, and a publisher may change a post's link   *)
(* or give two posts the same.  Only one feed is modelled, so the worker   *)
(* pool and the per-host semaphore, which one flight never fills, are not, *)
(* nor are titles, bodies and icons.  A tick is longer than a fetch and a  *)
(* follow take and half the sweep's grace or less.                         *)
(***************************************************************************)
EXTENDS Naturals, Sequences

CONSTANTS
    Fetches,      \* calls of FetchAndStore at work at a time
    Preview,      \* the request that previews the feed
    Posts,        \* guids
    Urls,         \* the links of posts
    Generated,    \* the feed is one this server generates (undatedHistory)
    Items,        \* bound: the dates and links a publisher gives posts
    None,
    Grace,        \* FeedSweepGrace, in ticks
    Steps,        \* the ladder of feedBackoff, in ticks
    MaxNow,       \* bound: ticks
    MaxVersions   \* bound: documents the publisher serves

ASSUME FeedPipelineAssumption ==
    /\ Grace \in Nat \ {0, 1}
    /\ Steps \in Seq(Nat \ {0}) /\ Steps # <<>>
    /\ \A i \in 1..Len(Steps) : \A j \in i..Len(Steps) : Steps[i] <= Steps[j]
    /\ MaxNow \in Nat \ {0} /\ MaxVersions \in Nat \ {0}
    /\ Generated \in BOOLEAN
    /\ Preview \notin Fetches /\ None \notin Fetches \cup {Preview} \cup Nat

Times == 0..MaxNow
Cap == Steps[Len(Steps)]
Versions == 0..MaxVersions
FeedEntry == [date : Times, url : Urls]
Document == [Posts -> Items \cup {None}]
UserSave == [post : Posts, url : Urls]
Row == [etag : Versions, fetched : BOOLEAN, failures : 0..Len(Steps),
        next : 0..(MaxNow + Cap), orphaned : Times]
Answer == [kind : {"full", "same"}, etag : Versions]
            \cup [kind : {"failed"}, wait : 0..(Cap + 1)]
            \cup [kind : {"canceled"}]

ASSUME ItemsAssumption == Items \subseteq FeedEntry
ASSUME NoRowIsNone == None \notin Row \cup FeedEntry

VARIABLES
    now,
    docs,       \* every document the publisher served, the newest last
    row,        \* the feeds row, or None
    entries,    \* feed_entries: a post's published_at and url, or None
    followed,   \* some user_subscriptions row names the feed
    following,  \* when a follow under way upserted the feed, 0 if none
    saved,      \* a reader's user_saves: the item_url, and as history the
                \* post it was saved from
    call,       \* the calls of FetchAndStore
    flight,     \* the fetcher's singleflight: who leads it, what it sent
    refused     \* history: listed posts whose insert failed

vars == <<now, docs, row, entries, followed, following, saved, call, flight,
          refused>>

NoCall == [pc |-> "idle"]
Call ==
    {NoCall}
      \cup [pc : {"read"}, etag : Versions, new : BOOLEAN, failures : 0..Len(Steps)]
      \cup [pc : {"flying"}, new : BOOLEAN, failures : 0..Len(Steps)]
      \cup [pc : {"answered"}, answer : Answer, new : BOOLEAN,
            failures : 0..Len(Steps)]
NewRow == [etag |-> 0, fetched |-> FALSE, failures |-> 0, next |-> 0,
           orphaned |-> 0]
Version == Len(docs)
Listed(v) == {p \in Posts : docs[v][p] # None}
Stored == {p \in Posts : entries[p] # None}
Published(p) == IF entries[p] = None THEN None ELSE entries[p].date

TypeOK ==
    /\ now \in Times
    /\ docs \in Seq(Document) /\ Version \in 1..MaxVersions
    /\ row \in Row \cup {None}
    /\ entries \in [Posts -> FeedEntry \cup {None}]
    /\ followed \in BOOLEAN /\ following \in Times
    /\ saved \subseteq UserSave /\ refused \subseteq Posts
    /\ call \in [Fetches -> Call]
    /\ flight \in [leader : Fetches \cup {Preview}, etag : Versions] \cup {None}

Init ==
    /\ now = 1
    /\ docs \in {<<d>> : d \in Document}
    /\ row = None /\ entries = [p \in Posts |-> None]
    /\ followed = FALSE /\ following = 0 /\ saved = {}
    /\ call = [c \in Fetches |-> NoCall] /\ flight = None
    /\ refused = {}

-----------------------------------------------------------------------------
(* Statements.                                                             *)

(* Mutant: the upsert of a known feed leaves the sweep's mark.             *)
UpsertFeedKeepsMark(r) == IF r = None THEN NewRow ELSE r
UpsertFeed(r) == IF r = None THEN NewRow ELSE [r EXCEPT !.orphaned = 0]

UpdateFeedFetchState(r, etag) ==
    IF r = None THEN None
    ELSE [r EXCEPT !.etag = etag, !.fetched = TRUE, !.failures = 0, !.next = 0]
UpdateFeedFetchFailure(r, failures, next) ==
    IF r = None THEN None
    ELSE [r EXCEPT !.failures = failures, !.next = next]

Earlier(a, b) == IF a < b THEN a ELSE b
(* Mutant: a date the feed changes replaces the stored one.                *)
LatestDate(old, date, keepUndated) ==
    IF date > 0 THEN date
    ELSE IF old # None THEN old ELSE IF keepUndated THEN 0 ELSE now
(* A stored date only moves earlier; a post first seen undated is dated    *)
(* now, or stays undated as part of a back catalogue.                      *)
StoredDate(old, date, keepUndated) ==
    CASE date > 0 /\ old \notin {None, 0} -> Earlier(date, old)
      [] date > 0 /\ old \in {None, 0}    -> date
      [] date = 0 /\ old # None           -> old
      [] date = 0 /\ old = None           -> IF keepUndated THEN 0 ELSE now
(* On a conflict of feed and guid the new link replaces the old.           *)
UpsertFeedEntry(p, item, keepUndated) ==
    [date |-> StoredDate(Published(p), item.date, keepUndated),
     url |-> item.url]

-----------------------------------------------------------------------------
(* FetchAndStore.                                                          *)

inBackoff(r) == now < r.next
Delay(failures) == Steps[Earlier(failures, Len(Steps))]
(* Mutant: the server's Retry-After is taken as it is.                     *)
Uncapped(failures, wait) ==
    IF wait > Delay(failures) THEN wait ELSE Delay(failures)
BackoffDelay(failures, wait) ==
    LET server == Earlier(wait, Cap)
    IN  IF server > Delay(failures) THEN server ELSE Delay(failures)

(* A sync, the global refresh or a follow fetches a feed that is followed. *)
(* A feed that cannot be read is taken for one never fetched.              *)
ListFollowedFeedURLs == followed
ReadFeed(c) ==
    /\ call[c] = NoCall
    /\ ListFollowedFeedURLs
    /\ \E state \in {NewRow} \cup (IF row = None THEN {} ELSE {row}) :
         /\ ~inBackoff(state)
         /\ call' = [call EXCEPT ![c] =
                       [pc |-> "read", etag |-> state.etag,
                        new |-> ~state.fetched, failures |-> state.failures]]
    /\ UNCHANGED <<now, docs, row, entries, followed, following, saved, flight,
                   refused>>

(* Fetch: the first call leads the flight with its context and its         *)
(* validators, the ones that come while it flies share its answer.         *)
Fetch(c) ==
    /\ call[c].pc = "read"
    /\ call' = [call EXCEPT ![c] =
         [pc |-> "flying", new |-> call[c].new,
          failures |-> call[c].failures]]
    /\ flight' = IF flight # None THEN flight
                 ELSE [leader |-> c, etag |-> call[c].etag]
    /\ UNCHANGED <<now, docs, row, entries, followed, following, saved, refused>>

previewItems ==
    /\ flight = None
    /\ flight' = [leader |-> Preview, etag |-> 0]
    /\ UNCHANGED <<now, docs, row, entries, followed, following, saved, call,
                   refused>>

Answered(a) ==
    /\ call' = [c \in Fetches |->
                  IF call[c].pc # "flying" THEN call[c]
                  ELSE [pc |-> "answered", answer |-> a,
                        new |-> a.kind = "full" /\ call[c].new,
                        failures |-> IF a.kind = "failed" THEN call[c].failures
                                     ELSE 0]]
    /\ flight' = None
    /\ UNCHANGED <<now, docs, row, entries, followed, following, saved, refused>>

fetchOne ==
    /\ flight # None
    /\ \/ flight.etag = Version /\ Answered([kind |-> "same", etag |-> Version])
       \/ flight.etag # Version /\ Answered([kind |-> "full", etag |-> Version])
       \/ \E wait \in {0, Cap + 1} : Answered([kind |-> "failed", wait |-> wait])

(* The dialog closes on a preview that leads the flight.                   *)
PreviewCanceled ==
    /\ flight # None /\ flight.leader = Preview
    /\ Answered([kind |-> "canceled"])

(* Mutant: the validators are kept although the batch came to nothing.     *)
StateFirst(c) ==
    /\ row' = UpdateFeedFetchState(row, call[c].answer.etag)
    /\ entries' = entries /\ refused' = refused
(* The batch, in one transaction: an entry that cannot be written, its     *)
(* slug being taken, is logged and skipped; the other statements break no  *)
(* constraint.                                                             *)
Batch(c) ==
    \E bad \in SUBSET Listed(call[c].answer.etag) :
      LET v == call[c].answer.etag
      IN  /\ row' = UpsertFeed(UpdateFeedFetchState(row, v))
          /\ entries' = [p \in Posts |->
               IF p \in Listed(v) \ bad
               THEN UpsertFeedEntry(p, docs[v][p], call[c].new \/ Generated)
               ELSE entries[p]]
          /\ refused' = (refused \ Listed(v)) \cup bad

recordFetchFailure(c) ==
    LET failures == Earlier(call[c].failures + 1, Len(Steps))
    IN  row' = UpdateFeedFetchFailure(row, failures,
                 now + BackoffDelay(failures, call[c].answer.wait))

(* What FetchAndStore does with the answer.                                *)
Store(c) ==
    /\ call[c].pc = "answered"
    /\ CASE call[c].answer.kind = "full" -> Batch(c)
         [] call[c].answer.kind = "same" ->
              /\ row' = UpdateFeedFetchState(row, call[c].answer.etag)
              /\ UNCHANGED <<entries, refused>>
         [] call[c].answer.kind = "failed" ->
              recordFetchFailure(c) /\ UNCHANGED <<entries, refused>>
         [] call[c].answer.kind = "canceled" -> UNCHANGED <<row, entries, refused>>
    /\ call' = [call EXCEPT ![c] = NoCall]
    /\ UNCHANGED <<now, docs, followed, following, saved, flight>>

(* The transaction does not commit, or the write of the state fails.       *)
StoreFails(c) ==
    /\ call[c].pc = "answered"
    /\ call' = [call EXCEPT ![c] = NoCall]
    /\ UNCHANGED <<now, docs, row, entries, followed, following, saved, flight,
                   refused>>

(* A restart forgets the calls and the flight.                             *)
Restart ==
    /\ call' = [c \in Fetches |-> NoCall] /\ flight' = None
    /\ following' = 0
    /\ UNCHANGED <<now, docs, row, entries, followed, saved, refused>>

-----------------------------------------------------------------------------
(* Readers.                                                                *)

(* A follow upserts the feed, then writes the record, then its row.        *)
FollowBegins ==
    /\ following = 0
    /\ row' = UpsertFeed(row) /\ following' = now
    /\ UNCHANGED <<now, docs, entries, followed, saved, call, flight, refused>>
FollowEnds ==
    /\ following # 0
    /\ following' = 0 /\ followed' \in {TRUE, followed}
    /\ UNCHANGED <<now, docs, row, entries, saved, call, flight, refused>>
Unfollow ==
    /\ followed /\ followed' = FALSE
    /\ UNCHANGED <<now, docs, row, entries, following, saved, call, flight,
                   refused>>

(* The posts of a source page: the query joins the reader's subscription   *)
(* and the feed.                                                           *)
ListEntriesForSource == IF followed /\ row # None THEN Stored ELSE {}

(* A reader has one save of a link.                                        *)
IsSaved(url) == \E s \in saved : s.url = url
Save ==
    /\ \E p \in ListEntriesForSource :
         /\ ~IsSaved(entries[p].url)
         /\ saved' = saved \cup {[post |-> p, url |-> entries[p].url]}
    /\ UNCHANGED <<now, docs, row, entries, followed, following, call, flight,
                   refused>>
Unsave ==
    /\ \E s \in saved : saved' = saved \ {s}
    /\ UNCHANGED <<now, docs, row, entries, followed, following, call, flight,
                   refused>>

-----------------------------------------------------------------------------
(* Time, the publisher and the sweep.                                      *)

Publish ==
    /\ Version < MaxVersions
    /\ \E d \in Document : d # docs[Version] /\ docs' = Append(docs, d)
    /\ UNCHANGED <<now, row, entries, followed, following, saved, call, flight,
                   refused>>

(* ClaimFollowedFeeds, then MarkOrphanedFeeds.                             *)
Marked(r, t) ==
    IF followed THEN [r EXCEPT !.orphaned = 0]
    ELSE IF r.orphaned = 0 THEN [r EXCEPT !.orphaned = t] ELSE r
(* Mutant: what readers saved does not count.                              *)
UnfollowedLong(r, t) == ~followed /\ r.orphaned + Grace <= t
DeleteOrphaned(r, t) ==
    /\ ~followed /\ r.orphaned + Grace <= t
    /\ \A p \in Stored : ~IsSaved(entries[p].url)
(* Deleting the feed takes its entries along.                              *)
SweepAt(t) ==
    IF row # None /\ DeleteOrphaned(Marked(row, t), t)
    THEN row' = None /\ entries' = [p \in Posts |-> None]
    ELSE /\ row' = IF row = None THEN None ELSE Marked(row, t)
         /\ entries' = entries
SweepUnfollowedFeeds ==
    /\ SweepAt(now)
    /\ UNCHANGED <<now, docs, followed, following, saved, call, flight, refused>>

(* The sweep runs at least once a tick; a fetch is over within one, a      *)
(* follow before the next ends.                                            *)
Tick ==
    /\ now < MaxNow
    /\ \A c \in Fetches : call[c] = NoCall
    /\ following \in {0, now}
    /\ now' = now + 1
    /\ SweepAt(now + 1)
    /\ UNCHANGED <<docs, followed, following, saved, call, flight, refused>>

Next ==
    \/ \E c \in Fetches : \/ ReadFeed(c) \/ Fetch(c)
                          \/ Store(c) \/ StoreFails(c)
    \/ previewItems \/ fetchOne \/ PreviewCanceled
    \/ FollowBegins \/ FollowEnds \/ Unfollow \/ Save \/ Unsave
    \/ Publish \/ Tick \/ SweepUnfollowedFeeds \/ Restart

Spec == Init /\ [][Next]_vars

-----------------------------------------------------------------------------
(* Whatever order answers are stored in, and whatever the sweep does       *)
(* between a request and its answer, the validators in the row only vouch  *)
(* for posts that are stored, save one whose own insert failed: else the   *)
(* publisher answers 304 and the post never arrives.                       *)
ValidatorsVouch ==
    row # None /\ row.etag # 0 => Listed(row.etag) \subseteq Stored \cup refused

(* A followed feed, and one whose follow is under way, is in the catalog:  *)
(* the sweep never takes the row a subscription is about to reference.     *)
FollowedStays == followed \/ following # 0 => row # None

(* The server's Retry-After and the ladder never bench a feed for longer   *)
(* than the ladder's last step.                                            *)
BackoffWithinCap == row # None => row.next <= now + Cap

(* sweep.sql:12: "A saved entry keeps its feed: the Library reads a save's *)
(* title and reader link from the cached entry."                           *)
SavedEntryKeepsItsFeed == \A s \in saved : s.post \in Stored

(* feedpipeline.go:132: "context.Canceled means the caller gave up".  No   *)
(* caller of FetchAndStore gives up here.                                  *)
OnlyOwnCancel ==
    \A c \in Fetches :
      call[c].pc = "answered" => call[c].answer.kind # "canceled"
=============================================================================
