# Morgenblau in TLA+

Specifications of the Go server under `app/internal`, model-checked with TLC
and, where a property should hold for every size of system, proved with TLAPS.
The code is the reference. `PROJECT.json` names, for every definition that
models code, the file and lines it stands for.

## The system

Morgenblau is a feed reader. A reader signs in with an atproto account; the
records of what they follow and save live in their PDS. One Go process keeps
SQLite indexes of those records, polls feeds, receives newsletters over SMTP
and serves a React frontend.

| Component | State | Operations | Hard behaviours | Module |
| --- | --- | --- | --- | --- |
| Sync engine, `sync/syncuser.go`, `sync/sync.go` | one `userRun` per user under `runMu`; a parent context and a WaitGroup | `SyncUser` (start or coalesce), the `run` loop, `finishSync`, `Shutdown` | triggers that arrive mid-pass, another device's session, shutdown mid-pass | SyncEngine |
| Job tracker, `jobs/jobs.go` | job map, newest sync and last failure per user | `Create`, transitions, `ActiveForUser`, `LatestSyncForUser`, `GC` | GC against pointers kept elsewhere, late transitions | SyncEngine |
| Saves, `api/saves.go`, `api/mirror.go`, `sync/reconcile*.go` | PDS records; `user_saves` rows | create, patch, delete; list and reconcile | mirror writes against a stale listing, lost answers, other clients, unique item URL | SavesMirror |
| Subscriptions, `api/subscriptions_*.go`, `sync/reconcile_subscriptions.go` | three record collections; `user_subscriptions` rows | create, patch, delete, OPML import, two reconcile passes, sidecar cleanup | duplicates, import against other writers, cleanup outside the transaction | RssMirror, StandardMirror |
| Feed pipeline, `sync/feedpipeline.go`, `fetcher/fetcher.go` | `feeds` rows with validators and backoff, entries, flights | conditional fetch, store, record failure, preview | singleflight, a late failure after a success | FeedPipeline |
| Feed sweep, `database/feed_sweep.go` | `orphaned_at` of feeds | claim, mark, delete after a grace | a follow or a fetch under way | FeedPipeline |
| Standardfeed ingestion, `sync/standardpipeline.go` | entries of a publication | list documents, diff, delete; extract text | paged listings of a repository that changes | Publication |
| Newsletters, `newsletter/` | sources, receipts, messages, saves | SMTP accept, process, stop, enable, move, save, delete | crash between accept and store, stop against move | Newsletter |
| Web feeds, `websource/`, `webfeed/` | generated sources, aliases, recipes, polls, spend | create, set up, republish, poll, check, repair | slots and budget read before use, rekeying, alarms derived from timestamps | WebSource, WebPoll |
| Sessions, `middleware/auth`, `oauth/` | session rows, per-session locks | callback, resume, refresh, logout, GC | refresh tokens rotate once; logout against persist | Sessions |
| SMTP certificates, `server/smtp_certificates.go` | stored pair, current certificate | ensure, renew, publish | renewal interrupted between two files | Server |
| Server assembly, `server/server.go`, `cmd/api/main.go` | background loops, listeners, database | start, graceful shutdown | one deadline for eight parts | Server |
| Reading API, `api/digest.go`, `entries.go`, `source_detail.go` | none | pages | several reads per page | DigestPage, FeedViews, NewsletterViews |
| Profile cache, `cache/profiles` | LRU, in-flight loads | `Get`, `Refresh`, `Lookup` | a refresh against an older load | none |
| Limits, `middleware/ratelimit`, `atxrpc/cooldown.go` | buckets, cool-down times | allow, observe | limits at their edge | none |

How they interact. Handlers call `SyncUser` through the orchestrator after a
login, on a digest refresh, and when `commitThenMirror` could not mirror a
commit. The engine reports to the job tracker, which the frontend polls. A pass
resumes the user's session (taking the session lock for the refresh only),
lists the PDS, reconciles each collection in one transaction and fetches the
feeds of new rows. Requests write the same rows without the engine's knowledge;
the guard in `reconcile_guard.go` decides which of the two is newer. Handlers of
one session that write to the PDS run one at a time under the session lock; two
devices of a user do not exclude each other, and neither do a request and a
pass. Feeds, publications and web sources are shared by all readers: a follow
makes their rows, the sweep takes them when the last reader has been gone for a
grace.

## Modules

Components that interact through a promise are composed through it: the engine
implements `SyncRequests`, and the three mirrors begin a pass only as
`SyncRequests` lets them (`wanted`). Components that interact through rows are
one module: FeedPipeline holds pipeline, fetcher, preview, follows and sweep.
The views (`FeedViews`, `NewsletterViews`, `DigestPage`) extend the module that
writes what they read, and hold the properties a reader would see broken.

### SyncEngine, SyncRequests, DigestPage

`SyncEngine.tla` models `syncuser.go`, the trigger and shutdown parts of
`sync.go`, and all of `jobs.go` that the server calls. One action is one
critical section (of `runMu` or of the tracker's mutex) or one outcome of the
goroutine between two of them.

| Module | Code |
| --- | --- |
| `job`, `tracked` | the `*Job` objects and the map GC deletes from; a dropped object stays reachable through the other maps, as in Go |
| `latestSync`, `syncFailures` | the maps of that name |
| `active`, `run` | `Engine.active` and the `userRun` of each goroutine, with its program counter, receipt and errors |
| `Coalesce`, `StartRun` | the two branches of `SyncUser` |
| `StartPass`, `MarkRunning`, `Resume`, `Reconcile`, `JoinTracks`, `Rerun`, `FinishRun`, `Exit` | `run`, `resumeAndRefresh`, `runDualTrack`, `finishSync`, the deferred `wg.Done` |
| `StartFetchOneFeed`, `FetchRunning`, `FetchEnds` | the goroutine of `StartFetchOneFeed` |
| `Cancel`, `ShutdownReturns` | `Orchestrator.Shutdown` |
| `GC` | `gcLocked`, wherever it is called from: any set of finished jobs may have outlived the window |

`ActiveJobs` is the set of a user's unfinished jobs. The code's `ActiveForUser`
answers with the newest of them, which may be a fetch job beside a run; the pill
and the page only ask whether there is one. A handler may still trigger after
the join of a shutdown it has outlived; what such a late start does is not
followed.

`owed`, `latest` and `reruns` are history and a bound. `owed[u]` becomes true
with a manual trigger, or with one that starts a run, and false when a pass
begins.

`SyncRequests.tla` is what a caller may count on: at most one pass per user, a
request that comes during a pass is not served by it, and every request is
followed by a pass that began after it unless the process closes.
`DigestPage.tla` adds an open page (`api/digest.go`), which reads the tracker,
then the database, and polls until no job is active; it also states the
refinement (`Requests == INSTANCE SyncRequests WITH ...`).

### SavesMirror

`SavesMirror.tla` models one user's saves end to end: the records in the PDS,
the `user_saves` index, the three mutation handlers (`api/saves.go`) with
`commitThenMirror`, the listing (`pdslister.go`), and `reconcileCollection` with
the guard, as `reconcileSaves` calls it.

| Module | Code |
| --- | --- |
| `pds` | records by rkey; TIDs grow with time, so a later record has the larger key |
| `saves` | rows by rkey, unique by item URL; `updatedAt` in whole seconds as stored |
| `req` | one mutation in flight per session, which is what the session lock gives |
| `CreateProbe`, `DeleteLoad`, `PatchLoad`, `PatchRead` | a handler's reads before its commit |
| `Commit`, `CommitFails` | the one PDS write; its answer may be lost, which the handler reports as a failure |
| `Mirror` | the row write, or its failure and the repair it asks for |
| `PassBegins`, `ReadBaseline`, `ListPage`, `Apply`, `PassFails` | `reconcileSaves`; `Apply` is the whole transaction |
| `Trigger` | any other request for a sync |
| `OtherClient`, `Tick`, `Crash` | the environment |

`rowsBefore(k)` is the index when the record `k` is written: the upserts go
through the listing newest first, and each is checked against the unique index
in the state the earlier ones left. A content stands for its CID. A record
that fails lexicon validation is skipped by the lister and is outside the model.
`pdsMoved`, `held` and `mirrored` are history about the pass that runs and are
reset with it.

### StandardMirror

`StandardMirror.tla` models one user's Standardfeed subscriptions. Existence is
a `site.standard.graph.subscription` record; title, tags and the primary flag
are a `blue.morgen` sidecar that is made only when there is something to say.

| Module | Code |
| --- | --- |
| `existence`, `sidecars` | the two record collections, by rkey |
| `rows` | `user_subscriptions` of this kind; `updatedAt` in whole seconds |
| `CreateProbe`, `PatchLoad`, `DeleteLoad` | the handlers' first reads (`subscriptions_create.go`, `subscriptions_mutate.go`) |
| `ListExistence`, `ListSidecars` | the preflight of a create, the sweep list of a delete |
| `Commit`, `CommitFails`, `Confirm` | `applyWrites` or the put of a sidecar, and `confirmAtomicWrites` after an ambiguous answer |
| `Mirror` | the row write or the sync it asks for instead |
| `PassBegins`, `ReadBaseline`, `ListMorgen`, `ListStandard`, `Apply`, `ApplyFails` | `tier2ThenTier1` as it bears on this kind, with `deleteFirst` |
| `Cleanup`, `Finish` | `sidecarCleanup`, the only place a pass writes to the PDS |

Abstractions: a listing is one step (its pages are SavesMirror's); title, tags
and flag are one value of `Metas`; a record's publication never changes; a TID
is taken when the write reaches the PDS. The refusals that happen before a
request does anything and the refresh of the publication's `feeds` row are left
out. `ack` is history: the last outcome of a request that nothing overlapped,
and `Unknown` as soon as anything else writes.

### RssMirror

`RssMirror.tla` models one user's RSS subscriptions, where a feed can have
several URLs (`Aliases`): the add, which probes the index for all of them and
commits without a condition; the edit; the unfollow, which deletes the row's
record; the OPML import, which reads repository and index, plans what to create
and what to merge, commits against the repository it read (up to `MaxAttempts`
times) and mirrors only over the row it read; and the pass, which keeps the
oldest record of a feed. `OtherCollection` is a commit elsewhere in the
repository, which fails an import's condition. `Begin` gives each request its
one commit, as the commit gate does. All writes fall into the second of the
pass's snapshot: the guard's use of the clock is SavesMirror's subject.

### FeedPipeline, FeedViews

`FeedPipeline.tla` is one feed of the shared catalog. A post is known by its
guid and a save by the link it was saved under, as in the tables: a fetch that
meets the guid again replaces the link (entries.sql:16), while the library, the
saved flag (`IsSaved`) and the sweep compare links. So a publisher can part a save from its
post, and two posts may share a link.

| Module | Code |
| --- | --- |
| `row`, `entries` | the `feeds` row (ETag, failures, next fetch, sweep mark) and each post's `published_at` and `url` |
| `saved` | a reader's `user_saves`: the `item_url` and, as history, the post it was saved from |
| `Generated` | `undatedHistory`: the feed is one of the server's own, whose undated posts are always a back catalogue |
| `call`, `flight` | calls of `FetchAndStore`, and the fetcher's singleflight with its leader's validators |
| `ReadFeed`, `Fetch`, `Store`, `StoreFails` | `FetchAndStore` up to the fetch, in the flight, and with its answer; a row that cannot be read counts as a feed never fetched. `Batch` is the transaction, in which entries fail one by one |
| `previewItems`, `PreviewCanceled` | the preview dialog, which may lead the flight and be closed |
| `fetchOne` | the publisher's answer: a document, "not modified", or a failure with any Retry-After |
| `FollowBegins`, `FollowEnds`, `Unfollow`, `Save`, `Unsave` | what readers' requests do to the catalog |
| `SweepUnfollowedFeeds`, `Tick` | the sweep; a tick is longer than a fetch or a follow and at most half the grace |
| `Publish`, `Restart` | the environment |

`refused` is history: posts whose own insert failed. `FeedViews.tla` adds the
queries of the source list, a source's page, the digest, the library and a
single post.

### Publication

`Publication.tla` is one standard.site publication: a fetch lists the documents
page by page while the publisher writes, and `Store` makes the cached entries
equal to that listing. `extractReadable` reads the post's page and
`UpdateFeedEntryExtractedBody` stores its text, by the row's id. A document's
revision stands for its CID.

### Newsletter, NewsletterViews

`Newsletter.tla` models `newsletter/ingest.go`, the mutating half of
`newsletter/service.go` and the SQL both use.

| Module | Code |
| --- | --- |
| `receipts`, `sources`, `messages`, `saves` | the four `newsletter_*` tables |
| `StampDelivery`, `AcceptReceipts`, `Refuse` | the SMTP `DATA` handler; the stamp is taken before the transaction |
| `ProcessNext`, `ProcessFails`, `BackoffEnds` | `RunProcessor`, one receipt at a time |
| `CheckSource`, `CheckMove`, `CheckSave` | reads on the reader connection, before the transaction |
| `StopSource`, `EnableSource`, `Move`, `MoveNew`, `DeleteSave`, `WriteFails` | the transactions, which do not repeat those checks |
| `DeleteSource`, `SaveMessage` | one transaction each |
| `Crash` | restart: the session and the requests are lost, the tables stay |

Newsletter routes hold no session lock, so every check may be stale when its
transaction runs; the processor merges its read and its transaction because no
one else touches a receipt. A row id is random in the code; here an id that no
row and no request knows stands for a new one. Stamps have nanoseconds, so each
is used once. Left out: the creation of addresses, titles and tags, permission
for remote images, MIME parsing (a mail has a sender and three sizes). There is
one SMTP session; sessions meet only in the transaction of `AcceptReceipts`,
which is one step, and in the order of stamps and transactions, of which two
overlapping deliveries would have more.
`NewsletterViews.tla` adds the queries of the pages.

History: `stopped` in a receipt is the set of sources stopped at its stamp;
`promised` are the receipts taken while their source, if any, was not stopped;
`late` are the sources a write reached after its check had gone stale.

### WebSource, WebPoll

`WebSource.tla` is everything that decides which generated source a site has:
create requests with their claim, setup slot, budget check, setup, vetting and
store; regeneration of a source others follow; aliases and rekeying onto a
section page; offers, follows and the sweep of unused sources; and the poller's
section check. A setup's verdict and the listing it ends on are any. What it
costs is counted in model calls: up to `SetupCalls` (three votes of the judge
and two rounds of writing a recipe, `webfeed/judge.go`, `induce.go`), none when
the reader gave a post (`SetupAnchored` is handed no model to use) or the budget
was used up. A poll may make one call to check the list and run a setup of its
own to repair it, on one reading of the budget. `PollCut` is a shutdown in the
middle of a poll, which records the repair's cost at most.

`WebPoll.tla` is what polls do to one source: extraction by the recipe in
force, the detector over the last good polls, the weekly look of a model,
repair onto another list, and the alarm, which the code does not store but
derives from three timestamps. In the layout it was made for a recipe finds its
own list; in another, `refind` (`apply.go`) falls back to a list of the same
structure and then to any whose links have the right shape, so it may find any
list or none. The judge rung of a repair reads the page anew. A setup may
replace the source at any moment of a poll; `PollStores` is the transaction that
then finds another `setup_seq`.

### Sessions

`Sessions.tla` models the session row against the authorization server's chain
of single-use refresh tokens: the auth gate, which holds the session lock for a
whole mutating request (`Return` is its deferred unlock); logout, which takes it too; a sync pass, which resumes
under the lock and then keeps a copy; sign-in from `StartAuthFlow` to
`Callback`, and the GC of abandoned sign-ins. A sign-in that is not admitted is
stored and then logged out, which may fail and leave the row; a resume may fail
while the row is there. The OAuth client library is
external. A refresh may fail before or after it took effect, and the process
may die between a refresh and its save: the row and the token then part
(`strayed`).

### Server

`Server.tla` models what `NewServer` assembles and how it stops: HTTP requests,
orchestrator jobs, background loops, SMTP connections under
`SMTP_MAX_CONNECTIONS`, the database handle, and the goroutine that keeps the
mail listener's certificate. `Cleanup` goes through the parts in the code's
order; `Overdue` is the deadline, after which a part is left behind. A mail that
is being stored when the listener closes is left behind too: `Data` runs under
`context.Background()` (smtp.go:154) and nobody waits for it.

## Runs

| Run | Bounds | Shows |
| --- | --- | --- |
| `SyncEngine` | 1 user, 2 sessions, 2 jobs, 1 replanned pass, 1 page | the engine implements `SyncRequests`, fairness included; pill, failure notice and page. Users share only GC and the WaitGroup. The invariants are also proved, for any number of jobs; three jobs, where a failure, a later success and a run in progress meet, take TLC too long with the page. |
| `SavesMirror` | 2 sessions, 2 items, 2 tag lists, 2 notes, 2 records, 2 requests, 1 foreign write, 2 clock values | what a pass may do. Two records suffice for a page boundary and for the unique index, two requests for a mirror write that overtakes another, two clock values for a write in the snapshot's own second and one after it, the second note for an edit of another client. |
| `StandardMirror` | 2 sessions, 1 publication, 2 records of each kind, 2 requests, 1 foreign write, 2 clock values | what a pass and its cleanup may do. Publications do not meet except in a commit that fails; two records of a kind are a duplicate, which is what the canonical and the newest rule choose between. |
| `RssMirror` | 2 sessions, 2 feeds of which one has the other as alias, 1 tag, 2 records, 2 requests, 1 foreign commit | what the pass repairs and what an import leaves alone. Two records are a duplicate or two feeds; a foreign commit fails an import's first attempt, or re-points a record. |
| `Newsletter` | 1 reader, 2 requests, 2 mails of one sender, 2 sources, 2 messages, 2 saves, 3 stamps | every order of deliveries, processing and the reader's requests. Two requests give a stale check; three stamps give mail before, at and after an enable; the large mail's parsed form would pass the limit. |
| `NewsletterQueue` | 2 readers, no requests, 1 large mail, 3 deliveries, 1 failure | the queue drains, at limits that refuse the next delivery |
| `FeedPipeline` | 2 fetches, a preview, 1 post given day 1 and one link or day 2 and another, 2 documents, ticks to 3, grace 2, ladder of 1 step | what pages show while fetches overlap, and what a reader keeps when a post they saved gets another link, is unfollowed and swept. Posts meet in a transaction that treats them alike and in a link two of them share; the proofs, which remove the bounds, cover that, a post without a date and a longer ladder. Two documents give a stale answer stored last; three ticks pass the grace once. |
| `Publication` | 2 fetches, 1 extraction, 2 documents on 2 pages, one of them without a page of its own, 2 revisions | no listing drops what stayed; the cache converges. A document on each page is what a torn listing needs. |
| `WebSource` | 2 readers with 2 requests, 2 listings, 2 sources, 1 slot, caps of 1, setups of 1 call, 2 generations or polls, a source of an older version | keys, vetting and the daily cap while two setups and a poll overlap |
| `WebPoll` | 2 lists, 2 layouts, history of 2 polls, a look every 2 ticks, 1 regeneration, ticks to 4 | alarms and polls. Four ticks allow a look, the look due after it and a repair between; the second list is what a repair or a doubt is about. |
| `Sessions` | 2 requests and a pass, 1 session, 1 sign-in, 3 tokens, 1 call per request | a token used, spent and replaced twice under every overlap of three users of one session. Sessions meet nowhere: rows, locks and chains are per session. |
| `Server` | 1 request, 1 job, 2 loops and the processor, 1 connection at a limit of 1 | each kind of part working, idle and hanging at every point of the shutdown |

`CHECK_DEADLOCK FALSE` in SyncEngine and Server, because shutdown ends the
process; in the three mirrors, because the bounds on requests and the clock do;
in Sessions, because its tokens run out. The others can always go on: a crash,
a tick or a reader's step is possible.

Fairness.

* SyncEngine: weak fairness of each goroutine's next step. Go schedules a
  runnable goroutine, and every call a pass makes ends, because it runs under a
  context of five minutes and the fetcher has timeouts of its own. Triggers, GC
  and shutdown are not fair. `MaxReruns` bounds how often triggers ask for a
  further pass; without it a client that triggers for ever keeps a run going
  for ever, which the code allows.
* NewsletterQueue: weak fairness of the processor, which `RunProcessor` wakes
  every five seconds, and of the end of each backoff, which is a time that
  passes. Failures are bounded: a receipt that fails for ever stays for ever in
  the code too. Deliveries, requests and crashes are not fair.
* Publication: a fetch starts again (weak fairness: the global refresh runs on a
  timer), and its page reads and its transaction succeed if they are tried again
  and again (strong fairness: restarts and failures come between). The
  publisher's revisions are bounded, so it is done writing at some time.
* Sessions: every task takes its next step, and a mutex is given to a waiter
  that keeps waiting (strong fairness; Go's mutex goes to its waiters after a
  millisecond). What the authorization server answers is not fair.
* Server: the deadline passes, cleanup goes on, an ended process is started
  again (weak). An attempt at a certificate succeeds if it is repeated for ever
  (strong: crashes come between); the maintainer retries without end.

## What the properties say

SyncEngine, DigestPage: `ServesRequests` (the refinement: the in-flight guard,
no trigger lost or served by a pass already begun, and each followed by its
pass); `PillCoversWork` (while a run works, its job is among the active ones, of which
the jobs list reports the newest, and is the latest sync; GC and old failures
cannot hide it); `LastSessionServed` (a run's last pass uses the last
trigger's session); `FailureRetained` (an unresolved failure outlives GC and
only that); `FinalPageIsComplete` (a page that says no job is active misses
nothing an earlier job brought).

SavesMirror: `QuietPassConverges` (a pass that commits while nothing moves
makes the index equal to the PDS, whatever went wrong before), `NoSaveVanishes`
(a pass never deletes a row whose record was there throughout, whatever else is
created and deleted between pages), `StaleListingSparesMirror` (a pass leaves a
row that changed since its baseline alone), `NotesAreKept` (the CID swap).

StandardMirror: `QuietPassApplies` (`deleteFirst` makes room, whatever
duplicates there are); `DeleteSweepsDuplicates` (after an acknowledged delete
that nothing overlapped, no record of the publication is left to bring it
back); `CleanupKeepsNewest` (the cleanup, which acts on listings, takes no
sidecar in use; it holds only while no record moves, and the guard says so).

RssMirror: `QuietPassConverges` (one row per feed, that of its oldest record);
`ImportsOnlyMerge` (an import adds a record only for a feed without one and
otherwise only adds tags, whoever commits between its reads and its commit).

FeedPipeline, FeedViews: `FollowedStays` (the sweep never takes a feed that is
followed or about to be); `StatusIsTrue` (a listed source that waits has no
posts, one that is ready shows what its validators vouch for, one that is
unavailable is tried again soon; a late failure may mark a feed that was since
fetched well, and an entry whose own insert failed is not counted);
`ReadablePostsStay` (no step but the reader's own takes a post off a page, and
none takes a save's reader link away but the publisher, by giving the post
another link); `NeverResurfaces` (no post moves to a later digest).

Publication: `SteadyDocsStay` (no fetch drops a document that was there
throughout), `CacheConverges` (once the publisher stops, the cache equals the
publication for good).

Newsletter, NewsletterViews: `StorageWithinQuota`; `StoppedKeepsSaved` (a
stopped source holds saved messages only, except sources in `late`: a move
checked before a stop puts an unsaved message under a stopped source);
`SavedStaysInLibrary` (a saved issue is listed until that save is removed);
`NothingIsStranded` (what is stored can be come to); `BacklogStaysOut` (mail
that came while a source was stopped is never filed under it);
`AcceptedMailFiled` (answered mail from a sender who is not stopped is filed,
unless an enable came between); `QueueDrains`.

WebSource: `KeysStay` (a listing key never finds another source while its own
exists), `ReplacedOnlyOnceVetted` (a list others followed is replaced only once
the model agreed), `DailyCapHolds` (a reader's sources of a day stay within the
cap, which is read before a setup and counted after it). `SpendIsBounded` (the
recorded spend passes the budget by no more than what was already running: a
setup for each reader, a poll's check and its repair) is a theorem, which TLC
confirms outside the runs: `WebSpend.cfg` has 2 readers, 2 slots, a budget of 1
call and setups of 2 calls, and reaches the bound of 7, when both readers'
setups, the poll's check and its repair all read an empty account.

WebPoll: `AlarmIsTheDoubt` (the three timestamps encode exactly the looks that
nothing has answered), `DoubtedRecipeWaits` (while a look's doubt stands nothing
that the doubted recipe extracts is published on the word of polls that trust
it), `PollsAreOfThisSetup` (nothing a poll of an
older setup found is stored under the newer).

Sessions: `RowHoldsTheGoodToken`, `ValidUserIsNotBooted` (a spent token is
presented only after row and chain have parted, or by a pass with its copy),
`RequestsDoNotRevive` (no request brings back a row that a logout deleted),
`RequestsAreAnswered`.

Server: `ClosedMeansQuiet` (a database closed in time is closed under no request,
job or loop; mail being stored when the listener closed is excepted),
`ShutdownEnds`, `SplitPairHeals` (a certificate that does not match its key is
replaced sooner or later, across restarts).

## What the code does not do

Fourteen sentences of the repository that the models refute. Each has a property
that states it; TLC finds the counterexample with the named `.cfg`, which is as
small as the case allows. Where the config is that of a run (marked *), check
the property in place of the run's own. These are not among the runs, which all
pass.

| Config, module | Property | What the repository says, and what happens |
| --- | --- | --- |
| `SavesLostReply`, MCSavesMirror | `FailureMeansNothingCommitted` | LAWS.md:7: a reported failure always means nothing was committed. A lost answer is reported as a failure. (The Standardfeed path confirms an ambiguous `applyWrites`; single-record commits do not.) The same lost answer, or a second device, can leave two records of one item, which the pass reduces to one row. |
| `SavesResurrect`, MCSavesMirror | `DeletedStaysDeleted` | reconcile_test.go:174: a stale listing must not bring a deleted row back. It does when the row was created after the baseline; the next quiet pass removes it again. |
| `SavesRekeyed`, MCSavesMirror | `RekeyedRecordsVacate` | reconcile.go:43: `deleteFirst` is required where another unique index exists. `user_saves` has one and the saves pass does not set it, so a save that another client deletes and makes again fails this and every later pass. |
| `StandardLostEdit`, MCStandardMirror | `LatestEditSurvives` | reconcile_subscriptions.go:132: the newest sidecar wins so that the latest edit survives. A sidecar is edited in place, so the newest record need not hold the latest edit. Two devices, or one with two lost answers, make two; the row may name the older one. |
| `RssRepointed`, MCRssMirror | `RepointedFeedsApply` | reconcile.go:43: a rekeyed record must vacate before its replacement upserts. When another client exchanges the feeds of two records, both rows are kept, neither vacates, and the pass fails until the records change again. |
| `RssDuplicate`, MCRssMirror | `UnfollowLeavesNoRecord` | subscriptions_mutate.go: the delete tombstones the PDS record(s). For RSS it deletes the row's own record; a duplicate of the feed, from two devices or a lost answer, brings the subscription back at the next pass. |
| `NewsletterReenabled`, MCNewsletter | `ActiveMailReadable` | SPEC.md:132: mail delivered while a source is active remains readable. An enable of an active source moves `accept_after`, and the processor drops what was accepted before it. |
| `NewsletterRevived`, MCNewsletter | `DeletedStaysStopped` | queries/newsletters.sql:116: a deleted source stays a hidden stopped row. An enable checked before the delete makes it active. |
| `FeedCanceled`, MCFeedPipeline | `OnlyOwnCancel` | feedpipeline.go:132: `context.Canceled` means the caller gave up. A preview that leads the flight and is closed cancels the syncs that share it; they retry at their next turn. |
| `FeedPipeline`*, MCFeedPipeline | `SavedEntryKeepsItsFeed` | sweep.sql:12: a saved entry keeps its feed, since the library reads a save's reader link from it. The sweep compares the save's link with the entry's present one, which a fetch may have replaced (entries.sql:17): the post goes with its feed once that is unfollowed, and the library shows the save without its reader link as soon as it is re-linked. |
| `PublicationText`, MCPublication | `TextFollowsRevision` | entries.sql.go:357: a CID change must reset the cached readability body. An extraction that began before the change stores the old text after it, and it stays until the next change. |
| `LogoutRevived`, MCSessions | `LogoutIsFinal` | flow.go: logout holds the lock so that a persist cannot resurrect the row it deleted. A pass persists a rotated nonce without the lock. |
| `WebSource`*, MCWebSource | `SpendIsRecorded` | service.go:55: `ModelDailyUSD` caps model spend over any 24 hours across all sources. A poll that a shutdown ends records its repair's cost but not its check's, and one that was through with its calls fails to be stored, cost and all; a crash between a setup and its store loses that setup's. A setup that fails records what it cost, and one for a reader's post costs nothing. |
| `WebPoll`*, MCWebPoll | `AnsweredByAnother` | service.go:792: an alarm is answered by a repair that left the doubted list for another. A repair compares with what its own poll extracted; when a redesign has moved the recipe onto another list, the repair may go back to the doubted one, and the alarm is closed. |

## What is proved

The proof modules rest only on the named assumptions of the modules they are
about: `SyncAssumption` (there is a user, the empty session id is no session,
bounds are naturals), `ReaderAssumption` (the page is a user's),
`MirrorAssumption` (the initial tags and note are values, the bounds are
naturals, `Absent` is no record or row), `NewsletterAssumption` with
`NoRowIsNone` (sizes and bounds are naturals, readers are finitely many, `None` is no row and
no id), `FeedPipelineAssumption` with `ItemsAssumption` and its `NoRowIsNone` (the ladder
ascends, the grace is two ticks or more, `Generated` is a truth value, a post's
date is a time and its link one of `Urls`, `None` is no row, entry or call), `ServerAssumption`,
`SessionsAssumption`, `StandardAssumption`, `WebPollAssumption` with
`NoneIsNoRecord` (bounds and delays are naturals, the marks are no list),
`RssAssumption` (aliases are feeds, bounds are naturals, `Absent` is no record),
`PublicationAssumption` with `NoRecordIsNone` (every document is on a page,
`None` is no record and no entry), and `WebSourceAssumption` with
`LegacyAssumption` (readers are finitely many, limits are naturals, there is a
slot, a setup may make a call, a stored
source's health is no better than its setup, which setups and polls both
ensure, and one that counts against its reader had room). Three modules are
proved about in a file that another gave its name to: RssMirror in `FeedProofs`,
Publication in `StandardMirrorProofs`, Sessions in `ServerProofs`. What their
names would have in common with the other's begins with `Rss`, `Publication`
and, in `Server`, `Server`.

*SyncEngine* (`SyncEngineProofs`). No property is inductive alone. `IInv` adds:
ids not yet given out are untouched (`FreshIds`); a working goroutine is its
user's active run, and that run's job is tracked, unfinished and the newest
(`RunsAreActive`); the session of a pass is set exactly between the top of the
loop and the decision, and a debt is covered by a pass not yet begun or a
planned one (`PassesAreScheduled`); `syncFailures` is the newest finished job
exactly if it failed (`FailuresAreTracked`). The invariants follow from it in
one step; the action properties from it and one case per action. Beyond the
run's properties: `OneRunPerUser`, `NoLostTrigger`, `DoneMeansFresh` (done needs
three commits of one pass, younger than the last manual trigger) and
`FinishedIsFinal`.

*Digest* (also `SyncEngineProofs`). `EngineImplementsRequests`: every step of the engine
is a step of `SyncRequests` or leaves its variables alone. `IInv` gives what
`Begin` needs: a user's pass is the pass of the active run, and one that begins
finds none at work (`InPass`). `FinalPagesAreComplete`: `PageInv` says that of
the jobs that were there when a final page was asked for, none of its reader's
is still at work; sampling before listing is what makes it inductive, since
entries are read when those jobs have already ended. The liveness part of
`ServesRequests` is model-checked.

*SavesMirror* (`SavesMirrorProofs`). `IInv` adds: no time is in the future
(`Clocked`); a request knows an existing key and a read record
(`RequestsAreFounded`); what has been listed is what the PDS holds at and above
the cursor, unless a record moved (`ListingIsFaithful`); unless a row was
mirrored the index is the baseline and no row is younger than the snapshot
(`BaselineIsCurrent`). The lemma `AfterApply` gives the index after the
transaction row by row, and `ApplyKeepsUnique` that a transaction that refuses
nothing keeps the items unique: of two rows, the one written last was checked
against the other.

*FeedPipeline* (`FeedProofs`). All four properties of its run, and
`StoredIsVouchedFor`: validators vouch for stored posts only. `IInv` says why a
row is still there when it is needed. The feed of a reader, of a call or of a
follow under way is in the catalog and its mark, if any, too young for the
sweep (`UsedFeedsAreFresh`; this is where the grace of two ticks is used); so
the sweep deletes only when nobody is at work on the feed
(`SweepTakesTheUnused`) and no stored post has a saved link, and any other step
keeps every post and moves no date later (`Kept`); a link changes only as
`Relinked` says. Validators therefore stay vouched for wherever they are carried:
in the row, in a call, in a flight (whose leader is still waiting,
`FlightsAreLed`) and in an answer of "not modified" (`Vouching`).

*Newsletter* (`NewsletterProofs`). `IInv` adds: a stamp names the receipts of
one delivery (`StampsAreUsedOnce`); the rows a request has checked are its
owner's as long as they last (`RequestsAreFounded`), which lets a sweep for the
request's owner reach the row a move emptied; a source that was stopped at a
receipt's stamp is still stopped, gone, or enabled later than the stamp
(`StopsAreRemembered`); a deleted row has no key and is stopped unless a stale
enable reached it (`DeletedRowsAreHidden`); while a promise stands its sender's
source is active (`PromisesHold`). `RowsEvolve` says in how few ways a
transaction changes rows, and carries the uniqueness of keys, the requests and
the memory of stops through all of them; the parts about stopped and deleted
sources (`Housekeeping`) are shown transaction by transaction. `StopSource`
sweeps no rows, and the proof shows why it need not: a hidden row that is not in
`late` is stopped, so it holds saved messages, which a stop keeps. Beyond the
run's properties: `HiddenRowHoldsMessage` (a deleted source's row goes with its
last message) and `SaveEndsByUnsave` (no stop, move, sweep or cascade removes a
save). Two properties of the pages follow from these: `SavedStaysInLibrary`,
since a save keeps its message and the library asks for neither source nor
state, and `NothingIsStranded`, since a hidden row's messages are saved ones.

*Newsletter storage* (also `NewsletterProofs`). A sum over rows is a recursion
over data, which the prover does not have, so the model counts bytes instead: a
row's bytes are the row paired with each of its places, and what an owner or the
server stores is the cardinality of the union. `Fits` is `StorageWithinQuota`
with the two sets of bytes finite. `AcceptReceipts` adds one reservation for
each recipient, which its guard has made room for (`AcceptFits`);
`ProcessNext` exchanges a receipt's bytes for a message's, which are no more
because a parsed form that passes the reservation is replaced by the fallback
(`SizesFit`, `ProcessFits`); every other step only takes rows away or changes
what they do not weigh by (`EvolvingShrinks`).

*Sessions* (`ServerProofs`). Everything rests on the lock. `LockKept` says that
whoever is past it holds it, except a pass that has its copy and let go;
`TokensAgree` that, unless row and chain have parted, the holder's copy is the
good token and the row has it too or is about to; `RowsKnown` that a request
about to store found a row, which only another logout could have deleted and
the lock rules out. The parting itself is not assumed away: it is `strayed`,
and the theorems say what holds outside it.

*StandardMirror* (`StandardMirrorProofs`). As in SavesMirror the listing is the
repository and the baseline the index while nothing moves (`PassKnows`), but the
unique index and the sidecars need more: a key stands for one publication
wherever it is mentioned, in a record, a row, a listing or a request
(`OnePubPerKey`), so that two rows of a publication have different keys and the
later vacates; and a delete that nothing overlaps has swept every record of its
publication when it is acknowledged (`DeletesSweep`). `QuietPassApplies` is then
that of two rows for one publication at most one is in the desired set, and the
other goes first. Beyond the run's properties: `QuietPassConverges` (the index
is exactly what records and sidecars ask for) and `StaleListingSparesMirror`.
The newest of a nonempty set of keys exists by well-founded induction, cited
from the library.

*RssMirror* (also `FeedProofs`). `RssInv` has the listing and the baseline as in
SavesMirror (`PassKnown`); the transaction deletes first, so nothing is refused
and the pass leaves one row per feed, that of the oldest record. What an import
relies on is `RightlyNew`: if it found no record of a feed and the head it has
read has not moved, there is none. A commit by anybody else moves it, and the
import's own then fails; `ImportsOnlyMerge` is what that leaves. Beyond
the run's properties: `StaleListingSparesMirror`, as in SavesMirror.

*Publication* (also `StandardMirrorProofs`). `PublicationInv` relates the pages
a fetch has read to what stays in the repository meanwhile (`SteadyIsSeen`): a
document that is steady and on a page already read has been seen. When the last
page is read every steady document has, so the diff drops none of them.

*WebSource* (`WebSourceProofs`). `TablesOK` says that a key finds at most one
source: rows differ in their keys and a row's key is nobody's alias. Each way of
changing the tables is a lemma (`RowAdded`, `AliasAdded`, `RowMoved`, `RowsGone`)
that keeps it and keeps every answer (`Hold`), which is `KeysStay`; `rekey`
needs its check that nobody else answers to the new key for both. A request
relies on its source lasting as long as it does (it was stamped when it was
found, and the sweep's grace is longer than a request) and on its setup only
getting better (`RequestFounded`); so a post that was no better than what it was
vetted against is no better than what it meets at the store, and replaces
nothing: `ReplacedOnlyOnceVetted`. The caps rest on `OneClaim`, that a reader
has one request past the claim: the room it found is then still there when its
source is stored (`UnderCap`), and what may still be charged is counted by
readers (`WithinBudget`: what is spent, a setup's calls for each reader who may
still be charged, and what the poll may cost stay within the bound). A request
exchanges what it was allowed for what it is charged (`FewerReaders`: a reader
less is worth a setup's calls less); who asks while the budget is left starts
below the bound however many others do. What is spent unrecorded (`SpendIsRecorded`)
is outside the bound.

*WebPoll* (`WebPollProofs`). The alarm is derived from three timestamps, so the
invariant is about time: a poll at work is later than everything stored, and
its row is the row unless a setup replaced it (`PollKnown`); the weekly repair
is no later than the setup or the last poll (`WeeklyPast`); an outcome about to
be stored has asked, answered and repaired consistently (`OutKnown`); the
doubted list is the recipe's (`DoubtIsOurs`). With those `AlarmIsTheDoubt` is
inductive: each way of storing an outcome moves exactly the timestamps that
keep the encoding true. `DoubtIsHeeded` rests on the same invariant: a poll that
stores while the doubt stands began with the alarm open (`PollKnown`), so what
it publishes was found healthy or is not what it extracted (`OutKnown`).

*Server* (also `ServerProofs`). `ClosedInTimeIsQuiet`. `InOrder` says what has ended
by the time cleanup is at each phase, if it is in time: requests first, because
they start jobs, then the processor, then jobs; the other loops end before the
database closes, which is the last step.

Only model-checked: every liveness property (`QueueDrains`, `CacheConverges`,
`RequestsAreAnswered`, `ShutdownEnds`, `SplitPairHeals`) and the fairness half
of the refinement, which are beyond the prover; and the counterexamples.

## Not modelled, and why

* Profile cache: an LRU of public profiles. A refresh and an older load may
  store in either order; the entry expires soon and nothing depends on it.
* Rate limits and upstream cool-down: token buckets over real time from a
  library, and one timestamp.
* Feed discovery and parsing (`feedfinder`, `sitesection`, `webfeed`'s
  heuristics): pure functions of pages. What a setup yields is a choice in
  WebSource; in WebPoll so is what a repair picks and, once the layout has
  changed, what a recipe finds, while in its own layout it finds its own list.
* Identity, secrets and clients: calls to other services without state of
  their own.
* In the feed pipeline, the worker pool and per-host semaphore, which one feed
  never fills, and icons. In newsletters, addresses, titles, tags,
  remote-image permission and MIME. In the database layer, connection set-up,
  settings, and queries of pure listings.
* `CreateOrReturnExisting` of the job tracker, which has no caller in the server.
* The frontend and the command-line tools.

## Plan

Done: every component above that has a module, and proofs of the safety
properties of all of them.

Left:

1. The fetcher's worker pool and per-host semaphore with several feeds.
