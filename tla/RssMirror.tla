----------------------------- MODULE RssMirror -----------------------------
(***************************************************************************)
(* One user's RSS subscriptions: the blue.morgen.feed.subscription records *)
(* in the user's PDS, which own them, and the rows of user_subscriptions   *)
(* derived from them.                                                      *)
(*                                                                         *)
(* Adding, editing and removing a subscription                             *)
(* (internal/api/subscriptions_create.go, subscriptions_mutate.go) commit  *)
(* without a condition; an import (subscriptions_import.go) commits only   *)
(* against the repository it read, and mirrors only over the row it read   *)
(* (internal/database/subscription_import.go).  A sync pass                *)
(* (internal/sync/reconcile_subscriptions.go) keeps one record per feed,   *)
(* the one with the smallest key, and replaces the index in a transaction  *)
(* that deletes first.                                                     *)
(*                                                                         *)
(* Locks and passes are those of SavesMirror, which also keeps the clock:  *)
(* here every write falls in the second of the pass's snapshot, where      *)
(* updated_at tells nothing.  Publications are the subject of              *)
(* StandardMirror: the two kinds share the table, not a row.               *)
(*                                                                         *)
(* FeedProofs proves about this module and FeedPipeline together, so the   *)
(* names both would have begin with Rss here.                              *)
(***************************************************************************)
EXTENDS Naturals, FiniteSets

CONSTANTS
    Sessions,      \* the user's signed-in devices
    Feeds,         \* feed URLs
    Aliases,       \* the other URLs that serve the same feed
    TagNames,      \* what a tag list may hold
    NewTags,       \* the tag lists an add or an import comes with
    Absent,        \* no record, no row
    MaxRkey,       \* bound: records ever created
    MaxRequests,   \* bound: requests ever begun
    MaxExternal    \* bound: commits by other clients

Rkeys == 1..MaxRkey      \* TIDs: a later record has the larger key
MaxAttempts == 3

Record == [feed : Feeds, tags : SUBSET TagNames]
Repo == [Rkeys -> Record \cup {Absent}]
Index == Repo   \* a row keeps all that is kept here of a record

ASSUME RssAssumption ==
    /\ Aliases \in [Feeds -> SUBSET Feeds]
    /\ {MaxRkey, MaxRequests, MaxExternal} \subseteq Nat
    /\ NewTags \subseteq SUBSET TagNames
    /\ Absent \notin Record

VARIABLES
    pds,       \* the records by rkey
    subs,      \* user_subscriptions rows by rkey
    nextRkey,  \* the key of the next record
    req,       \* the mutation each session has in flight
    pass,      \* the sync pass
    wanted,    \* a trigger no pass has begun after
    begun,     \* counter for MaxRequests
    external,  \* counter for MaxExternal
    pdsMoved,  \* history: a record changed since this pass began
    mirrored   \* history: the rows mirrored since this pass began

history == <<pdsMoved, mirrored>>
rssVars == <<pds, subs, nextRkey, req, pass, wanted, begun, external,
             pdsMoved, mirrored>>

Request == [pc : {"idle", "snapshot", "head", "listing", "committing",
                  "mirroring"},
            op : {"create", "patch", "delete", "import"},
            rkey : Rkeys \cup {0},
            feed : Feeds \cup {Absent},
            tags : SUBSET TagNames,
            local : [rkey : Rkeys, row : Record] \cup {Absent},  \* importSnapshot
            moved : BOOLEAN,               \* the head is no longer the one read
            read : Record \cup {Absent},   \* the record found; its CID
            attempt : 1..MaxAttempts,
            rekeyed : BOOLEAN]

Pass == [pc : {"idle", "baseline", "listing", "applying"},
         baseline : Index,
         cursor : 1..(MaxRkey + 1),
         listed : Repo]

IdleReq == [pc |-> "idle", op |-> "create", rkey |-> 0, feed |-> Absent,
            tags |-> {}, local |-> Absent, moved |-> FALSE, read |-> Absent,
            attempt |-> 1, rekeyed |-> FALSE]
Empty == [k \in Rkeys |-> Absent]
IdlePass == [pc |-> "idle", baseline |-> Empty, cursor |-> MaxRkey + 1,
             listed |-> Empty]

Rows(table) == {k \in Rkeys : table[k] # Absent}

(* The primary key is (did, rkey); (did, feed_url) is unique as well.      *)
UniqueFeeds(index) ==
    \A j, k \in Rows(index) : index[j].feed = index[k].feed => j = k

RssTypeOK ==
    /\ pds \in Repo
    /\ subs \in Index
    /\ UniqueFeeds(subs)
    /\ nextRkey \in 1..(MaxRkey + 1)
    /\ \A k \in Rkeys : k >= nextRkey => pds[k] = Absent /\ subs[k] = Absent
    /\ req \in [Sessions -> Request]
    /\ pass \in Pass
    /\ wanted \in BOOLEAN
    /\ begun \in 0..MaxRequests
    /\ external \in 0..MaxExternal
    /\ pdsMoved \in BOOLEAN
    /\ mirrored \in SUBSET Rkeys

RssInit ==
    /\ pds = Empty
    /\ subs = Empty
    /\ nextRkey = 1
    /\ req = [s \in Sessions |-> IdleReq]
    /\ pass = IdlePass
    /\ wanted = FALSE
    /\ begun = 0
    /\ external = 0
    /\ pdsMoved = FALSE
    /\ mirrored = {}

-----------------------------------------------------------------------------
(* The index.                                                              *)

UpsertableAlways(index, k, feed) == TRUE   \* mutant: no unique index
Upsertable(index, k, feed) ==
    \A j \in Rows(index) \ {k} : index[j].feed # feed

Upsert(index, k, feed, tags) ==
    [index EXCEPT ![k] = [feed |-> feed, tags |-> tags]]

(* GetUserSubscriptionByFeedURL, as the import keeps its answer.           *)
rowOf(feed) ==
    IF \E k \in Rows(subs) : subs[k].feed = feed
    THEN LET k == CHOOSE k \in Rows(subs) : subs[k].feed = feed
         IN  [rkey |-> k, row |-> subs[k]]
    ELSE Absent

sameFeedURLs(feed) == {feed} \cup Aliases[feed]

-----------------------------------------------------------------------------
(* Requests.                                                               *)

Begin(s, r) ==
    /\ req[s].pc = "idle"
    /\ begun < MaxRequests
    /\ begun' = begun + 1
    /\ req' = [req EXCEPT ![s] = r]
    /\ UNCHANGED <<pds, subs, nextRkey, pass, wanted, external, history>>

(* The handler moves on to r: it returns when r is idle, and the session's *)
(* lock is released.                                                       *)
Continue(s, r) ==
    /\ req' = [req EXCEPT ![s] = r]
    /\ UNCHANGED <<pds, subs, nextRkey, pass, wanted, begun, external,
                   history>>

(* POST /api/subscriptions: a row at any URL of the feed is the answer.    *)
CreateProbe(s) ==
    \E f \in Feeds, t \in NewTags :
        /\ \A g \in sameFeedURLs(f) : rowOf(g) = Absent
        /\ Begin(s, [IdleReq EXCEPT !.pc = "committing", !.op = "create",
                        !.feed = f, !.tags = t])

(* PATCH /api/subscriptions/{rkey}: new tags, or another feed that no      *)
(* other row holds (the Shorts toggle); the record is rebuilt from the row.*)
PatchLoad(s) ==
    \E k \in Rows(subs), f \in Feeds, t \in SUBSET TagNames :
        /\ f # subs[k].feed \/ t # subs[k].tags
        /\ Upsertable(subs, k, f)
        /\ Begin(s, [IdleReq EXCEPT !.pc = "committing", !.op = "patch",
                        !.rkey = k, !.feed = f, !.tags = t])

DeleteLoad(s) ==
    \E k \in Rows(subs) :
        Begin(s, [IdleReq EXCEPT !.pc = "committing", !.op = "delete",
                                 !.rkey = k, !.feed = subs[k].feed])

(* POST /api/subscriptions/import, one source of its batch.  Each attempt  *)
(* reads the local row, then the head, then the records.                   *)
ImportBegins(s) ==
    \E f \in Feeds, t \in NewTags :
        Begin(s, [IdleReq EXCEPT !.pc = "snapshot", !.op = "import",
                                 !.feed = f, !.tags = t])

ImportSnapshot(s) ==
    /\ req[s].pc = "snapshot"
    /\ Continue(s, [req[s] EXCEPT !.pc = "head", !.local = rowOf(req[s].feed)])

ReadHead(s) ==
    /\ req[s].pc = "head"
    /\ Continue(s, [req[s] EXCEPT !.pc = "listing", !.moved = FALSE])

(* existingImportSubscription: the record with the smallest URI.           *)
existing(feed) == {k \in Rows(pds) : pds[k].feed \in sameFeedURLs(feed)}

(* What the request leaves in the PDS, and then in the row.                *)
Desired(r) ==
    IF r.op = "import" /\ r.read # Absent
    THEN [r.read EXCEPT !.tags = @ \cup r.tags]
    ELSE [feed |-> r.feed, tags |-> r.tags]

Creates(r) == r.op = "create" \/ (r.op = "import" /\ r.read = Absent)

(* The request once its commit is answered: what is left is the row.       *)
Mirroring(r, k) ==
    [IdleReq EXCEPT !.pc = "mirroring", !.op = r.op, !.rkey = k,
                    !.feed = Desired(r).feed, !.tags = Desired(r).tags,
                    !.local = r.local]

(* The source is new, or is merged into the record found.  A record at     *)
(* another URL of the feed starts the attempt over with that URL, once.    *)
ImportList(s) ==
    LET r == req[s]
        found == existing(r.feed)
    IN  /\ r.pc = "listing"
        /\ \/ /\ found = {}
              /\ Continue(s, [r EXCEPT !.pc = "committing", !.rkey = 0,
                                       !.read = Absent])
           \/ \E k \in found :
                /\ \A j \in found : k <= j
                /\ IF pds[k].feed # r.feed /\ ~r.rekeyed
                   THEN Continue(s, [r EXCEPT !.pc = "snapshot",
                                !.feed = pds[k].feed, !.rekeyed = TRUE,
                                !.local = Absent, !.moved = FALSE])
                   ELSE LET m == [r EXCEPT !.pc = "committing", !.rkey = k,
                                    !.read = pds[k], !.moved = FALSE]
                        IN  Continue(s, IF r.tags \subseteq pds[k].tags
                                        THEN Mirroring(m, k) ELSE m)

(* An import's commit names what it read: the head for a new record, the   *)
(* CID of the one it changes, which stands for the content.                *)
(* Mutants: CreateRecord and PutRecord, unconditional; the CID alone.      *)
SwapHoldsAlways(r) == TRUE
SwapHoldsByCID(r) == r.op = "import" /\ r.read # Absent => pds[r.rkey] = r.read
SwapHolds(r) ==
    r.op = "import" => IF r.read = Absent THEN ~r.moved
                                          ELSE pds[r.rkey] = r.read

(* Every commit moves the head that imports have read.                     *)
HeadMoves(reqs) ==
    [s \in Sessions |->
        IF /\ reqs[s].op = "import" /\ reqs[s].read = Absent
           /\ reqs[s].pc \in {"listing", "committing"}
        THEN [reqs[s] EXCEPT !.moved = TRUE] ELSE reqs[s]]

RecordsMove == pdsMoved' = (pass.pc # "idle") /\ UNCHANGED mirrored
ForgetPass == pdsMoved' = FALSE /\ mirrored' = {}

(* The commit goes through and its answer arrives, or the answer is lost   *)
(* and the request reports a failure.  A put of a record that is gone      *)
(* brings it back.                                                         *)
Commit(s) ==
    LET r == req[s]
        k == IF Creates(r) THEN nextRkey ELSE r.rkey
    IN  /\ r.pc = "committing"
        /\ SwapHolds(r)
        /\ Creates(r) => nextRkey <= MaxRkey
        /\ pds' = [pds EXCEPT ![k] = IF r.op = "delete" THEN Absent
                                                        ELSE Desired(r)]
        /\ nextRkey' = IF Creates(r) THEN nextRkey + 1 ELSE nextRkey
        /\ \/ req' = HeadMoves([req EXCEPT ![s] = Mirroring(r, k)])
           \/ req' = HeadMoves([req EXCEPT ![s] = IdleReq])
        /\ RecordsMove
        /\ UNCHANGED <<subs, pass, wanted, begun, external>>

(* InvalidSwap: the import reads everything again, three times at most.    *)
SwapRefused(s) ==
    LET r == req[s]
    IN  /\ r.pc = "committing"
        /\ ~SwapHolds(r)
        /\ \/ /\ r.attempt < MaxAttempts
              /\ Continue(s, [r EXCEPT !.pc = "snapshot", !.read = Absent,
                                       !.rkey = 0, !.local = Absent,
                                       !.moved = FALSE, !.attempt = @ + 1])
           \/ /\ r.attempt = MaxAttempts
              /\ Continue(s, IdleReq)

(* A read or the commit fails: nothing is committed.                       *)
RequestFails(s) ==
    /\ req[s].pc \in {"snapshot", "head", "listing", "committing"}
    /\ Continue(s, IdleReq)

(* MirrorImportedSubscription: only while the row is the one the attempt   *)
(* read before the PDS.                                                    *)
BaselineHolds(r) ==
    r.op = "import" => rowOf(r.feed) = r.local

(* commitThenMirror's second half: a mirror that fails asks for a          *)
(* reconcile; the request succeeds.                                        *)
MirrorWrite(s) ==
    LET r == req[s]
    IN  /\ \/ /\ r.op = "delete"
              /\ subs' = [subs EXCEPT ![r.rkey] = Absent]
           \/ /\ r.op # "delete"
              /\ BaselineHolds(r)
              /\ Upsertable(subs, r.rkey, r.feed)
              /\ subs' = Upsert(subs, r.rkey, r.feed, r.tags)
        /\ mirrored' = IF pass.pc = "idle" THEN {} ELSE mirrored \cup {r.rkey}
        /\ UNCHANGED wanted

MirrorFails(s) ==
    /\ wanted' = TRUE
    /\ UNCHANGED <<subs, mirrored>>

Mirror(s) ==
    /\ req[s].pc = "mirroring"
    /\ MirrorWrite(s) \/ MirrorFails(s)
    /\ req' = [req EXCEPT ![s] = IdleReq]
    /\ UNCHANGED <<pds, nextRkey, pass, begun, external, pdsMoved>>

-----------------------------------------------------------------------------
(* Other clients: one commit may write several records.                    *)
OtherClient ==
    /\ external < MaxExternal
    /\ external' = external + 1
    /\ \/ \E r \in Record : /\ nextRkey <= MaxRkey
                            /\ pds' = [pds EXCEPT ![nextRkey] = r]
                            /\ nextRkey' = nextRkey + 1
       \/ \E new \in [Rows(pds) -> Record \cup {Absent}] :
            /\ pds' = [k \in Rkeys |-> IF k \in Rows(pds) THEN new[k] ELSE Absent]
            /\ pds' # pds
            /\ UNCHANGED nextRkey
    /\ req' = HeadMoves(req)
    /\ RecordsMove
    /\ UNCHANGED <<subs, pass, wanted, begun>>

(* A commit to another collection of the repository.                       *)
OtherCollection ==
    /\ req' = HeadMoves(req)
    /\ req' # req
    /\ UNCHANGED <<pds, subs, nextRkey, pass, wanted, begun, external,
                   history>>

(* A login or an app entry asks for a sync.                                *)
Trigger ==
    /\ ~wanted
    /\ wanted' = TRUE
    /\ UNCHANGED <<pds, subs, nextRkey, req, pass, begun, external,
                   history>>

(* The process dies: requests, the pass and a planned repair are gone.     *)
Crash ==
    /\ req' = [s \in Sessions |-> IdleReq]
    /\ pass' = IdlePass
    /\ wanted' = FALSE
    /\ ForgetPass
    /\ UNCHANGED <<pds, subs, nextRkey, begun, external>>

-----------------------------------------------------------------------------
(* The sync pass.                                                          *)

PassBegins ==
    /\ pass.pc = "idle"
    /\ wanted
    /\ wanted' = FALSE
    /\ pass' = [IdlePass EXCEPT !.pc = "baseline"]
    /\ ForgetPass
    /\ UNCHANGED <<pds, subs, nextRkey, req, begun, external>>

ReadBaseline ==
    /\ pass.pc = "baseline"
    /\ pass' = [pass EXCEPT !.pc = "listing", !.baseline = subs]
    /\ UNCHANGED <<pds, subs, nextRkey, req, wanted, begun, external,
                   history>>

(* One page of listRecords, newest first, of one record here.              *)
ListPage ==
    LET rest == {k \in Rows(pds) : k < pass.cursor}
    IN  /\ pass.pc = "listing"
        /\ \/ /\ rest = {}
              /\ pass' = [pass EXCEPT !.pc = "applying"]
           \/ \E k \in rest :
                /\ \A j \in rest : j <= k
                /\ pass' = [pass EXCEPT !.cursor = k, !.listed[k] = pds[k]]
        /\ UNCHANGED <<pds, subs, nextRkey, req, wanted, begun,
                       external, history>>

PassFails ==
    /\ pass.pc # "idle"
    /\ pass' = IdlePass
    /\ ForgetPass
    /\ UNCHANGED <<pds, subs, nextRkey, req, wanted, begun, external>>

(* One record per feed, the smallest key.  Mutant: the largest.            *)
canonicalByKeyNewest(records) ==
    {k \in Rows(records) : \A j \in Rows(records) :
        records[j].feed = records[k].feed => j <= k}
canonicalByKey(records) ==
    {k \in Rows(records) : \A j \in Rows(records) :
        records[j].feed = records[k].feed => k <= j}

(* Mutant: a row the baseline lacks is not taken for a changed one.        *)
changedDuringListingKnown(k) ==
    /\ subs[k] # Absent
    /\ pass.baseline[k] # Absent
    /\ subs[k] # pass.baseline[k]
changedDuringListing(k) ==
    /\ subs[k] # Absent
    /\ pass.baseline[k] = Absent \/ subs[k] # pass.baseline[k]
deletedDuringListing(k) == pass.baseline[k] # Absent /\ subs[k] = Absent

Keep == canonicalByKey(pass.listed)
upserted == {k \in Keep : ~deletedDuringListing(k) /\ ~changedDuringListing(k)}

(* deleteStale, first: the duplicate of a feed vacates before its          *)
(* canonical record is written.                                            *)
kept ==
    [k \in Rkeys |-> IF k \notin Keep /\ ~changedDuringListing(k)
                     THEN Absent ELSE subs[k]]

(* The desired rows come out of a map, in any order; a row is refused when *)
(* another holds its feed at its turn.                                     *)
Orders == {rank \in [upserted -> 1..MaxRkey] :
              \A j, k \in upserted : rank[j] = rank[k] => j = k}
Admits(rank) ==
    \A k \in upserted : \A j \in Rows(kept) \ {k} :
        (j \in upserted => rank[k] < rank[j])
            => kept[j].feed # pass.listed[k].feed

(* reconcileCollection's transaction.                                      *)
Apply ==
    /\ pass.pc = "applying"
    /\ \E rank \in Orders : Admits(rank)
    /\ subs' = [k \in Rkeys |->
                  IF k \in upserted
                  THEN pass.listed[k] ELSE kept[k]]
    /\ pass' = IdlePass
    /\ ForgetPass
    /\ UNCHANGED <<pds, nextRkey, req, wanted, begun, external>>

-----------------------------------------------------------------------------
Handle(s) ==
    \/ CreateProbe(s) \/ PatchLoad(s) \/ DeleteLoad(s)
    \/ ImportBegins(s) \/ ImportSnapshot(s) \/ ReadHead(s) \/ ImportList(s)
    \/ Commit(s) \/ SwapRefused(s) \/ RequestFails(s)
    \/ Mirror(s)

RssNext ==
    \/ \E s \in Sessions : Handle(s)
    \/ PassBegins \/ ReadBaseline \/ ListPage \/ PassFails \/ Apply
    \/ OtherClient \/ OtherCollection \/ Trigger \/ Crash

RssSpec == RssInit /\ [][RssNext]_rssVars

-----------------------------------------------------------------------------
(* Properties.                                                             *)

Settled == ~pdsMoved /\ mirrored = {}

(* "Reconciliation repairs the mirror" (SPEC.md): a pass that commits      *)
(* while nothing moves leaves one row per feed of the PDS, that of the     *)
(* oldest record, whatever duplicates, lost mirrors, re-pointed records    *)
(* and crashes came before.                                                *)
QuietPassConverges ==
    [][Apply /\ Settled => \A k \in Rkeys :
         /\ subs'[k] # Absent => subs'[k] = pds[k]
         /\ pds[k] # Absent =>
              /\ \E j \in Rows(subs') : subs'[j].feed = pds[k].feed
              /\ subs'[k] = Absent => \E j \in 1..(k - 1) :
                    pds[j] # Absent /\ pds[j].feed = pds[k].feed]_rssVars

(* "A PDS listing taken before a local mirror write cannot erase that      *)
(* newer write" (LAWS.md): the pass leaves a row that was written since    *)
(* its baseline as the last mirror write left it.                          *)
StaleListingSparesMirror ==
    [][Apply => \A k \in mirrored :
         subs[k] # pass.baseline[k] => subs'[k] = subs[k]]_rssVars

(* An import adds a record only for a feed that no record has, and         *)
(* otherwise only adds tags to a record, whatever other devices and other  *)
(* clients commit between its reads and its commit.                        *)
ImportsOnlyMerge ==
    [][\A s \in Sessions :
         Commit(s) /\ req[s].op = "import" =>
            \A k \in Rkeys : pds'[k] # pds[k] =>
               IF pds[k] = Absent
               THEN \A j \in Rows(pds) : pds[j].feed # pds'[k].feed
               ELSE /\ pds'[k].feed = pds[k].feed
                    /\ pds[k].tags \subseteq pds'[k].tags]_rssVars

(* "deleteFirst [...] a rekeyed record must vacate before its replacement  *)
(* upserts" (reconcile.go): a quiet pass can be applied.  Refuted by two   *)
(* records whose feeds another client exchanges: neither row vacates.      *)
RepointedFeedsApply ==
    pass.pc = "applying" /\ Settled => \E rank \in Orders : Admits(rank)

(* "SubscriptionsDeleteHandler tombstones the PDS record(s)"               *)
(* (subscriptions_mutate.go): no record of the feed is left to bring the   *)
(* subscription back.  Refuted by two devices that add one feed: the       *)
(* handler deletes the row's record, and the duplicate stays.              *)
UnfollowLeavesNoRecord ==
    [][\A s \in Sessions : Commit(s) /\ req[s].op = "delete" =>
         \A k \in Rows(pds') : pds'[k].feed # req[s].feed]_rssVars
=============================================================================
