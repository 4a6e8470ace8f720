--------------------------- MODULE StandardMirror ---------------------------
(***************************************************************************)
(* One user's Standardfeed subscriptions.  A subscription is a record of   *)
(* site.standard.graph.subscription in the user's PDS, its existence; its  *)
(* title, tags and primary flag are a blue.morgen sidecar record, made     *)
(* only when there is something to say.  The SQLite row joins the two.     *)
(*                                                                         *)
(* Requests: internal/api/subscriptions_create.go, subscriptions_mutate.go *)
(* and sidecar_write.go.  Pass: internal/sync/reconcile_subscriptions.go,  *)
(* reconcile.go and reconcile_sidecar.go; after its transaction it deletes *)
(* sidecars from the PDS, the only place a pass writes back.               *)
(*                                                                         *)
(* A listing is one step here, its pages are SavesMirror's.  A record's    *)
(* publication never changes.  The session lock makes one mutation per     *)
(* session; the checks of scope and of the site's other kind refuse        *)
(* requests before they do anything and are left out.                      *)
(***************************************************************************)
EXTENDS Naturals

CONSTANTS
    Sessions,      \* the user's signed-in devices
    Pubs,          \* publications
    Metas,         \* title, tags and primary flag together
    Plain,         \* no title, no tags, not primary
    Absent,        \* no record, no row
    Unknown,       \* no acknowledged outcome to hold the code to
    Gone,          \* an acknowledged delete
    MaxExistence,  \* bound: existence records ever created
    MaxSidecars,   \* bound: sidecars ever created
    MaxRequests,   \* bound: requests ever begun
    MaxExternal,   \* bound: writes by other clients
    MaxClock       \* bound: seconds that pass

(* TIDs: a later record has the larger key.  A key is taken when the write *)
(* reaches the PDS.                                                        *)
Keys == 1..MaxExistence
SidecarKeys == 1..MaxSidecars
Seconds == 0..MaxClock

Sidecar == [pub : Pubs, meta : Metas]
Row == [pub : Pubs, sidecar : SidecarKeys \cup {0}, meta : Metas,
        updatedAt : Seconds]
Index == [Keys -> Row \cup {Absent}]
Existences == [Keys -> Pubs \cup {Absent}]
Sidecars == [SidecarKeys -> Sidecar \cup {Absent}]

ASSUME StandardAssumption ==
    /\ Plain \in Metas
    /\ {MaxExistence, MaxSidecars, MaxRequests, MaxExternal, MaxClock}
          \subseteq Nat
    /\ Absent \notin Pubs \cup Sidecar \cup Row
    /\ Unknown # Gone
    /\ {Unknown, Gone} \cap Metas = {}

VARIABLES
    existence,  \* site.standard.graph.subscription records by rkey
    sidecars,   \* blue.morgen.feed.subscription records of kind standardfeed
    rows,       \* user_subscriptions rows of kind standardfeed, by rkey
    nextKey,    \* the next existence key
    nextSide,   \* the next sidecar key
    clock,      \* wall clock in whole seconds, as RFC 3339 stores it
    req,        \* the mutation each session has in flight
    pass,       \* the sync pass
    wanted,     \* a trigger no pass has begun after
    begun,      \* counter for MaxRequests
    external,   \* counter for MaxExternal
    moved,      \* history: a record changed since this pass began
    mirrored,   \* history: the rows mirrored since this pass began
    ack         \* history: the last undisturbed acknowledged outcome

records == <<existence, sidecars, nextKey, nextSide>>
vars == <<existence, sidecars, rows, nextKey, nextSide, clock, req, pass,
          wanted, begun, external, moved, mirrored, ack>>

Request == [pc : {"idle", "existence", "sidecars", "committing",
                  "confirming", "mirroring"},
            op : {"create", "patch", "delete"},
            rkey : Keys \cup {0},
            pub : Pubs \cup {Absent},
            sidecar : SidecarKeys \cup {0},
            meta : Metas,
            doomed : SUBSET Keys,    \* existence records a delete listed
            now : Seconds,
            made : BOOLEAN,          \* its commit made the existence record
            edits : BOOLEAN,         \* history: it wrote the metadata
            alone : BOOLEAN]         \* history: nothing overlapped it

IdleReq == [pc |-> "idle", op |-> "create", rkey |-> 0, pub |-> Absent,
            sidecar |-> 0, meta |-> Plain, doomed |-> {}, now |-> 0,
            made |-> FALSE, edits |-> FALSE,
            alone |-> FALSE]

EmptyIndex == [k \in Keys |-> Absent]
NoSidecars == [k \in SidecarKeys |-> Absent]

Pass == [pc : {"idle", "baseline", "morgen", "standard", "applying",
               "cleaning"},
         snapshotAt : Seconds,
         baseline : Index,
         sidecars : Sidecars,      \* ListSubscriptions
         existence : Existences,   \* ListStandardSubscriptions
         losers : SUBSET SidecarKeys]  \* sidecars left to clean up
IdlePass == [pc |-> "idle", snapshotAt |-> 0, baseline |-> EmptyIndex,
             sidecars |-> NoSidecars, existence |-> EmptyIndex, losers |-> {}]

Rows(index) == {k \in Keys : index[k] # Absent}

(* UNIQUE(did, feed_url) of user_subscriptions.                            *)
UniquePubs(index) ==
    \A j, k \in Rows(index) : index[j].pub = index[k].pub => j = k

TypeOK ==
    /\ existence \in Existences
    /\ sidecars \in Sidecars
    /\ rows \in Index
    /\ UniquePubs(rows)
    /\ nextKey \in 1..(MaxExistence + 1)
    /\ nextSide \in 1..(MaxSidecars + 1)
    /\ \A k \in Keys : k >= nextKey => existence[k] = Absent /\ rows[k] = Absent
    /\ \A k \in SidecarKeys : k >= nextSide => sidecars[k] = Absent
    /\ clock \in Seconds
    /\ req \in [Sessions -> Request]
    /\ pass \in Pass
    /\ wanted \in BOOLEAN
    /\ begun \in 0..MaxRequests
    /\ external \in 0..MaxExternal
    /\ moved \in BOOLEAN
    /\ mirrored \in SUBSET Keys
    /\ ack \in [Pubs -> Metas \cup {Unknown, Gone}]

Init ==
    /\ existence = EmptyIndex
    /\ sidecars = NoSidecars
    /\ rows = EmptyIndex
    /\ nextKey = 1
    /\ nextSide = 1
    /\ clock = 0
    /\ req = [s \in Sessions |-> IdleReq]
    /\ pass = IdlePass
    /\ wanted = FALSE
    /\ begun = 0
    /\ external = 0
    /\ moved = FALSE
    /\ mirrored = {}
    /\ ack = [p \in Pubs |-> Unknown]

-----------------------------------------------------------------------------
(* The records of a publication, and the two rules that pick one.          *)

ExistenceOf(ex, p) == {k \in DOMAIN ex : ex[k] = p}
SidecarsOf(sc, p) == {k \in DOMAIN sc : sc[k] # Absent /\ sc[k].pub = p}

(* The existence authority is the earliest record of a publication.        *)
canonicalByKey(ex, p) ==
    CHOOSE k \in ExistenceOf(ex, p) : \A j \in ExistenceOf(ex, p) : k <= j

(* Of two sidecars the newest counts.  Mutant: the oldest does.            *)
oldestSidecarByKey(sc, p) ==
    CHOOSE k \in SidecarsOf(sc, p) : \A j \in SidecarsOf(sc, p) : k <= j
newestSidecarByKey(sc, p) ==
    CHOOSE k \in SidecarsOf(sc, p) : \A j \in SidecarsOf(sc, p) : k >= j

canonicalOrNone(ex, p) ==
    IF ExistenceOf(ex, p) = {} THEN 0 ELSE canonicalByKey(ex, p)
newestOrNone(sc, p) ==
    IF SidecarsOf(sc, p) = {} THEN 0 ELSE newestSidecarByKey(sc, p)

-----------------------------------------------------------------------------
(* Requests.                                                               *)

Begin(s, r) ==
    /\ req[s].pc = "idle"
    /\ begun < MaxRequests
    /\ begun' = begun + 1
    /\ req' = [t \in Sessions |->
                 IF t = s
                 THEN [r EXCEPT !.now = clock, !.alone =
                         \A u \in Sessions \ {s} : req[u].pc = "idle"]
                 ELSE [req[t] EXCEPT !.alone = FALSE]]
    /\ UNCHANGED <<records, rows, clock, pass, wanted, external, moved,
                   mirrored, ack>>

(* POST /api/subscriptions: a row of the publication answers as it is.     *)
CreateProbe(s) ==
    \E p \in Pubs, m \in Metas :
        /\ \A k \in Rows(rows) : rows[k].pub # p
        /\ Begin(s, [IdleReq EXCEPT !.pc = "existence", !.pub = p, !.meta = m])

Loaded(k) == [IdleReq EXCEPT !.rkey = k, !.pub = rows[k].pub,
                             !.sidecar = rows[k].sidecar]

(* PATCH /api/subscriptions/{rkey}: no difference, no commit.              *)
PatchLoad(s) ==
    \E k \in Rows(rows), m \in Metas :
        /\ m # rows[k].meta
        /\ Begin(s, [Loaded(k) EXCEPT !.pc = "committing", !.op = "patch",
                                      !.meta = m])

DeleteLoad(s) ==
    \E k \in Rows(rows) :
        Begin(s, [Loaded(k) EXCEPT !.pc = "existence", !.op = "delete"])

(* The handler returns and the session's lock is released.                 *)
Respond(s) == req' = [req EXCEPT ![s] = IdleReq]
Becomes(s, r) == req' = [req EXCEPT ![s] = r]

(* A create looks for the pair it is to make (preflightStandard-           *)
(* Subscription), a delete for what it is to sweep: duplicates too.        *)
(* Mutant: a delete sweeps the row's own record alone.                     *)
sweptOwn(r) == {k \in ExistenceOf(existence, r.pub) : k = r.rkey}
swept(r) == ExistenceOf(existence, r.pub)

ListExistence(s) ==
    LET r == req[s]
    IN  /\ r.pc = "existence"
        /\ \/ /\ r.op = "create"
              /\ Becomes(s, [r EXCEPT !.pc = "sidecars",
                              !.rkey = canonicalOrNone(existence, r.pub)])
           \/ /\ r.op = "delete"
              /\ r.sidecar # 0
              /\ Becomes(s, [r EXCEPT !.pc = "sidecars", !.doomed = swept(r)])
           \/ /\ r.op = "delete"
              /\ r.sidecar = 0
              /\ Becomes(s, [r EXCEPT !.doomed = swept(r),
                       !.pc = IF swept(r) = {} THEN "mirroring" ELSE "committing"])
        /\ UNCHANGED <<records, rows, clock, pass, wanted, begun, external,
                       moved, mirrored, ack>>

(* A present pair is only mirrored, with the metadata of its sidecar; so   *)
(* is a present record nobody asked to customize.  A delete takes along    *)
(* the sidecar its row names if the PDS still has it.                      *)
ListSidecars(s) ==
    LET r == req[s]
        found == newestOrNone(sidecars, r.pub)
        kept == IF sidecars[r.sidecar] = Absent THEN 0 ELSE r.sidecar
    IN  /\ r.pc = "sidecars"
        /\ \/ /\ r.op = "create" /\ r.rkey # 0 /\ found # 0
              /\ Becomes(s, [r EXCEPT !.pc = "mirroring", !.sidecar = found,
                                      !.meta = sidecars[found].meta])
           \/ /\ r.op = "create" /\ r.rkey # 0 /\ found = 0
              /\ Becomes(s, [r EXCEPT !.pc = IF r.meta = Plain
                                             THEN "mirroring" ELSE "committing"])
           \/ /\ r.op = "create" /\ r.rkey = 0
              /\ Becomes(s, [r EXCEPT !.pc = "committing"])
           \/ /\ r.op = "delete"
              /\ Becomes(s, [r EXCEPT !.sidecar = kept,
                       !.pc = IF r.doomed = {} /\ kept = 0
                              THEN "mirroring" ELSE "committing"])
        /\ UNCHANGED <<records, rows, clock, pass, wanted, begun, external,
                       moved, mirrored, ack>>

ListingFails(s) ==
    /\ req[s].pc \in {"existence", "sidecars"}
    /\ Respond(s)
    /\ UNCHANGED <<records, rows, clock, pass, wanted, begun, external, moved,
                   mirrored, ack>>

(* What a commit does to the PDS.  applyWrites is all or nothing: one      *)
(* missing record makes it refuse a delete.  A put makes a sidecar that is *)
(* gone anew.                                                              *)
makesExistence(r) == r.op = "create" /\ r.rkey = 0
makesSidecar(r) ==
    /\ r.sidecar = 0
    /\ r.op = "patch" \/ (r.op = "create" /\ r.meta # Plain)

PdsAccepts(r) ==
    /\ makesExistence(r) => nextKey <= MaxExistence
    /\ makesSidecar(r) => nextSide <= MaxSidecars
    /\ r.op = "delete" => /\ \A k \in r.doomed : existence[k] # Absent
                          /\ r.sidecar # 0 => sidecars[r.sidecar] # Absent

(* The request with the keys it chose for the records it makes.            *)
Keyed(r) ==
    [r EXCEPT !.rkey = IF makesExistence(r) THEN nextKey ELSE r.rkey,
              !.sidecar = IF makesSidecar(r) THEN nextSide ELSE r.sidecar,
              !.made = makesExistence(r),
              !.edits = makesSidecar(r) \/ r.op = "patch"]

Committed(r) ==
    /\ existence' = [k \in Keys |->
            CASE makesExistence(r) /\ k = nextKey -> r.pub
              [] r.op = "delete" /\ k \in r.doomed -> Absent
              [] OTHER -> existence[k]]
    /\ sidecars' = [k \in SidecarKeys |->
            IF k # Keyed(r).sidecar THEN sidecars[k]
            ELSE IF r.op = "delete" THEN Absent
            ELSE [pub |-> r.pub, meta |-> r.meta]]
    /\ nextKey' = IF makesExistence(r) THEN nextKey + 1 ELSE nextKey
    /\ nextSide' = IF makesSidecar(r) THEN nextSide + 1 ELSE nextSide

RecordsMove == moved' = (pass.pc # "idle")

(* The one commit.  When its answer is lost a create asks the PDS for its  *)
(* records, the other requests report a failure.                           *)
Commit(s) ==
    LET r == req[s]
    IN  /\ r.pc = "committing"
        /\ PdsAccepts(r)
        /\ Committed(r)
        /\ RecordsMove
        /\ ack' = [ack EXCEPT ![r.pub] = Unknown]
        /\ \/ Becomes(s, [Keyed(r) EXCEPT !.pc = "mirroring"])
           \/ /\ r.op = "create"
              /\ Becomes(s, [Keyed(r) EXCEPT !.pc = "confirming"])
           \/ /\ r.op # "create"
              /\ Respond(s)
        /\ UNCHANGED <<rows, clock, pass, wanted, begun, external, mirrored>>

CommitFails(s) ==
    /\ req[s].pc = "committing"
    /\ Respond(s)
    /\ UNCHANGED <<records, rows, clock, pass, wanted, begun, external, moved,
                   mirrored, ack>>

(* confirmAtomicWrites: every record must be there with the value written. *)
Confirm(s) ==
    LET r == req[s]
    IN  /\ r.pc = "confirming"
        /\ \/ /\ r.made => existence[r.rkey] = r.pub
              /\ r.sidecar # 0 =>
                    sidecars[r.sidecar] = [pub |-> r.pub, meta |-> r.meta]
              /\ Becomes(s, [r EXCEPT !.pc = "mirroring"])
           \/ Respond(s)
        /\ UNCHANGED <<records, rows, clock, pass, wanted, begun, external,
                       moved, mirrored, ack>>

(* UpsertUserSubscription is refused when another row has the publication. *)
(* Mutant: the unique index on (did, feed_url) is missing.                 *)
UpsertableAlways(index, k, p) == TRUE
Upsertable(index, k, p) == \A j \in Rows(index) \ {k} : index[j].pub # p

MirrorWrite(s) ==
    LET r == req[s]
    IN  /\ r.pc = "mirroring"
        /\ \/ /\ r.op = "delete"
              /\ rows' = [rows EXCEPT ![r.rkey] = Absent]
           \/ /\ r.op # "delete"
              /\ Upsertable(rows, r.rkey, r.pub)
              /\ rows' = [rows EXCEPT ![r.rkey] =
                    [pub |-> r.pub, sidecar |-> r.sidecar, meta |-> r.meta,
                     updatedAt |-> r.now]]
        /\ mirrored' = IF pass.pc = "idle" THEN {} ELSE mirrored \cup {r.rkey}
        /\ UNCHANGED wanted

(* A mirror that fails asks for a reconcile; the request succeeds.         *)
MirrorFails(s) ==
    /\ req[s].pc = "mirroring"
    /\ wanted' = TRUE
    /\ UNCHANGED <<rows, mirrored>>

outcome(r) == IF r.alone /\ r.op = "delete" THEN Gone
              ELSE IF r.alone /\ r.edits THEN r.meta
              ELSE Unknown

Mirror(s) ==
    /\ MirrorWrite(s) \/ MirrorFails(s)
    /\ Respond(s)
    /\ ack' = [ack EXCEPT ![req[s].pub] = outcome(req[s])]
    /\ UNCHANGED <<records, clock, pass, begun, external, moved>>

-----------------------------------------------------------------------------
(* Other Standardfeed readers subscribe and unsubscribe, and anything else *)
(* that happens around the process.                                        *)
OtherClient ==
    /\ external < MaxExternal
    /\ external' = external + 1
    /\ \/ \E p \in Pubs : /\ nextKey <= MaxExistence
                          /\ existence' = [existence EXCEPT ![nextKey] = p]
                          /\ nextKey' = nextKey + 1
                          /\ ack' = [ack EXCEPT ![p] = Unknown]
       \/ \E k \in Keys : /\ existence[k] # Absent
                          /\ existence' = [existence EXCEPT ![k] = Absent]
                          /\ ack' = [ack EXCEPT ![existence[k]] = Unknown]
                          /\ UNCHANGED nextKey
    /\ req' = [s \in Sessions |-> [req[s] EXCEPT !.alone = FALSE]]
    /\ RecordsMove
    /\ UNCHANGED <<sidecars, nextSide, rows, clock, pass, wanted, begun,
                   mirrored>>

Tick ==
    /\ clock < MaxClock
    /\ clock' = clock + 1
    /\ UNCHANGED <<records, rows, req, pass, wanted, begun, external, moved,
                   mirrored, ack>>

Trigger ==
    /\ ~wanted
    /\ wanted' = TRUE
    /\ UNCHANGED <<records, rows, clock, req, pass, begun, external, moved,
                   mirrored, ack>>

Crash ==
    /\ req' = [s \in Sessions |-> IdleReq]
    /\ pass' = IdlePass
    /\ wanted' = FALSE
    /\ moved' = FALSE
    /\ mirrored' = {}
    /\ UNCHANGED <<records, rows, clock, begun, external, ack>>

-----------------------------------------------------------------------------
(* The sync pass.                                                          *)

PassBegins ==
    /\ pass.pc = "idle"
    /\ wanted
    /\ wanted' = FALSE
    /\ pass' = [IdlePass EXCEPT !.pc = "baseline", !.snapshotAt = clock]
    /\ UNCHANGED <<records, rows, clock, req, begun, external, moved, mirrored,
                   ack>>

Advance(p) ==
    /\ pass' = p
    /\ UNCHANGED <<records, rows, clock, req, wanted, begun, external, moved,
                   mirrored, ack>>

ReadBaseline ==
    /\ pass.pc = "baseline"
    /\ Advance([pass EXCEPT !.pc = "morgen", !.baseline = rows])

(* Both listings come before any mutation, the sidecars' first.            *)
ListMorgen ==
    /\ pass.pc = "morgen"
    /\ Advance([pass EXCEPT !.pc = "standard", !.sidecars = sidecars])

ListStandard ==
    /\ pass.pc = "standard"
    /\ Advance([pass EXCEPT !.pc = "applying", !.existence = existence])

PassEnds ==
    /\ pass' = IdlePass
    /\ moved' = FALSE
    /\ mirrored' = {}

PassFails ==
    /\ pass.pc \in {"baseline", "morgen", "standard"}
    /\ PassEnds
    /\ UNCHANGED <<records, rows, clock, req, wanted, begun, external, ack>>

(* Mutant: a row of the second the pass began in reads as newer.           *)
updatedAfterSnapshotOrSame(row) == row.updatedAt >= pass.snapshotAt
updatedAfterSnapshot(row) == row.updatedAt > pass.snapshotAt

(* Mutant: a row that the baseline lacks is not taken for a changed one.   *)
changedDuringListingKnown(k) ==
    /\ rows[k] # Absent
    /\ pass.baseline[k] # Absent
    /\ rows[k] # pass.baseline[k] \/ updatedAfterSnapshot(rows[k])
changedDuringListing(k) ==
    /\ rows[k] # Absent
    /\ \/ pass.baseline[k] = Absent
       \/ rows[k] # pass.baseline[k]
       \/ updatedAfterSnapshot(rows[k])
deletedDuringListing(k) == pass.baseline[k] # Absent /\ rows[k] = Absent

(* One desired row for each listed publication, at its canonical key.      *)
Keep == {k \in Keys : /\ pass.existence[k] # Absent
                      /\ k = canonicalByKey(pass.existence, pass.existence[k])}
desired(k) ==
    LET p == pass.existence[k]
        sc == newestOrNone(pass.sidecars, p)
    IN  [pub |-> p, sidecar |-> sc, updatedAt |-> clock,
         meta |-> IF sc = 0 THEN Plain ELSE pass.sidecars[sc].meta]

upserted == {k \in Keep : ~deletedDuringListing(k) /\ ~changedDuringListing(k)}

(* deleteFirst: the stale rows vacate before the upserts.  Mutant: they    *)
(* are there when the upserts come.                                        *)
vacatedLast == rows
vacated == [k \in Keys |-> IF k \notin Keep /\ ~changedDuringListing(k)
                           THEN Absent ELSE rows[k]]
upsertDesired == \A k \in upserted : Upsertable(vacated, k, desired(k).pub)

(* sidecarCleanup deletes what it listed and does not keep.                *)
losers == {k \in SidecarKeys :
            /\ pass.sidecars[k] # Absent
            /\ LET p == pass.sidecars[k].pub
               IN  \/ ExistenceOf(pass.existence, p) = {}
                   \/ newestSidecarByKey(pass.sidecars, p) # k}

(* The transaction; the cleanup follows whether it committed or not.       *)
Apply ==
    /\ pass.pc = "applying"
    /\ upsertDesired
    /\ rows' = [k \in Keys |-> IF k \in upserted THEN desired(k) ELSE vacated[k]]
    /\ pass' = [pass EXCEPT !.pc = "cleaning", !.losers = losers]
    /\ UNCHANGED <<records, clock, req, wanted, begun, external, moved,
                   mirrored, ack>>

ApplyFails ==
    /\ pass.pc = "applying"
    /\ Advance([pass EXCEPT !.pc = "cleaning", !.losers = losers])

(* One delete of the cleanup; one that fails is logged and passed over.    *)
Cleanup ==
    /\ pass.pc = "cleaning"
    /\ \E k \in pass.losers :
         /\ pass' = [pass EXCEPT !.losers = @ \ {k}]
         /\ \/ sidecars' = [sidecars EXCEPT ![k] = Absent]
            \/ UNCHANGED sidecars
    /\ UNCHANGED <<existence, nextKey, nextSide, rows, clock, req, wanted,
                   begun, external, moved, mirrored, ack>>

Finish ==
    /\ pass.pc = "cleaning"
    /\ pass.losers = {}
    /\ PassEnds
    /\ UNCHANGED <<records, rows, clock, req, wanted, begun, external, ack>>

-----------------------------------------------------------------------------
Handle(s) ==
    \/ CreateProbe(s) \/ PatchLoad(s) \/ DeleteLoad(s)
    \/ ListExistence(s) \/ ListSidecars(s) \/ ListingFails(s)
    \/ Commit(s) \/ CommitFails(s) \/ Confirm(s)
    \/ Mirror(s)

Next ==
    \/ \E s \in Sessions : Handle(s)
    \/ PassBegins \/ ReadBaseline \/ ListMorgen \/ ListStandard \/ PassFails
    \/ Apply \/ ApplyFails \/ Cleanup \/ Finish
    \/ OtherClient \/ Tick \/ Trigger \/ Crash

Spec == Init /\ [][Next]_vars

-----------------------------------------------------------------------------
(* Properties.                                                             *)

Settled == ~moved /\ mirrored = {}

Followed(p) == ExistenceOf(existence, p) # {}

(* The subscription the PDS holds at key k, without the time.              *)
Authority(k) ==
    IF existence[k] = Absent \/ canonicalOrNone(existence, existence[k]) # k
    THEN Absent
    ELSE LET p == existence[k]
             sc == newestOrNone(sidecars, p)
         IN  [pub |-> p, sidecar |-> sc,
              meta |-> IF sc = 0 THEN Plain ELSE sidecars[sc].meta]
Content(row) ==
    IF row = Absent THEN Absent
    ELSE [pub |-> row.pub, sidecar |-> row.sidecar, meta |-> row.meta]

(* "Reconciliation repairs the mirror" (SPEC.md): a pass that commits      *)
(* while nothing moves leaves one row for each publication followed, at    *)
(* its canonical key, with the metadata of its newest sidecar.             *)
QuietPassConverges ==
    [][Apply /\ Settled =>
         \A k \in Keys : Content(rows'[k]) = Authority(k)]_vars

(* ... and the unique index never refuses such a pass, whatever duplicates *)
(* and rekeyed records the PDS holds (reconcile.go, deleteFirst).          *)
QuietPassApplies == pass.pc = "applying" /\ Settled => upsertDesired

(* "A PDS listing taken before a local mirror write cannot erase that      *)
(* newer write" (LAWS.md).                                                 *)
StaleListingSparesMirror ==
    [][Apply => \A k \in mirrored :
         rows[k] # pass.baseline[k] => rows'[k] = rows[k]]_vars

(* An acknowledged delete leaves nothing a pass could bring back, however  *)
(* many duplicates lost answers and retries had left in the PDS            *)
(* (deleteStandardSubscription).                                           *)
DeleteSweepsDuplicates ==
    \A p \in Pubs : ack[p] = Gone => ~Followed(p)

(* While no other record moves, the cleanup takes only what the index does *)
(* not use: the newest sidecar of a followed publication stays.            *)
CleanupKeepsNewest ==
    [][Cleanup /\ ~moved => \A k \in SidecarKeys : sidecars[k] # Absent =>
         LET p == sidecars[k].pub IN
         Followed(p) /\ (\A j \in SidecarsOf(sidecars, p) : j <= k)
         => sidecars'[k] # Absent]_vars

(* "Newest sidecar wins so the user's latest edit survives a sync/PATCH    *)
(* race duplicate" (reconcile_subscriptions.go): the edit a pass writes to *)
(* the index is the last one acknowledged.                                 *)
LatestEditSurvives ==
    [][Apply /\ Settled =>
         \A k \in Rows(rows') : LET p == rows'[k].pub IN
             ack[p] \in Metas => rows'[k].meta = ack[p]]_vars
=============================================================================
