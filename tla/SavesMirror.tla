---------------------------- MODULE SavesMirror ----------------------------
(***************************************************************************)
(* One user's saves: the records in the user's PDS, which own them, and    *)
(* the SQLite index user_saves derived from them.                          *)
(*                                                                         *)
(* Requests (internal/api/saves.go) commit to the PDS and then mirror into *)
(* the index (internal/api/mirror.go).  A sync pass                        *)
(* (internal/sync/reconcile_saves.go, internal/sync/reconcile.go) reads    *)
(* the index, lists the PDS page by page, and applies the difference in    *)
(* one transaction.  Other clients write to the PDS directly.              *)
(*                                                                         *)
(* The session lock (internal/middleware/auth/auth.go) serialises the      *)
(* mutations of one session, so there is one request per session.  The     *)
(* listing holds no lock.  The passes are those of SyncEngine: one at a    *)
(* time, and each trigger is followed by one that begins after it.         *)
(***************************************************************************)
EXTENDS Naturals

CONSTANTS
    Sessions,      \* the user's signed-in devices
    Items,         \* item URLs
    Tags,          \* tag lists
    Notes,         \* the fields Morgenblau never edits: comment, facets
    NoTags,        \* the tag list of a new save
    NoNote,        \* a new save has no note
    Absent,        \* no record, no row
    MaxRkey,       \* bound: records ever created
    MaxRequests,   \* bound: requests ever begun
    MaxExternal,   \* bound: writes by other clients
    MaxClock       \* bound: seconds that pass

Rkeys == 1..MaxRkey      \* TIDs: a later record has the larger key
Seconds == 0..MaxClock

Record == [item : Items, tags : Tags, note : Notes]
Listed == [item : Items, tags : Tags]   \* what a listing keeps of a record
Row == [item : Items, tags : Tags, updatedAt : Seconds]
Index == [Rkeys -> Row \cup {Absent}]

ASSUME MirrorAssumption ==
    /\ NoTags \in Tags
    /\ NoNote \in Notes
    /\ {MaxRkey, MaxRequests, MaxExternal, MaxClock} \subseteq Nat
    /\ Absent \notin Record \cup Listed \cup Row

VARIABLES
    pds,       \* blue.morgen.feed.save records by rkey
    saves,     \* user_saves rows by rkey
    nextRkey,  \* the key of the next record
    clock,     \* wall clock in whole seconds, as RFC 3339 stores it
    req,       \* the mutation each session has in flight
    pass,      \* the sync pass
    wanted,    \* a trigger no pass has begun after
    begun,     \* counter for MaxRequests
    external,  \* counter for MaxExternal
    pdsMoved,  \* history: a record changed since this pass began
    held,      \* history: the records there ever since this pass began
    mirrored   \* history: the rows mirrored since this pass began

history == <<pdsMoved, held, mirrored>>
vars == <<pds, saves, nextRkey, clock, req, pass, wanted, begun, external,
          pdsMoved, held, mirrored>>

Request == [pc : {"idle", "reading", "committing", "mirroring"},
            op : {"create", "patch", "delete"},
            rkey : Rkeys \cup {0},
            item : Items \cup {Absent},
            tags : Tags,
            read : Record \cup {Absent},   \* what the patch read; its CID
            now : Seconds]

Pass == [pc : {"idle", "baseline", "listing", "applying"},
         snapshotAt : Seconds,
         baseline : Index,
         cursor : 1..(MaxRkey + 1),
         listed : [Rkeys -> Listed \cup {Absent}],
         now : Seconds]

IdleReq == [pc |-> "idle", op |-> "create", rkey |-> 0,
            item |-> Absent, tags |-> NoTags, read |-> Absent, now |-> 0]
EmptyIndex == [k \in Rkeys |-> Absent]
IdlePass == [pc |-> "idle", snapshotAt |-> 0, baseline |-> EmptyIndex,
             cursor |-> MaxRkey + 1, listed |-> EmptyIndex, now |-> 0]

Rows(index) == {k \in Rkeys : index[k] # Absent}

(* The primary key is (did, rkey); (did, item_url) is unique as well.      *)
UniqueItems(index) ==
    \A j, k \in Rows(index) : index[j].item = index[k].item => j = k

TypeOK ==
    /\ pds \in [Rkeys -> Record \cup {Absent}]
    /\ saves \in Index
    /\ UniqueItems(saves)
    /\ nextRkey \in 1..(MaxRkey + 1)
    /\ \A k \in Rkeys : k >= nextRkey => pds[k] = Absent /\ saves[k] = Absent
    /\ clock \in Seconds
    /\ req \in [Sessions -> Request]
    /\ pass \in Pass
    /\ wanted \in BOOLEAN
    /\ begun \in 0..MaxRequests
    /\ external \in 0..MaxExternal
    /\ pdsMoved \in BOOLEAN
    /\ held \in SUBSET Rkeys
    /\ mirrored \in SUBSET Rkeys

Init ==
    /\ pds = [k \in Rkeys |-> Absent]
    /\ saves = EmptyIndex
    /\ nextRkey = 1
    /\ clock = 0
    /\ req = [s \in Sessions |-> IdleReq]
    /\ pass = IdlePass
    /\ wanted = FALSE
    /\ begun = 0
    /\ external = 0
    /\ pdsMoved = FALSE
    /\ held = {}
    /\ mirrored = {}

-----------------------------------------------------------------------------
(* The index.                                                              *)

(* UpsertUserSave is refused when another row holds the item.  Mutant: the *)
(* unique index on (did, item_url) is missing.                             *)
UpsertableAlways(index, k, item) == TRUE
Upsertable(index, k, item) ==
    \A j \in Rows(index) \ {k} : index[j].item # item

Upsert(index, k, item, tags, now) ==
    [index EXCEPT ![k] = [item |-> item, tags |-> tags, updatedAt |-> now]]

-----------------------------------------------------------------------------
(* Requests.                                                               *)

Begin(s, r) ==
    /\ req[s].pc = "idle"
    /\ begun < MaxRequests
    /\ begun' = begun + 1
    /\ req' = [req EXCEPT ![s] = r]
    /\ UNCHANGED <<pds, saves, nextRkey, clock, pass, wanted, external,
                   history>>

(* POST /api/saves: a row with the item answers the request as it is.      *)
CreateProbe(s) ==
    \E i \in Items :
        /\ \A k \in Rows(saves) : saves[k].item # i
        /\ Begin(s, [IdleReq EXCEPT !.pc = "committing", !.op = "create",
                                    !.item = i, !.now = clock])

(* DELETE and PATCH /api/saves/{rkey} load the row, or answer not found.   *)
DeleteLoad(s) ==
    \E k \in Rows(saves) :
        Begin(s, [IdleReq EXCEPT !.pc = "committing", !.op = "delete",
                                 !.rkey = k, !.item = saves[k].item,
                                 !.now = clock])

PatchLoad(s) ==
    \E k \in Rows(saves), t \in Tags :
        Begin(s, [IdleReq EXCEPT !.pc = "reading", !.op = "patch",
                                 !.rkey = k, !.item = saves[k].item,
                                 !.tags = t])

(* The handler returns and the session's lock is released.                 *)
Respond(s) == req' = [req EXCEPT ![s] = IdleReq]

(* The patch reads the record whose other fields it keeps.                 *)
PatchRead(s) ==
    /\ req[s].pc = "reading"
    /\ \/ /\ pds[req[s].rkey] # Absent
          /\ req' = [req EXCEPT ![s].pc = "committing",
                                ![s].read = pds[req[s].rkey],
                                ![s].now = clock]
       \/ Respond(s)
    /\ UNCHANGED <<pds, saves, nextRkey, clock, pass, wanted, begun, external,
                   history>>

(* What the PDS does on the one commit a request may make.  A put is       *)
(* refused unless the record is the one read: a CID stands for the content.*)
(* Mutant: PutRecord, unconditional, in place of PutRecordIfCID.           *)
PdsAcceptsAny(r) ==
    CASE r.op = "create" -> nextRkey <= MaxRkey
      [] OTHER -> TRUE
PdsAccepts(r) ==
    CASE r.op = "create" -> nextRkey <= MaxRkey
      [] r.op = "patch" -> pds[r.rkey] = r.read
      [] OTHER -> TRUE

Written(r) ==
    CASE r.op = "create" ->
            [pds EXCEPT ![nextRkey] =
                [item |-> r.item, tags |-> NoTags, note |-> NoNote]]
      [] r.op = "patch" ->
            [pds EXCEPT ![r.rkey] = [r.read EXCEPT !.tags = r.tags]]
      [] OTHER -> [pds EXCEPT ![r.rkey] = Absent]

(* History, while a pass runs.                                             *)
RecordsMove ==
    /\ pdsMoved' = (pass.pc # "idle")
    /\ held' = {k \in held : pds'[k] # Absent}
    /\ UNCHANGED mirrored
ForgetPass == pdsMoved' = FALSE /\ held' = {} /\ mirrored' = {}

(* The commit: it goes through and its answer arrives, or the answer is    *)
(* lost and the request reports a failure, or nothing was committed.       *)
Commit(s) ==
    LET r == req[s]
        k == IF r.op = "create" THEN nextRkey ELSE r.rkey
    IN  /\ r.pc = "committing"
        /\ PdsAccepts(r)
        /\ pds' = Written(r)
        /\ RecordsMove
        /\ nextRkey' = IF r.op = "create" THEN nextRkey + 1 ELSE nextRkey
        /\ \/ req' = [req EXCEPT ![s].pc = "mirroring", ![s].rkey = k]
           \/ Respond(s)
        /\ UNCHANGED <<saves, clock, pass, wanted, begun, external>>

CommitFails(s) ==
    /\ req[s].pc = "committing"
    /\ Respond(s)
    /\ UNCHANGED <<pds, saves, nextRkey, clock, pass, wanted, begun, external,
                   history>>

(* commitThenMirror's second half.  The patch writes the item of the row   *)
(* it loaded.  A mirror that fails, for the index or for the context of a  *)
(* client that went away, asks for a reconcile; the request succeeds.      *)
MirrorWrite(s) ==
    LET r == req[s]
    IN  /\ r.pc = "mirroring"
        /\ \/ /\ r.op = "delete"
              /\ saves' = [saves EXCEPT ![r.rkey] = Absent]
           \/ /\ r.op # "delete"
              /\ Upsertable(saves, r.rkey, r.item)
              /\ saves' = Upsert(saves, r.rkey, r.item,
                                 IF r.op = "patch" THEN r.tags ELSE NoTags,
                                 r.now)
        /\ mirrored' = IF pass.pc = "idle" THEN {} ELSE mirrored \cup {r.rkey}
        /\ UNCHANGED wanted

MirrorFails(s) ==
    /\ req[s].pc = "mirroring"
    /\ wanted' = TRUE
    /\ UNCHANGED <<saves, mirrored>>

Mirror(s) ==
    /\ MirrorWrite(s) \/ MirrorFails(s)
    /\ Respond(s)
    /\ UNCHANGED <<pds, nextRkey, clock, pass, begun, external, pdsMoved,
                   held>>

-----------------------------------------------------------------------------
(* Other clients create, edit and delete records, and anything else that   *)
(* happens around the process.                                             *)
OtherClient ==
    /\ external < MaxExternal
    /\ external' = external + 1
    /\ \/ \E r \in Record : /\ nextRkey <= MaxRkey
                            /\ pds' = [pds EXCEPT ![nextRkey] = r]
                            /\ nextRkey' = nextRkey + 1
       \/ \E k \in Rkeys, r \in Record \cup {Absent} :
            /\ pds[k] # Absent
            /\ pds' = [pds EXCEPT ![k] = r]
            /\ UNCHANGED nextRkey
    /\ RecordsMove
    /\ UNCHANGED <<saves, clock, req, pass, wanted, begun>>

Tick ==
    /\ clock < MaxClock
    /\ clock' = clock + 1
    /\ UNCHANGED <<pds, saves, nextRkey, req, pass, wanted, begun, external,
                   history>>

(* A login or an app entry asks for a sync.                                *)
Trigger ==
    /\ ~wanted
    /\ wanted' = TRUE
    /\ UNCHANGED <<pds, saves, nextRkey, clock, req, pass, begun, external,
                   history>>

(* The process dies: requests, the pass and a planned repair are gone.     *)
Crash ==
    /\ req' = [s \in Sessions |-> IdleReq]
    /\ pass' = IdlePass
    /\ wanted' = FALSE
    /\ ForgetPass
    /\ UNCHANGED <<pds, saves, nextRkey, clock, begun, external>>

-----------------------------------------------------------------------------
(* The sync pass.                                                          *)

PassBegins ==
    /\ pass.pc = "idle"
    /\ wanted
    /\ wanted' = FALSE
    /\ pass' = [IdlePass EXCEPT !.pc = "baseline", !.snapshotAt = clock]
    /\ pdsMoved' = FALSE
    /\ held' = {k \in Rkeys : pds[k] # Absent}
    /\ mirrored' = {}
    /\ UNCHANGED <<pds, saves, nextRkey, clock, req, begun, external>>

ReadBaseline ==
    /\ pass.pc = "baseline"
    /\ pass' = [pass EXCEPT !.pc = "listing", !.baseline = saves]
    /\ UNCHANGED <<pds, saves, nextRkey, clock, req, wanted, begun, external,
                   history>>

(* One page of listRecords, newest first, of one record here and a hundred *)
(* in the program; the cursor is the last key of the page before it.  The  *)
(* listing ends on an empty cursor.  Mutant: each page skips a record.     *)
remainingSkips(cursor) == {k \in Rkeys : k + 1 < cursor /\ pds[k] # Absent}
remaining(cursor) == {k \in Rkeys : k < cursor /\ pds[k] # Absent}

ListPage ==
    LET rest == remaining(pass.cursor)
    IN  /\ pass.pc = "listing"
        /\ \/ /\ rest = {}
              /\ pass' = [pass EXCEPT !.pc = "applying", !.now = clock]
           \/ \E k \in rest :
                /\ \A j \in rest : j <= k
                /\ pass' = [pass EXCEPT !.cursor = k,
                        !.listed[k] = [item |-> pds[k].item, tags |-> pds[k].tags]]
        /\ UNCHANGED <<pds, saves, nextRkey, clock, req, wanted, begun,
                       external, history>>

(* The listing fails, or the transaction does for a reason of the          *)
(* database's own: the pass ends, the index is as it was.                  *)
PassFails ==
    /\ pass.pc # "idle"
    /\ pass' = IdlePass
    /\ ForgetPass
    /\ UNCHANGED <<pds, saves, nextRkey, clock, req, wanted, begun, external>>

(* Stored times have whole seconds, snapshotAt has not: a row of the same  *)
(* second reads as older.  Mutant: it reads as newer.                      *)
updatedAfterSnapshotOrSame(row) == row.updatedAt >= pass.snapshotAt
updatedAfterSnapshot(row) == row.updatedAt > pass.snapshotAt

(* Mutant: a row that the baseline lacks is not taken for a changed one.   *)
changedDuringListingKnown(k) ==
    /\ saves[k] # Absent
    /\ pass.baseline[k] # Absent
    /\ saves[k] # pass.baseline[k] \/ updatedAfterSnapshot(saves[k])
changedDuringListing(k) ==
    /\ saves[k] # Absent
    /\ \/ pass.baseline[k] = Absent
       \/ saves[k] # pass.baseline[k]
       \/ updatedAfterSnapshot(saves[k])
deletedDuringListing(k) == pass.baseline[k] # Absent /\ saves[k] = Absent

Keep == {k \in Rkeys : pass.listed[k] # Absent}
upserted == {k \in Keep : ~deletedDuringListing(k) /\ ~changedDuringListing(k)}

(* upsertDesired writes in the order of the listing, the newest key first: *)
(* the rows it has left when the turn of k comes; those of 0 are its last. *)
rowsBefore(k) ==
    [j \in Rkeys |->
        IF j > k /\ j \in upserted
        THEN [item |-> pass.listed[j].item, tags |-> pass.listed[j].tags,
              updatedAt |-> pass.now]
        ELSE saves[j]]
upsertDesired ==
    \A k \in upserted : Upsertable(rowsBefore(k), k, pass.listed[k].item)

(* deleteStale deletes of the rows the transaction found at its start.     *)
deleteStale(rows) ==
    [k \in Rkeys |->
        IF saves[k] # Absent /\ k \notin Keep /\ ~changedDuringListing(k)
        THEN Absent ELSE rows[k]]

(* reconcileCollection's transaction; deleteFirst is unset for saves.      *)
Apply ==
    /\ pass.pc = "applying"
    /\ upsertDesired
    /\ saves' = deleteStale(rowsBefore(0))
    /\ pass' = IdlePass
    /\ ForgetPass
    /\ UNCHANGED <<pds, nextRkey, clock, req, wanted, begun, external>>

-----------------------------------------------------------------------------
Handle(s) ==
    \/ CreateProbe(s) \/ DeleteLoad(s) \/ PatchLoad(s)
    \/ PatchRead(s)
    \/ Commit(s) \/ CommitFails(s)
    \/ Mirror(s)

Next ==
    \/ \E s \in Sessions : Handle(s)
    \/ PassBegins \/ ReadBaseline \/ ListPage \/ PassFails \/ Apply
    \/ OtherClient \/ Tick \/ Trigger \/ Crash

Spec == Init /\ [][Next]_vars

-----------------------------------------------------------------------------
(* Properties.                                                             *)

Content(row) ==
    IF row = Absent THEN Absent ELSE [item |-> row.item, tags |-> row.tags]

Settled == ~pdsMoved /\ mirrored = {}

(* "Reconciliation repairs the mirror" (SPEC.md): whatever lost mirrors,   *)
(* crashes, races and other clients did before, a pass that commits while  *)
(* nothing moves leaves the index equal to the PDS.                        *)
QuietPassConverges ==
    [][Apply /\ Settled =>
         \A k \in Rkeys : Content(saves'[k]) = Content(pds[k])]_vars

(* A pass deletes no row whose record was in the PDS for all of the pass,  *)
(* whatever was created, edited and deleted around it between two pages.   *)
NoSaveVanishes ==
    [][Apply => \A k \in held : saves[k] # Absent => saves'[k] # Absent]_vars

(* "A PDS listing taken before a local mirror write cannot erase that      *)
(* newer write" (LAWS.md): the pass leaves a row that was created, edited  *)
(* or deleted since its baseline as the last mirror write left it.         *)
StaleListingSparesMirror ==
    [][Apply => \A k \in mirrored :
         saves[k] # pass.baseline[k] => saves'[k] = saves[k]]_vars

(* A tag edit keeps what Morgenblau does not edit: the note of a record    *)
(* changes only by the hand of another client.                             *)
NotesAreKept ==
    [][\A k \in Rkeys :
         pds[k] # Absent /\ pds'[k] # Absent /\ external' = external
            => pds'[k].note = pds[k].note]_vars

-----------------------------------------------------------------------------
(* What the repository says and the code does not do: each is refuted by a *)
(* run of its own.                                                         *)

(* "a reported failure always means nothing committed" (LAWS.md).          *)
FailureMeansNothingCommitted ==
    [][\A s \in Sessions :
         req[s].pc = "committing" /\ req'[s].pc = "idle" => pds' = pds]_vars

(* "the stale listing must not resurrect it" (reconcile_test.go): a row    *)
(* whose last mirror write in the window deleted it stays deleted.         *)
DeletedStaysDeleted ==
    [][Apply => \A k \in mirrored :
         saves[k] = Absent => saves'[k] = Absent]_vars

(* "deleteFirst is required wherever [...] a rekeyed record must vacate    *)
(* before its replacement upserts" (reconcile.go): when nothing moves and  *)
(* the PDS holds each item once, no record is refused.                     *)
RekeyedRecordsVacate ==
    pass.pc = "applying" /\ Settled /\ UniqueItems(pds) => upsertDesired

-----------------------------------------------------------------------------
(* The inductive invariant behind the properties that hold.                *)

Clocked ==
    /\ \A k \in Rows(saves) : saves[k].updatedAt <= clock
    /\ \A s \in Sessions : req[s].now <= clock
    /\ pass.snapshotAt <= clock
    /\ pass.now <= clock

(* A request knows the item, the row it loaded and the record it read.     *)
RequestsAreFounded ==
    \A s \in Sessions : req[s].pc # "idle" =>
        /\ req[s].item \in Items
        /\ req[s].op # "create" \/ req[s].pc = "mirroring"
              => req[s].rkey \in Rkeys /\ req[s].rkey < nextRkey
        /\ req[s].op = "patch" /\ req[s].pc = "committing"
              => req[s].read \in Record
        /\ req[s].pc = "reading" => req[s].op = "patch"

(* Keys from the cursor up are listed, keys below it are not yet.          *)
ListingIsFaithful ==
    /\ pass.pc \in {"idle", "baseline"} =>
         pass.cursor = MaxRkey + 1 /\ pass.listed = EmptyIndex
    /\ \A k \in Rkeys : pass.listed[k] # Absent => pass.cursor <= k /\ k < nextRkey
    /\ \A k \in held : /\ pds[k] # Absent
                       /\ pass.cursor <= k => pass.listed[k] # Absent
                       /\ pass.pc = "applying" => pass.cursor <= k
    /\ pass.pc # "idle" /\ ~pdsMoved => \A k \in Rkeys :
         /\ pass.cursor <= k => pass.listed[k] = Content(pds[k])
         /\ pass.pc = "applying" /\ k < pass.cursor => pds[k] = Absent

(* Nothing was mirrored since the pass began: the index is its baseline,   *)
(* and no row is younger than the snapshot.                                *)
BaselineIsCurrent ==
    pass.pc # "idle" /\ mirrored = {} =>
        /\ pass.pc # "baseline" => pass.baseline = saves
        /\ \A k \in Rows(saves) : saves[k].updatedAt <= pass.snapshotAt

IInv ==
    /\ TypeOK
    /\ Clocked
    /\ RequestsAreFounded
    /\ ListingIsFaithful
    /\ BaselineIsCurrent
=============================================================================
