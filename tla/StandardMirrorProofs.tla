------------------------ MODULE StandardMirrorProofs ------------------------
(***************************************************************************)
(* Proofs about Standardfeed.  About StandardMirror, for every set of      *)
(* devices, publications and every bound: a quiet pass applies and repairs *)
(* the index, its cleanup spares what the index uses, and an acknowledged  *)
(* delete is complete.  About Publication, at the end, for every paging    *)
(* and number of fetches: no fetch drops a document that was there.        *)
(***************************************************************************)
EXTENDS StandardMirror, Publication, WellFoundedInduction, TLAPS

PassSteps == {"baseline", "morgen", "standard", "applying"}

(* What is in flight is about publications, and keys that were given out.  *)
Known(r) ==
    /\ r.pc # "idle" => r.pub \in Pubs
    /\ r.pc = "idle" => r.rkey = 0
    /\ r.rkey = 0 => r.op = "create" /\ r.pc \notin {"confirming", "mirroring"}
    /\ r.pc = "confirming" => r.op = "create"
    /\ r.rkey < nextKey
    /\ r.sidecar < nextSide
    /\ r.now <= clock
RequestsKnown == \A s \in Sessions : Known(req[s])

KeysKnown ==
    /\ \A k \in Rows(rows) : rows[k].sidecar < nextSide /\ rows[k].updatedAt <= clock
    /\ \A k \in Keys : k >= nextKey => pass.existence[k] = Absent
    /\ \A k \in SidecarKeys : k >= nextSide => pass.sidecars[k] = Absent
    /\ pass.snapshotAt <= clock

(* A key stands for one publication: its record, its row, the pass and     *)
(* whoever is at work on it agree on which.                                *)
Claims(k, p) ==
    \/ existence[k] = p
    \/ pass.existence[k] = p
    \/ rows[k] # Absent /\ rows[k].pub = p
    \/ \E s \in Sessions : req[s].rkey = k /\ req[s].pub = p
OnePubPerKey == \A k \in Keys : \A p, q \in Pubs : Claims(k, p) /\ Claims(k, q) => p = q

(* While no row is mirrored the baseline is the index and older than the   *)
(* pass; while no record moves the listings are the repository, less what  *)
(* the cleanup took.                                                       *)
PassKnows ==
    /\ pass.pc \in PassSteps /\ mirrored = {} =>
         \A k \in Rows(rows) : rows[k].updatedAt <= pass.snapshotAt
    /\ pass.pc \in PassSteps \ {"baseline"} /\ mirrored = {} => pass.baseline = rows
    /\ pass.pc \in {"standard", "applying"} /\ ~moved => pass.sidecars = sidecars
    /\ pass.pc \in {"applying", "cleaning"} /\ ~moved => pass.existence = existence
    /\ pass.pc = "cleaning" => pass.losers \subseteq losers
    /\ pass.pc = "cleaning" /\ ~moved =>
         \A k \in SidecarKeys : \/ sidecars[k] = pass.sidecars[k]
                                \/ k \in losers /\ sidecars[k] = Absent

(* A delete that nothing overlaps sweeps every record of its publication,  *)
(* and what it left behind stays so until the outcome is forgotten.        *)
Sweeps(r) ==
    /\ r.op = "delete" /\ r.pc \in {"sidecars", "committing"}
         => r.doomed = ExistenceOf(existence, r.pub)
    /\ r.op = "delete" /\ r.pc = "mirroring"
         => ExistenceOf(existence, r.pub) = {}
Alone(s) ==
    /\ req[s].pc # "idle"
    /\ \A u \in Sessions \ {s} : req[u].pc = "idle"
DeletesSweep ==
    /\ \A s \in Sessions : req[s].alone => Alone(s) /\ Sweeps(req[s])
    /\ DeleteSweepsDuplicates

IInv ==
    /\ TypeOK
    /\ RequestsKnown
    /\ KeysKnown
    /\ OnePubPerKey
    /\ PassKnows
    /\ DeletesSweep

-----------------------------------------------------------------------------
(* The types of what the actions build records from.                       *)

LEMMA Indexes == EmptyIndex \in Index /\ EmptyIndex \in Existences
                 /\ NoSidecars \in Sidecars
  BY DEF EmptyIndex, Index, Existences, NoSidecars, Sidecars

LEMMA Bounds ==
  /\ MaxExistence \in Nat /\ MaxSidecars \in Nat /\ MaxRequests \in Nat
  /\ MaxExternal \in Nat /\ MaxClock \in Nat
  BY StandardAssumption

LEMMA IdleTypes == IdleReq \in Request /\ IdlePass \in Pass
<1>1. 0 \in Seconds /\ Plain \in Metas
  BY StandardAssumption DEF Seconds
<1>2. IdleReq \in Request
  BY <1>1 DEF IdleReq, Request
<1>3. IdlePass \in Pass
  BY <1>1, Indexes DEF IdlePass, Pass
<1>4. QED
  BY <1>2, <1>3

LEMMA InitInv == Init => IInv
<1> SUFFICES ASSUME Init
             PROVE  IInv
  OBVIOUS
<1>1. TypeOK
  <2>1. UniquePubs(rows) /\ \A k \in Keys : existence[k] = Absent /\ rows[k] = Absent
    BY DEF Init, UniquePubs, Rows, EmptyIndex
  <2>2. \A k \in SidecarKeys : sidecars[k] = Absent
    BY DEF Init, NoSidecars
  <2>3. req \in [Sessions -> Request] /\ ack \in [Pubs -> Metas \cup {Unknown, Gone}]
    BY IdleTypes DEF Init
  <2>4. /\ nextKey \in 1..(MaxExistence + 1) /\ nextSide \in 1..(MaxSidecars + 1)
        /\ clock \in Seconds /\ begun \in 0..MaxRequests
        /\ external \in 0..MaxExternal
    BY Bounds DEF Init, Seconds
  <2>5. /\ existence \in Existences /\ sidecars \in Sidecars /\ rows \in Index
        /\ pass \in Pass
    BY Indexes, IdleTypes DEF Init
  <2>6. wanted \in BOOLEAN /\ moved \in BOOLEAN /\ mirrored \in SUBSET Keys
    BY DEF Init
  <2>7. QED
    BY <2>1, <2>2, <2>3, <2>4, <2>5, <2>6 DEF TypeOK
<1>2. RequestsKnown
  <2>1. Known(IdleReq)
    BY DEF Init, Known, IdleReq
  <2>2. QED
    BY <2>1 DEF Init, RequestsKnown
<1>3. KeysKnown
  BY StandardAssumption
     DEF Init, KeysKnown, Rows, EmptyIndex, NoSidecars, IdlePass, Seconds
<1>4. OnePubPerKey
  BY StandardAssumption
     DEF Init, OnePubPerKey, Claims, EmptyIndex, IdleReq, IdlePass, Keys
<1>5. PassKnows
  BY DEF Init, PassKnows, PassSteps, IdlePass
<1>6. DeletesSweep
  BY StandardAssumption
     DEF Init, DeletesSweep, DeleteSweepsDuplicates, IdleReq
<1>7. QED
  BY <1>1, <1>2, <1>3, <1>4, <1>5, <1>6 DEF IInv

-----------------------------------------------------------------------------
(* Requests that only move on.                                             *)

(* A request that moves on keeps the invariant if it is known, works at    *)
(* its key for a publication that already has it, and, if it was alone, is *)
(* so still and has seen every record of its publication.                  *)
LEMMA RequestMoves ==
  ASSUME IInv, NEW s \in Sessions, NEW r \in Request,
         req' \in [Sessions -> Request], req'[s] = r,
         \A u \in Sessions \ {s} :
            req'[u] \in {req[u], [req[u] EXCEPT !.alone = FALSE]},
         begun' \in 0..MaxRequests,
         UNCHANGED <<records, rows, clock, pass, wanted, external, moved,
                     mirrored, ack>>,
         Known(r),
         r.rkey # 0 => Claims(r.rkey, r.pub),
         r.alone => /\ r.pc # "idle" /\ Sweeps(r)
                    /\ \A u \in Sessions \ {s} : req[u].pc = "idle",
         r.pc # "idle" => \/ req[s].pc # "idle"
                          \/ \A u \in Sessions \ {s} : ~req'[u].alone
  PROVE  IInv'
<1>1. \A u \in Sessions \ {s} :
        /\ req'[u].pc = req[u].pc /\ req'[u].op = req[u].op
        /\ req'[u].rkey = req[u].rkey /\ req'[u].pub = req[u].pub
        /\ req'[u].sidecar = req[u].sidecar /\ req'[u].now = req[u].now
        /\ req'[u].doomed = req[u].doomed
        /\ req'[u].alone => req[u].alone
  BY DEF IInv, TypeOK, Request
<1>2. TypeOK'
  BY DEF IInv, TypeOK, UniquePubs, Rows, records
<1>3. RequestsKnown'
  BY <1>1 DEF IInv, RequestsKnown, Known, records
<1>4. KeysKnown'
  BY DEF IInv, KeysKnown, Rows, records
<1>5. OnePubPerKey'
  <2>1. ASSUME NEW k \in Keys, NEW p \in Pubs, Claims(k, p)'
        PROVE  Claims(k, p)
    <3>1. CASE \E u \in Sessions \ {s} : req'[u].rkey = k /\ req'[u].pub = p
      BY <1>1, <3>1 DEF Claims
    <3>2. CASE r.rkey = k /\ r.pub = p
      BY <3>2, StandardAssumption DEF Keys
    <3>3. QED
      BY <2>1, <3>1, <3>2 DEF Claims, records
  <2>2. QED
    BY <2>1 DEF IInv, OnePubPerKey
<1>6. PassKnows'
  BY DEF IInv, PassKnows, Rows, losers, records
<1>7. DeletesSweep'
  <2>1. DeleteSweepsDuplicates'
    BY DEF IInv, DeletesSweep, DeleteSweepsDuplicates, Followed, ExistenceOf, records
  <2>2. \A u \in Sessions : req'[u].alone => Alone(u)'
    BY <1>1 DEF IInv, DeletesSweep, Alone
  <2>3. Sweeps(r) => Sweeps(r)'
    BY DEF Sweeps, ExistenceOf, records
  <2>4. \A u \in Sessions \ {s} : req'[u].alone => Sweeps(req[u])
    BY <1>1 DEF IInv, DeletesSweep
  <2>5. \A u \in Sessions \ {s} : req'[u].alone =>
          /\ req'[u].op = "delete" /\ req'[u].pc \in {"sidecars", "committing"}
               => req'[u].doomed = ExistenceOf(existence', req'[u].pub)
          /\ req'[u].op = "delete" /\ req'[u].pc = "mirroring"
               => ExistenceOf(existence', req'[u].pub) = {}
    BY <1>1, <2>4 DEF Sweeps, ExistenceOf, records
  <2>6. \A u \in Sessions : req'[u].alone =>
          /\ req'[u].op = "delete" /\ req'[u].pc \in {"sidecars", "committing"}
               => req'[u].doomed = ExistenceOf(existence', req'[u].pub)
          /\ req'[u].op = "delete" /\ req'[u].pc = "mirroring"
               => ExistenceOf(existence', req'[u].pub) = {}
    BY <2>3, <2>5 DEF Sweeps
  <2>7. QED
    BY <2>1, <2>2, <2>6 DEF DeletesSweep, Sweeps
<1>8. QED
  BY <1>2, <1>3, <1>4, <1>5, <1>6, <1>7 DEF IInv

-----------------------------------------------------------------------------
(* Of a set of keys there is an earliest and a latest.                     *)

Less == {ss \in Nat \X Nat : ss[1] < ss[2]}

LEMMA LessFounded == IsWellFoundedOn(Less, Nat)
  BY NatLessThanWellFounded DEF OpToRel, Less

LEMMA Least ==
  ASSUME NEW T \in SUBSET Nat, T # {}
  PROVE  \E x \in T : \A y \in T : x <= y
<1>1. PICK x \in T : \A y \in T : ~(<<y, x>> \in Less)
  BY LessFounded, WFMin, Zenon
<1>2. ASSUME NEW y \in T
      PROVE  x <= y
  <2>1. x \in Nat /\ y \in Nat
    OBVIOUS
  <2>2. y < x => <<y, x>> \in Less
    BY <2>1 DEF Less
  <2>3. QED
    BY <1>1, <2>1, <2>2
<1>3. QED
  BY <1>2

LEMMA Greatest ==
  ASSUME NEW N \in Nat, NEW T \in SUBSET (1..N), T # {}
  PROVE  \E x \in T : \A y \in T : y <= x
<1> DEFINE M == {n \in Nat : \E x \in T : n = N - x}
<1>1. \A x \in T : N - x \in M
  OBVIOUS
<1>2. PICK m \in M : \A y \in M : m <= y
  BY <1>1, Least
<1>3. PICK x \in T : m = N - x
  OBVIOUS
<1>4. ASSUME NEW y \in T
      PROVE  y <= x
  BY <1>1, <1>2, <1>3
<1>5. QED
  BY <1>4

(* The canonical record of a publication is one of its records.            *)
LEMMA CanonicalIsThere ==
  ASSUME NEW ex \in Existences, NEW p \in Pubs, ExistenceOf(ex, p) # {}
  PROVE  /\ canonicalByKey(ex, p) \in ExistenceOf(ex, p)
         /\ \A j \in ExistenceOf(ex, p) : canonicalByKey(ex, p) <= j
<1>1. ExistenceOf(ex, p) \in SUBSET Nat
  BY DEF ExistenceOf, Existences, Keys
<1>2. \E k \in ExistenceOf(ex, p) : \A j \in ExistenceOf(ex, p) : k <= j
  BY <1>1, Least
<1>3. QED
  BY <1>2 DEF canonicalByKey

LEMMA NewestIsThere ==
  ASSUME NEW sc \in Sidecars, NEW p \in Pubs, SidecarsOf(sc, p) # {}
  PROVE  /\ newestSidecarByKey(sc, p) \in SidecarsOf(sc, p)
         /\ \A j \in SidecarsOf(sc, p) : newestSidecarByKey(sc, p) >= j
<1>1. SidecarsOf(sc, p) \in SUBSET (1..MaxSidecars)
  BY DEF SidecarsOf, Sidecars, SidecarKeys
<1>2. \E k \in SidecarsOf(sc, p) : \A j \in SidecarsOf(sc, p) : j <= k
  BY <1>1, Greatest, Bounds
<1>3. \E k \in SidecarsOf(sc, p) : \A j \in SidecarsOf(sc, p) : k >= j
  BY <1>1, <1>2
<1>4. QED
  BY <1>3 DEF newestSidecarByKey

(* The row a request loads names its key, its publication and its sidecar. *)
LEMMA LoadedType ==
  ASSUME IInv, NEW k \in Rows(rows)
  PROVE  /\ k \in Keys /\ k # 0 /\ k < nextKey
         /\ rows[k].pub \in Pubs /\ rows[k].sidecar < nextSide
         /\ Loaded(k) \in Request
         /\ Loaded(k).rkey = k /\ Loaded(k).pub = rows[k].pub
         /\ Loaded(k).sidecar = rows[k].sidecar
<1>1. k \in Keys /\ rows[k] # Absent /\ k # 0
  BY DEF Rows, Keys
<1>2. rows[k] \in Row
  BY <1>1 DEF IInv, TypeOK, Index
<1>3. rows[k].pub \in Pubs /\ rows[k].sidecar \in SidecarKeys \cup {0}
  BY <1>2 DEF Row
<1>4. rows[k].sidecar < nextSide
  BY <1>1 DEF IInv, KeysKnown
<1>5. nextKey \in Nat /\ k \in Nat /\ ~(k >= nextKey)
  BY <1>1, Bounds DEF IInv, TypeOK, Keys
<1>6. Loaded(k) \in Request
  BY <1>1, <1>3, IdleTypes DEF Loaded, Request
<1>7. /\ Loaded(k).rkey = k /\ Loaded(k).pub = rows[k].pub
      /\ Loaded(k).sidecar = rows[k].sidecar
  BY <1>1, <1>3, IdleTypes DEF Loaded, IdleReq
<1>8. QED
  BY <1>1, <1>3, <1>4, <1>5, <1>6, <1>7

(* A request that begins knows a row, or no key at all.                    *)
LEMMA BeginMoves ==
  ASSUME IInv, NEW s \in Sessions, NEW r \in Request, Begin(s, r),
         r.pc \in {"existence", "committing"}, r.pub \in Pubs,
         \/ r.rkey = 0 /\ r.op = "create" /\ r.sidecar = 0
         \/ r.rkey \in Rows(rows) /\ r.pub = rows[r.rkey].pub
            /\ r.sidecar = rows[r.rkey].sidecar,
         r.op = "delete" => r.pc = "existence"
  PROVE  IInv'
<1> DEFINE a == \A u \in Sessions \ {s} : req[u].pc = "idle"
           q == [r EXCEPT !.now = clock, !.alone = a]
<1>1. clock \in Seconds /\ clock \in Nat /\ begun \in Nat
      /\ req \in [Sessions -> Request]
  BY Bounds DEF IInv, TypeOK, Seconds
<1>2. /\ q \in Request /\ q.pc = r.pc /\ q.op = r.op /\ q.rkey = r.rkey
      /\ q.pub = r.pub /\ q.sidecar = r.sidecar /\ q.now = clock
      /\ q.alone = a
  BY <1>1 DEF Request
<1>3. /\ \A t \in Sessions \ {s} : req'[t] = [req[t] EXCEPT !.alone = FALSE]
      /\ req'[s] = q
      /\ req' = [t \in Sessions |-> IF t = s THEN q
                                    ELSE [req[t] EXCEPT !.alone = FALSE]]
  BY DEF Begin
<1>4. \A t \in Sessions : [req[t] EXCEPT !.alone = FALSE] \in Request
                          /\ ~([req[t] EXCEPT !.alone = FALSE].alone)
  BY <1>1 DEF Request
<1>5. req' \in [Sessions -> Request]
  <2> HIDE DEF q
  <2> QED  BY <1>2, <1>3, <1>4
<1>6. begun' \in 0..MaxRequests
  <2>1. begun \in 0..MaxRequests
    BY DEF IInv, TypeOK
  <2>2. begun < MaxRequests /\ begun' = begun + 1
    BY DEF Begin
  <2>3. QED
    BY <2>1, <2>2, Bounds
<1>7. Known(q)
  <2>1. r.rkey < nextKey /\ r.sidecar < nextSide
    BY LoadedType, Bounds DEF IInv, TypeOK
  <2> HIDE DEF q
  <2>2. r.rkey = 0 => r.op = "create"
    BY LoadedType
  <2>3. QED
    BY <1>1, <1>2, <2>1, <2>2 DEF Known
<1>8. q.rkey # 0 => Claims(q.rkey, q.pub)
  <2> HIDE DEF q
  <2> QED  BY <1>2, LoadedType DEF Claims, Rows
<1>9. Sweeps(q)
  <2> HIDE DEF q
  <2> QED  BY <1>2 DEF Sweeps
<1>10. q.pc # "idle"
  BY <1>2
<1>11. UNCHANGED <<records, rows, clock, pass, wanted, external, moved,
                   mirrored, ack>>
  BY DEF Begin
<1> HIDE DEF q
<1>12. \A u \in Sessions \ {s} : ~req'[u].alone
  BY <1>3, <1>4
<1>13. q.alone => /\ q.pc # "idle" /\ Sweeps(q)
                  /\ \A u \in Sessions \ {s} : req[u].pc = "idle"
  BY <1>2, <1>9, <1>10
<1>14. QED
  BY <1>2, <1>3, <1>5, <1>6, <1>7, <1>8, <1>11, <1>12, <1>13, RequestMoves

LEMMA CreateProbeInv ==
  ASSUME IInv, NEW s \in Sessions, CreateProbe(s)
  PROVE  IInv'
<1>1. PICK p \in Pubs, m \in Metas :
        Begin(s, [IdleReq EXCEPT !.pc = "existence", !.pub = p, !.meta = m])
  BY DEF CreateProbe
<1> DEFINE r == [IdleReq EXCEPT !.pc = "existence", !.pub = p, !.meta = m]
<1>2. /\ r \in Request /\ r.pc = "existence" /\ r.op = "create"
      /\ r.rkey = 0 /\ r.sidecar = 0 /\ r.pub = p
  BY IdleTypes DEF Request, IdleReq
<1>3. Begin(s, r) /\ ~(r.pc = "idle")
  BY <1>1, <1>2
<1> HIDE DEF r
<1>4. QED
  BY <1>2, <1>3, BeginMoves

LEMMA PatchLoadInv ==
  ASSUME IInv, NEW s \in Sessions, PatchLoad(s)
  PROVE  IInv'
<1>1. PICK k \in Rows(rows), m \in Metas :
        Begin(s, [Loaded(k) EXCEPT !.pc = "committing", !.op = "patch",
                                   !.meta = m])
  BY DEF PatchLoad
<1>0. PICK row \in Request : row = Loaded(k)
  BY LoadedType
<1> DEFINE r == [row EXCEPT !.pc = "committing", !.op = "patch", !.meta = m]
<1>2. /\ r \in Request /\ r.pc = "committing" /\ r.op = "patch"
      /\ r.rkey = k /\ r.sidecar = rows[k].sidecar /\ r.pub = rows[k].pub
  <2>1. row.rkey = k /\ row.sidecar = rows[k].sidecar /\ row.pub = rows[k].pub
    BY <1>0, LoadedType
  <2>2. QED
    BY <2>1 DEF Request
<1>3. Begin(s, r) /\ r.pub \in Pubs
  BY <1>0, <1>1, <1>2, LoadedType
<1> HIDE DEF r
<1>4. QED
  BY <1>2, <1>3, BeginMoves

LEMMA DeleteLoadInv ==
  ASSUME IInv, NEW s \in Sessions, DeleteLoad(s)
  PROVE  IInv'
<1>1. PICK k \in Rows(rows) :
        Begin(s, [Loaded(k) EXCEPT !.pc = "existence", !.op = "delete"])
  BY DEF DeleteLoad
<1>0. PICK row \in Request : row = Loaded(k)
  BY LoadedType
<1> DEFINE r == [row EXCEPT !.pc = "existence", !.op = "delete"]
<1>2. /\ r \in Request /\ r.pc = "existence" /\ r.op = "delete"
      /\ r.rkey = k /\ r.sidecar = rows[k].sidecar /\ r.pub = rows[k].pub
  <2>1. row.rkey = k /\ row.sidecar = rows[k].sidecar /\ row.pub = rows[k].pub
    BY <1>0, LoadedType
  <2>2. QED
    BY <2>1 DEF Request
<1>3. Begin(s, r) /\ r.pub \in Pubs
  BY <1>0, <1>1, <1>2, LoadedType
<1> HIDE DEF r
<1>4. QED
  BY <1>2, <1>3, BeginMoves

(* A request under way goes on with its key, its publication and what it   *)
(* knows, or returns.                                                      *)
LEMMA GoesOn ==
  ASSUME IInv, NEW s \in Sessions, NEW r \in Request,
         req' = [req EXCEPT ![s] = r], req[s].pc # "idle",
         UNCHANGED <<records, rows, clock, pass, wanted, begun, external,
                     moved, mirrored, ack>>,
         \/ r = IdleReq
         \/ /\ r.pc # "idle" /\ r.op = req[s].op /\ r.pub = req[s].pub
            /\ r.now = req[s].now /\ r.sidecar < nextSide
            /\ r.alone = req[s].alone
            /\ \/ r.rkey = req[s].rkey
               \/ r.rkey = 0 /\ r.op = "create"
               \/ r.rkey \in ExistenceOf(existence, r.pub)
            /\ r.rkey = 0 => r.op = "create"
                             /\ r.pc \notin {"confirming", "mirroring"}
            /\ r.pc = "confirming" => r.op = "create"
            /\ r.alone => Sweeps(r)
  PROVE  IInv'
<1>1. /\ req \in [Sessions -> Request] /\ req[s] \in Request
      /\ begun \in 0..MaxRequests /\ clock \in Nat
      /\ nextKey \in Nat /\ nextSide \in Nat
  BY Bounds DEF IInv, TypeOK, Seconds
<1>2. /\ req' \in [Sessions -> Request] /\ req'[s] = r
      /\ \A u \in Sessions \ {s} : req'[u] = req[u]
      /\ begun' \in 0..MaxRequests
  BY <1>1
<1>3. Known(req[s])
  BY DEF IInv, RequestsKnown
<1>4. CASE r = IdleReq
  <2>1. /\ r.pc = "idle" /\ r.rkey = 0 /\ r.sidecar = 0 /\ r.now = 0
        /\ r.op = "create" /\ ~r.alone
    BY <1>4 DEF IdleReq
  <2>2. nextKey > 0 /\ nextSide > 0 /\ clock >= 0
    BY <1>1, Bounds DEF IInv, TypeOK
  <2>3. Known(r)
    BY <2>1, <2>2 DEF Known
  <2>4. QED
    BY <1>2, <2>1, <2>3, RequestMoves
<1>5. CASE r # IdleReq
  <2>1. r.rkey \in ExistenceOf(existence, r.pub) =>
          r.rkey \in Keys /\ r.rkey < nextKey
    <3>1. ASSUME r.rkey \in ExistenceOf(existence, r.pub)
          PROVE  r.rkey \in Keys /\ existence[r.rkey] = r.pub
      BY <3>1 DEF IInv, TypeOK, Existences, ExistenceOf
    <3>2. r.pub \in Pubs /\ Absent \notin Pubs
      BY <1>3, <1>5, StandardAssumption DEF Known
    <3>3. \A k \in Keys : k >= nextKey => existence[k] = Absent
      BY DEF IInv, TypeOK
    <3>4. QED
      BY <1>1, <3>1, <3>2, <3>3 DEF Keys
  <2>2. Known(r)
    BY <1>1, <1>3, <1>5, <2>1, Bounds DEF Known, IInv, TypeOK
  <2>3. r.rkey # 0 => Claims(r.rkey, r.pub)
    BY <1>5 DEF Claims, ExistenceOf
  <2>4. r.alone => \A u \in Sessions \ {s} : req[u].pc = "idle"
    BY <1>5 DEF IInv, DeletesSweep, Alone
  <2>5. QED
    BY <1>2, <1>5, <2>2, <2>3, <2>4, RequestMoves
<1>6. QED
  BY <1>4, <1>5

LEMMA ReturnsInv ==
  ASSUME IInv, NEW s \in Sessions,
         ListingFails(s) \/ CommitFails(s) \/ (Confirm(s) /\ Respond(s))
  PROVE  IInv'
  BY GoesOn, IdleTypes DEF ListingFails, CommitFails, Confirm, Respond

LEMMA ConfirmInv ==
  ASSUME IInv, NEW s \in Sessions, Confirm(s)
  PROVE  IInv'
<1>1. CASE Respond(s)
  BY <1>1, ReturnsInv
<1>2. CASE Becomes(s, [req[s] EXCEPT !.pc = "mirroring"])
  <2>1. req[s] \in Request /\ Known(req[s]) /\ req[s].pc = "confirming"
    BY DEF Confirm, IInv, TypeOK, RequestsKnown
  <2>2. PICK r : r = [req[s] EXCEPT !.pc = "mirroring"]
    OBVIOUS
  <2>3. /\ r \in Request /\ r.pc = "mirroring" /\ r.rkey = req[s].rkey
        /\ r.op = req[s].op /\ r.pub = req[s].pub /\ r.now = req[s].now
        /\ r.sidecar = req[s].sidecar /\ r.alone = req[s].alone
    BY <2>1, <2>2 DEF Request
  <2>4. r.rkey # 0 /\ r.sidecar < nextSide
    BY <2>1, <2>3 DEF Known
  <2>5. r.op # "delete"
    BY <2>1, <2>3 DEF Known
  <2>6. UNCHANGED <<records, rows, clock, pass, wanted, begun, external,
                    moved, mirrored, ack>>
    BY DEF Confirm
  <2>7. QED
    BY <1>2, <2>1, <2>2, <2>3, <2>4, <2>5, <2>6, GoesOn DEF Becomes, Sweeps
<1>3. QED
  BY <1>1, <1>2 DEF Confirm

LEMMA ListExistenceInv ==
  ASSUME IInv, NEW s \in Sessions, ListExistence(s)
  PROVE  IInv'
<1>1. /\ req[s] \in Request /\ Known(req[s]) /\ req[s].pc = "existence"
      /\ req[s].pub \in Pubs /\ existence \in Existences
  BY DEF ListExistence, IInv, TypeOK, RequestsKnown, Known
<1>2. UNCHANGED <<records, rows, clock, pass, wanted, begun, external,
                  moved, mirrored, ack>>
  BY DEF ListExistence
<1>3. req[s].sidecar < nextSide
  BY <1>1 DEF Known
<1>4. CASE req[s].op = "create"
  <2> DEFINE k == canonicalOrNone(existence, req[s].pub)
  <2>1. k = 0 \/ k \in ExistenceOf(existence, req[s].pub)
    BY <1>1, CanonicalIsThere DEF canonicalOrNone
  <2>2. k \in Keys \cup {0}
    BY <1>1, <2>1 DEF ExistenceOf, Existences
  <2> HIDE DEF k
  <2>3. PICK r : r = [req[s] EXCEPT !.pc = "sidecars", !.rkey = k]
    OBVIOUS
  <2>4. /\ r \in Request /\ r.pc = "sidecars" /\ r.rkey = k
        /\ r.op = req[s].op /\ r.pub = req[s].pub /\ r.now = req[s].now
        /\ r.sidecar = req[s].sidecar /\ r.alone = req[s].alone
    BY <1>1, <2>2, <2>3 DEF Request
  <2>5. Becomes(s, r)
    BY <1>4, <2>3 DEF ListExistence, k
  <2>6. Sweeps(r)
    BY <1>4, <2>4 DEF Sweeps
  <2>7. QED
    BY <1>1, <1>2, <1>3, <1>4, <2>1, <2>4, <2>5, <2>6, GoesOn DEF Becomes
<1>5. CASE req[s].op = "delete"
  <2> DEFINE d == swept(req[s])
  <2>1. d = ExistenceOf(existence, req[s].pub) /\ d \in SUBSET Keys
    BY <1>1 DEF swept, ExistenceOf, Existences
  <2> HIDE DEF d
  <2>2. PICK pc \in {"sidecars", "mirroring", "committing"} :
          /\ Becomes(s, [req[s] EXCEPT !.pc = pc, !.doomed = d])
          /\ pc = "mirroring" => d = {}
    <3>1. CASE req[s].sidecar # 0
      BY <1>5, <3>1 DEF ListExistence, d
    <3>2. CASE req[s].sidecar = 0
      <4> DEFINE pc == IF d = {} THEN "mirroring" ELSE "committing"
      <4>1. Becomes(s, [req[s] EXCEPT !.doomed = d, !.pc = pc])
        BY <1>5, <3>2 DEF ListExistence, d
      <4>2. [req[s] EXCEPT !.doomed = d, !.pc = pc]
              = [req[s] EXCEPT !.pc = pc, !.doomed = d]
        BY <1>1 DEF Request
      <4>3. QED
        BY <4>1, <4>2
    <3>3. QED
      BY <3>1, <3>2
  <2>3. PICK r : r = [req[s] EXCEPT !.pc = pc, !.doomed = d]
    OBVIOUS
  <2>4. /\ r \in Request /\ r.pc = pc /\ r.doomed = d
        /\ r.rkey = req[s].rkey
        /\ r.op = req[s].op /\ r.pub = req[s].pub /\ r.now = req[s].now
        /\ r.sidecar = req[s].sidecar /\ r.alone = req[s].alone
    BY <1>1, <2>1, <2>3 DEF Request
  <2>5. Sweeps(r) /\ r.rkey # 0
    BY <1>1, <1>5, <2>1, <2>2, <2>4 DEF Sweeps, Known
  <2>6. QED
    BY <1>1, <1>2, <1>3, <2>2, <2>3, <2>4, <2>5, GoesOn DEF Becomes
<1>6. QED
  BY <1>4, <1>5 DEF ListExistence

LEMMA ListSidecarsInv ==
  ASSUME IInv, NEW s \in Sessions, ListSidecars(s)
  PROVE  IInv'
<1> DEFINE found == newestOrNone(sidecars, req[s].pub)
           kept == IF sidecars[req[s].sidecar] = Absent
                   THEN 0 ELSE req[s].sidecar
<1>1. /\ req[s] \in Request /\ Known(req[s]) /\ req[s].pc = "sidecars"
      /\ req[s].pub \in Pubs /\ sidecars \in Sidecars
      /\ nextSide \in 1..(MaxSidecars + 1)
  BY DEF ListSidecars, IInv, TypeOK, RequestsKnown, Known
<1>2. UNCHANGED <<records, rows, clock, pass, wanted, begun, external,
                  moved, mirrored, ack>>
  BY DEF ListSidecars
<1>3. found # 0 => /\ found \in SidecarKeys /\ found < nextSide
                   /\ sidecars[found].meta \in Metas
  <2>1. ASSUME found # 0
        PROVE  found \in SidecarsOf(sidecars, req[s].pub)
    BY <1>1, <2>1, NewestIsThere DEF newestOrNone
  <2>2. ASSUME found # 0
        PROVE  found \in SidecarKeys /\ sidecars[found] # Absent
    BY <1>1, <2>1, <2>2 DEF SidecarsOf, Sidecars
  <2>3. \A k \in SidecarKeys : k >= nextSide => sidecars[k] = Absent
    BY DEF IInv, TypeOK
  <2> HIDE DEF found
  <2>4. ASSUME found # 0
        PROVE  sidecars[found].meta \in Metas
    BY <1>1, <2>2, <2>4 DEF Sidecars, Sidecar
  <2>5. QED
    BY <1>1, <2>2, <2>3, <2>4, Bounds DEF SidecarKeys
<1>4. /\ kept \in SidecarKeys \cup {0} /\ kept < nextSide
      /\ req[s].sidecar < nextSide
  BY <1>1, Bounds DEF Known, Request
<1> HIDE DEF found, kept
<1>5. PICK pc \in {"mirroring", "committing"}, sc \in SidecarKeys \cup {0},
           m \in Metas :
        /\ Becomes(s, [req[s] EXCEPT !.pc = pc, !.sidecar = sc, !.meta = m])
        /\ sc < nextSide
        /\ req[s].op = "create" /\ pc = "mirroring" => req[s].rkey # 0
        /\ req[s].op = "delete" /\ pc = "mirroring" => req[s].doomed = {}
  <2>1. CASE req[s].op = "create" /\ req[s].rkey # 0 /\ found # 0
    BY <1>3, <2>1 DEF ListSidecars, found
  <2>2. CASE req[s].op = "create" /\ req[s].rkey # 0 /\ found = 0
    <3> DEFINE pc == IF req[s].meta = Plain THEN "mirroring" ELSE "committing"
    <3>1. Becomes(s, [req[s] EXCEPT !.pc = pc])
      BY <2>2 DEF ListSidecars, found
    <3>2. [req[s] EXCEPT !.pc = pc] = [req[s] EXCEPT !.pc = pc,
             !.sidecar = req[s].sidecar, !.meta = req[s].meta]
          /\ req[s].sidecar \in SidecarKeys \cup {0} /\ req[s].meta \in Metas
      BY <1>1 DEF Request
    <3>3. QED
      BY <1>4, <2>2, <3>1, <3>2
  <2>3. CASE req[s].op = "create" /\ req[s].rkey = 0
    <3>1. Becomes(s, [req[s] EXCEPT !.pc = "committing"])
      BY <2>3 DEF ListSidecars, found
    <3>2. [req[s] EXCEPT !.pc = "committing"] = [req[s] EXCEPT
             !.pc = "committing", !.sidecar = req[s].sidecar,
             !.meta = req[s].meta]
          /\ req[s].sidecar \in SidecarKeys \cup {0} /\ req[s].meta \in Metas
      BY <1>1 DEF Request
    <3>3. QED
      BY <1>4, <2>3, <3>1, <3>2
  <2>4. CASE req[s].op = "delete"
    <3> DEFINE pc == IF req[s].doomed = {} /\ kept = 0
                     THEN "mirroring" ELSE "committing"
    <3>1. Becomes(s, [req[s] EXCEPT !.sidecar = kept, !.pc = pc])
      BY <2>4 DEF ListSidecars, kept
    <3>2. [req[s] EXCEPT !.sidecar = kept, !.pc = pc] = [req[s] EXCEPT
             !.pc = pc, !.sidecar = kept, !.meta = req[s].meta]
          /\ req[s].meta \in Metas
      BY <1>1, <1>4 DEF Request
    <3>3. QED
      BY <1>4, <2>4, <3>1, <3>2
  <2>5. QED
    BY <2>1, <2>2, <2>3, <2>4 DEF ListSidecars, found
<1>6. PICK r : r = [req[s] EXCEPT !.pc = pc, !.sidecar = sc, !.meta = m]
  OBVIOUS
<1>7. /\ r \in Request /\ r.pc = pc /\ r.sidecar = sc /\ r.doomed = req[s].doomed
      /\ r.rkey = req[s].rkey /\ r.op = req[s].op /\ r.pub = req[s].pub
      /\ r.now = req[s].now /\ r.alone = req[s].alone
  BY <1>1, <1>6 DEF Request
<1>8. req[s].alone => Sweeps(req[s])
  BY DEF IInv, DeletesSweep
<1>9. r.alone => Sweeps(r)
  BY <1>1, <1>5, <1>7, <1>8 DEF Sweeps
<1>10. r.rkey = 0 => r.op = "create" /\ r.pc # "mirroring"
  BY <1>1, <1>5, <1>7 DEF Known
<1>11. QED
  BY <1>1, <1>2, <1>5, <1>6, <1>7, <1>9, <1>10, GoesOn DEF Becomes

-----------------------------------------------------------------------------
(* The pass.                                                               *)

(* A step of the pass that leaves the world alone keeps all but what is    *)
(* said of the pass.                                                       *)
LEMMA PassMoves ==
  ASSUME IInv, pass' \in Pass, moved' \in BOOLEAN, mirrored' \in SUBSET Keys,
         wanted' \in BOOLEAN,
         UNCHANGED <<records, rows, clock, req, begun, external, ack>>,
         \A k \in Keys : pass'.existence[k] \in {Absent, existence[k],
                                                 pass.existence[k]},
         \A k \in SidecarKeys : k >= nextSide => pass'.sidecars[k] = Absent,
         pass'.snapshotAt <= clock,
         PassKnows'
  PROVE  IInv'
<1>1. TypeOK'
  BY DEF IInv, TypeOK, UniquePubs, Rows, records
<1>2. RequestsKnown'
  BY DEF IInv, RequestsKnown, Known, records
<1>3. KeysKnown'
  <2>1. \A k \in Keys : k >= nextKey => existence[k] = Absent
    BY DEF IInv, TypeOK
  <2>2. QED
    BY <2>1 DEF IInv, KeysKnown, Rows, records
<1>4. OnePubPerKey'
  <2>1. ASSUME NEW k \in Keys, NEW p \in Pubs, Claims(k, p)'
        PROVE  Claims(k, p)
    <3>1. p # Absent
      BY StandardAssumption
    <3>2. QED
      BY <2>1, <3>1 DEF Claims, records
  <2>2. QED
    BY <2>1 DEF IInv, OnePubPerKey
<1>5. DeletesSweep'
  BY DEF IInv, DeletesSweep, DeleteSweepsDuplicates, Followed, ExistenceOf,
         Alone, Sweeps, records
<1>6. QED
  BY <1>1, <1>2, <1>3, <1>4, <1>5 DEF IInv

LEMMA PassParts ==
  ASSUME IInv
  PROVE  /\ pass \in Pass /\ rows \in Index /\ sidecars \in Sidecars
         /\ existence \in Existences /\ clock \in Seconds /\ clock \in Nat
         /\ moved \in BOOLEAN /\ mirrored \in SUBSET Keys /\ wanted \in BOOLEAN
         /\ \A k \in SidecarKeys : k >= nextSide =>
              sidecars[k] = Absent /\ pass.sidecars[k] = Absent
         /\ pass.snapshotAt <= clock
  BY Bounds DEF IInv, TypeOK, KeysKnown, Seconds

LEMMA PassEndsInv ==
  ASSUME IInv, PassFails \/ Finish
  PROVE  IInv'
<1>1. /\ pass' = IdlePass /\ pass' \in Pass /\ moved' = FALSE /\ mirrored' = {}
      /\ wanted' = wanted
  BY IdleTypes DEF PassFails, Finish, PassEnds
<1>2. /\ \A k \in Keys : pass'.existence[k] = Absent
      /\ \A k \in SidecarKeys : pass'.sidecars[k] = Absent
      /\ pass'.snapshotAt = 0 /\ pass'.pc = "idle"
  BY <1>1 DEF IdlePass, EmptyIndex, NoSidecars
<1>3. UNCHANGED <<records, rows, clock, req, begun, external, ack>>
  BY DEF PassFails, Finish
<1>4. PassKnows'
  BY <1>2 DEF PassKnows, PassSteps
<1>5. /\ \A k \in Keys : pass'.existence[k] \in {Absent, existence[k],
                                               pass.existence[k]}
      /\ pass'.snapshotAt <= clock /\ mirrored' \in SUBSET Keys
  BY <1>1, <1>2, PassParts
<1>6. wanted' \in BOOLEAN /\ moved' \in BOOLEAN
  BY <1>1, PassParts, Zenon
<1>7. QED
  BY <1>1, <1>2, <1>3, <1>4, <1>5, <1>6, PassMoves

LEMMA PassBeginsInv ==
  ASSUME IInv, PassBegins
  PROVE  IInv'
<1>1. PICK p : p = [IdlePass EXCEPT !.pc = "baseline", !.snapshotAt = clock]
  OBVIOUS
<1>2. /\ p \in Pass /\ p.pc = "baseline" /\ p.snapshotAt = clock
      /\ p.existence = EmptyIndex /\ p.sidecars = NoSidecars
  BY <1>1, PassParts, IdleTypes DEF Pass, IdlePass
<1>3. pass' = p /\ UNCHANGED <<records, rows, clock, req, begun, external,
                               moved, mirrored, ack>> /\ wanted' = FALSE
  BY <1>1 DEF PassBegins
<1>4. \A k \in Rows(rows) : rows[k].updatedAt <= clock
  BY DEF IInv, KeysKnown
<1>5. PassKnows'
  BY <1>2, <1>3, <1>4 DEF PassKnows, PassSteps, Rows
<1>6. /\ \A k \in Keys : pass'.existence[k] \in {Absent, existence[k],
                                               pass.existence[k]}
      /\ \A k \in SidecarKeys : pass'.sidecars[k] = Absent
      /\ pass'.snapshotAt <= clock /\ mirrored' \in SUBSET Keys
  BY <1>2, <1>3, PassParts DEF EmptyIndex, NoSidecars
<1>7. wanted' \in BOOLEAN /\ moved' \in BOOLEAN
  BY <1>3, PassParts, Zenon
<1>8. QED
  BY <1>2, <1>3, <1>5, <1>6, <1>7, PassMoves

LEMMA ReadBaselineInv ==
  ASSUME IInv, ReadBaseline
  PROVE  IInv'
<1>1. pass' = [pass EXCEPT !.pc = "morgen", !.baseline = rows]
  BY DEF ReadBaseline, Advance
<1>2. /\ pass' \in Pass /\ pass'.pc = "morgen" /\ pass'.baseline = rows
      /\ pass'.existence = pass.existence /\ pass'.sidecars = pass.sidecars
      /\ pass'.snapshotAt = pass.snapshotAt
  BY <1>1, PassParts DEF Pass
<1>3. UNCHANGED <<records, rows, clock, req, wanted, begun, external, moved,
                  mirrored, ack>> /\ pass.pc = "baseline"
  BY DEF ReadBaseline, Advance
<1>4. PassKnows'
  BY <1>2, <1>3 DEF IInv, PassKnows, PassSteps, Rows
<1>5. QED
  BY <1>2, <1>3, <1>4, PassMoves, PassParts

LEMMA ListMorgenInv ==
  ASSUME IInv, ListMorgen
  PROVE  IInv'
<1>1. pass' = [pass EXCEPT !.pc = "standard", !.sidecars = sidecars]
  BY DEF ListMorgen, Advance
<1>2. /\ pass' \in Pass /\ pass'.pc = "standard" /\ pass'.sidecars = sidecars
      /\ pass'.existence = pass.existence /\ pass'.baseline = pass.baseline
      /\ pass'.snapshotAt = pass.snapshotAt
  BY <1>1, PassParts DEF Pass
<1>3. UNCHANGED <<records, rows, clock, req, wanted, begun, external, moved,
                  mirrored, ack>> /\ pass.pc = "morgen"
  BY DEF ListMorgen, Advance
<1>4. PassKnows'
  BY <1>2, <1>3 DEF IInv, PassKnows, PassSteps, Rows, records
<1>5. QED
  BY <1>2, <1>3, <1>4, PassMoves, PassParts

LEMMA ListStandardInv ==
  ASSUME IInv, ListStandard
  PROVE  IInv'
<1>1. pass' = [pass EXCEPT !.pc = "applying", !.existence = existence]
  BY DEF ListStandard, Advance
<1>2. /\ pass' \in Pass /\ pass'.pc = "applying" /\ pass'.existence = existence
      /\ pass'.sidecars = pass.sidecars /\ pass'.baseline = pass.baseline
      /\ pass'.snapshotAt = pass.snapshotAt
  BY <1>1, PassParts DEF Pass
<1>3. UNCHANGED <<records, rows, clock, req, wanted, begun, external, moved,
                  mirrored, ack>> /\ pass.pc = "standard"
  BY DEF ListStandard, Advance
<1>4. PassKnows'
  BY <1>2, <1>3 DEF IInv, PassKnows, PassSteps, Rows, records
<1>5. QED
  BY <1>2, <1>3, <1>4, PassMoves, PassParts

LEMMA ApplyFailsInv ==
  ASSUME IInv, ApplyFails
  PROVE  IInv'
<1>1. pass' = [pass EXCEPT !.pc = "cleaning", !.losers = losers]
  BY DEF ApplyFails, Advance
<1>2. /\ pass' \in Pass /\ pass'.pc = "cleaning" /\ pass'.losers = losers
      /\ pass'.existence = pass.existence /\ pass'.sidecars = pass.sidecars
      /\ pass'.snapshotAt = pass.snapshotAt
  <2>1. losers \in SUBSET SidecarKeys
    BY DEF losers
  <2> HIDE DEF losers
  <2>2. QED
    BY <1>1, <2>1, PassParts DEF Pass
<1>3. UNCHANGED <<records, rows, clock, req, wanted, begun, external, moved,
                  mirrored, ack>> /\ pass.pc = "applying"
  BY DEF ApplyFails, Advance
<1>4. losers' = losers
  BY <1>2 DEF losers
<1>5. PassKnows'
  BY <1>2, <1>3, <1>4 DEF IInv, PassKnows, PassSteps, records
<1>6. QED
  BY <1>2, <1>3, <1>5, PassMoves, PassParts

LEMMA TickInv == IInv /\ Tick => IInv'
<1> SUFFICES ASSUME IInv, Tick
             PROVE  IInv'
  OBVIOUS
<1>1. /\ clock \in Nat /\ clock' = clock + 1 /\ clock' \in Seconds
      /\ UNCHANGED <<records, rows, req, pass, wanted, begun, external,
                     moved, mirrored, ack>>
  BY Bounds DEF Tick, IInv, TypeOK, Seconds
<1>2. TypeOK'
  BY <1>1 DEF IInv, TypeOK, UniquePubs, Rows, records
<1>3. RequestsKnown'
  <2>1. \A s \in Sessions : req[s].now \in Nat
    BY Bounds DEF IInv, TypeOK, Request, Seconds
  <2>2. QED
    BY <1>1, <2>1 DEF IInv, RequestsKnown, Known, records
<1>4. KeysKnown'
  <2>1. pass.snapshotAt \in Nat /\ \A k \in Rows(rows) : rows[k].updatedAt \in Nat
    <3>1. pass.snapshotAt \in Seconds
      BY DEF IInv, TypeOK, Pass
    <3>2. ASSUME NEW k \in Rows(rows)
          PROVE  rows[k].updatedAt \in Seconds
      <4>1. rows[k] \in Row
        BY DEF IInv, TypeOK, Index, Rows
      <4>2. QED
        BY <4>1 DEF Row
    <3>3. QED
      BY <3>1, <3>2, Bounds DEF Seconds
  <2>2. QED
    BY <1>1, <2>1 DEF IInv, KeysKnown, Rows, records
<1>5. OnePubPerKey'
  BY <1>1 DEF IInv, OnePubPerKey, Claims, records
<1>6. PassKnows'
  BY <1>1 DEF IInv, PassKnows, PassSteps, Rows, losers, records
<1>7. DeletesSweep'
  BY <1>1 DEF IInv, DeletesSweep, DeleteSweepsDuplicates, Followed,
              ExistenceOf, Alone, Sweeps, records
<1>8. QED
  BY <1>2, <1>3, <1>4, <1>5, <1>6, <1>7 DEF IInv

LEMMA TriggerInv == IInv /\ Trigger => IInv'
<1> SUFFICES ASSUME IInv, Trigger
             PROVE  IInv'
  OBVIOUS
<1>1. wanted' \in BOOLEAN
  BY Zenon DEF Trigger
<1>2. UNCHANGED <<records, rows, clock, req, pass, begun, external, moved,
                  mirrored, ack>>
  BY DEF Trigger
<1>3. TypeOK'
  BY <1>1, <1>2 DEF IInv, TypeOK, UniquePubs, Rows, records
<1>4. RequestsKnown' /\ KeysKnown'
  BY <1>2 DEF IInv, RequestsKnown, Known, KeysKnown, Rows, records
<1>5. OnePubPerKey'
  BY <1>2 DEF IInv, OnePubPerKey, Claims, records
<1>6. PassKnows'
  BY <1>2 DEF IInv, PassKnows, PassSteps, Rows, losers, records
<1>7. DeletesSweep'
  BY <1>2 DEF IInv, DeletesSweep, DeleteSweepsDuplicates, Followed,
              ExistenceOf, Alone, Sweeps, records
<1>8. QED
  BY <1>3, <1>4, <1>5, <1>6, <1>7 DEF IInv

LEMMA CrashInv == IInv /\ Crash => IInv'
<1> SUFFICES ASSUME IInv, Crash
             PROVE  IInv'
  OBVIOUS
<1>1. /\ pass' = IdlePass /\ mirrored' = {}
      /\ UNCHANGED <<records, rows, clock, begun, external, ack>>
      /\ req' = [s \in Sessions |-> IdleReq]
  BY DEF Crash
<1>2. wanted' \in BOOLEAN /\ moved' \in BOOLEAN
  BY Zenon DEF Crash
<1>3. /\ nextKey \in Nat /\ nextKey > 0 /\ nextSide \in Nat /\ nextSide > 0
      /\ clock \in Nat
  BY Bounds DEF IInv, TypeOK, Seconds
<1>4. TypeOK'
  BY <1>1, <1>2, IdleTypes DEF IInv, TypeOK, UniquePubs, Rows, records
<1>5. RequestsKnown'
  <2>1. /\ \A s \in Sessions : req'[s] = IdleReq
        /\ IdleReq.pc = "idle" /\ IdleReq.rkey = 0 /\ IdleReq.op = "create"
        /\ IdleReq.sidecar = 0 /\ IdleReq.now = 0
    BY <1>1 DEF IdleReq
  <2>2. QED
    BY <1>1, <1>3, <2>1 DEF RequestsKnown, Known, records
<1>6. KeysKnown'
  BY <1>1, <1>3 DEF IInv, KeysKnown, Rows, records, IdlePass, EmptyIndex,
                    NoSidecars
<1>7. OnePubPerKey'
  <2>1. ASSUME NEW k \in Keys, NEW p \in Pubs, Claims(k, p)'
        PROVE  Claims(k, p)
    BY <1>1, <2>1, StandardAssumption
       DEF Claims, records, IdlePass, EmptyIndex, IdleReq
  <2>2. QED
    BY <2>1 DEF IInv, OnePubPerKey
<1>8. PassKnows'
  BY <1>1 DEF PassKnows, PassSteps, IdlePass
<1>9. DeletesSweep'
  <2>1. \A s \in Sessions : ~req'[s].alone
    BY <1>1 DEF IdleReq
  <2>2. QED
    BY <1>1, <2>1 DEF IInv, DeletesSweep, DeleteSweepsDuplicates, Followed,
                      ExistenceOf, records
<1>10. QED
  BY <1>4, <1>5, <1>6, <1>7, <1>8, <1>9 DEF IInv

LEMMA CleanupInv == IInv /\ Cleanup => IInv'
<1> SUFFICES ASSUME IInv, Cleanup
             PROVE  IInv'
  OBVIOUS
<1>1. PICK k \in pass.losers :
        /\ pass' = [pass EXCEPT !.losers = @ \ {k}]
        /\ \/ sidecars' = [sidecars EXCEPT ![k] = Absent]
           \/ UNCHANGED sidecars
  BY DEF Cleanup
<1>2. /\ UNCHANGED <<existence, nextKey, nextSide, rows, clock, req, wanted,
                     begun, external, moved, mirrored, ack>>
      /\ pass.pc = "cleaning" /\ pass \in Pass /\ sidecars \in Sidecars
      /\ k \in SidecarKeys
  BY DEF Cleanup, IInv, TypeOK, Pass
<1>3. /\ pass' \in Pass /\ pass'.pc = "cleaning"
      /\ pass'.losers = pass.losers \ {k}
      /\ pass'.existence = pass.existence /\ pass'.sidecars = pass.sidecars
      /\ pass'.snapshotAt = pass.snapshotAt
  BY <1>1, <1>2 DEF Pass
<1>4. /\ sidecars' \in Sidecars
      /\ \A j \in SidecarKeys : j # k => sidecars'[j] = sidecars[j]
      /\ sidecars'[k] \in {sidecars[k], Absent}
  BY <1>1, <1>2 DEF Sidecars
<1>5. TypeOK'
  <2>1. \A j \in SidecarKeys : j >= nextSide => sidecars'[j] = Absent
    BY <1>4 DEF IInv, TypeOK
  <2>2. QED
    BY <1>2, <1>3, <1>4, <2>1 DEF IInv, TypeOK, UniquePubs, Rows
<1>6. RequestsKnown'
  BY <1>2 DEF IInv, RequestsKnown, Known
<1>7. KeysKnown'
  BY <1>2, <1>3 DEF IInv, KeysKnown, Rows
<1>8. OnePubPerKey'
  BY <1>2, <1>3 DEF IInv, OnePubPerKey, Claims
<1>9. PassKnows'
  <2>1. losers' = losers
    BY <1>3 DEF losers
  <2> HIDE DEF losers
  <2>2. k \in losers
    BY <1>2 DEF IInv, PassKnows
  <2>3. QED
    BY <1>2, <1>3, <1>4, <2>1, <2>2 DEF IInv, PassKnows, PassSteps
<1>10. DeletesSweep'
  BY <1>2 DEF IInv, DeletesSweep, DeleteSweepsDuplicates, Followed,
              ExistenceOf, Alone, Sweeps
<1>11. QED
  BY <1>5, <1>6, <1>7, <1>8, <1>9, <1>10 DEF IInv

(* What the pass wants at a key it listed is a row of that publication.    *)
LEMMA DesiredRow ==
  ASSUME IInv, NEW k \in Keys, pass.existence[k] # Absent
  PROVE  /\ desired(k) \in Row /\ desired(k) # Absent
         /\ desired(k).pub = pass.existence[k] /\ desired(k).pub \in Pubs
         /\ desired(k).sidecar < nextSide /\ desired(k).updatedAt = clock
         /\ k < nextKey
<1> DEFINE p == pass.existence[k]
           sc == newestOrNone(pass.sidecars, p)
<1>1. /\ pass.existence \in Existences /\ pass.sidecars \in Sidecars
      /\ nextSide \in Nat /\ nextSide > 0 /\ nextKey \in Nat
      /\ clock \in Seconds /\ Plain \in Metas
  BY Bounds, StandardAssumption DEF IInv, TypeOK, Pass
<1>2. p \in Pubs
  BY <1>1 DEF Existences
<1>3. sc # 0 => sc \in SidecarsOf(pass.sidecars, p)
  BY <1>1, <1>2, NewestIsThere DEF newestOrNone
<1>4. sc # 0 => sc \in SidecarKeys /\ pass.sidecars[sc] \in Sidecar
                /\ pass.sidecars[sc] # Absent
  BY <1>1, <1>3 DEF SidecarsOf, Sidecars
<1>5. sc # 0 => pass.sidecars[sc].meta \in Metas
  BY <1>4 DEF Sidecar
<1>6. sc \in SidecarKeys \cup {0} /\ sc < nextSide
  <2>1. \A j \in SidecarKeys : j >= nextSide => pass.sidecars[j] = Absent
    BY DEF IInv, KeysKnown
  <2> HIDE DEF sc
  <2>2. QED
    BY <1>1, <1>4, <2>1 DEF SidecarKeys
<1>7. desired(k) = [pub |-> p, sidecar |-> sc, updatedAt |-> clock,
                    meta |-> IF sc = 0 THEN Plain ELSE pass.sidecars[sc].meta]
  BY DEF desired
<1>8. k < nextKey
  <2>1. \A j \in Keys : j >= nextKey => pass.existence[j] = Absent
    BY DEF IInv, KeysKnown
  <2>2. QED
    BY <1>1, <2>1 DEF Keys
<1> HIDE DEF sc, p
<1>9. desired(k) \in Row
  BY <1>1, <1>2, <1>5, <1>6, <1>7 DEF Row
<1>10. QED
  BY <1>2, <1>6, <1>7, <1>8, <1>9, StandardAssumption DEF p

LEMMA ApplyInv == IInv /\ Apply => IInv'
<1> SUFFICES ASSUME IInv, Apply
             PROVE  IInv'
  OBVIOUS
<1>1. /\ pass.pc = "applying" /\ upsertDesired
      /\ UNCHANGED <<records, clock, req, wanted, begun, external, moved,
                     mirrored, ack>>
      /\ pass' = [pass EXCEPT !.pc = "cleaning", !.losers = losers]
      /\ rows' = [k \in Keys |-> IF k \in upserted THEN desired(k)
                                 ELSE vacated[k]]
  BY DEF Apply
<1>2. /\ pass' \in Pass /\ pass'.pc = "cleaning" /\ pass'.losers = losers
      /\ pass'.existence = pass.existence /\ pass'.sidecars = pass.sidecars
      /\ pass'.snapshotAt = pass.snapshotAt
  <2>1. losers \in SUBSET SidecarKeys
    BY DEF losers
  <2> HIDE DEF losers
  <2>2. QED
    BY <1>1, <2>1, PassParts DEF Pass
<1>3. \A k \in upserted :
        /\ k \in Keys /\ rows'[k] = desired(k) /\ pass.existence[k] # Absent
        /\ k = canonicalByKey(pass.existence, pass.existence[k])
  BY <1>1 DEF upserted, Keep
<1>4. \A k \in Keys \ upserted : rows'[k] = vacated[k]
                                 /\ vacated[k] \in {Absent, rows[k]}
  BY <1>1 DEF vacated
<1>5. \A k \in upserted :
        /\ rows'[k] \in Row /\ rows'[k] # Absent
        /\ rows'[k].pub = pass.existence[k] /\ rows'[k].pub \in Pubs
        /\ rows'[k].sidecar < nextSide /\ rows'[k].updatedAt = clock
        /\ k < nextKey
  BY <1>3, DesiredRow
<1>6. TypeOK'
  <2>1. rows' \in Index
    <3>1. \A k \in Keys : rows'[k] \in Row \cup {Absent}
      BY <1>4, <1>5, PassParts DEF Index
    <3>2. QED
      BY <1>1, <3>1 DEF Index
  <2>2. UniquePubs(rows')
    <3>1. ASSUME NEW j \in Keys, NEW k \in Keys, rows'[j] # Absent,
                 rows'[k] # Absent, rows'[j].pub = rows'[k].pub
          PROVE  j = k
      <4>1. CASE j \in upserted /\ k \in upserted
        BY <1>3, <1>5, <3>1, <4>1
      <4>2. ASSUME NEW a \in upserted, NEW b \in Keys \ upserted,
                   rows'[b] # Absent, rows'[a].pub = rows'[b].pub
            PROVE  FALSE
        <5>1. b \in Rows(vacated) \ {a} /\ vacated[b].pub = desired(a).pub
          BY <1>3, <1>4, <4>2 DEF Rows
        <5>2. Upsertable(vacated, a, desired(a).pub)
          BY <1>1 DEF upsertDesired
        <5>3. QED
          BY <5>1, <5>2 DEF Upsertable
      <4>3. CASE j \notin upserted /\ k \notin upserted
        <5>1. rows[j] # Absent /\ rows[k] # Absent /\ rows[j].pub = rows[k].pub
          BY <1>4, <3>1, <4>3
        <5>2. QED
          BY <5>1 DEF IInv, TypeOK, UniquePubs, Rows
      <4>4. QED
        BY <3>1, <4>1, <4>2, <4>3
    <3>2. QED
      BY <3>1 DEF UniquePubs, Rows
  <2>3. ASSUME NEW k \in Keys, k >= nextKey
        PROVE  existence[k] = Absent /\ rows'[k] = Absent
    <3>1. existence[k] = Absent /\ rows[k] = Absent /\ nextKey \in Nat
      BY <2>3, Bounds DEF IInv, TypeOK
    <3>2. k \notin upserted
      BY <1>5, <2>3, <3>1 DEF Keys
    <3>3. QED
      BY <1>4, <3>1, <3>2
  <2>4. QED
    BY <1>1, <1>2, <2>1, <2>2, <2>3 DEF IInv, TypeOK, records
<1>7. RequestsKnown'
  BY <1>1 DEF IInv, RequestsKnown, Known, records
<1>8. KeysKnown'
  <2>1. ASSUME NEW k \in Keys, rows'[k] # Absent
        PROVE  rows'[k].sidecar < nextSide /\ rows'[k].updatedAt <= clock
    <3>1. CASE k \in upserted
      BY <1>5, <3>1, PassParts
    <3>2. CASE k \notin upserted
      BY <1>4, <2>1, <3>2 DEF IInv, KeysKnown, Rows
    <3>3. QED
      BY <3>1, <3>2
  <2>2. QED
    BY <1>1, <1>2, <2>1 DEF IInv, KeysKnown, Rows, records
<1>9. OnePubPerKey'
  <2>1. ASSUME NEW k \in Keys, NEW p \in Pubs, Claims(k, p)'
        PROVE  Claims(k, p)
    <3>1. rows'[k] # Absent /\ rows'[k].pub = p =>
            \/ pass.existence[k] = p
            \/ rows[k] # Absent /\ rows[k].pub = p
      BY <1>4, <1>5
    <3>2. QED
      BY <1>1, <1>2, <2>1, <3>1 DEF Claims, records
  <2>2. QED
    BY <2>1 DEF IInv, OnePubPerKey
<1>10. PassKnows'
  <2>1. losers' = losers
    BY <1>2 DEF losers
  <2> HIDE DEF losers
  <2>2. QED
    BY <1>1, <1>2, <2>1 DEF IInv, PassKnows, PassSteps, records
<1>11. DeletesSweep'
  BY <1>1 DEF IInv, DeletesSweep, DeleteSweepsDuplicates, Followed,
              ExistenceOf, Alone, Sweeps, records
<1>12. QED
  BY <1>6, <1>7, <1>8, <1>9, <1>10, <1>11 DEF IInv

-----------------------------------------------------------------------------
(* The steps that write records and rows.                                  *)

LEMMA MirrorInv ==
  ASSUME IInv, NEW s \in Sessions, Mirror(s)
  PROVE  IInv'
<1> DEFINE r == req[s]
<1>1. /\ r \in Request /\ Known(r) /\ r.pc = "mirroring" /\ r.pub \in Pubs
      /\ r.rkey \in Keys /\ r.rkey < nextKey /\ rows \in Index
      /\ r.sidecar < nextSide /\ r.now <= clock
      /\ req \in [Sessions -> Request]
  BY DEF Mirror, MirrorWrite, MirrorFails, IInv, TypeOK, RequestsKnown, Known,
         Request
<1>2. /\ UNCHANGED <<records, clock, pass, begun, external, moved>>
      /\ ack' = [ack EXCEPT ![r.pub] = outcome(r)]
  BY DEF Mirror
<1>3. /\ req' \in [Sessions -> Request] /\ req'[s] = IdleReq
      /\ \A u \in Sessions \ {s} : req'[u] = req[u]
  BY <1>1, IdleTypes DEF Mirror, Respond
<1>4. /\ IdleReq.pc = "idle" /\ IdleReq.rkey = 0 /\ IdleReq.op = "create"
      /\ IdleReq.sidecar = 0 /\ IdleReq.now = 0 /\ ~IdleReq.alone
  BY DEF IdleReq
<1>5. Claims(r.rkey, r.pub)
  BY DEF Claims
<1>6. /\ rows' \in Index
      /\ \A k \in Keys : k # r.rkey => rows'[k] = rows[k]
      /\ \/ rows'[r.rkey] \in {rows[r.rkey], Absent}
         \/ /\ rows'[r.rkey] = [pub |-> r.pub, sidecar |-> r.sidecar,
                                meta |-> r.meta, updatedAt |-> r.now]
            /\ Upsertable(rows, r.rkey, r.pub)
  <2>1. CASE MirrorFails(s) \/ r.op = "delete"
    BY <1>1, <2>1 DEF Mirror, MirrorWrite, MirrorFails, Index
  <2>2. CASE MirrorWrite(s) /\ r.op # "delete"
    <3>1. PICK row : row = [pub |-> r.pub, sidecar |-> r.sidecar,
                            meta |-> r.meta, updatedAt |-> r.now]
      OBVIOUS
    <3>2. row \in Row
      BY <1>1, <3>1 DEF Row, Request
    <3>3. Upsertable(rows, r.rkey, r.pub) /\ rows' = [rows EXCEPT ![r.rkey] = row]
      BY <2>2, <3>1 DEF MirrorWrite
    <3>4. QED
      BY <1>1, <3>1, <3>2, <3>3 DEF Index
  <2>3. QED
    BY <2>1, <2>2 DEF Mirror
<1>7. /\ mirrored' \in SUBSET Keys
      /\ mirrored' = {} => UNCHANGED <<rows, mirrored>> \/ pass.pc = "idle"
  <2>1. mirrored \in SUBSET Keys
    BY DEF IInv, TypeOK
  <2>2. QED
    BY <1>1, <2>1 DEF Mirror, MirrorWrite, MirrorFails
<1>8. wanted' \in BOOLEAN
  <2>1. wanted \in BOOLEAN
    BY DEF IInv, TypeOK
  <2>2. wanted' = wanted \/ wanted' = TRUE
    BY Zenon DEF Mirror, MirrorWrite, MirrorFails
  <2>3. QED
    BY <2>1, <2>2, Zenon
<1>9. /\ ack' \in [Pubs -> Metas \cup {Unknown, Gone}]
      /\ \A p \in Pubs : ack'[p] = Gone =>
           ack[p] = Gone \/ (p = r.pub /\ r.alone /\ r.op = "delete")
  <2>1. /\ ack \in [Pubs -> Metas \cup {Unknown, Gone}] /\ r.meta \in Metas
        /\ Unknown # Gone /\ Gone \notin Metas
    BY <1>1, StandardAssumption DEF IInv, TypeOK, Request
  <2>2. /\ outcome(r) \in Metas \cup {Unknown, Gone}
        /\ outcome(r) = Gone => r.alone /\ r.op = "delete"
    BY <2>1 DEF outcome
  <2> HIDE DEF r
  <2>3. QED
    BY <1>2, <2>1, <2>2
<1>10. TypeOK'
  <2>1. UniquePubs(rows')
    <3>1. ASSUME NEW j \in Keys, NEW k \in Keys, rows'[j] # Absent,
                 rows'[k] # Absent, rows'[j].pub = rows'[k].pub, j # k
          PROVE  FALSE
      <4>1. UniquePubs(rows)
        BY DEF IInv, TypeOK
      <4>2. CASE rows'[r.rkey] \in {rows[r.rkey], Absent}
        BY <1>6, <3>1, <4>1, <4>2 DEF UniquePubs, Rows
      <4>3. CASE rows'[r.rkey].pub = r.pub /\ Upsertable(rows, r.rkey, r.pub)
        BY <1>6, <3>1, <4>1, <4>3 DEF UniquePubs, Rows, Upsertable
      <4>4. QED
        BY <1>6, <4>2, <4>3
    <3>2. QED
      BY <3>1 DEF UniquePubs, Rows
  <2>2. \A k \in Keys : k >= nextKey => existence[k] = Absent /\ rows'[k] = Absent
    <3>1. \A k \in Keys : k >= nextKey => existence[k] = Absent /\ rows[k] = Absent
      BY DEF IInv, TypeOK
    <3>2. nextKey \in Nat /\ ~(r.rkey >= nextKey)
      BY <1>1, Bounds DEF IInv, TypeOK, Keys
    <3>3. QED
      BY <1>6, <3>1, <3>2
  <2> HIDE DEF r
  <2>3. QED
    BY <1>2, <1>3, <1>6, <1>7, <1>8, <1>9, <2>1, <2>2 DEF IInv, TypeOK, records
<1>11. RequestsKnown'
  <2>1. nextKey > 0 /\ nextSide > 0 /\ clock >= 0
    BY Bounds DEF IInv, TypeOK, Seconds
  <2>2. QED
    BY <1>2, <1>3, <1>4, <2>1 DEF IInv, RequestsKnown, Known, records
<1>12. KeysKnown'
  BY <1>1, <1>2, <1>6 DEF IInv, KeysKnown, Rows, records
<1>13. OnePubPerKey'
  <2>1. ASSUME NEW k \in Keys, NEW p \in Pubs, Claims(k, p)'
        PROVE  Claims(k, p)
    <3>1. rows'[k] # Absent /\ rows'[k].pub = p =>
            \/ rows[k] # Absent /\ rows[k].pub = p
            \/ k = r.rkey /\ p = r.pub
      BY <1>6
    <3>2. \A u \in Sessions : req'[u].rkey = k => req'[u] = req[u]
      BY <1>3, <1>4 DEF Keys
    <3>3. QED
      BY <1>2, <1>5, <2>1, <3>1, <3>2 DEF Claims, records
  <2>2. QED
    BY <2>1 DEF IInv, OnePubPerKey
<1>14. PassKnows'
  BY <1>2, <1>7 DEF IInv, PassKnows, PassSteps, Rows, losers, records
<1>15. DeletesSweep'
  <2>1. r.alone => Alone(s) /\ Sweeps(r)
    BY DEF IInv, DeletesSweep
  <2>2. r.alone /\ r.op = "delete" => ExistenceOf(existence, r.pub) = {}
    BY <1>1, <2>1 DEF Sweeps
  <2>3. DeleteSweepsDuplicates'
    BY <1>2, <1>9, <2>2 DEF IInv, DeletesSweep, DeleteSweepsDuplicates,
                            Followed, ExistenceOf, records
  <2>4. \A u \in Sessions : req'[u].alone => req'[u] = req[u] /\ u # s
    BY <1>3, <1>4
  <2>5. \A u \in Sessions : req'[u].alone =>
          /\ req'[u].pc # "idle"
          /\ \A v \in Sessions \ {u} : req'[v].pc = "idle"
    BY <1>3, <1>4, <2>4 DEF IInv, DeletesSweep, Alone
  <2>6. \A u \in Sessions : req'[u].alone => Sweeps(req[u])
    BY <2>4 DEF IInv, DeletesSweep
  <2>7. QED
    BY <1>2, <2>3, <2>4, <2>5, <2>6
       DEF DeletesSweep, Alone, Sweeps, ExistenceOf, records
<1>16. QED
  BY <1>10, <1>11, <1>12, <1>13, <1>14, <1>15 DEF IInv

(* Nothing is known by a key that was not given out.                       *)
LEMMA FreshKey ==
  ASSUME IInv, NEW k \in Keys, k >= nextKey, NEW p \in Pubs
  PROVE  ~Claims(k, p)
<1>1. existence[k] = Absent /\ rows[k] = Absent
  BY DEF IInv, TypeOK
<1>2. pass.existence[k] = Absent
  BY DEF IInv, KeysKnown
<1>3. \A s \in Sessions : req[s].rkey < nextKey /\ req[s].rkey \in Nat
  <2>1. \A s \in Sessions : req[s] \in Request /\ req[s].rkey < nextKey
    BY DEF IInv, TypeOK, RequestsKnown, Known
  <2>2. \A s \in Sessions : req[s].rkey \in Keys \cup {0}
    BY <2>1 DEF Request
  <2>3. Keys \cup {0} \subseteq Nat
    BY DEF Keys
  <2>4. QED
    BY <2>1, <2>2, <2>3
<1>4. nextKey \in Nat /\ k \in Nat
  BY Bounds DEF IInv, TypeOK, Keys
<1>5. QED
  BY <1>1, <1>2, <1>3, <1>4, StandardAssumption DEF Claims

(* A write to the records spoils what the pass has listed.                 *)
LEMMA RecordsMoveKnows ==
  ASSUME IInv, RecordsMove, UNCHANGED <<rows, pass, mirrored>>
  PROVE  PassKnows' /\ moved' \in BOOLEAN
<1>1. losers' = losers
  BY DEF losers
<1> HIDE DEF losers
<1>2. pass.pc # "idle" => moved'
  BY DEF RecordsMove
<1>3. PassKnows'
  BY <1>1, <1>2 DEF IInv, PassKnows, PassSteps, Rows
<1>4. moved' \in BOOLEAN
  BY Zenon DEF RecordsMove
<1>5. QED
  BY <1>3, <1>4

LEMMA OtherClientInv == IInv /\ OtherClient => IInv'
<1> SUFFICES ASSUME IInv, OtherClient
             PROVE  IInv'
  OBVIOUS
<1>1. /\ req' = [s \in Sessions |-> [req[s] EXCEPT !.alone = FALSE]]
      /\ RecordsMove
      /\ UNCHANGED <<sidecars, nextSide, rows, clock, pass, wanted, begun,
                     mirrored>>
      /\ external < MaxExternal /\ external' = external + 1
  BY DEF OtherClient
<1>2. /\ existence \in Existences /\ ack \in [Pubs -> Metas \cup {Unknown, Gone}]
      /\ req \in [Sessions -> Request] /\ external \in 0..MaxExternal
      /\ nextKey \in 1..(MaxExistence + 1) /\ nextKey \in Nat
      /\ \A k \in Keys : k >= nextKey => existence[k] = Absent /\ rows[k] = Absent
      /\ Absent \notin Pubs
  BY Bounds, StandardAssumption DEF IInv, TypeOK
<1>3. \A s \in Sessions :
        /\ req'[s] \in Request /\ ~req'[s].alone
        /\ req'[s].pc = req[s].pc /\ req'[s].op = req[s].op
        /\ req'[s].rkey = req[s].rkey /\ req'[s].pub = req[s].pub
        /\ req'[s].sidecar = req[s].sidecar /\ req'[s].now = req[s].now
  <2>1. ASSUME NEW r \in Request
        PROVE  LET t == [r EXCEPT !.alone = FALSE]
               IN  /\ t \in Request /\ ~t.alone
                   /\ t.pc = r.pc /\ t.op = r.op /\ t.rkey = r.rkey
                   /\ t.pub = r.pub /\ t.sidecar = r.sidecar /\ t.now = r.now
    BY DEF Request
  <2>2. QED
    BY <1>1, <1>2, <2>1
<1>4. req' \in [Sessions -> Request]
  BY <1>1, <1>3
<1>5. PassKnows' /\ moved' \in BOOLEAN
  BY <1>1, RecordsMoveKnows
<1>6. external' \in 0..MaxExternal
  BY <1>1, <1>2, Bounds
<1>7. PICK k \in Keys, q \in Pubs, v \in Pubs \cup {Absent} :
        /\ v \in {q, Absent}
        /\ existence' = [existence EXCEPT ![k] = v]
        /\ ack' = [ack EXCEPT ![q] = Unknown]
        /\ v = q => k = nextKey /\ nextKey' = nextKey + 1
        /\ v = Absent => existence[k] # Absent /\ UNCHANGED nextKey
  <2>1. CASE \E p \in Pubs : /\ nextKey <= MaxExistence
                             /\ existence' = [existence EXCEPT ![nextKey] = p]
                             /\ nextKey' = nextKey + 1
                             /\ ack' = [ack EXCEPT ![p] = Unknown]
    <3>1. nextKey \in Keys
      BY <1>2, <2>1, Bounds DEF Keys
    <3>2. QED
      BY <1>2, <2>1, <3>1
  <2>2. CASE \E k \in Keys : /\ existence[k] # Absent
                             /\ existence' = [existence EXCEPT ![k] = Absent]
                             /\ ack' = [ack EXCEPT ![existence[k]] = Unknown]
                             /\ UNCHANGED nextKey
    BY <1>2, <2>2 DEF Existences
  <2>3. QED
    BY <2>1, <2>2 DEF OtherClient
<1>8. /\ existence'[k] = v /\ \A j \in Keys : j # k => existence'[j] = existence[j]
      /\ existence' \in Existences
      /\ nextKey' \in 1..(MaxExistence + 1) /\ nextKey' >= nextKey
      /\ k < nextKey'
  BY <1>2, <1>7, Bounds DEF Existences, Keys
<1>9. TypeOK'
  <2>1. ack' \in [Pubs -> Metas \cup {Unknown, Gone}]
    BY <1>2, <1>7
  <2>2. \A j \in Keys : j >= nextKey' => existence'[j] = Absent /\ rows'[j] = Absent
    BY <1>1, <1>2, <1>8, Bounds DEF Keys
  <2>3. QED
    BY <1>1, <1>4, <1>5, <1>6, <1>8, <2>1, <2>2
       DEF IInv, TypeOK, UniquePubs, Rows
<1>10. RequestsKnown'
  <2>1. \A s \in Sessions : req[s].rkey \in Nat
    BY <1>2 DEF Request, Keys
  <2>2. QED
    BY <1>1, <1>2, <1>3, <1>8, <2>1, Bounds DEF IInv, RequestsKnown, Known
<1>11. KeysKnown'
  BY <1>1, <1>2, <1>8, Bounds DEF IInv, KeysKnown, Rows, Keys
<1>12. OnePubPerKey'
  <2>1. ASSUME NEW j \in Keys, NEW p \in Pubs, Claims(j, p)'
        PROVE  Claims(j, p) \/ (j = nextKey /\ p = q /\ v = q)
    <3>1. existence'[j] = p => existence[j] = p \/ (j = nextKey /\ p = q /\ v = q)
      BY <1>2, <1>7, <1>8
    <3>2. (\E s \in Sessions : req'[s].rkey = j /\ req'[s].pub = p) =>
             \E s \in Sessions : req[s].rkey = j /\ req[s].pub = p
      BY <1>3
    <3>3. UNCHANGED <<rows, pass>>
      BY <1>1
    <3>4. QED
      BY <2>1, <3>1, <3>2, <3>3 DEF Claims
  <2>2. v = q => \A p \in Pubs : ~Claims(k, p)
    BY <1>2, <1>7, FreshKey
  <2>3. QED
    BY <1>7, <2>1, <2>2 DEF IInv, OnePubPerKey
<1>13. DeletesSweep'
  <2>1. ASSUME NEW p \in Pubs, ack'[p] = Gone
        PROVE  ExistenceOf(existence', p) = {}
    <3>1. p # q /\ ack[p] = Gone
      BY <1>2, <1>7, <2>1, StandardAssumption
    <3>2. ExistenceOf(existence, p) = {}
      BY <3>1 DEF IInv, DeletesSweep, DeleteSweepsDuplicates, Followed
    <3>3. QED
      BY <1>2, <1>7, <1>8, <3>1, <3>2 DEF ExistenceOf, Existences
  <2>2. QED
    BY <1>3, <2>1 DEF DeletesSweep, DeleteSweepsDuplicates, Followed
<1>14. QED
  BY <1>5, <1>9, <1>10, <1>11, <1>12, <1>13 DEF IInv

LEMMA CommitInv ==
  ASSUME IInv, NEW s \in Sessions, Commit(s)
  PROVE  IInv'
<1> DEFINE r == req[s]
           q == Keyed(r)
<1>1. /\ r \in Request /\ Known(r) /\ r.pc = "committing" /\ r.pub \in Pubs
      /\ req \in [Sessions -> Request]
      /\ PdsAccepts(r) /\ Committed(r) /\ RecordsMove
      /\ ack' = [ack EXCEPT ![r.pub] = Unknown]
      /\ UNCHANGED <<rows, clock, pass, wanted, begun, external, mirrored>>
  BY DEF Commit, IInv, TypeOK, RequestsKnown, Known
<1>2. /\ nextKey \in 1..(MaxExistence + 1) /\ nextSide \in 1..(MaxSidecars + 1)
      /\ nextKey \in Nat /\ nextSide \in Nat
      /\ existence \in Existences /\ sidecars \in Sidecars
      /\ ack \in [Pubs -> Metas \cup {Unknown, Gone}]
      /\ Absent \notin Pubs /\ Unknown # Gone
      /\ \A k \in Keys : k >= nextKey => existence[k] = Absent /\ rows[k] = Absent
      /\ \A k \in SidecarKeys : k >= nextSide => sidecars[k] = Absent
  BY Bounds, StandardAssumption DEF IInv, TypeOK
<1>3. /\ nextKey' = IF makesExistence(r) THEN nextKey + 1 ELSE nextKey
      /\ nextSide' = IF makesSidecar(r) THEN nextSide + 1 ELSE nextSide
      /\ nextKey' \in 1..(MaxExistence + 1) /\ nextKey' >= nextKey
      /\ nextSide' \in 1..(MaxSidecars + 1) /\ nextSide' >= nextSide
  BY <1>1, <1>2, Bounds DEF Committed, PdsAccepts
<1>4. PICK rkey \in Keys, sc \in SidecarKeys \cup {0}, made \in BOOLEAN,
           edited \in BOOLEAN :
        /\ q = [r EXCEPT !.rkey = rkey, !.sidecar = sc, !.made = made,
                         !.edits = edited]
        /\ rkey = IF makesExistence(r) THEN nextKey ELSE r.rkey
        /\ sc = IF makesSidecar(r) THEN nextSide ELSE r.sidecar
  <2>1. r.rkey = 0 => makesExistence(r)
    BY <1>1 DEF Known, makesExistence
  <2>2. (IF makesExistence(r) THEN nextKey ELSE r.rkey) \in Keys
    BY <1>1, <1>2, <2>1, Bounds DEF PdsAccepts, Request, Keys
  <2>3. (IF makesSidecar(r) THEN nextSide ELSE r.sidecar) \in SidecarKeys \cup {0}
    BY <1>1, <1>2, Bounds DEF PdsAccepts, Request, SidecarKeys
  <2>4. makesExistence(r) \in BOOLEAN
        /\ (makesSidecar(r) \/ r.op = "patch") \in BOOLEAN
    BY Zenon DEF makesExistence, makesSidecar
  <2>5. QED
    BY <2>2, <2>3, <2>4 DEF Keyed
<1> HIDE DEF q
<1>5. /\ q \in Request /\ q.rkey = rkey /\ q.sidecar = sc /\ q.op = r.op
      /\ q.pub = r.pub /\ q.doomed = r.doomed /\ q.now = r.now
      /\ q.alone = r.alone /\ q.pc = r.pc
  <2> HIDE DEF r
  <2> QED  BY <1>1, <1>4 DEF Request
<1>6. rkey # 0 /\ rkey < nextKey' /\ sc < nextSide'
  BY <1>1, <1>2, <1>3, <1>4, Bounds DEF Known, Keys
<1>7. PICK t \in Request :
        /\ req' = [req EXCEPT ![s] = t]
        /\ \/ t = IdleReq
           \/ /\ t.pc \in {"mirroring", "confirming"}
              /\ t.pc = "confirming" => t.op = "create"
              /\ t.op = r.op /\ t.pub = r.pub /\ t.rkey = rkey
              /\ t.sidecar = sc /\ t.now = r.now /\ t.alone = r.alone
  <2>1. CASE Becomes(s, [q EXCEPT !.pc = "mirroring"])
    <3>1. PICK t : t = [q EXCEPT !.pc = "mirroring"]
      OBVIOUS
    <3>2. /\ t \in Request /\ t.pc = "mirroring" /\ t.op = r.op
          /\ t.pub = r.pub /\ t.rkey = rkey /\ t.sidecar = sc
          /\ t.now = r.now /\ t.alone = r.alone
      BY <1>5, <3>1 DEF Request
    <3>3. QED
      BY <2>1, <3>1, <3>2 DEF Becomes
  <2>2. CASE r.op = "create" /\ Becomes(s, [q EXCEPT !.pc = "confirming"])
    <3>1. PICK t : t = [q EXCEPT !.pc = "confirming"]
      OBVIOUS
    <3>2. /\ t \in Request /\ t.pc = "confirming" /\ t.op = r.op
          /\ t.pub = r.pub /\ t.rkey = rkey /\ t.sidecar = sc
          /\ t.now = r.now /\ t.alone = r.alone
      BY <1>5, <3>1 DEF Request
    <3>3. QED
      BY <2>2, <3>1, <3>2 DEF Becomes
  <2>3. CASE Respond(s)
    BY <2>3, IdleTypes DEF Respond
  <2>4. QED
    BY <2>1, <2>2, <2>3 DEF Commit, q
<1>8. /\ req' \in [Sessions -> Request] /\ req'[s] = t
      /\ \A u \in Sessions \ {s} : req'[u] = req[u]
  BY <1>1, <1>7
<1>9. /\ IdleReq.pc = "idle" /\ IdleReq.rkey = 0 /\ IdleReq.op = "create"
      /\ IdleReq.sidecar = 0 /\ IdleReq.now = 0 /\ ~IdleReq.alone
  BY DEF IdleReq
<1>10. \A k \in Keys :
         \/ existence'[k] \in {existence[k], Absent}
         \/ makesExistence(r) /\ k = nextKey /\ existence'[k] = r.pub
  <2>1. existence' = [k \in Keys |->
          CASE makesExistence(r) /\ k = nextKey -> r.pub
            [] r.op = "delete" /\ k \in r.doomed -> Absent
            [] OTHER -> existence[k]]
    BY <1>1 DEF Committed
  <2>2. QED
    BY <2>1 DEF makesExistence
<1>11. r.op = "delete" => \A k \in r.doomed : existence'[k] = Absent
  <2>1. existence' = [k \in Keys |->
          CASE makesExistence(r) /\ k = nextKey -> r.pub
            [] r.op = "delete" /\ k \in r.doomed -> Absent
            [] OTHER -> existence[k]]
    BY <1>1 DEF Committed
  <2>2. r.doomed \in SUBSET Keys
    BY <1>1 DEF Request
  <2>3. QED
    BY <2>1, <2>2 DEF makesExistence
<1>12. PassKnows' /\ moved' \in BOOLEAN
  BY <1>1, RecordsMoveKnows
<1>13. TypeOK'
  <2>1. existence' \in Existences
    <3>1. existence' = [k \in Keys |-> existence'[k]]
      BY <1>1 DEF Committed
    <3>2. \A k \in Keys : existence'[k] \in Pubs \cup {Absent}
      BY <1>1, <1>2, <1>10 DEF Existences
    <3>3. QED
      BY <3>1, <3>2 DEF Existences
  <2>2. sidecars' \in Sidecars
    <3>1. sidecars' = [k \in SidecarKeys |->
              IF k # q.sidecar THEN sidecars[k]
              ELSE IF r.op = "delete" THEN Absent
              ELSE [pub |-> r.pub, meta |-> r.meta]]
      BY <1>1 DEF Committed, q
    <3>2. [pub |-> r.pub, meta |-> r.meta] \in Sidecar
      BY <1>1 DEF Request, Sidecar
    <3>3. \A k \in SidecarKeys : sidecars[k] \in Sidecar \cup {Absent}
      BY <1>2 DEF Sidecars
    <3> HIDE DEF r
    <3>4. QED
      BY <3>1, <3>2, <3>3 DEF Sidecars
  <2>3. \A k \in Keys : k >= nextKey' => existence'[k] = Absent /\ rows'[k] = Absent
    BY <1>1, <1>2, <1>3, <1>10, Bounds DEF Keys
  <2>4. \A k \in SidecarKeys : k >= nextSide' => sidecars'[k] = Absent
    <3>1. \A k \in SidecarKeys : k # sc => sidecars'[k] = sidecars[k]
      BY <1>1, <1>5 DEF Committed, q
    <3>2. QED
      BY <1>2, <1>3, <1>6, <3>1, Bounds DEF SidecarKeys
  <2>5. ack' \in [Pubs -> Metas \cup {Unknown, Gone}]
    BY <1>1, <1>2
  <2> HIDE DEF r
  <2>6. QED
    BY <1>1, <1>3, <1>8, <1>12, <2>1, <2>2, <2>3, <2>4, <2>5
       DEF IInv, TypeOK, UniquePubs, Rows
<1>14. RequestsKnown'
  <2>1. ASSUME NEW u \in Sessions
        PROVE  /\ req[u].rkey < nextKey' /\ req[u].sidecar < nextSide'
               /\ req[u].now <= clock'
    <3>1. req[u] \in Request /\ Known(req[u])
      BY <1>1 DEF IInv, RequestsKnown
    <3>2. req[u].rkey \in Nat /\ req[u].sidecar \in Nat
      BY <3>1 DEF Request, Keys, SidecarKeys
    <3>3. QED
      BY <1>1, <1>2, <1>3, <3>1, <3>2, Bounds DEF Known
  <2>2. nextKey' > 0 /\ nextSide' > 0 /\ clock' >= 0
    BY <1>1, <1>3, Bounds DEF IInv, TypeOK, Seconds
  <2>3. ASSUME NEW u \in Sessions \ {s}
        PROVE  /\ req'[u].pc # "idle" => req'[u].pub \in Pubs
               /\ req'[u].pc = "idle" => req'[u].rkey = 0
               /\ req'[u].rkey = 0 => req'[u].op = "create"
                    /\ req'[u].pc \notin {"confirming", "mirroring"}
               /\ req'[u].pc = "confirming" => req'[u].op = "create"
               /\ req'[u].rkey < nextKey' /\ req'[u].sidecar < nextSide'
               /\ req'[u].now <= clock'
    <3>1. Known(req[u]) /\ req'[u] = req[u]
      BY <1>8 DEF IInv, RequestsKnown
    <3>2. QED
      BY <2>1, <3>1 DEF Known
  <2>4. /\ t.pc # "idle" => t.pub \in Pubs
        /\ t.pc = "idle" => t.rkey = 0
        /\ t.rkey = 0 => t.op = "create" /\ t.pc \notin {"confirming", "mirroring"}
        /\ t.pc = "confirming" => t.op = "create"
        /\ t.rkey < nextKey' /\ t.sidecar < nextSide' /\ t.now <= clock'
    BY <1>1, <1>6, <1>7, <1>9, <2>1, <2>2
  <2>5. QED
    BY <1>8, <2>3, <2>4 DEF RequestsKnown, Known
<1>15. KeysKnown'
  <2>1. \A k \in Rows(rows) : rows[k].sidecar \in Nat
    <3>1. \A k \in Rows(rows) : rows[k] \in Row
      BY DEF IInv, TypeOK, Index, Rows
    <3>2. QED
      BY <3>1 DEF Row, SidecarKeys
  <2>2. QED
    BY <1>1, <1>2, <1>3, <2>1, Bounds DEF IInv, KeysKnown, Rows, Keys, SidecarKeys
<1>16. OnePubPerKey'
  <2>1. ASSUME NEW k \in Keys, NEW p \in Pubs, Claims(k, p)'
        PROVE  Claims(k, p) \/ (makesExistence(r) /\ k = nextKey /\ p = r.pub)
    <3>1. CASE t = IdleReq
      BY <1>1, <1>2, <1>8, <1>9, <1>10, <2>1, <3>1 DEF Claims, Keys
    <3>2. CASE t.rkey = rkey /\ t.pub = r.pub
      <4>1. rkey = k => (makesExistence(r) /\ k = nextKey) \/ k = r.rkey
        BY <1>4
      <4>2. QED
        BY <1>1, <1>2, <1>8, <1>10, <2>1, <3>2, <4>1 DEF Claims
    <3>3. QED
      BY <1>7, <3>1, <3>2
  <2>2. \A k \in Keys, p \in Pubs : k = nextKey => ~Claims(k, p)
    BY <1>2, FreshKey
  <2>3. QED
    BY <2>1, <2>2 DEF IInv, OnePubPerKey
<1>17. DeletesSweep'
  <2>1. ASSUME NEW p \in Pubs, ack'[p] = Gone
        PROVE  ExistenceOf(existence', p) = {}
    <3>1. p # r.pub /\ ack[p] = Gone
      BY <1>1, <1>2, <2>1
    <3>2. ExistenceOf(existence, p) = {}
      BY <3>1 DEF IInv, DeletesSweep, DeleteSweepsDuplicates, Followed
    <3>3. DOMAIN existence' = Keys /\ DOMAIN existence = Keys
      BY <1>1, <1>2 DEF Committed, Existences
    <3>4. QED
      BY <1>2, <1>10, <3>1, <3>2, <3>3 DEF ExistenceOf
  <2>2. \A u \in Sessions : req'[u].alone => u = s /\ r.alone /\ t # IdleReq
    <3>1. \A u \in Sessions \ {s} : req[u].alone => req[s].pc = "idle"
      BY DEF IInv, DeletesSweep, Alone
    <3>2. QED
      BY <1>1, <1>7, <1>8, <1>9, <3>1
  <2>3. r.alone => Alone(s) /\ Sweeps(r)
    BY DEF IInv, DeletesSweep
  <2>4. ASSUME t.alone
        PROVE  /\ t.pc # "idle" /\ \A u \in Sessions \ {s} : req'[u].pc = "idle"
               /\ t.op = "delete" => ExistenceOf(existence', t.pub) = {}
               /\ t.pc \notin {"sidecars", "committing"}
    <3>1. /\ t.op = r.op /\ t.pub = r.pub /\ r.alone
          /\ t.pc \in {"mirroring", "confirming"}
      BY <1>7, <1>9, <2>4
    <3>2. r.op = "delete" => r.doomed = ExistenceOf(existence, r.pub)
      BY <1>1, <2>3, <3>1 DEF Sweeps
    <3>3. DOMAIN existence' = Keys /\ DOMAIN existence = Keys
      BY <1>1, <1>2 DEF Committed, Existences
    <3>4. r.op = "delete" => ~makesExistence(r)
      BY DEF makesExistence
    <3>5. ASSUME r.op = "delete", NEW k \in Keys
          PROVE  existence'[k] # r.pub
      BY <1>1, <1>2, <1>10, <1>11, <3>2, <3>3, <3>4, <3>5 DEF ExistenceOf
    <3>6. t.op = "delete" => ExistenceOf(existence', t.pub) = {}
      BY <3>1, <3>3, <3>5 DEF ExistenceOf
    <3>7. QED
      BY <1>8, <2>3, <3>1, <3>6 DEF Alone
  <2>5. QED
    BY <1>8, <2>1, <2>2, <2>4
       DEF DeletesSweep, DeleteSweepsDuplicates, Followed, Alone, Sweeps
<1>18. QED
  BY <1>12, <1>13, <1>14, <1>15, <1>16, <1>17 DEF IInv

LEMMA NextInv == IInv /\ [Next]_vars => IInv'
<1> SUFFICES ASSUME IInv, [Next]_vars
             PROVE  IInv'
  OBVIOUS
<1>1. ASSUME NEW s \in Sessions, Handle(s)
      PROVE  IInv'
  BY <1>1, CreateProbeInv, PatchLoadInv, DeleteLoadInv, ListExistenceInv,
     ListSidecarsInv, ReturnsInv, CommitInv, ConfirmInv, MirrorInv DEF Handle
<1>2. CASE PassBegins \/ ReadBaseline \/ ListMorgen \/ ListStandard
           \/ PassFails \/ Apply \/ ApplyFails \/ Cleanup \/ Finish
  BY <1>2, PassBeginsInv, ReadBaselineInv, ListMorgenInv, ListStandardInv,
     PassEndsInv, ApplyInv, ApplyFailsInv, CleanupInv
<1>3. CASE OtherClient \/ Tick \/ Trigger \/ Crash
  BY <1>3, OtherClientInv, TickInv, TriggerInv, CrashInv
<1>4. CASE UNCHANGED vars
  BY <1>4 DEF vars, records, IInv, TypeOK, UniquePubs, Rows, RequestsKnown, Known,
     KeysKnown, OnePubPerKey, Claims, PassKnows, losers, DeletesSweep, Alone,
     Sweeps, DeleteSweepsDuplicates, Followed, ExistenceOf
<1>5. QED
  BY <1>1, <1>2, <1>3, <1>4 DEF Next

LEMMA InvHolds == Spec => []IInv
  BY InitInv, NextInv, PTL DEF Spec

-----------------------------------------------------------------------------
(* What follows.                                                           *)

(* Every variable keeps its type, and the index one row per publication,   *)
(* in every interleaving of requests, other clients and the pass.          *)
THEOREM TypeCorrect == Spec => []TypeOK
<1>1. IInv => TypeOK
  BY DEF IInv
<1>2. QED
  BY <1>1, InvHolds, PTL

(* An acknowledged delete that nothing overlapped leaves no record of its  *)
(* publication, until somebody makes one: internal/api/sidecar_write.go,   *)
(* deleteStandardSubscription.                                             *)
THEOREM DeletesAreComplete == Spec => []DeleteSweepsDuplicates
<1>1. IInv => DeleteSweepsDuplicates
  BY DEF IInv, DeletesSweep
<1>2. QED
  BY <1>1, InvHolds, PTL

(* What a settled pass sees: its baseline is the index, no row is newer    *)
(* than it, and its listings are the repository.                           *)
LEMMA SettledPass ==
  ASSUME IInv, pass.pc = "applying", Settled
  PROVE  /\ pass.baseline = rows
         /\ pass.existence = existence /\ pass.sidecars = sidecars
         /\ \A k \in Keys : ~changedDuringListing(k) /\ ~deletedDuringListing(k)
         /\ upserted = Keep
<1>1. /\ pass.baseline = rows /\ pass.existence = existence
      /\ pass.sidecars = sidecars
      /\ \A k \in Rows(rows) : rows[k].updatedAt <= pass.snapshotAt
  BY DEF IInv, PassKnows, Settled, PassSteps
<1>2. ASSUME NEW k \in Keys
      PROVE  ~changedDuringListing(k) /\ ~deletedDuringListing(k)
  <2>1. rows[k] # Absent => /\ rows[k].updatedAt \in Nat
                            /\ pass.snapshotAt \in Nat
    <3>1. rows[k] # Absent => rows[k] \in Row
      BY DEF IInv, TypeOK, Index
    <3>2. pass.snapshotAt \in Seconds /\ \A row \in Row : row.updatedAt \in Seconds
      BY DEF IInv, TypeOK, Pass, Row
    <3>3. QED
      BY <3>1, <3>2, Bounds DEF Seconds
  <2>2. QED
    BY <1>1, <2>1 DEF changedDuringListing, deletedDuringListing,
                      updatedAfterSnapshot, Rows
<1>3. upserted = Keep
  BY <1>2 DEF upserted, Keep
<1>4. QED
  BY <1>1, <1>2, <1>3

(* The unique index never refuses a settled pass, whatever duplicates and  *)
(* rekeyed records it reads: the rows that could conflict vacate first     *)
(* (reconcile.go, deleteFirst).                                            *)
THEOREM QuietPassesApply == Spec => []QuietPassApplies
<1>1. ASSUME IInv, pass.pc = "applying", Settled, NEW k \in upserted,
             NEW j \in Rows(vacated) \ {k}
      PROVE  vacated[j].pub # desired(k).pub
  <2>1. k \in Keys /\ pass.existence[k] # Absent
        /\ k = canonicalByKey(pass.existence, pass.existence[k])
    BY <1>1 DEF upserted, Keep
  <2>2. desired(k).pub = pass.existence[k] /\ desired(k).pub \in Pubs
    BY <1>1, <2>1, DesiredRow
  <2>3. j \in Keys /\ vacated[j] = rows[j] /\ rows[j] # Absent /\ j \in Keep
    BY <1>1, SettledPass DEF Rows, vacated
  <2>4. /\ pass.existence[j] # Absent
        /\ j = canonicalByKey(pass.existence, pass.existence[j])
    BY <2>3 DEF Keep
  <2>5. pass.existence[j] \in Pubs /\ rows[j].pub \in Pubs
    <3>1. pass.existence \in Existences /\ rows[j] \in Row
      BY <1>1, <2>3, PassParts DEF Pass, Index
    <3>2. QED
      BY <2>3, <2>4, <3>1 DEF Existences, Row
  <2>6. rows[j].pub = pass.existence[j]
    BY <1>1, <2>3, <2>5 DEF IInv, OnePubPerKey, Claims
  <2>7. QED
    BY <1>1, <2>1, <2>2, <2>3, <2>4, <2>6
<1>2. IInv => QuietPassApplies
  BY <1>1 DEF QuietPassApplies, upsertDesired, Upsertable
<1>3. QED
  BY <1>2, InvHolds, PTL

(* The cleanup after a pass, while no other record moves, leaves the       *)
(* newest sidecar of every publication followed (reconcile_sidecar.go).    *)
THEOREM CleanupSparesTheNewest == Spec => CleanupKeepsNewest
<1>1. ASSUME IInv, Cleanup, ~moved, NEW k \in SidecarKeys, sidecars[k] # Absent,
             Followed(sidecars[k].pub),
             \A j \in SidecarsOf(sidecars, sidecars[k].pub) : j <= k
      PROVE  sidecars'[k] # Absent
  <2> DEFINE p == sidecars[k].pub
  <2>1. /\ sidecars \in Sidecars /\ pass.sidecars \in Sidecars
        /\ pass.existence = existence /\ pass.losers \subseteq losers
        /\ \A j \in SidecarKeys : \/ sidecars[j] = pass.sidecars[j]
                                  \/ j \in losers /\ sidecars[j] = Absent
    BY <1>1 DEF IInv, TypeOK, PassKnows, Pass, Cleanup
  <2>2. pass.sidecars[k] = sidecars[k] /\ p \in Pubs
    <3>1. sidecars[k] \in Sidecar
      BY <1>1, <2>1 DEF Sidecars
    <3>2. QED
      BY <1>1, <2>1, <3>1 DEF Sidecar
  <2>3. DOMAIN pass.sidecars = SidecarKeys /\ DOMAIN sidecars = SidecarKeys
    BY <2>1 DEF Sidecars
  <2>4. k \in SidecarsOf(pass.sidecars, p)
    BY <1>1, <2>2, <2>3 DEF SidecarsOf
  <2> DEFINE n == newestSidecarByKey(pass.sidecars, p)
  <2>5. /\ n \in SidecarsOf(pass.sidecars, p)
        /\ \A j \in SidecarsOf(pass.sidecars, p) : n >= j
    BY <2>1, <2>2, <2>4, NewestIsThere
  <2>6. n \notin losers
    <3>1. ExistenceOf(pass.existence, p) # {}
      BY <1>1, <2>1 DEF Followed
    <3>2. pass.sidecars[n].pub = p
      BY <2>5 DEF SidecarsOf
    <3>3. QED
      BY <3>1, <3>2 DEF losers
  <2>7. n \in SidecarKeys /\ n \in SidecarsOf(sidecars, p)
    BY <2>1, <2>3, <2>5, <2>6 DEF SidecarsOf
  <2>8. n = k
    <3> HIDE DEF n, p
    <3>1. n <= k
      BY <1>1, <2>7 DEF p
    <3>2. n >= k
      BY <2>4, <2>5
    <3>3. QED
      BY <2>7, <3>1, <3>2, Bounds DEF SidecarKeys
  <2>9. k \notin pass.losers
    BY <2>1, <2>6, <2>8
  <2>10. QED
    BY <1>1, <2>1, <2>9 DEF Cleanup, Sidecars
<1>2. IInv /\ Cleanup /\ ~moved =>
        \A k \in SidecarKeys : sidecars[k] # Absent =>
          LET p == sidecars[k].pub IN
          Followed(p) /\ (\A j \in SidecarsOf(sidecars, p) : j <= k)
          => sidecars'[k] # Absent
  BY <1>1
<1>3. IInv /\ [Next]_vars =>
        [Cleanup /\ ~moved => \A k \in SidecarKeys : sidecars[k] # Absent =>
           LET p == sidecars[k].pub IN
           Followed(p) /\ (\A j \in SidecarsOf(sidecars, p) : j <= k)
           => sidecars'[k] # Absent]_vars
  BY <1>2
<1>4. QED
  BY <1>3, InvHolds, PTL DEF CleanupKeepsNewest, Spec

(* A pass that commits while nothing moves leaves exactly the index that   *)
(* the records ask for (SPEC.md, "Reconciliation repairs the mirror").     *)
THEOREM QuietPassesConverge == Spec => QuietPassConverges
<1>1. ASSUME IInv, Apply, Settled, NEW k \in Keys
      PROVE  Content(rows'[k]) = Authority(k)
  <2>1. /\ pass.existence = existence /\ pass.sidecars = sidecars
        /\ upserted = Keep /\ ~changedDuringListing(k)
    BY <1>1, SettledPass DEF Apply
  <2>2. rows'[k] = IF k \in Keep THEN desired(k) ELSE Absent
    BY <1>1, <2>1 DEF Apply, vacated
  <2>3. existence \in Existences
    BY <1>1 DEF IInv, TypeOK
  <2>4. k \in Keep <=> /\ existence[k] # Absent
                       /\ canonicalOrNone(existence, existence[k]) = k
    <3>1. k \in ExistenceOf(existence, existence[k])
      BY <2>3 DEF ExistenceOf, Existences
    <3>2. QED
      BY <2>1, <3>1 DEF Keep, canonicalOrNone
  <2>5. CASE k \notin Keep
    BY <2>2, <2>4, <2>5 DEF Content, Authority
  <2>6. CASE k \in Keep
    <3>1. desired(k) # Absent
      BY <1>1, <2>6, DesiredRow DEF Keep
    <3>2. Content(rows'[k]) = [pub |-> desired(k).pub,
              sidecar |-> desired(k).sidecar, meta |-> desired(k).meta]
      BY <2>2, <2>6, <3>1 DEF Content
    <3>3. QED
      BY <2>1, <2>4, <2>6, <3>2 DEF Authority, desired
  <2>7. QED
    BY <2>5, <2>6
<1>2. IInv /\ [Next]_vars =>
        [Apply /\ Settled =>
           \A k \in Keys : Content(rows'[k]) = Authority(k)]_vars
  BY <1>1
<1>3. QED
  BY <1>2, InvHolds, PTL DEF QuietPassConverges, Spec

(* A listing taken before a mirror write never erases that write: a row    *)
(* that differs from the baseline is left as it is (LAWS.md).              *)
THEOREM StaleListingsSpareRows == Spec => StaleListingSparesMirror
<1>1. ASSUME IInv, Apply, NEW k \in Keys, rows[k] # pass.baseline[k]
      PROVE  rows'[k] = rows[k]
  <2>1. rows'[k] = IF k \in upserted THEN desired(k) ELSE vacated[k]
    BY <1>1 DEF Apply
  <2>2. k \notin upserted
    BY <1>1 DEF upserted, deletedDuringListing, changedDuringListing
  <2>3. vacated[k] = rows[k]
    BY <1>1 DEF vacated, changedDuringListing
  <2>4. QED
    BY <2>1, <2>2, <2>3
<1>2. IInv => mirrored \subseteq Keys
  BY DEF IInv, TypeOK
<1>3. IInv /\ [Next]_vars =>
        [Apply => \A k \in mirrored :
           rows[k] # pass.baseline[k] => rows'[k] = rows[k]]_vars
  BY <1>1, <1>2
<1>4. QED
  BY <1>3, InvHolds, PTL DEF StaleListingSparesMirror, Spec

-----------------------------------------------------------------------------
(* Publication.                                                            *)

(* A document steady since a fetch began is there, and the fetch has it    *)
(* from every page it has read; an extraction whose row is live has an     *)
(* entry to write to.                                                      *)
SteadyIsSeen(c) ==
    call[c] # NoCall =>
      \A d \in call[c].steady :
        /\ repo[d] # None
        /\ \A i \in 1..Len(Pages) :
             i < call[c].page /\ d \in Pages[i] => call[c].seen[d] # None
PublicationInv ==
    /\ PublicationTypeOK
    /\ \A c \in Fetches : SteadyIsSeen(c)
    /\ \A r \in Readers :
         reader[r].live => /\ reader[r].doc \in Docs
                           /\ entries[reader[r].doc] # None

LEMMA PublicationBounds ==
  /\ Len(Pages) \in Nat /\ MaxEdits \in Nat
  /\ \A i \in 1..Len(Pages) : Pages[i] \subseteq Docs
  /\ \A d \in Docs : \E i \in 1..Len(Pages) : d \in Pages[i]
  /\ None \notin Docs /\ None \notin Nat
  /\ None \notin Record /\ None \notin Entry
<1>1. Pages \in Seq(SUBSET Docs)
  BY PublicationAssumption
<1>2. Len(Pages) \in Nat /\ \A i \in 1..Len(Pages) : Pages[i] \in SUBSET Docs
  BY <1>1
<1>3. \A d \in Docs : \E i \in 1..Len(Pages) : d \in Pages[i]
  BY PublicationAssumption
<1>4. QED
  BY <1>2, <1>3, PublicationAssumption, NoRecordIsNone

(* A listing is told from none by its state.                               *)
LEMMA CallTypes ==
  /\ \A x \in Call : x # NoCall /\ x.pc = "listing"
  /\ NoCall.pc = "idle" /\ NoExtraction \in Extraction
  /\ ~NoExtraction.live
<1>1. \A x \in Call : x.pc = "listing"
  BY DEF Call
<1>2. NoCall.pc = "idle"
  BY DEF NoCall
<1>3. NoExtraction \in Extraction /\ ~NoExtraction.live
  BY DEF NoExtraction, Extraction
<1>4. QED
  BY <1>1, <1>2, <1>3

LEMMA PublicationInitHolds == PublicationInit => PublicationInv
<1> SUFFICES ASSUME PublicationInit PROVE PublicationInv
  OBVIOUS
<1>1. repo \in [Docs -> Record \cup {None}]
  <2>1. 0 \in Revs
    BY PublicationBounds DEF Revs
  <2>2. [rev : {0}, wellFormed : {TRUE}] \subseteq Record
    BY <2>1 DEF Record
  <2>3. QED
    BY <2>2 DEF PublicationInit
<1>2. edits \in Revs
  BY PublicationBounds DEF PublicationInit, Revs
<1>3. QED
  BY <1>1, <1>2, CallTypes
  DEF PublicationInit, PublicationInv, PublicationTypeOK, SteadyIsSeen

(* What is stored of a document is an entry, and the old one unless it is  *)
(* gone.                                                                   *)
LEMMA DiffType ==
  ASSUME PublicationTypeOK, NEW d \in Docs, NEW seen \in Record \cup {None}
  PROVE  /\ Diff(d, seen) \in Entry \cup {None}
         /\ entries[d] # None /\ seen # None => Diff(d, seen) # None
<1>1. entries[d] \in Entry \cup {None}
  BY DEF PublicationTypeOK
<1>2. ASSUME seen # None
      PROVE  UpsertStandardfeedEntry(d, seen.rev) \in Entry
  BY <1>2 DEF UpsertStandardfeedEntry, entryParams, Entry, Record
<1>3. QED
  BY <1>1, <1>2, PublicationBounds DEF Diff

LEMMA CallsChange ==
  ASSUME PublicationInv, NEW c \in Fetches, NEW x \in Call \cup {NoCall},
         UNCHANGED repo, call' = [call EXCEPT ![c] = x],
         x # NoCall => \A d \in x.steady :
           /\ repo[d] # None
           /\ \A i \in 1..Len(Pages) : i < x.page /\ d \in Pages[i] => x.seen[d] # None
  PROVE  /\ call' \in [Fetches -> Call \cup {NoCall}]
         /\ \A b \in Fetches : SteadyIsSeen(b)'
<1>1. call \in [Fetches -> Call \cup {NoCall}]
  BY DEF PublicationInv, PublicationTypeOK
<1>2. call'[c] = x /\ \A b \in Fetches : b # c => call'[b] = call[b]
  BY <1>1
<1>3. SteadyIsSeen(c)'
  BY <1>2 DEF SteadyIsSeen
<1>4. ASSUME NEW b \in Fetches, b # c
      PROVE  SteadyIsSeen(b)'
  BY <1>2, <1>4 DEF SteadyIsSeen, PublicationInv
<1>5. QED
  BY <1>1, <1>3, <1>4

LEMMA PublicationStepHolds ==
  PublicationInv /\ [PublicationNext]_publicationVars => PublicationInv'
<1> SUFFICES ASSUME PublicationInv, [PublicationNext]_publicationVars
             PROVE  PublicationInv'
  OBVIOUS
<1> DEFINE Calls == /\ call' \in [Fetches -> Call \cup {NoCall}]
                    /\ \A c \in Fetches : SteadyIsSeen(c)'
           Rest == /\ repo' \in [Docs -> Record \cup {None}]
                   /\ edits' \in Revs
                   /\ entries' \in [Docs -> Entry \cup {None}]
                   /\ reader' \in [Readers -> Extraction]
                   /\ \A r \in Readers :
                        reader'[r].live => /\ reader'[r].doc \in Docs
                                           /\ entries'[reader'[r].doc] # None
<1>1. /\ repo \in [Docs -> Record \cup {None}] /\ edits \in Revs
      /\ entries \in [Docs -> Entry \cup {None}]
      /\ call \in [Fetches -> Call \cup {NoCall}]
      /\ reader \in [Readers -> Extraction]
      /\ \A c \in Fetches : SteadyIsSeen(c)
      /\ \A r \in Readers :
           reader[r].live => /\ reader[r].doc \in Docs
                             /\ entries[reader[r].doc] # None
  BY DEF PublicationInv, PublicationTypeOK
<1>2. ASSUME UNCHANGED <<repo, call>>
      PROVE  Calls
  BY <1>1, <1>2 DEF SteadyIsSeen
<1>3. ASSUME UNCHANGED <<repo, edits, entries, reader>>
      PROVE  Rest
  BY <1>1, <1>3
<1>4. ASSUME NEW d \in Docs, NEW w \in BOOLEAN, Write(d, w)
      PROVE  Calls /\ Rest
  <2>1. PICK x : x = [rev |-> edits + 1, wellFormed |-> w]
    OBVIOUS
  <2>2. edits + 1 \in Revs
    BY <1>1, <1>4, PublicationBounds DEF Write, Revs
  <2>3. x \in Record
    BY <2>1, <2>2 DEF Record
  <2>4. /\ repo' = [repo EXCEPT ![d] = x] /\ edits' = edits + 1
        /\ UNCHANGED <<entries, call, reader>>
    BY <1>4, <2>1 DEF Write
  <2>5. \A e \in Docs : repo[e] # None => repo'[e] # None
    BY <1>1, <2>3, <2>4, PublicationBounds
  <2>6. Calls
    <3>1. ASSUME NEW c \in Fetches, call[c] # NoCall
          PROVE  SteadyIsSeen(c)'
      <4>1. call[c].steady \subseteq Docs
        BY <1>1, <3>1 DEF Call
      <4>2. QED
        BY <1>1, <2>4, <2>5, <3>1, <4>1 DEF SteadyIsSeen
    <3>2. QED
      BY <1>1, <2>4, <3>1 DEF SteadyIsSeen
  <2>7. Rest
    BY <1>1, <2>2, <2>3, <2>4
  <2>8. QED
    BY <2>6, <2>7
<1>5. ASSUME NEW d \in Docs, Remove(d)
      PROVE  Calls /\ Rest
  <2>1. /\ repo' = [repo EXCEPT ![d] = None] /\ edits' = edits + 1
        /\ edits < MaxEdits /\ UNCHANGED <<entries, reader>>
        /\ call' = [c \in Fetches |->
                      IF call[c] = NoCall THEN NoCall
                      ELSE [call[c] EXCEPT !.steady = @ \ {d}]]
    BY <1>5 DEF Remove
  <2>2. Rest
    <3>1. edits' \in Revs
      BY <1>1, <2>1, PublicationBounds DEF Revs
    <3>2. QED
      BY <1>1, <2>1, <3>1
  <2>3. ASSUME NEW c \in Fetches
        PROVE  call'[c] \in Call \cup {NoCall} /\ SteadyIsSeen(c)'
    <3>1. CASE call[c] = NoCall
      BY <2>1, <3>1 DEF SteadyIsSeen
    <3>2. CASE call[c] # NoCall
      <4>1. PICK x \in Call : x = call[c]
        BY <1>1, <3>2
      <4>2. PICK y : y = [x EXCEPT !.steady = @ \ {d}]
        OBVIOUS
      <4>3. /\ y \in Call /\ y.steady = x.steady \ {d} /\ y.page = x.page
            /\ y.seen = x.seen
        BY <4>2 DEF Call
      <4>4. call'[c] = y
        BY <2>1, <3>2, <4>1, <4>2
      <4>5. \A e \in y.steady : repo'[e] = repo[e] /\ e \in x.steady
        BY <1>1, <2>1, <4>3 DEF Call
      <4>6. SteadyIsSeen(c)'
        BY <1>1, <3>2, <4>1, <4>3, <4>4, <4>5 DEF SteadyIsSeen
      <4>7. QED
        BY <4>3, <4>4, <4>6
    <3>3. QED
      BY <3>1, <3>2
  <2>4. Calls
    BY <2>1, <2>3
  <2>5. QED
    BY <2>2, <2>4
<1>6. ASSUME NEW c \in Fetches, GetPublication(c)
      PROVE  Calls /\ Rest
  <2>1. PICK x : x = [pc |-> "listing", page |-> 1,
                      seen |-> [d \in Docs |-> None],
                      steady |-> {d \in Docs : repo[d] # None}]
    OBVIOUS
  <2>2. 1 \in 1..Len(Pages) + 1
    BY PublicationBounds
  <2>3. x \in Call
    BY <2>1, <2>2 DEF Call
  <2>4. call' = [call EXCEPT ![c] = x] /\ UNCHANGED repo
    BY <1>6, <2>1 DEF GetPublication
  <2>5. \A d \in x.steady : repo[d] # None
    BY <2>1
  <2>6. \A i \in 1..Len(Pages) : ~(i < x.page)
    BY <2>1, PublicationBounds
  <2>7. Calls
    BY <2>3, <2>4, <2>5, <2>6, CallsChange
  <2>8. QED
    BY <1>3, <1>6, <2>7 DEF GetPublication
<1>7. ASSUME NEW c \in Fetches, ListDocumentsPage(c)
      PROVE  Calls /\ Rest
  <2>1. PICK x \in Call : x = call[c] /\ x.page <= Len(Pages)
    BY <1>1, <1>7, CallTypes DEF ListDocumentsPage, Listing
  <2>2. PICK l : l = [d \in Docs |-> IF d \in Pages[x.page] THEN repo[d]
                                                            ELSE x.seen[d]]
    OBVIOUS
  <2>3. l \in [Docs -> Record \cup {None}]
    BY <1>1, <2>2 DEF Call
  <2>4. PICK y : y = [x EXCEPT !.page = @ + 1, !.seen = l]
    OBVIOUS
  <2>5. /\ y \in Call /\ y.page = x.page + 1 /\ y.seen = l
        /\ y.steady = x.steady
    <3>1. x.page + 1 \in 1..Len(Pages) + 1
      BY <2>1, PublicationBounds DEF Call
    <3>2. PICK n : n = x.page + 1
      OBVIOUS
    <3>3. y = [x EXCEPT !.page = n, !.seen = l]
      BY <2>4, <3>2
    <3>4. QED
      BY <2>3, <3>1, <3>2, <3>3 DEF Call
  <2>6. call' = [call EXCEPT ![c] = y] /\ UNCHANGED repo
    BY <1>1, <1>7, <2>1, <2>2, <2>4 DEF ListDocumentsPage
  <2>7. ASSUME NEW d \in y.steady
        PROVE  /\ repo[d] # None
               /\ \A i \in 1..Len(Pages) :
                    i < y.page /\ d \in Pages[i] => y.seen[d] # None
    <3>1. /\ d \in Docs /\ repo[d] # None
          /\ \A i \in 1..Len(Pages) :
               i < x.page /\ d \in Pages[i] => x.seen[d] # None
      BY <1>1, <2>1, <2>5, CallTypes DEF SteadyIsSeen, Call
    <3>2. ASSUME NEW i \in 1..Len(Pages), i < y.page, d \in Pages[i]
          PROVE  y.seen[d] # None
      <4>1. i < x.page \/ i = x.page
        BY <2>1, <2>5, <3>2, PublicationBounds DEF Call
      <4>2. QED
        BY <2>2, <2>5, <3>1, <3>2, <4>1
    <3>3. QED
      BY <3>1, <3>2
  <2>8. Calls
    BY <2>5, <2>6, <2>7, CallsChange
  <2>9. QED
    BY <1>3, <1>7, <2>8 DEF ListDocumentsPage
<1>8. ASSUME NEW c \in Fetches, ListDocumentsFails(c) \/ StoreFails(c)
      PROVE  Calls /\ Rest
  <2>1. call' = [call EXCEPT ![c] = NoCall] /\ UNCHANGED <<repo, edits, entries, reader>>
    BY <1>8 DEF ListDocumentsFails, StoreFails
  <2>2. QED
    BY <1>3, <2>1, CallsChange
<1>9. ASSUME NEW c \in Fetches, Store(c)
      PROVE  Calls /\ Rest
  <2>1. PICK x \in Call : x = call[c]
    BY <1>1, <1>9, CallTypes DEF Store, Listed
  <2>2. /\ entries' = [d \in Docs |-> Diff(d, x.seen[d])]
        /\ reader' = [r \in Readers |->
             [reader[r] EXCEPT !.live = @ /\ entries'[reader[r].doc] # None]]
        /\ call' = [call EXCEPT ![c] = NoCall] /\ UNCHANGED <<repo, edits>>
    BY <1>9, <2>1 DEF Store
  <2>3. Calls
    BY <2>2, CallsChange
  <2>4. entries' \in [Docs -> Entry \cup {None}]
    <3>1. \A d \in Docs : x.seen[d] \in Record \cup {None}
      BY DEF Call
    <3>2. \A d \in Docs : Diff(d, x.seen[d]) \in Entry \cup {None}
      BY <3>1, DiffType DEF PublicationInv
    <3>3. QED
      BY <2>2, <3>2
  <2>5. ASSUME NEW r \in Readers
        PROVE  /\ reader'[r] \in Extraction
               /\ reader'[r].live => /\ reader'[r].doc \in Docs
                                     /\ entries'[reader'[r].doc] # None
    <3>1. PICK e \in Extraction : e = reader[r]
      BY <1>1
    <3>2. PICK b \in BOOLEAN : b = (e.live /\ entries'[e.doc] # None)
      BY DEF Extraction
    <3>3. PICK f : f = [e EXCEPT !.live = b]
      OBVIOUS
    <3>4. f \in Extraction /\ f.live = b /\ f.doc = e.doc
      BY <3>3 DEF Extraction
    <3>5. reader'[r] = f
      BY <2>2, <3>1, <3>2, <3>3
    <3>6. QED
      BY <1>1, <3>1, <3>2, <3>4, <3>5
  <2>6. Rest
    BY <1>1, <2>2, <2>4, <2>5
  <2>7. QED
    BY <2>3, <2>6
<1>10. ASSUME NEW r \in Readers, ExtractStarts(r)
       PROVE  Calls /\ Rest
  <2>1. PICK d \in Docs : /\ entries[d] # None
                          /\ reader' = [reader EXCEPT ![r] =
                               [doc |-> d, page |-> None, live |-> TRUE]]
    BY <1>10 DEF ExtractStarts, Entries
  <2>2. PICK f : f = [doc |-> d, page |-> None, live |-> TRUE]
    OBVIOUS
  <2>3. f \in Extraction /\ f.doc = d
    BY <2>2 DEF Extraction
  <2>4. UNCHANGED <<repo, edits, entries, call>> /\ reader' = [reader EXCEPT ![r] = f]
    BY <1>10, <2>1, <2>2 DEF ExtractStarts
  <2>5. QED
    BY <1>1, <1>2, <2>1, <2>3, <2>4
<1>11. ASSUME NEW r \in Readers, extractReadable(r)
       PROVE  Calls /\ Rest
  <2>1. PICK e \in Extraction : e = reader[r] /\ e.doc \in Docs
    BY <1>1, <1>11 DEF extractReadable, Extraction
  <2>2. CASE repo[e.doc] = None
    <3>1. reader' = [reader EXCEPT ![r] = NoExtraction]
          /\ UNCHANGED <<repo, edits, entries, call>>
      BY <1>11, <2>1, <2>2 DEF extractReadable
    <3>2. QED
      BY <1>1, <1>2, <3>1, CallTypes
  <2>3. CASE repo[e.doc] # None
    <3>1. PICK p \in Revs : p = repo[e.doc].rev
      BY <1>1, <2>1, <2>3 DEF Record
    <3>2. PICK f : f = [e EXCEPT !.page = p]
      OBVIOUS
    <3>3. f \in Extraction /\ f.doc = e.doc /\ f.live = e.live
      BY <3>2 DEF Extraction
    <3>4. reader' = [reader EXCEPT ![r] = f]
          /\ UNCHANGED <<repo, edits, entries, call>>
      BY <1>1, <1>11, <2>1, <2>3, <3>1, <3>2 DEF extractReadable
    <3>5. QED
      BY <1>1, <1>2, <2>1, <3>3, <3>4
  <2>4. QED
    BY <2>2, <2>3
<1>12. ASSUME NEW r \in Readers, UpdateFeedEntryExtractedBody(r)
       PROVE  Calls /\ Rest
  <2>1. PICK e \in Extraction : e = reader[r]
    BY <1>1
  <2>2. /\ entries' = [d \in Docs |->
             IF d = e.doc /\ e.live
             THEN [entries[d] EXCEPT !.body = e.page] ELSE entries[d]]
        /\ reader' = [reader EXCEPT ![r] = NoExtraction]
        /\ UNCHANGED <<repo, edits, call>>
    BY <1>12, <2>1 DEF UpdateFeedEntryExtractedBody
  <2>3. ASSUME NEW d \in Docs
        PROVE  /\ entries'[d] \in Entry \cup {None}
               /\ entries[d] # None => entries'[d] # None
    <3>1. CASE ~(d = e.doc /\ e.live)
      BY <1>1, <2>2, <3>1
    <3>2. CASE d = e.doc /\ e.live
      <4>1. PICK n \in Entry : n = entries[d]
        BY <1>1, <2>1, <3>2
      <4>2. PICK m : m = [n EXCEPT !.body = e.page]
        OBVIOUS
      <4>3. m \in Entry
        BY <4>2 DEF Entry, Extraction
      <4>4. entries'[d] = m
        BY <2>2, <3>2, <4>1, <4>2
      <4>5. QED
        BY <4>3, <4>4, PublicationBounds
    <3>3. QED
      BY <3>1, <3>2
  <2>4. entries' \in [Docs -> Entry \cup {None}]
    BY <2>2, <2>3
  <2>5. Rest
    BY <1>1, <2>2, <2>3, <2>4, CallTypes
  <2>6. QED
    BY <1>2, <2>2, <2>5
<1>13. ASSUME Restart
       PROVE  Calls /\ Rest
  <2>1. /\ call' = [c \in Fetches |-> NoCall]
        /\ reader' = [r \in Readers |-> NoExtraction]
        /\ UNCHANGED <<repo, edits, entries>>
    BY <1>13 DEF Restart
  <2>2. QED
    BY <1>1, <2>1, CallTypes DEF SteadyIsSeen
<1>14. ASSUME UNCHANGED publicationVars
       PROVE  Calls /\ Rest
  BY <1>2, <1>3, <1>14 DEF publicationVars
<1>15. Calls /\ Rest
  <2> HIDE DEF Calls, Rest
  <2> QED
    BY <1>4, <1>5, <1>6, <1>7, <1>8, <1>9, <1>10, <1>11, <1>12, <1>13, <1>14
    DEF PublicationNext
<1>16. QED
  BY <1>15 DEF PublicationInv, PublicationTypeOK

LEMMA PublicationInvHolds == PublicationSpec => []PublicationInv
  BY PublicationInitHolds, PublicationStepHolds, PTL DEF PublicationSpec

(* Records, entries, fetches and extractions keep their types.             *)
THEOREM PublicationTypeCorrect == PublicationSpec => []PublicationTypeOK
<1>1. PublicationInv => PublicationTypeOK
  BY DEF PublicationInv
<1>2. QED
  BY <1>1, PublicationInvHolds, PTL

(* No fetch drops a document that was in the publication since it began,   *)
(* for any publication, any paging and any number of fetches that overlap. *)
THEOREM SteadyDocsAreKept == PublicationSpec => SteadyDocsStay
<1>1. ASSUME PublicationInv, NEW c \in Fetches, Store(c), NEW d \in Entries,
             entries'[d] = None
      PROVE  call[c] # NoCall /\ d \notin call[c].steady
  <2>1. PICK x \in Call : x = call[c] /\ x.page = Len(Pages) + 1
    BY <1>1, CallTypes DEF Store, Listed, PublicationInv, PublicationTypeOK
  <2>2. d \in Docs /\ entries[d] # None /\ x.seen[d] \in Record \cup {None}
    BY <2>1 DEF Entries, Call
  <2>3. entries'[d] = Diff(d, x.seen[d])
    BY <1>1, <2>1, <2>2 DEF Store
  <2>4. x.seen[d] = None
    BY <1>1, <2>2, <2>3, DiffType DEF PublicationInv
  <2>5. \E i \in 1..Len(Pages) : d \in Pages[i] /\ i < x.page
    BY <2>1, <2>2, PublicationBounds
  <2>6. d \notin x.steady
    BY <1>1, <2>1, <2>4, <2>5, CallTypes DEF PublicationInv, SteadyIsSeen
  <2>7. QED
    BY <2>1, <2>6, CallTypes
<1>2. ASSUME PublicationInv, NEW r \in Readers, UpdateFeedEntryExtractedBody(r),
             NEW d \in Entries
      PROVE  entries'[d] # None
  <2>1. PICK e \in Extraction : e = reader[r]
    BY <1>2 DEF PublicationInv, PublicationTypeOK
  <2>2. d \in Docs
    BY DEF Entries
  <2>3. PICK n \in Entry : n = entries[d]
    BY <1>2 DEF Entries, PublicationInv, PublicationTypeOK
  <2>4. PICK m : m = [n EXCEPT !.body = e.page]
    OBVIOUS
  <2>5. m \in Entry
    BY <2>4 DEF Entry, Extraction
  <2>6. entries'[d] = m \/ entries'[d] = n
    BY <1>2, <2>1, <2>2, <2>3, <2>4 DEF UpdateFeedEntryExtractedBody
  <2>7. QED
    BY <2>3, <2>5, <2>6, PublicationBounds
<1>3. PublicationInv /\ [PublicationNext]_publicationVars =>
        [\A d \in Entries : entries'[d] = None =>
           \E c \in Fetches :
              call[c] # NoCall /\ d \notin call[c].steady]_publicationVars
  <2> SUFFICES ASSUME PublicationInv, PublicationNext,
                      NEW d \in Entries, entries'[d] = None
               PROVE  \E c \in Fetches : call[c] # NoCall /\ d \notin call[c].steady
    OBVIOUS
  <2>1. CASE UNCHANGED entries
    BY <2>1 DEF Entries
  <2>2. QED
    BY <1>1, <1>2, <2>1
    DEF PublicationNext, Write, Remove, GetPublication, ListDocumentsPage,
        ListDocumentsFails, StoreFails, ExtractStarts, extractReadable, Restart
<1>4. QED
  BY <1>3, PublicationInvHolds, PTL DEF SteadyDocsStay, PublicationSpec
=============================================================================
