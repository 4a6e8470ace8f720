------------------------- MODULE SavesMirrorProofs -------------------------
(***************************************************************************)
(* Proofs about SavesMirror for every set of sessions, items, tags and     *)
(* notes and every bound: the index keeps its unique key, and the promises *)
(* a sync pass makes about it hold.  Each part of the inductive invariant  *)
(* IInv has a lemma of its own.                                            *)
(***************************************************************************)
EXTENDS SavesMirror, TLAPS

LEMMA Bounds ==
  /\ MaxRkey \in Nat /\ MaxRequests \in Nat
  /\ MaxExternal \in Nat /\ MaxClock \in Nat
  BY MirrorAssumption

LEMMA ClockTypes == Seconds \subseteq Nat /\ Rkeys \subseteq Nat /\ 0 \in Seconds
  BY Bounds DEF Seconds, Rkeys

LEMMA IdleTypes == IdleReq \in Request /\ IdlePass \in Pass
<1> USE Bounds, ClockTypes, MirrorAssumption
<1>1. IdleReq \in Request
  BY DEF IdleReq, Request
<1>2. EmptyIndex \in Index /\ EmptyIndex \in [Rkeys -> Listed \cup {Absent}]
  BY DEF EmptyIndex, Index
<1>3. MaxRkey + 1 \in 1..(MaxRkey + 1)
  OBVIOUS
<1>4. IdlePass \in Pass
  BY <1>2, <1>3 DEF IdlePass, Pass
<1>5. QED
  BY <1>1, <1>4

LEMMA InitIInv == Init => IInv
<1> SUFFICES ASSUME Init PROVE IInv
  OBVIOUS
<1> USE Bounds, ClockTypes, IdleTypes, MirrorAssumption DEF Init
<1>1. TypeOK
  <2>1. pds \in [Rkeys -> Record \cup {Absent}] /\ saves \in Index
    BY DEF EmptyIndex, Index
  <2>2. UniqueItems(saves)
    BY DEF UniqueItems, Rows, EmptyIndex
  <2>3. nextRkey \in 1..(MaxRkey + 1)
    OBVIOUS
  <2>4. \A k \in Rkeys : pds[k] = Absent /\ saves[k] = Absent
    BY DEF EmptyIndex
  <2>5. req \in [Sessions -> Request] /\ pass \in Pass
    OBVIOUS
  <2>6. begun \in 0..MaxRequests /\ external \in 0..MaxExternal
    OBVIOUS
  <2>7. QED
    BY <2>1, <2>2, <2>3, <2>4, <2>5, <2>6 DEF TypeOK
<1>2. Clocked
  BY DEF Clocked, EmptyIndex, Rows, IdleReq, IdlePass
<1>3. RequestsAreFounded
  BY DEF RequestsAreFounded, IdleReq
<1>4. ListingIsFaithful
  BY DEF ListingIsFaithful, IdlePass, EmptyIndex
<1>5. BaselineIsCurrent
  BY DEF BaselineIsCurrent, IdlePass
<1>6. QED
  BY <1>1, <1>2, <1>3, <1>4, <1>5 DEF IInv

-----------------------------------------------------------------------------
(* The transaction of a pass.                                              *)

(* The rows upsertDesired leaves when the turn of k comes are rows.        *)
LEMMA RowsBeforeType ==
  ASSUME TypeOK, NEW k
  PROVE  rowsBefore(k) \in Index
<1>1. pass.now \in Seconds /\ pass.listed \in [Rkeys -> Listed \cup {Absent}]
  BY DEF TypeOK, Pass
<1>2. ASSUME NEW j \in Rkeys, j \in upserted
      PROVE  [item |-> pass.listed[j].item, tags |-> pass.listed[j].tags,
              updatedAt |-> pass.now] \in Row
  <2>1. pass.listed[j] \in Listed
    BY <1>1, <1>2 DEF upserted, Keep
  <2>2. QED
    BY <1>1, <2>1 DEF Listed, Row
<1>3. \A j \in Rkeys : saves[j] \in Row \cup {Absent}
  BY DEF TypeOK, Index
<1>4. QED
  BY <1>2, <1>3 DEF rowsBefore, Index

(* What the index is after the transaction, row by row.                    *)
LEMMA AfterApply ==
  ASSUME Apply, NEW k \in Rkeys, k \in Nat \ {0}
  PROVE  saves'[k] =
           IF saves[k] # Absent /\ k \notin Keep /\ ~changedDuringListing(k)
           THEN Absent
           ELSE IF k \in upserted
                THEN [item |-> pass.listed[k].item, tags |-> pass.listed[k].tags,
                      updatedAt |-> pass.now]
                ELSE saves[k]
<1>1. rowsBefore(0)[k] =
         IF k \in upserted
         THEN [item |-> pass.listed[k].item, tags |-> pass.listed[k].tags,
               updatedAt |-> pass.now]
         ELSE saves[k]
  BY DEF rowsBefore
<1>2. saves' = deleteStale(rowsBefore(0))
  BY DEF Apply
<1>3. QED
  BY <1>1, <1>2 DEF deleteStale

(* A transaction that refuses no record keeps the items unique: of two     *)
(* rows, the one written last was checked against the other.               *)
LEMMA ApplyKeepsUnique ==
  ASSUME TypeOK, Apply
  PROVE  saves' \in Index /\ UniqueItems(saves')
<1> USE Bounds, ClockTypes, MirrorAssumption
<1> DEFINE last == rowsBefore(0)
<1>1. last \in Index
  BY RowsBeforeType
<1>2. saves' = deleteStale(last)
  BY DEF Apply
<1>3. saves' \in Index
  BY <1>1, <1>2 DEF deleteStale, Index
<1>4. \A j \in Rkeys : saves'[j] # Absent => saves'[j] = last[j]
  BY <1>2 DEF deleteStale
<1>5. ASSUME NEW j \in Rkeys, NEW k \in Rkeys, j > k,
             last[j] # Absent, last[k] # Absent
      PROVE  last[j].item # last[k].item
  <2>1. last[j] = IF j \in upserted
                  THEN [item |-> pass.listed[j].item,
                        tags |-> pass.listed[j].tags, updatedAt |-> pass.now]
                  ELSE saves[j]
    BY DEF rowsBefore, Rkeys
  <2>2. last[k] = IF k \in upserted
                  THEN [item |-> pass.listed[k].item,
                        tags |-> pass.listed[k].tags, updatedAt |-> pass.now]
                  ELSE saves[k]
    BY DEF rowsBefore, Rkeys
  <2>3. upsertDesired
    BY DEF Apply
  <2>4. CASE k \in upserted
    <3>1. rowsBefore(k)[j] = last[j]
      BY <1>5, <2>1 DEF rowsBefore
    <3>2. j \in Rows(rowsBefore(k)) \ {k}
      BY <1>5, <3>1 DEF Rows
    <3>3. rowsBefore(k)[j].item # pass.listed[k].item
      BY <2>3, <2>4, <3>2 DEF upsertDesired, Upsertable
    <3>4. last[k].item = pass.listed[k].item
      BY <2>2, <2>4
    <3>5. QED
      BY <3>1, <3>3, <3>4
  <2>5. CASE k \notin upserted /\ j \in upserted
    <3>1. rowsBefore(j)[k] = last[k]
      BY <1>5, <2>2, <2>5 DEF rowsBefore
    <3>2. k \in Rows(rowsBefore(j)) \ {j}
      BY <1>5, <3>1 DEF Rows
    <3>3. rowsBefore(j)[k].item # pass.listed[j].item
      BY <2>3, <2>5, <3>2 DEF upsertDesired, Upsertable
    <3>4. last[j].item = pass.listed[j].item
      BY <2>1, <2>5
    <3>5. QED
      BY <3>1, <3>3, <3>4
  <2>6. CASE k \notin upserted /\ j \notin upserted
    <3>1. last[j] = saves[j] /\ last[k] = saves[k]
      BY <2>1, <2>2, <2>6
    <3>2. UniqueItems(saves) /\ j # k
      BY <1>5 DEF TypeOK
    <3>3. QED
      BY <1>5, <3>1, <3>2 DEF UniqueItems, Rows
  <2>7. QED
    BY <2>4, <2>5, <2>6
<1>6. UniqueItems(saves')
  <2> SUFFICES ASSUME NEW j \in Rkeys, NEW k \in Rkeys, j # k,
                      saves'[j] # Absent, saves'[k] # Absent
               PROVE  saves'[j].item # saves'[k].item
    BY DEF UniqueItems, Rows
  <2>1. saves'[j] = last[j] /\ saves'[k] = last[k]
    BY <1>4
  <2>2. j > k \/ k > j
    OBVIOUS
  <2>3. QED
    BY <1>5, <2>1, <2>2
<1>7. QED
  BY <1>3, <1>6

-----------------------------------------------------------------------------
(* Each part of IInv is kept by every step.                                *)

LEMMA CommitTypes ==
  ASSUME IInv, NEW s \in Sessions, Commit(s)
  PROVE  /\ pds' \in [Rkeys -> Record \cup {Absent}]
         /\ nextRkey' \in 1..(MaxRkey + 1)
         /\ nextRkey <= nextRkey'
         /\ \A k \in Rkeys : k >= nextRkey' => pds'[k] = Absent
         /\ req' \in [Sessions -> Request]
<1> USE Bounds, ClockTypes, MirrorAssumption
<1> DEFINE r == req[s]
<1>1. r \in Request /\ r.pc = "committing"
  BY DEF IInv, TypeOK, Commit
<1>2. /\ r.item \in Items
      /\ r.op # "create" => r.rkey \in Rkeys /\ r.rkey < nextRkey
      /\ r.op = "patch" => r.read \in Record
  BY <1>1 DEF IInv, RequestsAreFounded
<1>3. pds' = Written(r) /\ PdsAccepts(r)
  BY DEF Commit
<1>4. /\ pds \in [Rkeys -> Record \cup {Absent}]
      /\ nextRkey \in 1..(MaxRkey + 1)
      /\ \A k \in Rkeys : k >= nextRkey => pds[k] = Absent
      /\ req \in [Sessions -> Request]
  BY DEF IInv, TypeOK
<1>5. IdleReq \in Request
  BY IdleTypes
<1>6. CASE r.op = "create"
  <2>1. nextRkey <= MaxRkey /\ nextRkey \in Rkeys
    BY <1>3, <1>4, <1>6 DEF PdsAccepts, Rkeys
  <2>2. [item |-> r.item, tags |-> NoTags, note |-> NoNote] \in Record
    BY <1>2 DEF Record
  <2>3. pds' = [pds EXCEPT ![nextRkey] =
                  [item |-> r.item, tags |-> NoTags, note |-> NoNote]]
    BY <1>3, <1>6 DEF Written
  <2>4. nextRkey' = nextRkey + 1
    BY <1>6 DEF Commit
  <2>5. pds' \in [Rkeys -> Record \cup {Absent}]
    BY <1>4, <2>1, <2>2, <2>3
  <2>6. \A k \in Rkeys : k >= nextRkey' => pds'[k] = Absent
    BY <1>4, <2>3, <2>4 DEF Rkeys
  <2>7. req' \in [Sessions -> Request]
    <3>1. [r EXCEPT !.pc = "mirroring", !.rkey = nextRkey] \in Request
      BY <1>1, <2>1 DEF Request
    <3>2. \/ req' = [req EXCEPT ![s] =
                       [r EXCEPT !.pc = "mirroring", !.rkey = nextRkey]]
          \/ req' = [req EXCEPT ![s] = IdleReq]
      BY <1>4, <1>6 DEF Commit, Respond
    <3>3. QED
      BY <1>4, <1>5, <3>1, <3>2
  <2>8. QED
    BY <1>4, <2>1, <2>4, <2>5, <2>6, <2>7
<1>7. CASE r.op # "create"
  <2>1. nextRkey' = nextRkey
    BY <1>7 DEF Commit
  <2>2. pds' \in [Rkeys -> Record \cup {Absent}]
    <3>1. CASE r.op = "patch"
      <4>1. [r.read EXCEPT !.tags = r.tags] \in Record
        BY <1>1, <1>2, <3>1 DEF Record, Request
      <4>2. pds' = [pds EXCEPT ![r.rkey] = [r.read EXCEPT !.tags = r.tags]]
        BY <1>3, <3>1 DEF Written
      <4>3. QED
        BY <1>4, <4>1, <4>2
    <3>2. CASE r.op # "patch"
      <4>1. pds' = [pds EXCEPT ![r.rkey] = Absent]
        BY <1>3, <1>7, <3>2 DEF Written
      <4>2. QED
        BY <1>4, <4>1
    <3>3. QED
      BY <3>1, <3>2
  <2>3. \A k \in Rkeys : k # r.rkey => pds'[k] = pds[k]
    BY <1>3, <1>4, <1>7 DEF Written
  <2>4. \A k \in Rkeys : k >= nextRkey' => pds'[k] = Absent
    BY <1>2, <1>4, <1>7, <2>1, <2>3 DEF Rkeys
  <2>5. req' \in [Sessions -> Request]
    <3>1. [r EXCEPT !.pc = "mirroring", !.rkey = r.rkey] \in Request
      BY <1>1 DEF Request
    <3>2. \/ req' = [req EXCEPT ![s] =
                       [r EXCEPT !.pc = "mirroring", !.rkey = r.rkey]]
          \/ req' = [req EXCEPT ![s] = IdleReq]
      BY <1>4, <1>7 DEF Commit, Respond
    <3>3. QED
      BY <1>4, <1>5, <3>1, <3>2
  <2>6. QED
    BY <1>4, <2>1, <2>2, <2>4, <2>5
<1>8. QED
  BY <1>6, <1>7

LEMMA MirrorTypes ==
  ASSUME IInv, NEW s \in Sessions, MirrorWrite(s)
  PROVE  /\ saves' \in Index
         /\ UniqueItems(saves')
         /\ \A k \in Rkeys : k >= nextRkey => saves'[k] = Absent
         /\ \A k \in Rkeys : k # req[s].rkey => saves'[k] = saves[k]
         /\ req[s].rkey \in Rkeys
         /\ saves'[req[s].rkey] # Absent =>
              saves'[req[s].rkey].updatedAt = req[s].now
<1> USE Bounds, ClockTypes, MirrorAssumption
<1> DEFINE r == req[s]
           row == [item |-> r.item,
                   tags |-> IF r.op = "patch" THEN r.tags ELSE NoTags,
                   updatedAt |-> r.now]
<1>1. r \in Request /\ r.pc = "mirroring"
  BY DEF IInv, TypeOK, MirrorWrite
<1>2. r.item \in Items /\ r.rkey \in Rkeys /\ r.rkey < nextRkey
  BY <1>1 DEF IInv, RequestsAreFounded
<1>3. /\ saves \in Index /\ UniqueItems(saves)
      /\ \A k \in Rkeys : k >= nextRkey => saves[k] = Absent
      /\ nextRkey \in Nat
  BY DEF IInv, TypeOK
<1>4. row \in Row
  BY <1>1, <1>2 DEF Row, Request
<1>5. CASE r.op = "delete"
  <2>1. saves' = [saves EXCEPT ![r.rkey] = Absent]
    BY <1>5 DEF MirrorWrite
  <2>2. saves' \in Index
    BY <1>2, <1>3, <2>1 DEF Index
  <2>3. \A k \in Rkeys : saves'[k] # Absent => saves'[k] = saves[k]
    BY <1>3, <2>1 DEF Index
  <2>4. UniqueItems(saves')
    BY <1>3, <2>3 DEF UniqueItems, Rows
  <2>5. QED
    BY <1>2, <1>3, <2>1, <2>2, <2>3, <2>4 DEF Index
<1>6. CASE r.op # "delete"
  <2>1. saves' = [saves EXCEPT ![r.rkey] = row] /\ Upsertable(saves, r.rkey, r.item)
    BY <1>6 DEF MirrorWrite, Upsert
  <2>2. saves' \in Index
    BY <1>2, <1>3, <1>4, <2>1 DEF Index
  <2>3. saves'[r.rkey] = row
    BY <1>2, <1>3, <2>1 DEF Index
  <2>4. \A k \in Rkeys : k # r.rkey => saves'[k] = saves[k]
    BY <1>3, <2>1 DEF Index
  <2>5. \A k \in Rkeys : k # r.rkey /\ saves'[k] # Absent => saves'[k].item # row.item
    BY <2>1, <2>4 DEF Upsertable, Rows
  <2>6. UniqueItems(saves')
    BY <1>3, <2>3, <2>4, <2>5 DEF UniqueItems, Rows
  <2>7. QED
    BY <1>2, <1>3, <2>2, <2>3, <2>4, <2>6 DEF Rkeys
<1>7. QED
  BY <1>5, <1>6

LEMMA OtherClientTypes ==
  ASSUME IInv, OtherClient
  PROVE  /\ pds' \in [Rkeys -> Record \cup {Absent}]
         /\ nextRkey' \in 1..(MaxRkey + 1)
         /\ nextRkey <= nextRkey'
         /\ \A k \in Rkeys : k >= nextRkey' => pds'[k] = Absent
         /\ external' \in 0..MaxExternal
<1> USE Bounds, ClockTypes, MirrorAssumption
<1>1. /\ pds \in [Rkeys -> Record \cup {Absent}]
      /\ nextRkey \in 1..(MaxRkey + 1)
      /\ \A k \in Rkeys : k >= nextRkey => pds[k] = Absent
      /\ external \in 0..MaxExternal
  BY DEF IInv, TypeOK
<1>2. external' \in 0..MaxExternal
  BY <1>1 DEF OtherClient
<1>3. ASSUME NEW rec \in Record, nextRkey <= MaxRkey,
             pds' = [pds EXCEPT ![nextRkey] = rec], nextRkey' = nextRkey + 1
      PROVE  /\ pds' \in [Rkeys -> Record \cup {Absent}]
             /\ nextRkey' \in 1..(MaxRkey + 1)
             /\ \A k \in Rkeys : k >= nextRkey' => pds'[k] = Absent
  BY <1>1, <1>3 DEF Rkeys
<1>4. ASSUME NEW k \in Rkeys, NEW rec \in Record \cup {Absent},
             pds[k] # Absent, pds' = [pds EXCEPT ![k] = rec],
             nextRkey' = nextRkey
      PROVE  /\ pds' \in [Rkeys -> Record \cup {Absent}]
             /\ \A j \in Rkeys : j >= nextRkey' => pds'[j] = Absent
  BY <1>1, <1>4 DEF Rkeys
<1>5. QED
  BY <1>1, <1>2, <1>3, <1>4 DEF OtherClient

LEMMA BeginTypes ==
  ASSUME IInv, NEW s \in Sessions,
         CreateProbe(s) \/ DeleteLoad(s) \/ PatchLoad(s)
  PROVE  \E r \in Request :
           /\ Begin(s, r)
           /\ r.item \in Items
           /\ r.op # "create" => r.rkey \in Rkeys /\ r.rkey < nextRkey
           /\ r.pc = "reading" <=> r.op = "patch"
           /\ r.pc # "mirroring"
           /\ r.now <= clock
<1> USE Bounds, ClockTypes, MirrorAssumption
<1>1. clock \in Seconds /\ saves \in Index /\ nextRkey \in Nat
  BY DEF IInv, TypeOK
<1>2. IdleReq \in Request
  BY IdleTypes
<1>3. \A k \in Rows(saves) :
         k \in Rkeys /\ saves[k] \in Row /\ saves[k].item \in Items /\ k < nextRkey
  BY <1>1 DEF Rows, Index, Row, IInv, TypeOK
<1>4. CASE CreateProbe(s)
  <2>1. PICK i \in Items :
           Begin(s, [IdleReq EXCEPT !.pc = "committing", !.op = "create",
                                    !.item = i, !.now = clock])
    BY <1>4 DEF CreateProbe
  <2> DEFINE r == [IdleReq EXCEPT !.pc = "committing", !.op = "create",
                                     !.item = i, !.now = clock]
  <2>2. r \in Request
    BY <1>1, <1>2 DEF Request
  <2>3. /\ r.item \in Items /\ r.op = "create"
        /\ r.pc = "committing" /\ r.now = clock
    BY DEF IdleReq
  <2>4. Begin(s, r)
    BY <2>1
  <2> HIDE DEF r
  <2>5. r.now <= clock
    BY <1>1, <2>3
  <2>6. QED
    BY <2>2, <2>3, <2>4, <2>5
<1>5. CASE DeleteLoad(s)
  <2>1. PICK k \in Rows(saves) :
           Begin(s, [IdleReq EXCEPT !.pc = "committing", !.op = "delete",
                                    !.rkey = k, !.item = saves[k].item,
                                    !.now = clock])
    BY <1>5 DEF DeleteLoad
  <2> DEFINE r == [IdleReq EXCEPT !.pc = "committing", !.op = "delete", !.rkey = k,
                                     !.item = saves[k].item, !.now = clock]
  <2>2. r \in Request
    BY <1>1, <1>2, <1>3 DEF Request
  <2>3. /\ r.item = saves[k].item /\ r.op = "delete" /\ r.rkey = k
        /\ r.pc = "committing" /\ r.now = clock
    BY DEF IdleReq
  <2>4. Begin(s, r)
    BY <2>1
  <2> HIDE DEF r
  <2>5. r.now <= clock
    BY <1>1, <2>3
  <2>6. QED
    BY <1>3, <2>2, <2>3, <2>4, <2>5
<1>6. CASE PatchLoad(s)
  <2>1. PICK k \in Rows(saves), t \in Tags :
           Begin(s, [IdleReq EXCEPT !.pc = "reading", !.op = "patch",
                                    !.rkey = k, !.item = saves[k].item,
                                    !.tags = t])
    BY <1>6 DEF PatchLoad
  <2> DEFINE r == [IdleReq EXCEPT !.pc = "reading", !.op = "patch", !.rkey = k,
                                     !.item = saves[k].item, !.tags = t]
  <2>2. r \in Request
    BY <1>2, <1>3 DEF Request
  <2>3. /\ r.item = saves[k].item /\ r.op = "patch" /\ r.rkey = k
        /\ r.pc = "reading" /\ r.now = 0
    BY DEF IdleReq
  <2>4. Begin(s, r)
    BY <2>1
  <2> HIDE DEF r
  <2>5. r.now <= clock
    BY <1>1, <2>3 DEF Seconds
  <2>6. QED
    BY <1>3, <2>2, <2>3, <2>4, <2>5
<1>7. QED
  BY <1>4, <1>5, <1>6

(* A page is the newest of the records below the cursor.                   *)
LEMMA ListPageTypes ==
  ASSUME IInv, ListPage
  PROVE  /\ pass' \in Pass
         /\ \/ /\ \A k \in Rkeys : k < pass.cursor => pds[k] = Absent
               /\ pass' = [pass EXCEPT !.pc = "applying", !.now = clock]
            \/ \E k \in Rkeys :
                 /\ k < pass.cursor /\ pds[k] # Absent
                 /\ \A j \in Rkeys : k < j /\ j < pass.cursor => pds[j] = Absent
                 /\ k < nextRkey
                 /\ pass' = [pass EXCEPT !.cursor = k,
                                         !.listed = [pass.listed EXCEPT
                                                       ![k] = Content(pds[k])]]
<1> USE Bounds, ClockTypes, MirrorAssumption
<1>1. /\ pass \in Pass /\ clock \in Seconds
      /\ pds \in [Rkeys -> Record \cup {Absent}] /\ nextRkey \in Nat
      /\ \A k \in Rkeys : k >= nextRkey => pds[k] = Absent
  BY DEF IInv, TypeOK
<1>2. CASE remaining(pass.cursor) = {} /\
           pass' = [pass EXCEPT !.pc = "applying", !.now = clock]
  <2>1. pass' \in Pass
    BY <1>1, <1>2 DEF Pass
  <2>2. QED
    BY <1>2, <2>1 DEF remaining
<1>3. ASSUME NEW k \in remaining(pass.cursor),
             \A j \in remaining(pass.cursor) : j <= k,
             pass' = [pass EXCEPT !.cursor = k,
                        !.listed[k] = [item |-> pds[k].item, tags |-> pds[k].tags]]
      PROVE  /\ pass' \in Pass
             /\ k \in Rkeys /\ k < pass.cursor /\ pds[k] # Absent
             /\ \A j \in Rkeys : k < j /\ j < pass.cursor => pds[j] = Absent
             /\ k < nextRkey
             /\ pass' = [pass EXCEPT !.cursor = k,
                                     !.listed = [pass.listed EXCEPT
                                                   ![k] = Content(pds[k])]]
  <2>1. k \in Rkeys /\ k < pass.cursor /\ pds[k] # Absent
    BY DEF remaining
  <2>2. \A j \in Rkeys : k < j /\ j < pass.cursor => pds[j] = Absent
    BY <1>3 DEF remaining
  <2>3. k < nextRkey
    BY <1>1, <2>1
  <2>4. Content(pds[k]) = [item |-> pds[k].item, tags |-> pds[k].tags]
    BY <2>1 DEF Content
  <2>5. Content(pds[k]) \in Listed
    <3>1. pds[k] \in Record
      BY <1>1, <2>1
    <3>2. pds[k].item \in Items /\ pds[k].tags \in Tags
      BY <3>1 DEF Record
    <3>3. QED
      BY <2>4, <3>2 DEF Listed
  <2>6. pass' = [pass EXCEPT !.cursor = k,
                   !.listed = [pass.listed EXCEPT ![k] = Content(pds[k])]]
    BY <1>3, <2>4
  <2>7. k \in 1..(MaxRkey + 1)
    BY <2>1 DEF Rkeys
  <2>8. [pass.listed EXCEPT ![k] = Content(pds[k])]
           \in [Rkeys -> Listed \cup {Absent}]
    BY <1>1, <2>1, <2>5 DEF Pass
  <2>9. pass' \in Pass
    BY <1>1, <2>6, <2>7, <2>8 DEF Pass
  <2>10. QED
    BY <2>1, <2>2, <2>3, <2>6, <2>9
<1>4. QED
  BY <1>2, <1>3 DEF ListPage

LEMMA TypeInductive == IInv /\ [Next]_vars => TypeOK'
<1> SUFFICES ASSUME IInv, [Next]_vars PROVE TypeOK'
  OBVIOUS
<1> USE Bounds, ClockTypes, MirrorAssumption
<1>0. TypeOK
  BY DEF IInv
<1>i. IdleReq \in Request /\ IdlePass \in Pass
  BY IdleTypes
<1>1. ASSUME NEW s \in Sessions,
             CreateProbe(s) \/ DeleteLoad(s) \/ PatchLoad(s)
      PROVE  TypeOK'
  <2>1. PICK r \in Request : Begin(s, r)
    BY <1>1, BeginTypes
  <2>2. begun' \in 0..MaxRequests
    BY <1>0, <2>1 DEF TypeOK, Begin
  <2>3. QED
    BY <1>0, <2>1, <2>2 DEF TypeOK, Begin, history
<1>2. ASSUME NEW s \in Sessions, PatchRead(s) PROVE TypeOK'
  <2>1. req' \in [Sessions -> Request]
    <3>1. req[s] \in Request /\ req[s].rkey \in Rkeys
      BY <1>2 DEF IInv, TypeOK, RequestsAreFounded, PatchRead, Request
    <3>2. pds[req[s].rkey] \in Record \cup {Absent} /\ clock \in Seconds
      BY <1>0, <3>1 DEF TypeOK
    <3>3. [req[s] EXCEPT !.pc = "committing", !.read = pds[req[s].rkey],
                         !.now = clock] \in Request
      BY <3>1, <3>2 DEF Request
    <3>4. \/ req' = [req EXCEPT ![s] =
                       [req[s] EXCEPT !.pc = "committing",
                                      !.read = pds[req[s].rkey], !.now = clock]]
          \/ req' = [req EXCEPT ![s] = IdleReq]
      BY <1>0, <1>2 DEF PatchRead, Respond, TypeOK
    <3>5. QED
      BY <1>0, <1>i, <3>3, <3>4 DEF TypeOK
  <2>2. QED
    BY <1>0, <1>2, <2>1 DEF TypeOK, PatchRead, history
<1>3. ASSUME NEW s \in Sessions, Commit(s) PROVE TypeOK'
  <2>1. /\ pds' \in [Rkeys -> Record \cup {Absent}]
        /\ nextRkey' \in 1..(MaxRkey + 1)
        /\ nextRkey <= nextRkey'
        /\ \A k \in Rkeys : k >= nextRkey' => pds'[k] = Absent
        /\ req' \in [Sessions -> Request]
    BY <1>3, CommitTypes
  <2>2. pdsMoved' \in BOOLEAN /\ held' \in SUBSET Rkeys /\ mirrored' = mirrored
    BY <1>0, <1>3 DEF Commit, RecordsMove, TypeOK
  <2>3. UNCHANGED <<saves, clock, pass, wanted, begun, external>>
    BY <1>3 DEF Commit
  <2>4. \A k \in Rkeys : k >= nextRkey' => saves'[k] = Absent
    BY <1>0, <2>1, <2>3 DEF TypeOK
  <2>5. QED
    BY <1>0, <2>1, <2>2, <2>3, <2>4 DEF TypeOK
<1>4. ASSUME NEW s \in Sessions, CommitFails(s) PROVE TypeOK'
  BY <1>0, <1>i, <1>4 DEF TypeOK, CommitFails, Respond, history
<1>5. ASSUME NEW s \in Sessions, Mirror(s) PROVE TypeOK'
  <2>1. req' \in [Sessions -> Request]
    BY <1>0, <1>i, <1>5 DEF Mirror, Respond, TypeOK
  <2>2. CASE MirrorWrite(s)
    <3>1. /\ saves' \in Index /\ UniqueItems(saves')
          /\ \A k \in Rkeys : k >= nextRkey => saves'[k] = Absent
          /\ req[s].rkey \in Rkeys
      BY <2>2, MirrorTypes
    <3>2. mirrored' \in SUBSET Rkeys
      BY <1>0, <2>2, <3>1 DEF MirrorWrite, TypeOK
    <3>3. QED
      BY <1>0, <1>5, <2>1, <2>2, <3>1, <3>2 DEF TypeOK, Mirror, MirrorWrite
  <2>3. CASE MirrorFails(s)
    BY <1>0, <1>5, <2>1, <2>3 DEF TypeOK, Mirror, MirrorFails
  <2>4. QED
    BY <1>5, <2>2, <2>3 DEF Mirror
<1>6. CASE PassBegins
  <2>1. pass' \in Pass
    BY <1>0, <1>6, <1>i DEF PassBegins, TypeOK, Pass
  <2>2. QED
    BY <1>0, <1>6, <2>1 DEF TypeOK, PassBegins
<1>7. CASE ReadBaseline
  <2>1. pass' \in Pass
    BY <1>0, <1>7 DEF ReadBaseline, TypeOK, Pass
  <2>2. QED
    BY <1>0, <1>7, <2>1 DEF TypeOK, ReadBaseline, history
<1>8. CASE ListPage
  <2>1. pass' \in Pass
    BY <1>8, ListPageTypes
  <2>2. QED
    BY <1>0, <1>8, <2>1 DEF TypeOK, ListPage, history
<1>9. CASE PassFails
  BY <1>0, <1>9, <1>i DEF TypeOK, PassFails, ForgetPass
<1>10. CASE Apply
  <2>1. saves' \in Index /\ UniqueItems(saves')
    BY <1>0, <1>10, ApplyKeepsUnique
  <2>2. ASSUME NEW k \in Rkeys, k >= nextRkey PROVE saves'[k] = Absent
    <3>1. saves[k] = Absent /\ pass.listed[k] = Absent
      BY <1>0, <2>2 DEF TypeOK, IInv, ListingIsFaithful
    <3>2. k \notin upserted
      BY <3>1 DEF upserted, Keep
    <3>3. QED
      <4>1. k \in Nat \ {0}
        BY DEF Rkeys
      <4>2. QED
        BY <1>10, <3>1, <3>2, <4>1, AfterApply
  <2>3. QED
    BY <1>0, <1>10, <1>i, <2>1, <2>2 DEF TypeOK, Apply, ForgetPass
<1>11. CASE OtherClient
  <2>1. /\ pds' \in [Rkeys -> Record \cup {Absent}]
        /\ nextRkey' \in 1..(MaxRkey + 1)
        /\ nextRkey <= nextRkey'
        /\ \A k \in Rkeys : k >= nextRkey' => pds'[k] = Absent
        /\ external' \in 0..MaxExternal
    BY <1>11, OtherClientTypes
  <2>2. pdsMoved' \in BOOLEAN /\ held' \in SUBSET Rkeys /\ mirrored' = mirrored
    BY <1>0, <1>11 DEF OtherClient, RecordsMove, TypeOK
  <2>3. UNCHANGED <<saves, clock, req, pass, wanted, begun>>
    BY <1>11 DEF OtherClient
  <2>4. \A k \in Rkeys : k >= nextRkey' => saves'[k] = Absent
    BY <1>0, <2>1, <2>3 DEF TypeOK
  <2>5. QED
    BY <1>0, <2>1, <2>2, <2>3, <2>4 DEF TypeOK
<1>12. CASE Tick
  <2>1. clock' \in Seconds
    BY <1>0, <1>12 DEF Tick, TypeOK, Seconds
  <2>2. QED
    BY <1>0, <1>12, <2>1 DEF TypeOK, Tick, history
<1>13. CASE Trigger
  BY <1>0, <1>13 DEF TypeOK, Trigger, history
<1>14. CASE Crash
  BY <1>0, <1>14, <1>i DEF TypeOK, Crash, ForgetPass
<1>15. CASE UNCHANGED vars
  BY <1>0, <1>15 DEF TypeOK, vars
<1>16. QED
  BY <1>1, <1>2, <1>3, <1>4, <1>5, <1>6, <1>7, <1>8, <1>9, <1>10, <1>11,
     <1>12, <1>13, <1>14, <1>15 DEF Next, Handle

LEMMA RequestsInductive == IInv /\ [Next]_vars => RequestsAreFounded'
<1> SUFFICES ASSUME IInv, [Next]_vars PROVE RequestsAreFounded'
  OBVIOUS
<1> USE Bounds, ClockTypes, MirrorAssumption
<1>0. TypeOK /\ RequestsAreFounded
  BY DEF IInv
<1>i. IdleReq.pc = "idle"
  BY DEF IdleReq
<1>n. req \in [Sessions -> Request] /\ nextRkey \in Nat
  BY <1>0 DEF TypeOK
<1>1. ASSUME NEW s \in Sessions,
             CreateProbe(s) \/ DeleteLoad(s) \/ PatchLoad(s)
      PROVE  RequestsAreFounded'
  <2>1. PICK r \in Request :
           /\ Begin(s, r)
           /\ r.item \in Items
           /\ r.op # "create" => r.rkey \in Rkeys /\ r.rkey < nextRkey
           /\ r.pc = "reading" <=> r.op = "patch"
           /\ r.pc # "mirroring"
    BY <1>1, BeginTypes
  <2>2. req' = [req EXCEPT ![s] = r] /\ nextRkey' = nextRkey
    BY <2>1 DEF Begin
  <2>3. QED
    BY <1>0, <1>n, <2>1, <2>2 DEF RequestsAreFounded
<1>2. ASSUME NEW s \in Sessions, PatchRead(s) PROVE RequestsAreFounded'
  <2>1. req[s].rkey \in Rkeys /\ req[s].item \in Items /\ req[s].rkey < nextRkey
    BY <1>0, <1>2, <1>n DEF PatchRead, RequestsAreFounded, Request
  <2>2. pds[req[s].rkey] \in Record \cup {Absent}
    BY <1>0, <2>1 DEF TypeOK
  <2>3. nextRkey' = nextRkey
    BY <1>2 DEF PatchRead
  <2>4. CASE /\ pds[req[s].rkey] # Absent
             /\ req' = [req EXCEPT ![s].pc = "committing",
                                   ![s].read = pds[req[s].rkey],
                                   ![s].now = clock]
    BY <1>0, <1>n, <2>1, <2>2, <2>3, <2>4 DEF RequestsAreFounded
  <2>5. CASE Respond(s)
    BY <1>0, <1>i, <1>n, <2>3, <2>5 DEF RequestsAreFounded, Respond
  <2>6. QED
    BY <1>2, <2>4, <2>5 DEF PatchRead
<1>3. ASSUME NEW s \in Sessions, Commit(s) PROVE RequestsAreFounded'
  <2>1. nextRkey <= nextRkey' /\ nextRkey' \in 1..(MaxRkey + 1)
    BY <1>3, CommitTypes
  <2>2. CASE Respond(s)
    <3>1. \A t \in Sessions : req'[t] = req[t] \/ req'[t].pc = "idle"
      BY <1>i, <1>n, <2>2 DEF Respond
    <3>2. \A k \in Rkeys : k < nextRkey => k < nextRkey'
      BY <1>n, <2>1
    <3>3. QED
      BY <1>0, <3>1, <3>2 DEF RequestsAreFounded
  <2>3. CASE req' = [req EXCEPT ![s].pc = "mirroring",
                       ![s].rkey = IF req[s].op = "create" THEN nextRkey
                                   ELSE req[s].rkey]
    <3>1. /\ (IF req[s].op = "create" THEN nextRkey ELSE req[s].rkey) \in Rkeys
          /\ (IF req[s].op = "create" THEN nextRkey ELSE req[s].rkey) < nextRkey'
      <4>1. CASE req[s].op = "create"
        <5>1. nextRkey' = nextRkey + 1
          BY <1>3, <4>1 DEF Commit
        <5>2. nextRkey \in Rkeys /\ nextRkey < nextRkey'
          BY <1>0, <2>1, <5>1 DEF TypeOK, Rkeys
        <5>3. QED
          BY <4>1, <5>2
      <4>2. CASE req[s].op # "create"
        BY <1>0, <1>3, <1>n, <4>2 DEF Commit, RequestsAreFounded
      <4>3. QED
        BY <4>1, <4>2
    <3>2. req[s].item \in Items
      BY <1>0, <1>3 DEF Commit, RequestsAreFounded
    <3>3. QED
      BY <1>0, <1>n, <2>1, <2>3, <3>1, <3>2 DEF RequestsAreFounded
  <2>4. QED
    BY <1>3, <2>2, <2>3 DEF Commit
<1>4. ASSUME NEW s \in Sessions, CommitFails(s) PROVE RequestsAreFounded'
  BY <1>0, <1>i, <1>n, <1>4 DEF RequestsAreFounded, CommitFails, Respond
<1>5. ASSUME NEW s \in Sessions, Mirror(s) PROVE RequestsAreFounded'
  BY <1>0, <1>i, <1>n, <1>5 DEF RequestsAreFounded, Mirror, Respond
<1>6. ASSUME UNCHANGED <<req, nextRkey>> PROVE RequestsAreFounded'
  BY <1>0, <1>6 DEF RequestsAreFounded
<1>7. CASE OtherClient
  <2>1. nextRkey <= nextRkey' /\ nextRkey' \in 1..(MaxRkey + 1)
    BY <1>7, OtherClientTypes
  <2>2. req' = req
    BY <1>7 DEF OtherClient
  <2>3. \A k \in Rkeys : k < nextRkey => k < nextRkey'
    BY <1>n, <2>1
  <2>4. QED
    BY <1>0, <2>2, <2>3 DEF RequestsAreFounded
<1>8. CASE Crash
  BY <1>0, <1>i, <1>8 DEF RequestsAreFounded, Crash
<1>9. QED
  BY <1>1, <1>2, <1>3, <1>4, <1>5, <1>6, <1>7, <1>8
     DEF Next, Handle, PassBegins, ReadBaseline, ListPage, PassFails, Apply,
         Tick, Trigger, vars

LEMMA ClockedInductive == IInv /\ [Next]_vars => Clocked'
<1> SUFFICES ASSUME IInv, [Next]_vars PROVE Clocked'
  OBVIOUS
<1> USE Bounds, ClockTypes, MirrorAssumption
<1>0. TypeOK /\ Clocked
  BY DEF IInv
<1>n. /\ req \in [Sessions -> Request] /\ clock \in Nat /\ saves \in Index
      /\ pass \in Pass
  BY <1>0 DEF TypeOK
<1>i. /\ IdleReq.now = 0 /\ IdlePass.now = 0 /\ IdlePass.snapshotAt = 0
  BY DEF IdleReq, IdlePass
<1>1. ASSUME NEW s \in Sessions,
             CreateProbe(s) \/ DeleteLoad(s) \/ PatchLoad(s)
      PROVE  Clocked'
  <2>1. PICK r \in Request : Begin(s, r) /\ r.now <= clock
    BY <1>1, BeginTypes
  <2>2. req' = [req EXCEPT ![s] = r] /\ UNCHANGED <<saves, clock, pass>>
    BY <2>1 DEF Begin
  <2>3. QED
    BY <1>0, <1>n, <2>1, <2>2 DEF Clocked, Rows
<1>2. ASSUME NEW s \in Sessions, NEW t,
             /\ \A x \in Sessions \ {s} : req'[x] = req[x]
             /\ req'[s].now = req[s].now \/ req'[s].now = clock \/ req'[s].now = 0,
             UNCHANGED <<saves, clock, pass>>
      PROVE  Clocked'
  BY <1>0, <1>n, <1>2 DEF Clocked, Rows
<1>3. ASSUME NEW s \in Sessions, PatchRead(s) \/ Commit(s) \/ CommitFails(s)
      PROVE  Clocked'
  <2>1. UNCHANGED <<saves, clock, pass>>
    BY <1>3 DEF PatchRead, Commit, CommitFails
  <2>2. \A x \in Sessions \ {s} : req'[x] = req[x]
    BY <1>n, <1>3 DEF PatchRead, Commit, CommitFails, Respond
  <2>3. req'[s].now = req[s].now \/ req'[s].now = clock \/ req'[s].now = 0
    <3>0. req[s] \in Request
      BY <1>n
    <3>1. CASE PatchRead(s)
      BY <1>i, <1>n, <3>0, <3>1 DEF PatchRead, Respond, Request
    <3>2. CASE Commit(s)
      BY <1>i, <1>n, <3>0, <3>2 DEF Commit, Respond, Request
    <3>3. CASE CommitFails(s)
      BY <1>i, <1>n, <3>3 DEF CommitFails, Respond
    <3>4. QED
      BY <1>3, <3>1, <3>2, <3>3
  <2>4. QED
    BY <1>2, <2>1, <2>2, <2>3
<1>4. ASSUME NEW s \in Sessions, Mirror(s) PROVE Clocked'
  <2>1. \A k \in Rows(saves') : saves'[k].updatedAt <= clock
    <3>1. CASE MirrorWrite(s)
      BY <1>0, <3>1, MirrorTypes DEF Clocked, Rows
    <3>2. CASE MirrorFails(s)
      BY <1>0, <3>2 DEF Clocked, Rows, MirrorFails
    <3>3. QED
      BY <1>4, <3>1, <3>2 DEF Mirror
  <2>2. \A x \in Sessions : req'[x] = req[x] \/ req'[x].now = 0
    BY <1>i, <1>n, <1>4 DEF Mirror, Respond
  <2>3. UNCHANGED <<clock, pass>>
    BY <1>4 DEF Mirror
  <2>4. QED
    BY <1>0, <1>n, <2>1, <2>2, <2>3 DEF Clocked, Rows
<1>5. CASE Apply
  <2>1. UNCHANGED <<clock, req>> /\ pass' = IdlePass
    BY <1>5 DEF Apply
  <2>2. ASSUME NEW k \in Rkeys, saves'[k] # Absent
        PROVE  saves'[k].updatedAt <= clock
    <3>1. k \in Nat \ {0}
      BY DEF Rkeys
    <3>2. \/ saves'[k] = saves[k]
          \/ saves'[k] = [item |-> pass.listed[k].item,
                          tags |-> pass.listed[k].tags, updatedAt |-> pass.now]
      BY <1>5, <2>2, <3>1, AfterApply
    <3>3. CASE saves'[k] = saves[k]
      BY <1>0, <2>2, <3>3 DEF Clocked, Rows
    <3>4. CASE saves'[k].updatedAt = pass.now
      BY <1>0, <3>4 DEF Clocked
    <3>5. QED
      BY <3>2, <3>3, <3>4
  <2>3. QED
    BY <1>0, <1>i, <1>n, <2>1, <2>2 DEF Clocked, Rows
<1>6. CASE PassBegins \/ ReadBaseline \/ ListPage \/ PassFails
  <2>1. UNCHANGED <<saves, clock, req>>
    BY <1>6 DEF PassBegins, ReadBaseline, ListPage, PassFails
  <2>2. /\ pass'.snapshotAt \in {0, clock, pass.snapshotAt}
        /\ pass'.now \in {0, clock, pass.now}
    <3>1. CASE PassBegins
      BY <1>n, <3>1 DEF PassBegins, IdlePass
    <3>2. CASE ReadBaseline
      BY <1>n, <3>2 DEF ReadBaseline, Pass
    <3>3. CASE ListPage
      BY <1>n, <3>3, ListPageTypes DEF Pass
    <3>4. CASE PassFails
      BY <1>i, <3>4 DEF PassFails
    <3>5. QED
      BY <1>6, <3>1, <3>2, <3>3, <3>4
  <2>3. pass'.snapshotAt <= clock /\ pass'.now <= clock
    BY <1>0, <1>n, <2>2 DEF Clocked
  <2>4. QED
    BY <1>0, <2>1, <2>3 DEF Clocked, Rows
<1>7. CASE OtherClient \/ Trigger \/ UNCHANGED vars
  <2>1. UNCHANGED <<saves, clock, req, pass>>
    BY <1>7 DEF OtherClient, Trigger, vars
  <2>2. QED
    BY <1>0, <2>1 DEF Clocked, Rows
<1>8. CASE Tick
  <2>1. clock' = clock + 1 /\ UNCHANGED <<saves, req, pass>>
    BY <1>8 DEF Tick
  <2>2. /\ \A k \in Rows(saves) : saves[k].updatedAt \in Nat
        /\ \A s \in Sessions : req[s].now \in Nat
        /\ pass.snapshotAt \in Nat /\ pass.now \in Nat
    BY <1>n DEF Rows, Index, Row, Request, Pass
  <2>3. \A n \in Nat : n <= clock => n <= clock'
    BY <1>n, <2>1
  <2>4. QED
    BY <1>0, <2>1, <2>2, <2>3 DEF Clocked, Rows
<1>9. CASE Crash
  <2>1. UNCHANGED <<saves, clock>> /\ pass' = IdlePass
        /\ \A s \in Sessions : req'[s] = IdleReq
    BY <1>9 DEF Crash
  <2>2. QED
    BY <1>0, <1>i, <1>n, <2>1 DEF Clocked, Rows
<1>10. QED
  BY <1>1, <1>3, <1>4, <1>5, <1>6, <1>7, <1>8, <1>9 DEF Next, Handle

(* What a change of the records does to the listing's history.             *)
LEMMA RecordsMoveListing ==
  ASSUME IInv, RecordsMove, UNCHANGED pass,
         nextRkey' \in Nat, nextRkey <= nextRkey'
  PROVE  ListingIsFaithful'
<1> USE Bounds, ClockTypes
<1>1. ListingIsFaithful /\ TypeOK
  BY DEF IInv
<1>2. nextRkey \in Nat /\ \A k \in Rkeys : k < nextRkey => k < nextRkey'
  BY <1>1 DEF TypeOK
<1>3. pass.pc # "idle" => pdsMoved'
  BY DEF RecordsMove
<1>4. \A k \in held' : k \in held /\ pds'[k] # Absent
  BY DEF RecordsMove
<1>5. QED
  BY <1>1, <1>2, <1>3, <1>4 DEF ListingIsFaithful

LEMMA ListingInductive == IInv /\ [Next]_vars => ListingIsFaithful'
<1> SUFFICES ASSUME IInv, [Next]_vars PROVE ListingIsFaithful'
  OBVIOUS
<1> USE Bounds, ClockTypes, MirrorAssumption
<1>0. TypeOK /\ ListingIsFaithful
  BY DEF IInv
<1>n. /\ pass \in Pass /\ nextRkey \in Nat
      /\ pass.cursor \in Nat /\ pass.cursor <= MaxRkey + 1
      /\ pass.listed \in [Rkeys -> Listed \cup {Absent}]
      /\ pds \in [Rkeys -> Record \cup {Absent}]
      /\ held \subseteq Rkeys
  BY <1>0 DEF TypeOK, Pass
<1>1. ASSUME UNCHANGED <<pds, nextRkey, pass, pdsMoved, held>>
      PROVE  ListingIsFaithful'
  BY <1>0, <1>1 DEF ListingIsFaithful, EmptyIndex, Content
<1>2. ASSUME NEW s \in Sessions, Commit(s) PROVE ListingIsFaithful'
  <2>1. nextRkey <= nextRkey' /\ nextRkey' \in Nat
    BY <1>2, CommitTypes
  <2>2. RecordsMove /\ pass' = pass
    BY <1>2 DEF Commit
  <2>3. QED
    BY <2>1, <2>2, RecordsMoveListing
<1>3. CASE OtherClient
  <2>1. nextRkey <= nextRkey' /\ nextRkey' \in Nat
    BY <1>3, OtherClientTypes
  <2>2. RecordsMove /\ pass' = pass
    BY <1>3 DEF OtherClient
  <2>3. QED
    BY <2>1, <2>2, RecordsMoveListing
<1>4. ASSUME pass' = IdlePass, held' = {}, UNCHANGED nextRkey
      PROVE  ListingIsFaithful'
  BY <1>4 DEF ListingIsFaithful, IdlePass, EmptyIndex
<1>5. CASE PassBegins
  <2>1. /\ pass'.pc = "baseline" /\ pass'.cursor = MaxRkey + 1
        /\ pass'.listed = EmptyIndex
    BY <1>5 DEF PassBegins, IdlePass
  <2>2. \A k \in Rkeys : pass'.listed[k] = Absent /\ ~(MaxRkey + 1 <= k)
    BY <2>1 DEF EmptyIndex, Rkeys
  <2>3. \A k \in held' : k \in Rkeys /\ pds'[k] # Absent
    BY <1>5 DEF PassBegins
  <2>4. QED
    BY <2>1, <2>2, <2>3 DEF ListingIsFaithful
<1>6. CASE ReadBaseline
  <2>1. /\ pass'.pc = "listing" /\ pass.pc = "baseline"
        /\ pass'.cursor = pass.cursor /\ pass'.listed = pass.listed
        /\ UNCHANGED <<pds, nextRkey, pdsMoved, held>>
    BY <1>n, <1>6 DEF ReadBaseline, Pass, history
  <2>2. QED
    BY <1>0, <2>1 DEF ListingIsFaithful, Content
<1>7. CASE ListPage
  <2>1. pass.pc = "listing" /\ UNCHANGED <<pds, nextRkey, pdsMoved, held>>
    BY <1>7 DEF ListPage, history
  <2>2. CASE /\ \A k \in Rkeys : k < pass.cursor => pds[k] = Absent
             /\ pass' = [pass EXCEPT !.pc = "applying", !.now = clock]
    <3>1. /\ pass'.pc = "applying" /\ pass'.cursor = pass.cursor
          /\ pass'.listed = pass.listed
      BY <1>n, <2>2 DEF Pass
    <3>2. \A k \in held : pass.cursor <= k
      BY <1>0, <1>n, <2>2 DEF ListingIsFaithful
    <3>3. QED
      BY <1>0, <2>1, <2>2, <3>1, <3>2 DEF ListingIsFaithful, Content
  <2>3. ASSUME NEW k \in Rkeys, k < pass.cursor, pds[k] # Absent,
               \A j \in Rkeys : k < j /\ j < pass.cursor => pds[j] = Absent,
               k < nextRkey,
               pass' = [pass EXCEPT !.cursor = k,
                          !.listed = [pass.listed EXCEPT ![k] = Content(pds[k])]]
        PROVE  ListingIsFaithful'
    <3>1. /\ pass'.pc = "listing" /\ pass'.cursor = k
          /\ pass'.listed = [pass.listed EXCEPT ![k] = Content(pds[k])]
      BY <1>n, <2>1, <2>3 DEF Pass
    <3>2. pass'.listed[k] = Content(pds[k])
      BY <1>n, <3>1
    <3>3. \A j \in Rkeys : j # k => pass'.listed[j] = pass.listed[j]
      BY <1>n, <3>1
    <3>4. \A j \in Rkeys : pass'.listed[j] # Absent => k <= j /\ j < nextRkey
      BY <1>0, <1>n, <2>3, <3>3 DEF ListingIsFaithful
    <3>5. Content(pds[k]) # Absent
      <4>1. pds[k] \in Record
        BY <1>n, <2>3
      <4>2. Content(pds[k]) = [item |-> pds[k].item, tags |-> pds[k].tags]
        BY <2>3 DEF Content
      <4>3. Content(pds[k]) \in Listed
        BY <4>1, <4>2 DEF Record, Listed
      <4>4. QED
        BY <4>3
    <3>6. ASSUME NEW j \in held
          PROVE  pds[j] # Absent /\ (k <= j => pass'.listed[j] # Absent)
      <4>1. pds[j] # Absent /\ (pass.cursor <= j => pass.listed[j] # Absent)
        BY <1>0 DEF ListingIsFaithful
      <4>2. k < j => pass.cursor <= j
        BY <1>n, <2>3, <4>1
      <4>3. QED
        BY <1>n, <3>2, <3>3, <3>5, <4>1, <4>2
    <3>7. ASSUME ~pdsMoved, NEW j \in Rkeys, k <= j
          PROVE  pass'.listed[j] = Content(pds[j])
      <4>1. CASE j = k
        BY <3>2, <4>1
      <4>2. CASE j # k /\ j < pass.cursor
        <5>1. pass.listed[j] = Absent
          BY <1>0, <1>n, <4>2 DEF ListingIsFaithful
        <5>2. pds[j] = Absent
          BY <2>3, <3>7, <4>2
        <5>3. QED
          BY <3>3, <4>2, <5>1, <5>2 DEF Content
      <4>3. CASE j # k /\ pass.cursor <= j
        BY <1>0, <2>1, <3>3, <3>7, <4>3 DEF ListingIsFaithful
      <4>4. QED
        BY <1>n, <4>1, <4>2, <4>3
    <3>8. QED
      BY <2>1, <3>1, <3>4, <3>6, <3>7 DEF ListingIsFaithful, Content
  <2>4. QED
    BY <1>7, <2>2, <2>3, ListPageTypes
<1>8. QED
  BY <1>1, <1>2, <1>3, <1>4, <1>5, <1>6, <1>7
     DEF Next, Handle, CreateProbe, DeleteLoad, PatchLoad, Begin, PatchRead,
         CommitFails, Mirror, MirrorWrite, MirrorFails, PassFails, Apply,
         ForgetPass, Tick, Trigger, Crash, history, vars

LEMMA BaselineInductive == IInv /\ [Next]_vars => BaselineIsCurrent'
<1> SUFFICES ASSUME IInv, [Next]_vars PROVE BaselineIsCurrent'
  OBVIOUS
<1> USE Bounds, ClockTypes, MirrorAssumption
<1>0. TypeOK /\ Clocked /\ BaselineIsCurrent
  BY DEF IInv
<1>n. pass \in Pass /\ mirrored \in SUBSET Rkeys
  BY <1>0 DEF TypeOK
<1>1. ASSUME UNCHANGED <<saves, pass, mirrored>>
      PROVE  BaselineIsCurrent'
  BY <1>0, <1>1 DEF BaselineIsCurrent, Rows
<1>2. ASSUME pass' = IdlePass PROVE BaselineIsCurrent'
  BY <1>2 DEF BaselineIsCurrent, IdlePass
<1>3. ASSUME NEW s \in Sessions, Mirror(s) PROVE BaselineIsCurrent'
  <2>1. CASE MirrorWrite(s)
    <3>1. pass' = pass
      BY <1>3 DEF Mirror
    <3>2. pass.pc # "idle" => mirrored' # {}
      BY <2>1 DEF MirrorWrite
    <3>3. QED
      BY <3>1, <3>2 DEF BaselineIsCurrent
  <2>2. CASE MirrorFails(s)
    BY <1>1, <1>3, <2>2 DEF Mirror, MirrorFails
  <2>3. QED
    BY <1>3, <2>1, <2>2 DEF Mirror
<1>4. CASE PassBegins
  <2>1. pass'.pc = "baseline" /\ pass'.snapshotAt = clock /\ saves' = saves
    BY <1>4 DEF PassBegins, IdlePass
  <2>2. QED
    BY <1>0, <2>1 DEF BaselineIsCurrent, Clocked, Rows
<1>5. CASE ReadBaseline
  <2>1. /\ pass'.pc = "listing" /\ pass'.snapshotAt = pass.snapshotAt
        /\ pass'.baseline = saves /\ pass.pc = "baseline"
        /\ saves' = saves /\ mirrored' = mirrored
    BY <1>5, <1>n DEF ReadBaseline, Pass, history
  <2>2. QED
    BY <1>0, <2>1 DEF BaselineIsCurrent, Rows
<1>6. CASE ListPage
  <2>1. /\ pass.pc = "listing" /\ saves' = saves /\ mirrored' = mirrored
    BY <1>6 DEF ListPage, history
  <2>2. pass'.snapshotAt = pass.snapshotAt /\ pass'.baseline = pass.baseline
    BY <1>6, <1>n, ListPageTypes DEF Pass
  <2>3. QED
    BY <1>0, <2>1, <2>2 DEF BaselineIsCurrent, Rows
<1>7. QED
  BY <1>1, <1>2, <1>3, <1>4, <1>5, <1>6
     DEF Next, Handle, CreateProbe, DeleteLoad, PatchLoad, Begin, PatchRead,
         Commit, CommitFails, RecordsMove, PassFails, Apply, OtherClient,
         Tick, Trigger, Crash, history, vars

LEMMA StepIInv == IInv /\ [Next]_vars => IInv'
  BY TypeInductive, ClockedInductive, RequestsInductive, ListingInductive,
     BaselineInductive DEF IInv

-----------------------------------------------------------------------------
(* The theorems.                                                           *)

(* The invariant behind the promises of a pass holds in every state.       *)
THEOREM Inductive == Spec => []IInv
<1>1. Init => IInv
  BY InitIInv
<1>2. IInv /\ [Next]_vars => IInv'
  BY StepIInv
<1>3. QED
  BY <1>1, <1>2, PTL DEF Spec

(* The state keeps its types and the index its unique item URLs, through   *)
(* any mix of requests, passes, crashes and writes of other clients.       *)
THEOREM TypeCorrect == Spec => []TypeOK
<1>1. IInv => TypeOK
  BY DEF IInv
<1>2. QED
  BY <1>1, Inductive, PTL

(* Nothing moved since the pass began, so no row counts as changed and the *)
(* transaction gives every row the content of its record.                  *)
LEMMA QuietStep ==
  ASSUME IInv, Apply, Settled, NEW k \in Rkeys
  PROVE  Content(saves'[k]) = Content(pds[k])
<1> USE Bounds, ClockTypes, MirrorAssumption
<1>1. /\ pass \in Pass /\ saves \in Index
      /\ pds \in [Rkeys -> Record \cup {Absent}]
      /\ pass.pc = "applying" /\ pass.cursor \in Nat
      /\ pass.listed \in [Rkeys -> Listed \cup {Absent}]
      /\ pass.snapshotAt \in Nat
  <2>1. /\ pass \in Pass /\ saves \in Index /\ pass.pc = "applying"
        /\ pds \in [Rkeys -> Record \cup {Absent}]
    BY DEF IInv, TypeOK, Apply
  <2>2. /\ pass.cursor \in 1..(MaxRkey + 1) /\ pass.snapshotAt \in Seconds
        /\ pass.listed \in [Rkeys -> Listed \cup {Absent}]
    BY <2>1 DEF Pass
  <2>3. pass.cursor \in Nat
    BY <2>2
  <2>4. QED
    BY <2>1, <2>2, <2>3
<1>2. pass.baseline = saves
  BY <1>1 DEF IInv, BaselineIsCurrent, Settled
<1>3. saves[k] # Absent => ~(saves[k].updatedAt > pass.snapshotAt)
  <2>1. saves[k] # Absent => /\ saves[k].updatedAt <= pass.snapshotAt
                             /\ saves[k].updatedAt \in Nat
    BY <1>1 DEF IInv, BaselineIsCurrent, Settled, Rows, Index, Row
  <2>2. QED
    BY <1>1, <2>1
<1>4. ~changedDuringListing(k) /\ ~deletedDuringListing(k)
  BY <1>2, <1>3 DEF changedDuringListing, deletedDuringListing,
                    updatedAfterSnapshot
<1>5. pass.listed[k] = Content(pds[k])
  <2>1. pass.cursor <= k => pass.listed[k] = Content(pds[k])
    BY <1>1 DEF IInv, ListingIsFaithful, Settled
  <2>2. k < pass.cursor => pass.listed[k] = Absent /\ pds[k] = Absent
    BY <1>1 DEF IInv, ListingIsFaithful, Settled
  <2>3. QED
    BY <1>1, <2>1, <2>2 DEF Content
<1>6. k \in Nat \ {0}
  BY DEF Rkeys
<1>7. CASE pds[k] = Absent
  <2>1. k \notin Keep
    BY <1>5, <1>7 DEF Keep, Content
  <2>2. k \notin upserted
    BY <2>1 DEF upserted
  <2>3. saves'[k] = Absent
    BY <1>4, <1>6, <2>1, <2>2, AfterApply
  <2>4. QED
    BY <1>7, <2>3 DEF Content
<1>8. CASE pds[k] # Absent
  <2>1. pds[k] \in Record /\ Content(pds[k]) = [item |-> pds[k].item,
                                                tags |-> pds[k].tags]
    BY <1>1, <1>8 DEF Content
  <2>2. Content(pds[k]) \in Listed
    BY <2>1 DEF Record, Listed
  <2>3. k \in Keep
    BY <1>5, <2>2 DEF Keep
  <2>4. k \in upserted
    BY <1>4, <2>3 DEF upserted
  <2>5. saves'[k] = [item |-> pass.listed[k].item, tags |-> pass.listed[k].tags,
                     updatedAt |-> pass.now]
    BY <1>6, <2>3, <2>4, AfterApply
  <2>6. saves'[k] # Absent
    <3>1. pass.now \in Seconds
      BY <1>1 DEF Pass
    <3>2. saves'[k] \in Row
      BY <1>5, <2>2, <2>5, <3>1 DEF Listed, Row
    <3>3. QED
      BY <3>2
  <2>7. Content(saves'[k]) = [item |-> pass.listed[k].item,
                              tags |-> pass.listed[k].tags]
    BY <2>5, <2>6 DEF Content
  <2>8. QED
    BY <1>5, <2>1, <2>7
<1>9. QED
  BY <1>7, <1>8

(* A pass that commits while nothing moves repairs the whole index.        *)
THEOREM QuietPassRepairs == Spec => QuietPassConverges
<1>1. IInv /\ [Next]_vars =>
        [Apply /\ Settled =>
           \A k \in Rkeys : Content(saves'[k]) = Content(pds[k])]_vars
  BY QuietStep
<1>2. QED
  BY <1>1, Inductive, PTL DEF Spec, QuietPassConverges

(* A row whose record was in the PDS throughout the pass survives it.      *)
THEOREM HeldRowsSurvive == Spec => NoSaveVanishes
<1>1. ASSUME IInv, Apply, NEW k \in held, saves[k] # Absent
      PROVE  saves'[k] # Absent
  <2> USE Bounds, ClockTypes, MirrorAssumption
  <2>1. pass \in Pass /\ pass.pc = "applying" /\ k \in Rkeys
    BY <1>1 DEF IInv, TypeOK, Apply
  <2>2. pass.listed[k] # Absent
    BY <1>1, <2>1 DEF IInv, ListingIsFaithful
  <2>3. k \in Keep /\ k \in Nat \ {0}
    BY <2>1, <2>2 DEF Keep, Rkeys
  <2>4. CASE k \in upserted
    <3>1. saves'[k] = [item |-> pass.listed[k].item,
                       tags |-> pass.listed[k].tags, updatedAt |-> pass.now]
      BY <1>1, <2>1, <2>3, <2>4, AfterApply
    <3>2. pass.listed[k] \in Listed /\ pass.now \in Seconds
      BY <2>1, <2>2 DEF Pass
    <3>3. saves'[k] \in Row
      BY <3>1, <3>2 DEF Listed, Row
    <3>4. QED
      BY <3>3
  <2>5. CASE k \notin upserted
    BY <1>1, <2>1, <2>3, <2>5, AfterApply
  <2>6. QED
    BY <2>4, <2>5
<1>2. IInv /\ [Next]_vars =>
        [Apply => \A k \in held : saves[k] # Absent => saves'[k] # Absent]_vars
  BY <1>1
<1>3. QED
  BY <1>2, Inductive, PTL DEF Spec, NoSaveVanishes

(* A row that changed since the baseline is left as it is.                 *)
THEOREM FreshRowsAreSpared == Spec => StaleListingSparesMirror
<1>1. ASSUME IInv, Apply, NEW k \in mirrored, saves[k] # pass.baseline[k]
      PROVE  saves'[k] = saves[k]
  <2>1. k \in Rkeys /\ k \in Nat \ {0}
    BY <1>1, Bounds DEF IInv, TypeOK, Rkeys
  <2>2. CASE saves[k] # Absent
    <3>1. changedDuringListing(k)
      BY <1>1, <2>2 DEF changedDuringListing
    <3>2. k \notin upserted
      BY <3>1 DEF upserted
    <3>3. QED
      BY <1>1, <2>1, <3>1, <3>2, AfterApply
  <2>3. CASE saves[k] = Absent
    <3>1. deletedDuringListing(k)
      BY <1>1, <2>3 DEF deletedDuringListing
    <3>2. k \notin upserted
      BY <3>1 DEF upserted
    <3>3. QED
      BY <1>1, <2>1, <2>3, <3>2, AfterApply
  <2>4. QED
    BY <2>2, <2>3
<1>2. IInv /\ [Next]_vars =>
        [Apply => \A k \in mirrored :
           saves[k] # pass.baseline[k] => saves'[k] = saves[k]]_vars
  BY <1>1
<1>3. QED
  BY <1>2, Inductive, PTL DEF Spec, StaleListingSparesMirror

(* The swap on the CID keeps the fields a tag edit does not touch.         *)
THEOREM SwapKeepsNotes == Spec => NotesAreKept
<1>1. ASSUME IInv, [Next]_vars, NEW k \in Rkeys,
             pds[k] # Absent, pds'[k] # Absent, external' = external
      PROVE  pds'[k].note = pds[k].note
  <2> USE Bounds, ClockTypes, MirrorAssumption
  <2>1. /\ pds \in [Rkeys -> Record \cup {Absent}] /\ external \in Nat
        /\ nextRkey \in Nat
        /\ \A j \in Rkeys : j >= nextRkey => pds[j] = Absent
    BY <1>1 DEF IInv, TypeOK
  <2>2. ASSUME NEW s \in Sessions, Commit(s) PROVE pds'[k].note = pds[k].note
    <3>1. pds' = Written(req[s]) /\ PdsAccepts(req[s])
      BY <2>2 DEF Commit
    <3>2. CASE req[s].op = "create"
      <4>1. k # nextRkey
        BY <1>1, <2>1
      <4>2. QED
        BY <1>1, <2>1, <3>1, <3>2, <4>1 DEF Written
    <3>3. CASE req[s].op = "patch"
      <4>1. /\ pds[req[s].rkey] = req[s].read
            /\ pds' = [pds EXCEPT ![req[s].rkey] =
                         [req[s].read EXCEPT !.tags = req[s].tags]]
        BY <3>1, <3>3 DEF Written, PdsAccepts
      <4>2. CASE k # req[s].rkey
        BY <2>1, <4>1, <4>2
      <4>3. CASE k = req[s].rkey
        <5>1. pds[k] \in Record /\ pds[k] = req[s].read
          BY <1>1, <2>1, <4>1, <4>3
        <5>2. pds'[k] = [pds[k] EXCEPT !.tags = req[s].tags]
          BY <2>1, <4>1, <4>3, <5>1
        <5>3. QED
          BY <5>1, <5>2 DEF Record
      <4>4. QED
        BY <4>2, <4>3
    <3>4. CASE req[s].op # "create" /\ req[s].op # "patch"
      <4>1. pds' = [pds EXCEPT ![req[s].rkey] = Absent]
        BY <3>1, <3>4 DEF Written
      <4>2. k # req[s].rkey
        BY <1>1, <2>1, <4>1
      <4>3. QED
        BY <2>1, <4>1, <4>2
    <3>5. QED
      BY <3>2, <3>3, <3>4
  <2>3. CASE OtherClient
    BY <1>1, <2>1, <2>3 DEF OtherClient
  <2>4. CASE pds' = pds
    BY <2>4
  <2>5. QED
    BY <1>1, <2>2, <2>3, <2>4
       DEF Next, Handle, CreateProbe, DeleteLoad, PatchLoad, Begin, PatchRead,
           CommitFails, Mirror, PassBegins, ReadBaseline, ListPage, PassFails,
           Apply, Tick, Trigger, Crash, vars
<1>2. IInv /\ [Next]_vars =>
        [\A k \in Rkeys :
           pds[k] # Absent /\ pds'[k] # Absent /\ external' = external
             => pds'[k].note = pds[k].note]_vars
  BY <1>1
<1>3. QED
  BY <1>2, Inductive, PTL DEF Spec, NotesAreKept
=============================================================================
