--------------------------- MODULE WebSourceProofs ---------------------------
(***************************************************************************)
(* Proofs about WebSource, for every set of readers, requests and listing  *)
(* keys and every limit: a pasted key keeps its source, a list others      *)
(* follow is replaced only once the model agreed, a reader's sources stay  *)
(* within the day's limit, and a day's spend passes the budget by no more  *)
(* than what was at work when it was last asked, though requests, polls,   *)
(* checks, shutdowns and the sweep come in any order.                      *)
(***************************************************************************)
EXTENDS WebSource, FiniteSetTheorems, TLAPS

(* No key finds two sources: rows have different keys, and a source's own  *)
(* key is nobody's alias.                                                  *)
RowsOf(src) == {s \in Ids : src[s] # None}
TablesOK(src, al) ==
    /\ src \in [Ids -> Row \cup {None}]
    /\ al \in [Keys -> Ids \cup {None}]
    /\ \A s, t \in RowsOf(src) : src[s].key = src[t].key => s = t
    /\ \A k \in Keys : al[k] # None => src[al[k]] # None
    /\ \A s \in RowsOf(src) : al[src[s].key] = None
    /\ \A s \in RowsOf(src) : rank(src[s].health) <= rank(src[s].setup)
    /\ IsFiniteSet(RowsOf(src))

Others ==
    /\ follows \in [Ids -> SUBSET Readers]
    /\ spent \in Nat
    /\ req \in [Clients -> Request]
    /\ poll \in Poll
    /\ runs \in 0..MaxRuns
    /\ unpaid \in BOOLEAN

(* The source a request found lasts as long as the request, and its setup  *)
(* only gets better.  A setup stored without the model's word was no       *)
(* better than the source as it was found.                                 *)
RequestFounded(src, r) ==
    /\ r.pc # "idle" => r.did \in Readers /\ r.key \in Keys
    /\ r.pc \in {"own", "inOwn", "vet", "confirm"} => r.id # None
    /\ r.pc \in {"vet", "confirm", "store"} => r.ended \in Keys
    /\ r.pc \in {"vet", "confirm"} => r.cost = 0
    /\ r.id # None =>
         /\ r.snap \in FoundRow
         /\ rank(r.snap.health) <= rank(r.snap.setup)
         /\ src[r.id] # None
         /\ src[r.id].lately
         /\ rank(r.snap.setup) <= rank(src[r.id].setup)
    /\ r.unvetted /\ r.pc # "confirm" =>
         r.pc = "store" /\ r.id # None /\ ~improves(r.health, r.snap)

(* The source at its poll lasts, and is of the setup that was read unless  *)
(* its sequence number says otherwise.                                     *)
PollFounded ==
    poll.pc \notin {"idle", "stopped"} =>
      /\ poll.id \in Ids
      /\ poll.snap \in ListedRow
      /\ poll.snap.setup \in {"ok", "needs_attention"}
      /\ sources[poll.id] # None
      /\ follows[poll.id] # {} \/ sources[poll.id].lately
      /\ poll.snap.seq <= sources[poll.id].seq
      /\ sources[poll.id].seq = poll.snap.seq =>
           sources[poll.id].setup = poll.snap.setup

Claimed(r) == r.pc \notin {"idle", "claim"}
OneClaim ==
    \A b, c \in Clients :
      Claimed(req[b]) /\ Claimed(req[c]) /\ req[b].did = req[c].did => b = c

(* A reader whose claim may make a source has room for it.                 *)
Creates(r) == Claimed(r) /\ r.id = None
Made(src, did) == {s \in Ids : src[s] # None /\ src[s].by = did}
UnderCap ==
    /\ \A did \in Readers : Cardinality(Made(sources, did)) <= DailySources
    /\ \A c \in Clients :
         Creates(req[c]) => Cardinality(Made(sources, req[c].did)) < DailySources

(* What may still be spent on what was allowed: a setup of the reader's,   *)
(* or a look at the reader's post after one that asked no model, and the   *)
(* poll's check and repair.                                                *)
Owes(r) ==
    \/ r.pc \in {"inOwn", "inSetup"} /\ r.allowed /\ ~r.anchor
    \/ r.pc = "confirm"
    \/ r.pc = "store" /\ r.cost > 0
Owing ==
    {did \in Readers : \E c \in Clients : req[c].did = did /\ Owes(req[c])}
Worth(S) == SetupCalls * Cardinality(S)
PollMayCost ==
    IF poll.pc = "polling" /\ poll.allowed THEN 1 + SetupCalls ELSE 0
Budget == ModelDaily + Worth(Readers) + SetupCalls
WithinBudget == spent + Worth(Owing) + PollMayCost <= Budget

IInv ==
    /\ TablesOK(sources, aliases)
    /\ Others
    /\ \A c \in Clients : RequestFounded(sources, req[c])
    /\ PollFounded
    /\ OneClaim
    /\ UnderCap
    /\ WithinBudget

-----------------------------------------------------------------------------
(* Which source a key finds, and how the tables change.                    *)

Answers(src, al, k, s) == (src[s] # None /\ src[s].key = k) \/ al[k] = s

(* What a key found, it finds, if the source is there.                     *)
Hold(src, al, src2, al2) ==
    \A k \in Keys, s \in Ids :
      Answers(src, al, k, s) /\ src2[s] # None => Answers(src2, al2, k, s)

LEMMA NoneIsNothing ==
  /\ None \notin Ids /\ None \notin Keys /\ None \notin Readers /\ None \notin Row
  BY WebSourceAssumption, LegacyAssumption

LEMMA OwnersFound ==
  ASSUME NEW src, NEW al, TablesOK(src, al), NEW k \in Keys, NEW f,
         f = IF Owners(src, al, k) = {} THEN None
             ELSE CHOOSE s \in Owners(src, al, k) : TRUE
  PROVE  /\ f \in Ids \cup {None}
         /\ \A s \in Ids : f = s <=> Answers(src, al, k, s)
<1> DEFINE own == {s \in Ids : src[s] # None /\ src[s].key = k}
<1>1. al[k] \in Ids \cup {None}
  BY DEF TablesOK
<1>2. ASSUME NEW s \in own
      PROVE  own = {s} /\ al[k] = None
  BY <1>2 DEF TablesOK, RowsOf
<1>3. CASE own # {}
  <2>1. PICK s \in own : TRUE
    BY <1>3
  <2>2. own = {s} /\ al[k] = None
    BY <1>2
  <2>3. Owners(src, al, k) = {s}
    BY <2>2 DEF Owners
  <2>4. f = s
    BY <2>3
  <2>5. QED
    BY <2>2, <2>4, NoneIsNothing DEF Answers
<1>4. CASE own = {}
  <2>1. Owners(src, al, k) = {al[k]} \ {None}
    BY <1>4 DEF Owners
  <2>2. f = al[k]
    BY <2>1
  <2>3. QED
    BY <1>1, <1>4, <2>2 DEF Answers
<1>5. QED
  BY <1>3, <1>4

LEMMA KeyFinds ==
  ASSUME TablesOK(sources, aliases), NEW k \in Keys
  PROVE  /\ GetWebSourceByKey(k) \in Ids \cup {None}
         /\ \A s \in Ids :
              GetWebSourceByKey(k) = s <=> Answers(sources, aliases, k, s)
  BY OwnersFound DEF GetWebSourceByKey

LEMMA KeyFindsNext ==
  ASSUME TablesOK(sources', aliases'), NEW k \in Keys
  PROVE  \A s \in Ids :
           GetWebSourceByKey(k)' = s <=> Answers(sources', aliases', k, s)
<1>1. GetWebSourceByKey(k)' =
        IF Owners(sources', aliases', k) = {} THEN None
        ELSE CHOOSE s \in Owners(sources', aliases', k) : TRUE
  BY DEF GetWebSourceByKey, Owners
<1>2. QED
  BY <1>1, OwnersFound

(* Rows change, but not what they are found by.                            *)
LEMMA RowsChange ==
  ASSUME NEW src, NEW al, TablesOK(src, al), NEW src2 \in [Ids -> Row \cup {None}],
         \A s \in Ids : src2[s] = None <=> src[s] = None,
         \A s \in RowsOf(src) : /\ src2[s].key = src[s].key
                                /\ rank(src2[s].health) <= rank(src2[s].setup)
  PROVE  TablesOK(src2, al) /\ Hold(src, al, src2, al)
<1>1. RowsOf(src2) = RowsOf(src)
  BY DEF RowsOf
<1>2. TablesOK(src2, al)
  BY <1>1 DEF TablesOK, RowsOf
<1>3. Hold(src, al, src2, al)
  BY DEF Hold, Answers, RowsOf
<1>4. QED
  BY <1>2, <1>3

(* A key that only s may have becomes an alias of s, unless it is one.     *)
LEMMA AliasAdded ==
  ASSUME NEW src, NEW al, TablesOK(src, al), NEW k \in Keys,
         NEW s \in RowsOf(src),
         \A t \in RowsOf(src) : src[t].key = k => t = s,
         NEW al2, al2 = addAlias(al, k, s, src[s].key)
  PROVE  TablesOK(src, al2) /\ Hold(src, al, src, al2)
<1>1. CASE k = src[s].key
  BY <1>1 DEF addAlias, Hold
<1>2. CASE k # src[s].key
  <2>1. al2 = [al EXCEPT ![k] = IF al[k] = None THEN s ELSE al[k]]
    BY <1>2 DEF addAlias, InsertWebSourceAlias
  <2>2. /\ al2 \in [Keys -> Ids \cup {None}]
        /\ al2[k] = IF al[k] = None THEN s ELSE al[k]
        /\ \A j \in Keys : j # k => al2[j] = al[j]
    BY <2>1 DEF TablesOK, RowsOf
  <2>3. \A t \in RowsOf(src) : src[t].key \in Keys /\ src[t].key # k
    BY <1>2 DEF TablesOK, RowsOf, Row
  <2>4. TablesOK(src, al2)
    BY <2>2, <2>3 DEF TablesOK, RowsOf
  <2>5. Hold(src, al, src, al2)
    BY <2>2, NoneIsNothing DEF Hold, Answers, TablesOK
  <2>6. QED
    BY <2>4, <2>5
<1>3. QED
  BY <1>1, <1>2

(* A new row has a key that finds nothing.                                 *)
LEMMA RowAdded ==
  ASSUME NEW src, NEW al, TablesOK(src, al), NEW id \in Ids, src[id] = None,
         NEW row \in Row, rank(row.health) <= rank(row.setup),
         \A s \in Ids : ~Answers(src, al, row.key, s),
         NEW src2, src2 = [src EXCEPT ![id] = row]
  PROVE  TablesOK(src2, al) /\ Hold(src, al, src2, al)
<1>1. /\ src2 \in [Ids -> Row \cup {None}] /\ src2[id] = row
      /\ \A s \in Ids : s # id => src2[s] = src[s]
  BY DEF TablesOK
<1>2. row # None /\ row.key \in Keys
  BY NoneIsNothing DEF Row
<1>3. RowsOf(src2) = RowsOf(src) \cup {id} /\ id \notin RowsOf(src)
  BY <1>1, <1>2 DEF RowsOf
<1>4. IsFiniteSet(RowsOf(src2))
  <2>1. PICK rows : rows = RowsOf(src)
    OBVIOUS
  <2>2. IsFiniteSet(rows) /\ RowsOf(src2) = rows \cup {id}
    BY <1>3, <2>1 DEF TablesOK
  <2>3. IsFiniteSet(rows \cup {id})
    BY <2>2, FS_AddElement
  <2>4. QED
    BY <2>2, <2>3
<1>5. al[row.key] = None /\ \A s \in RowsOf(src) : src[s].key # row.key
  BY <1>2 DEF TablesOK, Answers, RowsOf
<1>6. TablesOK(src2, al)
  <2>1. \A s, t \in RowsOf(src2) : src2[s].key = src2[t].key => s = t
    BY <1>1, <1>3, <1>5 DEF TablesOK, RowsOf
  <2>2. \A k \in Keys : al[k] # None => src2[al[k]] # None
    BY <1>1, <1>2 DEF TablesOK
  <2>3. \A s \in RowsOf(src2) : /\ al[src2[s].key] = None
                               /\ rank(src2[s].health) <= rank(src2[s].setup)
    BY <1>1, <1>3, <1>5 DEF TablesOK, RowsOf
  <2>4. QED
    BY <1>1, <1>4, <2>1, <2>2, <2>3 DEF TablesOK
<1>7. Hold(src, al, src2, al)
  BY <1>1 DEF Hold, Answers
<1>8. QED
  BY <1>6, <1>7

(* A source moves to a key that nobody else answers to; its old key is an  *)
(* alias of it from then on.                                               *)
LEMMA RowMoved ==
  ASSUME NEW src, NEW al, TablesOK(src, al), NEW s \in RowsOf(src),
         NEW row \in Row, rank(row.health) <= rank(row.setup),
         row.key # src[s].key,
         \A t \in Ids : Answers(src, al, row.key, t) => t = s,
         NEW src2 \in [Ids -> Row \cup {None}], src2[s] = row,
         \A t \in Ids : t # s => src2[t] = src[t],
         NEW al2 \in [Keys -> Ids \cup {None}],
         al2[row.key] = None, al2[src[s].key] = s,
         \A k \in Keys : k # row.key /\ k # src[s].key => al2[k] = al[k]
  PROVE  TablesOK(src2, al2) /\ Hold(src, al, src2, al2)
<1> DEFINE old == src[s].key
<1>1. /\ src2 \in [Ids -> Row \cup {None}] /\ src2[s] = row
      /\ \A t \in Ids : t # s => src2[t] = src[t]
  OBVIOUS
<1>2. row # None /\ row.key \in Keys /\ old \in Keys /\ s \in Ids /\ src[s] # None
  BY NoneIsNothing DEF Row, RowsOf, TablesOK
<1>3. RowsOf(src2) = RowsOf(src)
  BY <1>1, <1>2 DEF RowsOf
<1>4. al[row.key] \in {s, None} /\ al[old] = None
  BY <1>2 DEF TablesOK, Answers
<1>5. /\ al2 \in [Keys -> Ids \cup {None}] /\ al2[row.key] = None /\ al2[old] = s
      /\ \A k \in Keys : k # row.key /\ k # old => al2[k] = al[k]
  OBVIOUS
<1>6. \A t \in RowsOf(src) : t # s => src[t].key # row.key /\ src[t].key # old
  BY <1>2 DEF TablesOK, Answers, RowsOf
<1>7. TablesOK(src2, al2)
  <2>1. \A t, u \in RowsOf(src2) : src2[t].key = src2[u].key => t = u
    BY <1>1, <1>3, <1>6 DEF TablesOK, RowsOf
  <2>2. ASSUME NEW k \in Keys, al2[k] # None
        PROVE  src2[al2[k]] # None
    <3>1. CASE k = old
      BY <1>1, <1>2, <1>5, <3>1
    <3>2. CASE k # old
      <4>1. al2[k] = al[k] /\ al[k] \in Ids /\ src[al[k]] # None
        BY <1>5, <2>2, <3>2 DEF TablesOK
      <4>2. QED
        BY <1>1, <1>2, <4>1
    <3>3. QED
      BY <3>1, <3>2
  <2>3. ASSUME NEW t \in RowsOf(src2)
        PROVE  al2[src2[t].key] = None
    <3>1. CASE t = s
      BY <1>1, <1>5, <3>1
    <3>2. CASE t # s
      <4>1. src2[t] = src[t] /\ src[t].key \in Keys /\ al[src[t].key] = None
        BY <1>1, <1>3, <3>2 DEF TablesOK, RowsOf, Row
      <4>2. QED
        BY <1>3, <1>5, <1>6, <3>2, <4>1
    <3>3. QED
      BY <3>1, <3>2
  <2>4. \A t \in RowsOf(src2) : rank(src2[t].health) <= rank(src2[t].setup)
    BY <1>1, <1>3 DEF TablesOK, RowsOf
  <2>5. QED
    BY <1>1, <1>3, <1>5, <2>1, <2>2, <2>3, <2>4 DEF TablesOK
<1>8. ASSUME NEW k \in Keys, NEW t \in Ids, Answers(src, al, k, t)
      PROVE  Answers(src2, al2, k, t)
  <2>1. CASE k = row.key
    BY <1>1, <1>2, <1>8, <2>1 DEF Answers
  <2>2. CASE k = old
    <3>1. t = s
      BY <1>2, <1>4, <1>6, <1>8, <2>2, NoneIsNothing DEF Answers, RowsOf
    <3>2. QED
      BY <1>5, <2>2, <3>1 DEF Answers
  <2>3. CASE k # row.key /\ k # old
    BY <1>1, <1>5, <1>8, <2>3 DEF Answers
  <2>4. QED
    BY <2>1, <2>2, <2>3
<1>9. QED
  BY <1>7, <1>8 DEF Hold

(* The sweep takes rows, and the aliases of those it takes.                *)
LEMMA RowsGone ==
  ASSUME NEW src, NEW al, TablesOK(src, al), NEW gone \in SUBSET Ids,
         NEW src2, src2 = [s \in Ids |-> IF s \in gone THEN None ELSE src[s]],
         NEW al2, al2 = [k \in Keys |-> IF al[k] \in gone THEN None ELSE al[k]]
  PROVE  TablesOK(src2, al2) /\ Hold(src, al, src2, al2)
<1>1. src2 \in [Ids -> Row \cup {None}] /\ al2 \in [Keys -> Ids \cup {None}]
  BY DEF TablesOK
<1>2. RowsOf(src2) = RowsOf(src) \ gone
  BY DEF RowsOf
<1>3. IsFiniteSet(RowsOf(src2))
  BY <1>2, FS_Subset DEF TablesOK
<1>4. \A s \in RowsOf(src2) : src2[s] = src[s] /\ s \in RowsOf(src) /\ src[s].key \in Keys
  BY <1>2 DEF RowsOf, TablesOK, Row
<1>5. \A s \in RowsOf(src2) : al2[src2[s].key] = None
  BY <1>4 DEF TablesOK
<1>6. \A k \in Keys : al2[k] # None => src2[al2[k]] # None
  BY DEF TablesOK
<1>7. TablesOK(src2, al2)
  BY <1>1, <1>3, <1>4, <1>5, <1>6 DEF TablesOK
<1>8. Hold(src, al, src2, al2)
  BY DEF Hold, Answers
<1>9. QED
  BY <1>7, <1>8

-----------------------------------------------------------------------------
(* storeSetup.                                                             *)

LEMMA RankFacts ==
  /\ \A h \in Health : rank(h) \in 0..3
  /\ rank("ok") = 3 /\ SetupHealths \subseteq Health
  /\ rank("broken") = 0 /\ rank("blocked_by_site") = 1
  /\ rank("needs_attention") = 2
  BY DEF Health, SetupHealths, rank

LEMMA ImprovedIsBetter ==
  ASSUME NEW row \in Row, NEW h \in SetupHealths, improves(h, row)
  PROVE  rank(row.setup) <= rank(h)
<1>1. rank(row.setup) \in 0..3 /\ rank(h) \in 0..3 /\ rank(row.health) \in 0..3
  BY RankFacts DEF Row
<1>2. QED
  BY <1>1, RankFacts DEF improves

Setup == [key : Keys, ended : Keys, health : SetupHealths, cost : Nat,
          by : Readers \cup {None}, replaces : Ids \cup {None},
          atSeq : Nat \cup {None}]

LEMMA NewRowType ==
  ASSUME NEW g \in Setup, NEW k \in Keys, NEW n \in Nat,
         NEW by \in Readers \cup {None}
  PROVE  /\ NewRow(g, k, n, by) \in Row
         /\ NewRow(g, k, n, by).health = NewRow(g, k, n, by).setup
         /\ NewRow(g, k, n, by).key = k /\ NewRow(g, k, n, by).seq = n
         /\ NewRow(g, k, n, by).by = by /\ NewRow(g, k, n, by).setup = g.health
         /\ NewRow(g, k, n, by).lately
<1>1. g.health \in Health /\ g.health \in SetupHealths
  BY RankFacts DEF Setup
<1>2. QED
  BY <1>1 DEF NewRow, Row

(* What a step keeps of a source that is there.                            *)
Kept(s) ==
  sources[s] # None =>
    /\ sources'[s] # None
    /\ sources[s].seq <= sources'[s].seq
    /\ rank(sources[s].setup) <= rank(sources'[s].setup)
    /\ sources'[s].seq = sources[s].seq => sources'[s].setup = sources[s].setup
    /\ sources[s].lately => sources'[s].lately

LEMMA UnchangedIsKept ==
  ASSUME TablesOK(sources, aliases), NEW s \in Ids, sources'[s] = sources[s]
  PROVE  Kept(s)
<1>1. SUFFICES ASSUME sources[s] # None PROVE Kept(s)
  BY DEF Kept
<1>2. sources[s] \in Row
  BY <1>1 DEF TablesOK
<1>3. rank(sources[s].setup) \in 0..3 /\ sources[s].seq \in Nat
  BY <1>2, RankFacts DEF Row
<1>4. QED
  BY <1>3 DEF Kept

(* What storeSetup does to the sources: those there keep who made them,    *)
(* only the one to be replaced gets another setup, and a better one; a new *)
(* source is made only where there is none to replace.                     *)
SetupStored(g, id) ==
  /\ spent' = spent + g.cost
  /\ TablesOK(sources', aliases')
  /\ Hold(sources, aliases, sources', aliases')
  /\ \A s \in Ids : Kept(s)
  /\ \A s \in Ids : sources[s] # None =>
       /\ sources'[s].by = sources[s].by
       /\ sources'[s].seq # sources[s].seq =>
            s = g.replaces /\ improves(g.health, sources[s])
  /\ \/ \A s \in Ids : sources[s] = None => sources'[s] = None
     \/ /\ GetWebSource(g.replaces) = None
        /\ sources[id] = None /\ sources'[id].by = g.by
        /\ \A s \in Ids \ {id} : sources[s] = None => sources'[s] = None

LEMMA SourceMade ==
  ASSUME TablesOK(sources, aliases), NEW g \in Setup, NEW id \in Ids,
         GetWebSource(g.replaces) = None,
         GetWebSourceByKey(g.key) = None, GetWebSourceByKey(g.ended) = None,
         sources[id] = None, spent' = spent + g.cost,
         sources' = [sources EXCEPT ![id] = NewRow(g, g.ended, 0, g.by)],
         aliases' = addAlias(aliases, g.key, id, g.ended)
  PROVE  SetupStored(g, id)
<1>1. /\ g.key \in Keys /\ g.ended \in Keys /\ g.by \in Readers \cup {None}
      /\ g.health \in SetupHealths
  BY DEF Setup
<1>2. PICK row : row = NewRow(g, g.ended, 0, g.by)
  OBVIOUS
<1>3. /\ row \in Row /\ row.health = row.setup /\ row.key = g.ended
      /\ row.by = g.by
  BY <1>1, <1>2, NewRowType
<1>4. rank(row.health) <= rank(row.setup)
  BY <1>3, RankFacts DEF Row
<1>5. \A s \in Ids : /\ ~Answers(sources, aliases, g.key, s)
                    /\ ~Answers(sources, aliases, g.ended, s)
  BY <1>1, KeyFinds, NoneIsNothing
<1>6. sources' = [sources EXCEPT ![id] = row]
  BY <1>2
<1>7. TablesOK(sources', aliases) /\ Hold(sources, aliases, sources', aliases)
  <2>1. \A s \in Ids : ~Answers(sources, aliases, row.key, s)
    BY <1>3, <1>5
  <2>2. QED
    BY <1>3, <1>4, <1>6, <2>1, RowAdded
<1>8. /\ sources'[id] = row /\ row # None
      /\ \A s \in Ids : s # id => sources'[s] = sources[s]
  BY <1>3, <1>6, NoneIsNothing DEF TablesOK
<1>9. TablesOK(sources', aliases') /\ Hold(sources', aliases, sources', aliases')
  <2>1. id \in RowsOf(sources')
    BY <1>8 DEF RowsOf
  <2>2. \A t \in RowsOf(sources') : sources'[t].key = g.key => t = id
    BY <1>5, <1>8 DEF RowsOf, Answers
  <2>3. aliases' = addAlias(aliases, g.key, id, sources'[id].key)
    BY <1>3, <1>8
  <2>4. QED
    BY <1>1, <1>7, <2>1, <2>2, <2>3, AliasAdded
<1>10. Hold(sources, aliases, sources', aliases')
  BY <1>7, <1>9 DEF Hold
<1>11. \A s \in Ids : Kept(s)
  <2>1. ASSUME NEW s \in Ids
        PROVE  Kept(s)
    <3>1. CASE s = id
      BY <3>1 DEF Kept
    <3>2. CASE s # id
      BY <1>8, <3>2, UnchangedIsKept
    <3>3. QED
      BY <3>1, <3>2
  <2>2. QED
    BY <2>1
<1>12. QED
  BY <1>3, <1>8, <1>9, <1>10, <1>11 DEF SetupStored

LEMMA SourceStands ==
  ASSUME TablesOK(sources, aliases), NEW g \in Setup, NEW id \in Ids,
         GetWebSource(g.replaces) # None => id = g.replaces,
         GetWebSource(g.replaces) = None =>
           \/ GetWebSourceByKey(g.key) = id
           \/ GetWebSourceByKey(g.key) = None /\ GetWebSourceByKey(g.ended) = id,
         id # g.replaces, spent' = spent + g.cost,
         aliases' = addAlias(aliases, g.key, id, sources[id].key),
         UNCHANGED sources
  PROVE  SetupStored(g, id)
<1>1. g.key \in Keys /\ g.ended \in Keys
  BY DEF Setup
<1>2. GetWebSource(g.replaces) = None
  OBVIOUS
<1>3. id \in RowsOf(sources)
  <2>1. \E k \in Keys : Answers(sources, aliases, k, id)
    BY <1>1, <1>2, KeyFinds
  <2>2. QED
    BY <2>1, NoneIsNothing DEF Answers, TablesOK, RowsOf
<1>4. \A t \in RowsOf(sources) : sources[t].key = g.key => t = id
  <2>1. ASSUME NEW t \in RowsOf(sources), sources[t].key = g.key
        PROVE  t = id
    <3>1. t \in Ids /\ Answers(sources, aliases, g.key, t)
      BY <2>1 DEF Answers, RowsOf
    <3>2. GetWebSourceByKey(g.key) = t
      BY <1>1, <3>1, KeyFinds
    <3>3. QED
      BY <1>2, <3>1, <3>2, NoneIsNothing
  <2>2. QED
    BY <2>1
<1>5. TablesOK(sources, aliases') /\ Hold(sources, aliases, sources, aliases')
  BY <1>1, <1>3, <1>4, AliasAdded
<1>6. \A s \in Ids : Kept(s)
  BY UnchangedIsKept
<1>7. QED
  BY <1>5, <1>6 DEF SetupStored

LEMMA SourceReplaced ==
  ASSUME TablesOK(sources, aliases), NEW g \in Setup, NEW id \in Ids,
         id = g.replaces, sources[id] # None, spent' = spent + g.cost,
         improves(g.health, sources[id]), Replaced(g, id)
  PROVE  SetupStored(g, id)
<1>1. /\ g.key \in Keys /\ g.ended \in Keys /\ g.by \in Readers \cup {None}
      /\ g.health \in SetupHealths
  BY DEF Setup
<1>2. /\ sources[id] \in Row /\ sources[id].seq \in Nat /\ sources[id].key \in Keys
      /\ sources[id].by \in Readers \cup {None} /\ id \in RowsOf(sources)
  BY DEF TablesOK, Row, RowsOf
<1>3. rekey(id, g.ended).key \in Keys
  BY <1>1, <1>2 DEF rekey
<1>4. PICK row : row = NewRow(g, rekey(id, g.ended).key, sources[id].seq + 1,
                              sources[id].by)
  OBVIOUS
<1>5. /\ row \in Row /\ row.health = row.setup
      /\ row.key = rekey(id, g.ended).key /\ row.seq = sources[id].seq + 1
      /\ row.by = sources[id].by /\ row.setup = g.health /\ row.lately
  <2>1. sources[id].seq + 1 \in Nat
    BY <1>2
  <2>2. QED
    BY <1>1, <1>2, <1>3, <1>4, <2>1, NewRowType
<1>6. rank(row.health) <= rank(row.setup)
  BY <1>5, RankFacts DEF Row
<1>7. sources' = [sources EXCEPT ![id] = row] /\ aliases' = rekey(id, g.ended).aliases
  BY <1>4 DEF Replaced
<1>8. /\ sources'[id] = row /\ row # None
      /\ \A s \in Ids : s # id => sources'[s] = sources[s]
  BY <1>5, <1>7, NoneIsNothing DEF TablesOK
<1>9. TablesOK(sources', aliases') /\ Hold(sources, aliases, sources', aliases')
  <2>1. CASE \/ g.ended = sources[id].key
             \/ GetWebSourceByKey(g.ended) \notin {None, id}
    <3>1. row.key = sources[id].key /\ aliases' = aliases
      BY <1>5, <1>7, <2>1 DEF rekey
    <3>2. sources' \in [Ids -> Row \cup {None}]
      BY <1>5, <1>7 DEF TablesOK
    <3>3. \A s \in Ids : sources'[s] = None <=> sources[s] = None
      BY <1>8
    <3>4. \A s \in RowsOf(sources) :
            /\ sources'[s].key = sources[s].key
            /\ rank(sources'[s].health) <= rank(sources'[s].setup)
      BY <1>6, <1>8, <3>1 DEF TablesOK, RowsOf
    <3>5. QED
      BY <3>1, <3>2, <3>3, <3>4, RowsChange
  <2>2. CASE g.ended # sources[id].key /\ GetWebSourceByKey(g.ended) \in {None, id}
    <3>1. /\ row.key = g.ended
          /\ aliases' = InsertWebSourceAlias(DeleteWebSourceAlias(g.ended, id),
                                             sources[id].key, id)
      BY <1>5, <1>7, <2>2 DEF rekey
    <3>2. \A t \in Ids : Answers(sources, aliases, row.key, t) => t = id
      BY <1>1, <2>2, <3>1, KeyFinds, NoneIsNothing
    <3>3. PICK old : old = sources[id].key
      OBVIOUS
    <3>4. /\ old \in Keys /\ row.key \in Keys /\ row.key # old /\ id \in Ids
          /\ aliases \in [Keys -> Ids \cup {None}]
      BY <1>1, <1>2, <2>2, <3>1, <3>3 DEF TablesOK
    <3>5. aliases[old] = None /\ aliases[row.key] \in {id, None}
      BY <1>2, <3>2, <3>3, <3>4 DEF TablesOK, Answers
    <3>6. PICK al1 : al1 = [aliases EXCEPT ![row.key] = None]
      OBVIOUS
    <3>7. aliases' = [al1 EXCEPT ![old] = id]
      <4>1. DeleteWebSourceAlias(g.ended, id) = al1
        BY <3>1, <3>4, <3>5, <3>6 DEF DeleteWebSourceAlias
      <4>2. al1[old] = None
        BY <3>4, <3>5, <3>6
      <4>3. QED
        BY <3>1, <3>3, <4>1, <4>2 DEF InsertWebSourceAlias
    <3>8. /\ aliases' \in [Keys -> Ids \cup {None}]
          /\ aliases'[row.key] = None /\ aliases'[old] = id
          /\ \A k \in Keys : k # row.key /\ k # old => aliases'[k] = aliases[k]
      <4>1. /\ al1 \in [Keys -> Ids \cup {None}] /\ al1[row.key] = None
            /\ \A k \in Keys : k # row.key => al1[k] = aliases[k]
        BY <3>4, <3>6
      <4>2. QED
        BY <3>4, <3>7, <4>1
    <3>9. sources' \in [Ids -> Row \cup {None}]
      BY <1>5, <1>7 DEF TablesOK
    <3>10. QED
      BY <1>2, <1>5, <1>6, <1>8, <3>2, <3>3, <3>4, <3>8, <3>9, RowMoved
  <2>3. QED
    BY <2>1, <2>2
<1>10. rank(sources[id].setup) <= rank(row.setup)
  BY <1>1, <1>2, <1>5, ImprovedIsBetter
<1>11. \A s \in Ids : Kept(s)
  <2>1. ASSUME NEW s \in Ids
        PROVE  Kept(s)
    <3>1. CASE s = id
      BY <1>2, <1>5, <1>8, <1>10, <3>1 DEF Kept
    <3>2. CASE s # id
      BY <1>8, <3>2, UnchangedIsKept
    <3>3. QED
      BY <3>1, <3>2
  <2>2. QED
    BY <2>1
<1>12. \A s \in Ids : sources[s] # None =>
         /\ sources'[s].by = sources[s].by
         /\ sources'[s].seq # sources[s].seq =>
              s = g.replaces /\ improves(g.health, sources[s])
  BY <1>5, <1>8
<1>13. \A s \in Ids : sources[s] = None => sources'[s] = None
  BY <1>8
<1>14. QED
  BY <1>9, <1>11, <1>12, <1>13 DEF SetupStored

LEMMA StoreSetupStores ==
  ASSUME TablesOK(sources, aliases), NEW g \in Setup, NEW id \in Ids,
         storeSetup(g, id)
  PROVE  SetupStored(g, id)
<1>1. /\ g.key \in Keys /\ g.ended \in Keys /\ g.replaces \in Ids \cup {None}
      /\ spent' = spent + g.cost
  BY DEF Setup, storeSetup, recordSpend
<1>2. PICK s : s = storedSource(g)
  OBVIOUS
<1>3. /\ GetWebSource(g.replaces) # None => s = g.replaces
      /\ GetWebSource(g.replaces) = None =>
           IF GetWebSourceByKey(g.key) # None THEN s = GetWebSourceByKey(g.key)
           ELSE s = GetWebSourceByKey(g.ended)
  BY <1>2 DEF storedSource
<1>4. GetWebSource(g.replaces) # None => g.replaces # None /\ g.replaces \in SourceRows
  BY NoneIsNothing DEF GetWebSource, SourceRows
<1>5. CASE s = None
  <2>1. /\ sources[id] = None
        /\ sources' = [sources EXCEPT ![id] = NewRow(g, g.ended, 0, g.by)]
        /\ aliases' = addAlias(aliases, g.key, id, g.ended)
    BY <1>2, <1>5 DEF storeSetup, NewId
  <2>2. /\ GetWebSource(g.replaces) = None /\ GetWebSourceByKey(g.key) = None
        /\ GetWebSourceByKey(g.ended) = None
    BY <1>3, <1>4, <1>5
  <2>3. QED
    BY <1>1, <2>1, <2>2, SourceMade
<1>6. CASE s # None /\ s # g.replaces
  <2>1. s = id /\ UNCHANGED sources
        /\ aliases' = addAlias(aliases, g.key, id, sources[id].key)
    BY <1>2, <1>6 DEF storeSetup
  <2>2. QED
    BY <1>1, <1>3, <1>6, <2>1, SourceStands
<1>7. CASE s # None /\ s = g.replaces
  <2>1. s = id
    BY <1>2, <1>7 DEF storeSetup
  <2>2. sources[id] # None
    <3>1. CASE GetWebSource(g.replaces) # None
      BY <1>4, <1>7, <2>1, <3>1 DEF SourceRows
    <3>2. CASE GetWebSource(g.replaces) = None
      <4>1. \E k \in Keys : Answers(sources, aliases, k, id)
        BY <1>1, <1>3, <2>1, <3>2, KeyFinds
      <4>2. QED
        BY <4>1, NoneIsNothing DEF Answers, TablesOK
    <3>3. QED
      BY <3>1, <3>2
  <2>3. CASE Replaced(g, id) /\ improves(g.health, sources[id])
    BY <1>1, <1>7, <2>1, <2>2, <2>3, SourceReplaced
  <2>4. CASE UNCHANGED <<sources, aliases>>
    <3>1. \A t \in Ids : Kept(t)
      BY <2>4, UnchangedIsKept
    <3>2. Hold(sources, aliases, sources', aliases') /\ TablesOK(sources', aliases')
      BY <2>4 DEF Hold
    <3>3. QED
      BY <1>1, <2>4, <3>1, <3>2 DEF SetupStored
  <2>5. QED
    BY <1>2, <1>7, <2>1, <2>3, <2>4 DEF storeSetup
<1>8. QED
  BY <1>5, <1>6, <1>7

-----------------------------------------------------------------------------
(* What a request may be charged and what it may make.                     *)

LEMMA Bounds ==
  /\ IsFiniteSet(Readers) /\ Cardinality(Readers) \in Nat
  /\ SetupCalls \in Nat /\ SetupCalls > 0
  /\ ModelDaily \in Nat /\ DailySources \in Nat /\ MaxRuns \in Nat
  /\ Worth(Readers) \in Nat /\ Budget \in Nat
  /\ Budget = ModelDaily + Worth(Readers) + SetupCalls
<1>1. /\ IsFiniteSet(Readers) /\ {DailySources, ModelDaily, MaxRuns} \subseteq Nat
      /\ SetupCalls \in Nat \ {0}
  BY WebSourceAssumption
<1>2. Cardinality(Readers) \in Nat
  BY <1>1, FS_CardinalityType
<1>3. Worth(Readers) \in Nat
  BY <1>1, <1>2 DEF Worth
<1>4. QED
  BY <1>1, <1>2, <1>3 DEF Budget

LEMMA SomeReaders ==
  ASSUME NEW S \in SUBSET Readers
  PROVE  IsFiniteSet(S) /\ Cardinality(S) \in Nat
  BY Bounds, FS_Subset, FS_CardinalityType

(* A reader less is worth a setup's calls less.                            *)
LEMMA FewerReaders ==
  ASSUME NEW S \in SUBSET Readers, NEW T \in SUBSET S, NEW m \in 0..SetupCalls,
         m > 0 => \E d \in S : d \notin T
  PROVE  Worth(S) \in Nat /\ Worth(T) \in Nat /\ Worth(T) + m <= Worth(S)
<1>1. /\ IsFiniteSet(S) /\ Cardinality(S) \in Nat /\ Cardinality(T) \in Nat
      /\ Cardinality(T) <= Cardinality(S)
      /\ Cardinality(S) = Cardinality(T) => S = T
  BY SomeReaders, FS_Subset
<1>2. PICK s \in Nat, t \in Nat : s = Cardinality(S) /\ t = Cardinality(T)
  BY <1>1
<1>3. t <= s /\ (m > 0 => t < s)
  BY <1>1, <1>2
<1>4. SetupCalls * t \in Nat /\ SetupCalls * s \in Nat
  BY <1>2, Bounds
<1>5. SetupCalls * t + m <= SetupCalls * s
  <2>1. CASE t = s
    BY <1>3, <1>4, <2>1, Bounds
  <2>2. CASE t < s
    <3>1. PICK k \in Nat : s = t + 1 + k
      <4>1. s - t - 1 \in Nat /\ s = t + 1 + (s - t - 1)
        BY <1>2, <2>2
      <4>2. QED
        BY <4>1
    <3>2. SetupCalls * s = SetupCalls * t + SetupCalls + SetupCalls * k
      BY <1>2, <3>1, Bounds
    <3>3. SetupCalls * k \in Nat
      BY <3>1, Bounds
    <3>4. QED
      BY <1>4, <3>2, <3>3, Bounds
  <2>3. QED
    BY <1>2, <1>3, <2>1, <2>2
<1>6. QED
  BY <1>2, <1>4, <1>5 DEF Worth

LEMMA NoReaders == Worth({}) = 0
  BY FS_EmptySet, Bounds DEF Worth

(* What was made by whom.                                                  *)
BySame ==
  \A s \in Ids : sources'[s] # None =>
    sources[s] # None /\ sources'[s].by \in {sources[s].by, None}

LEMMA CreatedFinite ==
  ASSUME NEW src, NEW al, TablesOK(src, al), NEW did
  PROVE  IsFiniteSet(Made(src, did)) /\ Cardinality(Made(src, did)) \in Nat
<1>1. PICK rows : rows = RowsOf(src)
  OBVIOUS
<1>2. IsFiniteSet(rows)
  BY <1>1 DEF TablesOK
<1>3. PICK by : by = Made(src, did)
  OBVIOUS
<1>4. by \in SUBSET rows
  BY <1>1, <1>3 DEF Made, RowsOf
<1>5. IsFiniteSet(by) /\ Cardinality(by) \in Nat
  BY <1>2, <1>4, FS_Subset, FS_CardinalityType
<1>6. QED
  BY <1>3, <1>5

LEMMA CreatedShrinks ==
  ASSUME TablesOK(sources, aliases), TablesOK(sources', aliases'), BySame,
         NEW did \in Readers
  PROVE  /\ Cardinality(Made(sources', did)) \in Nat
         /\ Cardinality(Made(sources, did)) \in Nat
         /\ Cardinality(Made(sources', did)) <= Cardinality(Made(sources, did))
<1>1. PICK old, new : /\ old = Made(sources, did) /\ new = Made(sources', did)
  OBVIOUS
<1>2. IsFiniteSet(old) /\ Cardinality(old) \in Nat /\ Cardinality(new) \in Nat
  BY <1>1, CreatedFinite
<1>3. new \in SUBSET old
  BY <1>1, NoneIsNothing DEF BySame, Made
<1>4. Cardinality(new) <= Cardinality(old)
  BY <1>2, <1>3, FS_Subset
<1>5. QED
  BY <1>1, <1>2, <1>4

LEMMA IdleFacts ==
  /\ IdleReq \in Request /\ IdlePoll \in Poll
  /\ ~Claimed(IdleReq) /\ ~Owes(IdleReq) /\ IdleReq.cost = 0
  /\ \A src : RequestFounded(src, IdleReq)
<1>1. "ok" \in SetupHealths
  BY DEF SetupHealths
<1>2. IdleReq \in Request /\ IdlePoll \in Poll
  BY <1>1, Bounds DEF IdleReq, Request, IdlePoll, Poll
<1>3. QED
  BY <1>2 DEF IdleReq, Claimed, Owes, RequestFounded

(* A request keeps what it is founded on while its source lasts.           *)
LEMMA FoundedStays ==
  ASSUME TablesOK(sources, aliases), TablesOK(sources', aliases'),
         NEW r \in Request, RequestFounded(sources, r),
         \A s \in Ids : sources[s] # None /\ sources[s].lately => Kept(s)
  PROVE  RequestFounded(sources', r)
<1>1. CASE r.id = None
  BY <1>1 DEF RequestFounded
<1>2. CASE r.id # None
  <2>1. /\ r.id \in Ids /\ sources[r.id] # None /\ sources[r.id].lately
        /\ rank(r.snap.setup) <= rank(sources[r.id].setup) /\ r.snap \in FoundRow
    BY <1>2 DEF RequestFounded, Request
  <2>2. /\ sources'[r.id] # None /\ sources'[r.id].lately
        /\ rank(sources[r.id].setup) <= rank(sources'[r.id].setup)
    BY <2>1 DEF Kept
  <2>3. sources[r.id] \in Row /\ sources'[r.id] \in Row
    BY <2>1, <2>2 DEF TablesOK
  <2>4. /\ rank(r.snap.setup) \in 0..3 /\ rank(sources[r.id].setup) \in 0..3
        /\ rank(sources'[r.id].setup) \in 0..3
    BY <2>1, <2>3, RankFacts DEF Row, FoundRow
  <2>5. rank(r.snap.setup) <= rank(sources'[r.id].setup)
    BY <2>1, <2>2, <2>4
  <2>6. QED
    BY <1>2, <2>2, <2>5 DEF RequestFounded
<1>3. QED
  BY <1>1, <1>2

(* What is left of the invariant for the requests.                         *)
Requests ==
    /\ req \in [Clients -> Request]
    /\ \A c \in Clients : RequestFounded(sources, req[c])
    /\ OneClaim
    /\ UnderCap

(* A request goes on, gives up, or is a new one that claims nothing yet.   *)
GoesOn(r, x) == Claimed(x) => Claimed(r) /\ x.did = r.did /\ x.id = r.id

LEMMA RequestsGo ==
  ASSUME IInv, req' \in [Clients -> Request], TablesOK(sources', aliases'),
         \A s \in Ids : sources[s] # None /\ sources[s].lately => Kept(s), BySame,
         \A c \in Clients : GoesOn(req[c], req'[c]),
         \A c \in Clients : req'[c] = req[c] \/ RequestFounded(sources', req'[c])
  PROVE  Requests'
<1>1. /\ req \in [Clients -> Request] /\ TablesOK(sources, aliases) /\ OneClaim /\ UnderCap
      /\ \A b \in Clients : RequestFounded(sources, req[b]) /\ req[b] \in Request
  BY DEF IInv, Others
<1>2. req' \in [Clients -> Request]
  OBVIOUS
<1>3. \A b \in Clients : RequestFounded(sources', req'[b])
  BY <1>1, FoundedStays
<1>4. \A b \in Clients : GoesOn(req[b], req'[b])
  OBVIOUS
<1>5. OneClaim'
  <2>1. \A a, b \in Clients :
          Claimed(req'[a]) /\ Claimed(req'[b]) /\ req'[a].did = req'[b].did => a = b
    BY <1>1, <1>4 DEF OneClaim, GoesOn
  <2>2. QED
    BY <2>1 DEF OneClaim, Claimed
<1>6. UnderCap'
  <2>1. ASSUME NEW did \in Readers
        PROVE  Cardinality(Made(sources', did)) <= DailySources
    <3>1. Cardinality(Made(sources, did)) <= DailySources
      BY <1>1 DEF UnderCap
    <3>2. QED
      BY <1>1, <3>1, CreatedShrinks, Bounds
  <2>2. ASSUME NEW b \in Clients, Creates(req'[b])
        PROVE  Cardinality(Made(sources', req'[b].did)) < DailySources
    <3>1. Creates(req[b]) /\ req'[b].did = req[b].did
      BY <1>4, <2>2 DEF Creates, GoesOn
    <3>2. req[b].did \in Readers
      BY <1>1, <3>1 DEF RequestFounded, Creates, Claimed
    <3>3. Cardinality(Made(sources, req[b].did)) < DailySources
      BY <1>1, <3>1 DEF UnderCap
    <3>4. Cardinality(Made(sources', req[b].did)) < DailySources
      BY <1>1, <3>2, <3>3, CreatedShrinks, Bounds
    <3>5. QED
      BY <3>1, <3>4
  <2>3. QED
    BY <2>1, <2>2 DEF UnderCap, Creates, Claimed, Made
<1>7. QED
  BY <1>2, <1>3, <1>5, <1>6 DEF Requests

LEMMA RequestsStay ==
  ASSUME IInv, NEW c \in Clients, NEW x \in Request, req' = [req EXCEPT ![c] = x],
         TablesOK(sources', aliases'), RequestFounded(sources', x),
         \A s \in Ids : sources[s] # None /\ sources[s].lately => Kept(s),
         BySame, GoesOn(req[c], x)
  PROVE  Requests'
<1>1. req \in [Clients -> Request]
  BY DEF IInv, Others
<1>2. /\ req' \in [Clients -> Request] /\ req'[c] = x
      /\ \A b \in Clients : b # c => req'[b] = req[b]
  BY <1>1
<1>3. \A b \in Clients : GoesOn(req[b], req'[b])
  BY <1>2 DEF GoesOn
<1>4. \A b \in Clients : req'[b] = req[b] \/ RequestFounded(sources', req'[b])
  BY <1>2
<1>5. QED
  BY <1>2, <1>3, <1>4, RequestsGo

-----------------------------------------------------------------------------
(* The budget: what is charged was allowed, and what is allowed fits.      *)

LEMMA Owed ==
  /\ Owing \in SUBSET Readers /\ Worth(Owing) \in Nat
  /\ Worth(Owing) <= Worth(Readers)
  /\ PollMayCost \in {0, 1 + SetupCalls} /\ PollMayCost \in Nat
<1>1. Owing \in SUBSET Readers /\ PollMayCost \in {0, 1 + SetupCalls}
  BY DEF Owing, PollMayCost
<1>2. Readers \in SUBSET Readers /\ 0 \in 0..SetupCalls
  BY Bounds
<1>3. Worth(Owing) \in Nat /\ Worth(Owing) + 0 <= Worth(Readers)
  BY <1>1, <1>2, FewerReaders
<1>4. QED
  BY <1>1, <1>3, Bounds

LEMMA OwedNext ==
  Owing' = {did \in Readers :
              \E c \in Clients : req'[c].did = did /\ Owes(req'[c])}
  BY DEF Owing, Owes

(* A request is charged m for its setup, or for the look at its post.      *)
Charged(m) == spent' = spent + m

LEMMA BudgetAsked ==
  ASSUME IInv, spent < ModelDaily, spent' = spent
  PROVE  WithinBudget'
<1>1. PICK owing \in SUBSET Readers : owing = Owing'
  BY OwedNext
<1>2. Readers \in SUBSET Readers /\ 0 \in 0..SetupCalls
  BY Bounds
<1>3. Worth(owing) \in Nat /\ Worth(owing) + 0 <= Worth(Readers)
  BY <1>1, <1>2, FewerReaders
<1>4. PollMayCost' \in {0, 1 + SetupCalls}
  BY DEF PollMayCost
<1>5. spent \in Nat
  BY DEF IInv, Others
<1>6. spent' + Worth(owing) + PollMayCost' <= Budget
  BY <1>3, <1>4, <1>5, Bounds
<1>7. Budget' = Budget /\ Worth(owing) = Worth(Owing)'
  BY <1>1 DEF Budget, Worth
<1>8. QED
  BY <1>6, <1>7 DEF WithinBudget

LEMMA BudgetKept ==
  ASSUME IInv, NEW c \in Clients, NEW x \in Request, req' = [req EXCEPT ![c] = x],
         UNCHANGED poll, Owes(x) => x.did = req[c].did,
         NEW m \in 0..SetupCalls, Charged(m),
         Owes(x) => Owes(req[c]) /\ m = 0, m > 0 => Owes(req[c])
  PROVE  WithinBudget'
<1>1. /\ req \in [Clients -> Request] /\ OneClaim /\ spent \in Nat
      /\ WithinBudget /\ RequestFounded(sources, req[c])
  BY DEF IInv, Others
<1>2. /\ req'[c] = x /\ \A b \in Clients : b # c => req'[b] = req[b]
  BY <1>1
<1>3. \A r : Owes(r) => Claimed(r)
  BY DEF Owes, Claimed
<1>4. Claimed(req[c]) => req[c].did \in Readers
  BY <1>1 DEF Claimed, RequestFounded
<1>5. PICK owed, owes : owed = Owing /\ owes = Owing'
  OBVIOUS
<1>6. owes \in SUBSET owed /\ (m > 0 => \E d \in owed : d \notin owes)
  <2>1. \A d : d \in owed <=> /\ d \in Readers
                              /\ \E b \in Clients : req[b].did = d /\ Owes(req[b])
    BY <1>5 DEF Owing
  <2>2. \A d : d \in owes <=> /\ d \in Readers
                              /\ \E b \in Clients : req'[b].did = d /\ Owes(req'[b])
    BY <1>5, OwedNext
  <2>3. ASSUME NEW d \in owes
        PROVE  d \in owed
    <3>1. PICK b \in Clients : req'[b].did = d /\ Owes(req'[b])
      BY <2>2
    <3>2. req[b].did = d /\ Owes(req[b])
      BY <1>2, <3>1
    <3>3. QED
      BY <2>1, <2>2, <3>2
  <2>4. ASSUME m > 0
        PROVE  \E d \in owed : d \notin owes
    <3>1. Owes(req[c]) /\ Claimed(req[c]) /\ ~Owes(x)
      BY <1>3, <2>4
    <3>2. req[c].did \in owed
      BY <1>4, <2>1, <3>1
    <3>3. ASSUME NEW b \in Clients, req'[b].did = req[c].did, Owes(req'[b])
          PROVE  FALSE
      <4>1. b # c
        BY <1>2, <3>1, <3>3
      <4>2. req[b].did = req[c].did /\ Claimed(req[b])
        BY <1>2, <1>3, <3>3, <4>1
      <4>3. QED
        BY <1>1, <3>1, <4>1, <4>2 DEF OneClaim
    <3>4. QED
      BY <2>2, <3>2, <3>3
  <2>5. QED
    BY <2>3, <2>4
<1>7. owed \in SUBSET Readers
  BY <1>5, Owed
<1>8. Worth(owed) \in Nat /\ Worth(owes) \in Nat /\ Worth(owes) + m <= Worth(owed)
  BY <1>6, <1>7, FewerReaders
<1>9. PollMayCost' = PollMayCost /\ Budget' = Budget /\ Worth(owes) = Worth(Owing)'
  BY <1>5 DEF PollMayCost, Budget, Worth
<1>10. spent + Worth(owed) + PollMayCost <= Budget
  BY <1>1, <1>5 DEF WithinBudget
<1>11. spent' = spent + m /\ m \in Nat
  BY DEF Charged
<1>12. spent' + Worth(owes) + PollMayCost <= Budget
  BY <1>1, <1>8, <1>10, <1>11, Owed, Bounds
<1>13. QED
  BY <1>9, <1>12 DEF WithinBudget

LEMMA PollBudget ==
  ASSUME IInv, UNCHANGED req, NEW n \in Nat, spent' = spent + n,
         n + PollMayCost' <= PollMayCost
  PROVE  WithinBudget'
<1>1. Owing' = Owing
  BY DEF Owing, Owes
<1>2. Worth(Owing)' = Worth(Owing) /\ Budget' = Budget
  BY <1>1 DEF Worth, Budget
<1>3. spent \in Nat /\ WithinBudget
  BY DEF IInv, Others
<1>4. PollMayCost' \in {0, 1 + SetupCalls}
  BY DEF PollMayCost
<1>5. PICK owing, before, after, limit :
        /\ owing = Worth(Owing) /\ limit = Budget
        /\ before = PollMayCost /\ after = PollMayCost'
  OBVIOUS
<1>6. owing \in Nat /\ before \in Nat /\ after \in Nat /\ limit \in Nat
  BY <1>4, <1>5, Owed, Bounds
<1>7. spent + owing + before <= limit /\ n + after <= before
  BY <1>3, <1>5 DEF WithinBudget
<1>8. spent + n + owing + after <= limit
  BY <1>3, <1>6, <1>7
<1>9. spent' + Worth(Owing) + PollMayCost' <= Budget
  BY <1>5, <1>8
<1>10. QED
  BY <1>2, <1>9 DEF WithinBudget

LEMMA NobodyOwes ==
  ASSUME IInv, req' = [c \in Clients |-> IdleReq], poll' = IdlePoll,
         spent' \in {0, spent}
  PROVE  WithinBudget'
<1>1. Owing' = {}
  BY OwedNext, IdleFacts
<1>2. PollMayCost' = 0
  BY DEF PollMayCost, IdlePoll
<1>3. Worth(Owing)' = 0 /\ Budget' = Budget
  BY <1>1, NoReaders DEF Worth, Budget
<1>4. spent \in Nat /\ spent + Worth(Owing) + PollMayCost <= Budget
  BY DEF IInv, Others, WithinBudget
<1>5. spent' + 0 + 0 <= Budget
  BY <1>4, Owed, Bounds
<1>6. QED
  BY <1>2, <1>3, <1>5 DEF WithinBudget

-----------------------------------------------------------------------------
(* The steps of a request.                                                 *)

LEMMA TablesStand ==
  ASSUME TablesOK(sources, aliases), UNCHANGED <<sources, aliases>>
  PROVE  /\ TablesOK(sources', aliases')
         /\ Hold(sources, aliases, sources', aliases')
         /\ \A s \in Ids : Kept(s)
         /\ BySame
<1>1. \A s \in Ids : Kept(s)
  BY UnchangedIsKept
<1>2. QED
  BY <1>1 DEF Hold, BySame

LEMMA NothingCharged ==
  ASSUME IInv, NEW c \in Clients, NEW x \in Request, req' = [req EXCEPT ![c] = x],
         UNCHANGED <<poll, spent>>, Owes(x) => x.did = req[c].did,
         Owes(x) => Owes(req[c])
  PROVE  WithinBudget'
<1>1. Charged(0) /\ poll' = poll
  BY DEF IInv, Others, Charged
<1>2. PICK m \in 0..SetupCalls :
        Charged(m) /\ ~(m > 0) /\ (Owes(x) => Owes(req[c]) /\ m = 0)
  BY <1>1, Bounds
<1>3. QED
  BY <1>1, <1>2, BudgetKept

LEMMA RequestFacts ==
  ASSUME IInv, NEW c \in Clients
  PROVE  /\ req \in [Clients -> Request] /\ req[c] \in Request
         /\ RequestFounded(sources, req[c])
         /\ TablesOK(sources, aliases) /\ spent \in Nat
  BY DEF IInv, Others

LEMMA GoesAlong ==
  ASSUME IInv, NEW c \in Clients, NEW x \in Request, req' = [req EXCEPT ![c] = x],
         UNCHANGED <<tables, poll>>, RequestFounded(sources, x), GoesOn(req[c], x),
         NEW m \in 0..SetupCalls, Charged(m),
         Owes(x) => Owes(req[c]) /\ m = 0, m > 0 => Owes(req[c])
  PROVE  Requests' /\ WithinBudget'
<1>1. /\ TablesOK(sources', aliases') /\ \A s \in Ids : Kept(s)
      /\ BySame /\ sources' = sources
  BY TablesStand, RequestFacts DEF tables
<1>2. Requests'
  BY <1>1, RequestsStay
<1>3. Owes(x) => x.did = req[c].did
  BY DEF GoesOn, Owes, Claimed
<1>4. WithinBudget'
  BY <1>3, BudgetKept
<1>5. QED
  BY <1>2, <1>4

LEMMA GivesUp ==
  ASSUME IInv, NEW c \in Clients, Answered(c), UNCHANGED <<tables, poll>>,
         NEW m \in 0..SetupCalls, Charged(m), m > 0 => Owes(req[c])
  PROVE  Requests' /\ WithinBudget'
<1>1. PICK x : x = IdleReq
  OBVIOUS
<1>2. /\ x \in Request /\ req' = [req EXCEPT ![c] = x]
      /\ RequestFounded(sources, x) /\ GoesOn(req[c], x)
      /\ ~Owes(x)
  BY <1>1, IdleFacts DEF Answered, GoesOn
<1>3. QED
  BY <1>2, GoesAlong

LEMMA Refuses ==
  ASSUME IInv, NEW c \in Clients, Refused(c) \/ SlotBusy(c)
  PROVE  Requests' /\ WithinBudget'
<1>1. Answered(c) /\ UNCHANGED <<tables, poll>> /\ Charged(0)
  BY RequestFacts DEF Refused, SlotBusy, Charged
<1>2. PICK m \in 0..SetupCalls : Charged(m) /\ ~(m > 0)
  BY <1>1, Bounds
<1>3. QED
  BY <1>1, <1>2, GivesUp

(* A claim begins nothing for a reader who has one.                        *)
LEMMA Claims ==
  ASSUME IInv, NEW c \in Clients, Claim(c)
  PROVE  Requests' /\ WithinBudget'
<1>1. /\ req[c].pc = "claim" /\ ~InFlight(req[c].did)
      /\ Regenerates(c) \/ underDailyCap(req[c].did)
      /\ UNCHANGED <<tables, poll, spent>>
  BY DEF Claim
<1>2. PICK pc \in {"own", "setup"} :
        /\ req' = [req EXCEPT ![c].pc = pc]
        /\ pc = "own" => req[c].id # None
  BY DEF Claim, Regenerates
<1>3. PICK x : x = [req[c] EXCEPT !.pc = pc]
  OBVIOUS
<1>4. /\ x \in Request /\ x.pc = pc /\ x.did = req[c].did /\ x.id = req[c].id
      /\ x.key = req[c].key /\ x.snap = req[c].snap /\ x.unvetted = req[c].unvetted
      /\ req' = [req EXCEPT ![c] = x]
  BY <1>2, <1>3, RequestFacts DEF Request
<1>5. ~Owes(x)
  BY <1>4 DEF Owes
<1>6. WithinBudget'
  BY <1>1, <1>4, <1>5, NothingCharged
<1>7. sources' = sources
  BY <1>1 DEF tables
<1>8. RequestFounded(sources, x)
  BY <1>1, <1>2, <1>4, RequestFacts DEF RequestFounded
<1>9. /\ req' \in [Clients -> Request] /\ req'[c] = x
      /\ \A b \in Clients : b # c => req'[b] = req[b]
  BY <1>4, RequestFacts
<1>10. \A b \in Clients : RequestFounded(sources', req'[b])
  BY <1>7, <1>8, <1>9, RequestFacts
<1>11. OneClaim'
  <2>1. \A b \in Clients : b # c /\ Claimed(req[b]) => req[b].did # req[c].did
    BY <1>1 DEF InFlight, Claimed
  <2>2. \A a, b \in Clients :
          Claimed(req'[a]) /\ Claimed(req'[b]) /\ req'[a].did = req'[b].did => a = b
    BY <1>4, <1>9, <2>1 DEF IInv, OneClaim
  <2>3. QED
    BY <2>2 DEF OneClaim, Claimed
<1>12. UnderCap'
  <2>1. ASSUME NEW b \in Clients, Creates(req'[b])
        PROVE  Cardinality(Made(sources', req'[b].did)) < DailySources
    <3>1. CASE b = c
      <4>1. underDailyCap(req[c].did)
        BY <1>1, <1>4, <1>9, <2>1, <3>1 DEF Creates, Regenerates
      <4>2. CreatedBy(req[c].did) = Made(sources, req[c].did)
        BY DEF CreatedBy, Made, SourceRows
      <4>3. QED
        BY <1>4, <1>7, <1>9, <3>1, <4>1, <4>2 DEF underDailyCap
    <3>2. CASE b # c
      BY <1>7, <1>9, <2>1, <3>2 DEF IInv, UnderCap
    <3>3. QED
      BY <3>1, <3>2
  <2>2. \A did \in Readers : Cardinality(Made(sources', did)) <= DailySources
    BY <1>7 DEF IInv, UnderCap
  <2>3. QED
    BY <2>1, <2>2 DEF UnderCap, Creates, Claimed, Made
<1>13. Requests'
  BY <1>9, <1>10, <1>11, <1>12 DEF Requests
<1>14. QED
  BY <1>6, <1>13

LEMMA EntersSlot ==
  ASSUME IInv, NEW c \in Clients, EnterSlot(c)
  PROVE  Requests' /\ WithinBudget'
<1>1. /\ req[c].pc \in {"own", "setup"} /\ UNCHANGED <<tables, poll, spent>>
  BY DEF EnterSlot
<1>2. PICK x : x = [req[c] EXCEPT
                      !.pc = IF req[c].pc = "own" THEN "inOwn" ELSE "inSetup",
                      !.allowed = modelBudgetLeft]
  OBVIOUS
<1>3. req' = [req EXCEPT ![c] = x]
  BY <1>2, RequestFacts DEF EnterSlot
<1>4. modelBudgetLeft \in BOOLEAN
  BY DEF modelBudgetLeft
<1>5. /\ x \in Request /\ x.pc = IF req[c].pc = "own" THEN "inOwn" ELSE "inSetup"
      /\ x.allowed = modelBudgetLeft /\ x.did = req[c].did /\ x.id = req[c].id
      /\ x.key = req[c].key /\ x.snap = req[c].snap /\ x.unvetted = req[c].unvetted
  BY <1>1, <1>2, <1>4, RequestFacts DEF Request
<1>6. RequestFounded(sources, x)
  BY <1>1, <1>5, RequestFacts DEF RequestFounded
<1>7. GoesOn(req[c], x)
  BY <1>1, <1>5 DEF GoesOn, Claimed
<1>8. Requests'
  <2>1. /\ TablesOK(sources', aliases') /\ \A s \in Ids : Kept(s)
        /\ BySame /\ sources' = sources
    BY <1>1, TablesStand, RequestFacts DEF tables
  <2>2. QED
    BY <1>3, <1>5, <1>6, <1>7, <2>1, RequestsStay
<1>9. WithinBudget'
  <2>1. CASE modelBudgetLeft
    BY <1>1, <2>1, BudgetAsked DEF modelBudgetLeft, SumModelSpendSince
  <2>2. CASE ~modelBudgetLeft
    <3>1. ~Owes(x)
      BY <1>1, <1>5, <2>2 DEF Owes
    <3>2. QED
      BY <1>1, <1>3, <1>5, <1>7, <3>1, NothingCharged
  <2>3. QED
    BY <2>1, <2>2
<1>10. QED
  BY <1>8, <1>9

(* A request that goes on is charged nothing.                              *)
LEMMA GoesFree ==
  ASSUME IInv, NEW c \in Clients, NEW x \in Request, req' = [req EXCEPT ![c] = x],
         UNCHANGED <<tables, poll, spent>>, RequestFounded(sources, x),
         GoesOn(req[c], x), Owes(x) => Owes(req[c])
  PROVE  Requests' /\ WithinBudget'
<1>1. /\ TablesOK(sources', aliases') /\ \A s \in Ids : Kept(s)
      /\ BySame /\ sources' = sources
  BY TablesStand, RequestFacts DEF tables
<1>2. Requests'
  BY <1>1, RequestsStay
<1>3. Owes(x) => x.did = req[c].did
  BY DEF GoesOn, Owes, Claimed
<1>4. UNCHANGED <<poll, spent>>
  OBVIOUS
<1>5. WithinBudget'
  BY <1>3, <1>4, NothingCharged
<1>6. QED
  BY <1>2, <1>5

LEMMA SetupEnded ==
  ASSUME IInv, NEW c \in Clients, SetupEnds(c)
  PROVE  Requests' /\ WithinBudget'
<1>1. req[c].pc = "inSetup" /\ UNCHANGED <<tables, poll, spent>>
  BY DEF SetupEnds
<1>2. PICK h \in SetupHealths, cost \in Costs(c),
           ended \in IF req[c].anchor THEN {req[c].key} ELSE Keys :
        req' = [req EXCEPT ![c] =
                 [@ EXCEPT !.health = h, !.cost = cost, !.ended = ended,
                           !.pc = IF Regenerates(c) /\ req[c].anchor THEN "vet"
                                  ELSE "store"]]
  BY DEF SetupEnds
<1>3. /\ cost \in 0..SetupCalls /\ ended \in Keys
      /\ cost > 0 => req[c].allowed /\ ~req[c].anchor
      /\ req[c].anchor => cost = 0
  BY <1>1, <1>2, RequestFacts, Bounds DEF Costs, RequestFounded
<1>4. PICK pc : pc = IF Regenerates(c) /\ req[c].anchor THEN "vet" ELSE "store"
  OBVIOUS
<1>5. pc \in {"vet", "store"} /\ (pc = "vet" => req[c].id # None /\ req[c].anchor)
  BY <1>4 DEF Regenerates
<1>6. PICK x : x = [req[c] EXCEPT !.health = h, !.cost = cost, !.ended = ended,
                                  !.pc = pc]
  OBVIOUS
<1>7. req' = [req EXCEPT ![c] = x]
  BY <1>2, <1>4, <1>6, RequestFacts
<1>9. /\ x \in Request /\ x.pc = pc /\ x.health = h /\ x.cost = cost
      /\ x.ended = ended /\ x.did = req[c].did /\ x.id = req[c].id
      /\ x.key = req[c].key /\ x.snap = req[c].snap /\ x.unvetted = req[c].unvetted
  BY <1>3, <1>5, <1>6, RequestFacts DEF Request
<1>10. RequestFounded(sources, x)
  BY <1>1, <1>3, <1>5, <1>9, RequestFacts DEF RequestFounded
<1>11. GoesOn(req[c], x) /\ (Owes(x) => Owes(req[c]))
  BY <1>1, <1>3, <1>5, <1>9 DEF GoesOn, Claimed, Owes
<1>12. QED
  BY <1>1, <1>7, <1>9, <1>10, <1>11, GoesFree

LEMMA OwnEnded ==
  ASSUME IInv, NEW c \in Clients, OwnEnds(c)
  PROVE  Requests' /\ WithinBudget'
<1>1. req[c].pc = "inOwn" /\ UNCHANGED <<tables, poll, spent>>
  BY DEF OwnEnds
<1>2. req[c].id # None /\ req[c].snap.key \in Keys
  BY <1>1, RequestFacts DEF RequestFounded, FoundRow
<1>3. ASSUME NEW h \in SetupHealths,
             req' = [req EXCEPT ![c] =
               [@ EXCEPT !.health = h, !.cost = 0, !.key = req[c].snap.key,
                         !.ended = req[c].snap.key, !.pc = "vet"]]
      PROVE  Requests' /\ WithinBudget'
  <2>1. PICK x : x = [req[c] EXCEPT !.health = h, !.cost = 0,
                        !.key = req[c].snap.key, !.ended = req[c].snap.key,
                        !.pc = "vet"]
    OBVIOUS
  <2>2. req' = [req EXCEPT ![c] = x]
    BY <1>3, <2>1, RequestFacts
  <2>3. 0 \in 0..SetupCalls
    BY Bounds
  <2>4. /\ x \in Request /\ x.pc = "vet" /\ x.cost = 0
        /\ x.ended \in Keys /\ x.did = req[c].did /\ x.id = req[c].id
        /\ x.key \in Keys /\ x.snap = req[c].snap /\ x.unvetted = req[c].unvetted
    BY <1>2, <2>1, <2>3, RequestFacts DEF Request
  <2>5. RequestFounded(sources, x)
    BY <1>1, <1>2, <2>4, RequestFacts DEF RequestFounded
  <2>6. GoesOn(req[c], x) /\ ~Owes(x)
    BY <1>1, <2>4 DEF GoesOn, Claimed, Owes
  <2>7. QED
    BY <1>1, <2>2, <2>4, <2>5, <2>6, GoesFree
<1>4. ASSUME req' = [req EXCEPT ![c].pc = "setup"]
      PROVE  Requests' /\ WithinBudget'
  <2>1. PICK x : x = [req[c] EXCEPT !.pc = "setup"]
    OBVIOUS
  <2>2. req' = [req EXCEPT ![c] = x]
    BY <1>4, <2>1, RequestFacts
  <2>3. /\ x \in Request /\ x.pc = "setup" /\ x.did = req[c].did
        /\ x.id = req[c].id /\ x.key = req[c].key /\ x.snap = req[c].snap
        /\ x.unvetted = req[c].unvetted
    BY <2>1, RequestFacts DEF Request
  <2>4. RequestFounded(sources, x)
    BY <1>1, <2>3, RequestFacts DEF RequestFounded
  <2>5. GoesOn(req[c], x) /\ ~Owes(x)
    BY <1>1, <2>3 DEF GoesOn, Claimed, Owes
  <2>6. QED
    BY <1>1, <2>2, <2>3, <2>4, <2>5, GoesFree
<1>5. QED
  BY <1>3, <1>4 DEF OwnEnds

LEMMA SetupFailed ==
  ASSUME IInv, NEW c \in Clients, SetupFails(c)
  PROVE  Requests' /\ WithinBudget'
<1>1. req[c].pc \in {"inOwn", "inSetup"} /\ UNCHANGED <<tables, poll>>
  BY DEF SetupFails
<1>2. PICK cost \in Costs(c) : spent' = spent + cost
  BY DEF SetupFails, recordSpend
<1>3. cost \in 0..SetupCalls /\ (cost > 0 => Owes(req[c]))
  BY <1>1, <1>2, Bounds DEF Costs, Owes
<1>4. Charged(cost)
  BY <1>2, <1>3, RequestFacts DEF Charged
<1>5. CASE req[c].pc = "inOwn"
  <2>1. PICK x : x = [req[c] EXCEPT !.pc = "setup"]
    OBVIOUS
  <2>2. req' = [req EXCEPT ![c] = x]
    BY <1>5, <2>1, RequestFacts DEF SetupFails
  <2>3. /\ x \in Request /\ x.pc = "setup" /\ x.did = req[c].did
        /\ x.id = req[c].id /\ x.key = req[c].key /\ x.snap = req[c].snap
        /\ x.unvetted = req[c].unvetted
    BY <2>1, RequestFacts DEF Request
  <2>4. RequestFounded(sources, x)
    BY <1>1, <2>3, RequestFacts DEF RequestFounded
  <2>5. GoesOn(req[c], x) /\ ~Owes(x)
    BY <1>1, <2>3 DEF GoesOn, Claimed, Owes
  <2>6. QED
    BY <1>1, <1>3, <1>4, <2>2, <2>3, <2>4, <2>5, GoesAlong
<1>6. CASE req[c].pc = "inSetup"
  <2>1. Answered(c)
    BY <1>6 DEF SetupFails
  <2>2. QED
    BY <1>1, <1>3, <1>4, <2>1, GivesUp
<1>7. QED
  BY <1>1, <1>5, <1>6

(* What is stored unvetted is no better than what it would replace.        *)
LEMMA Vetted ==
  ASSUME IInv, NEW c \in Clients, Vet(c)
  PROVE  Requests' /\ WithinBudget'
<1>1. req[c].pc = "vet" /\ UNCHANGED <<tables, poll, spent>>
  BY DEF Vet
<1>2. \/ /\ ~FollowedByOthers(c) \/ ~improves(req[c].health, req[c].snap)
         /\ req' = [req EXCEPT ![c] =
               [@ EXCEPT !.pc = "store", !.unvetted = FollowedByOthers(c)]]
      \/ /\ modelBudgetLeft
         /\ req' = [req EXCEPT ![c] =
               [@ EXCEPT !.pc = "confirm", !.unvetted = TRUE]]
      \/ Answered(c)
  BY DEF Vet
<1>3. req[c].id # None /\ req[c].ended \in Keys /\ req[c].cost = 0
  BY <1>1, RequestFacts DEF RequestFounded
<1>4. ASSUME ~FollowedByOthers(c) \/ ~improves(req[c].health, req[c].snap),
             req' = [req EXCEPT ![c] =
               [@ EXCEPT !.pc = "store", !.unvetted = FollowedByOthers(c)]]
      PROVE  Requests' /\ WithinBudget'
  <2>1. PICK u \in BOOLEAN : u = FollowedByOthers(c)
    BY DEF FollowedByOthers
  <2>2. PICK x : x = [req[c] EXCEPT !.pc = "store", !.unvetted = u]
    OBVIOUS
  <2>3. req' = [req EXCEPT ![c] = x]
    BY <1>4, <2>1, <2>2, RequestFacts
  <2>4. /\ x \in Request /\ x.pc = "store" /\ x.did = req[c].did /\ x.unvetted = u
        /\ x.id = req[c].id /\ x.key = req[c].key /\ x.snap = req[c].snap
        /\ x.health = req[c].health /\ x.ended = req[c].ended /\ x.cost = req[c].cost
    BY <2>2, RequestFacts DEF Request
  <2>5. RequestFounded(sources, x)
    BY <1>1, <1>3, <1>4, <2>1, <2>4, RequestFacts DEF RequestFounded
  <2>6. GoesOn(req[c], x) /\ ~Owes(x)
    BY <1>1, <1>3, <2>4 DEF GoesOn, Claimed, Owes
  <2>7. QED
    BY <1>1, <2>3, <2>4, <2>5, <2>6, GoesFree
<1>5. ASSUME modelBudgetLeft,
             req' = [req EXCEPT ![c] =
               [@ EXCEPT !.pc = "confirm", !.unvetted = TRUE]]
      PROVE  Requests' /\ WithinBudget'
  <2>1. PICK x : x = [req[c] EXCEPT !.pc = "confirm", !.unvetted = TRUE]
    OBVIOUS
  <2>2. req' = [req EXCEPT ![c] = x]
    BY <1>5, <2>1, RequestFacts
  <2>3. /\ x \in Request /\ x.pc = "confirm" /\ x.did = req[c].did
        /\ x.id = req[c].id /\ x.key = req[c].key /\ x.snap = req[c].snap
        /\ x.ended = req[c].ended /\ x.cost = req[c].cost
    BY <2>1, RequestFacts DEF Request
  <2>4. RequestFounded(sources, x)
    BY <1>1, <1>3, <2>3, RequestFacts DEF RequestFounded
  <2>5. GoesOn(req[c], x)
    BY <1>1, <2>3 DEF GoesOn, Claimed
  <2>6. /\ TablesOK(sources', aliases') /\ \A s \in Ids : Kept(s)
        /\ BySame /\ sources' = sources
    BY <1>1, TablesStand, RequestFacts DEF tables
  <2>7. Requests'
    BY <2>2, <2>3, <2>4, <2>5, <2>6, RequestsStay
  <2>8. WithinBudget'
    BY <1>1, <1>5, BudgetAsked DEF modelBudgetLeft, SumModelSpendSince
  <2>9. QED
    BY <2>7, <2>8
<1>6. CASE Answered(c)
  <2>1. Charged(0)
    BY <1>1, RequestFacts DEF Charged
  <2>2. PICK m \in 0..SetupCalls : Charged(m) /\ ~(m > 0)
    BY <2>1, Bounds
  <2>3. UNCHANGED <<tables, poll>>
    BY <1>1
  <2>4. QED
    BY <1>6, <2>2, <2>3, GivesUp
<1>7. QED
  BY <1>2, <1>4, <1>5, <1>6

LEMMA Confirmed ==
  ASSUME IInv, NEW c \in Clients, Confirm(c)
  PROVE  Requests' /\ WithinBudget'
<1>1. req[c].pc = "confirm" /\ UNCHANGED <<tables, poll>>
  BY DEF Confirm
<1>2. PICK cost \in {0, 1} : spent' = spent + cost
  BY DEF Confirm, recordSpend
<1>3. cost \in 0..SetupCalls /\ Charged(cost) /\ Owes(req[c]) /\ req[c].cost = 0
  BY <1>1, <1>2, RequestFacts, Bounds DEF Charged, Owes, RequestFounded
<1>4. CASE req' = [req EXCEPT ![c] =
                    [@ EXCEPT !.pc = "store", !.unvetted = FALSE]]
  <2>1. PICK x : x = [req[c] EXCEPT !.pc = "store", !.unvetted = FALSE]
    OBVIOUS
  <2>2. req' = [req EXCEPT ![c] = x]
    BY <1>4, <2>1, RequestFacts
  <2>3. /\ x \in Request /\ x.pc = "store" /\ x.did = req[c].did /\ ~x.unvetted
        /\ x.id = req[c].id /\ x.key = req[c].key /\ x.snap = req[c].snap
        /\ x.ended = req[c].ended /\ x.cost = req[c].cost
    BY <2>1, RequestFacts DEF Request
  <2>4. RequestFounded(sources, x)
    BY <1>1, <2>3, RequestFacts DEF RequestFounded
  <2>5. GoesOn(req[c], x) /\ ~Owes(x)
    BY <1>1, <1>3, <2>3 DEF GoesOn, Claimed, Owes
  <2>6. QED
    BY <1>1, <1>3, <2>2, <2>3, <2>4, <2>5, GoesAlong
<1>5. CASE Answered(c)
  BY <1>1, <1>3, <1>5, GivesUp
<1>6. QED
  BY <1>4, <1>5 DEF Confirm

(* A row changes in what no request, poll or key rests on.                 *)
SourcesGo ==
    /\ TablesOK(sources', aliases')
    /\ Hold(sources, aliases, sources', aliases')
    /\ \A s \in Ids : Kept(s)
    /\ BySame

LEMMA RowTouched ==
  ASSUME TablesOK(sources, aliases), NEW s \in Ids, sources[s] # None,
         NEW row \in Row, sources' = [sources EXCEPT ![s] = row],
         row.key = sources[s].key, row.seq = sources[s].seq,
         row.setup = sources[s].setup, row.by = sources[s].by,
         rank(row.health) <= rank(row.setup), sources[s].lately => row.lately,
         UNCHANGED aliases
  PROVE  SourcesGo
<1>1. /\ sources' \in [Ids -> Row \cup {None}] /\ sources'[s] = row /\ row # None
      /\ \A t \in Ids : t # s => sources'[t] = sources[t]
  BY NoneIsNothing DEF TablesOK
<1>2. TablesOK(sources', aliases) /\ Hold(sources, aliases, sources', aliases)
  <2>1. \A t \in Ids : sources'[t] = None <=> sources[t] = None
    BY <1>1
  <2>2. \A t \in RowsOf(sources) :
          /\ sources'[t].key = sources[t].key
          /\ rank(sources'[t].health) <= rank(sources'[t].setup)
    BY <1>1 DEF TablesOK, RowsOf
  <2>3. QED
    BY <1>1, <2>1, <2>2, RowsChange
<1>3. \A t \in Ids : Kept(t)
  <2>1. sources[s] \in Row
    BY DEF TablesOK
  <2>2. rank(row.setup) \in 0..3 /\ row.seq \in Nat
    BY RankFacts DEF Row
  <2>3. Kept(s)
    BY <1>1, <2>2 DEF Kept
  <2>4. \A t \in Ids : t # s => Kept(t)
    BY <1>1, UnchangedIsKept
  <2>5. QED
    BY <2>3, <2>4
<1>4. BySame
  BY <1>1 DEF BySame
<1>5. QED
  BY <1>2, <1>3, <1>4 DEF SourcesGo

LEMMA StampedGoes ==
  ASSUME TablesOK(sources, aliases), NEW s \in Ids, sources[s] # None,
         sources' = Stamped(s), UNCHANGED aliases
  PROVE  SourcesGo /\ sources'[s].lately
<1>1. PICK row : row = [sources[s] EXCEPT !.lately = TRUE]
  OBVIOUS
<1>2. sources[s] \in Row /\ rank(sources[s].health) <= rank(sources[s].setup)
  BY DEF TablesOK, RowsOf
<1>3. /\ row \in Row /\ row.key = sources[s].key /\ row.seq = sources[s].seq
      /\ row.setup = sources[s].setup /\ row.by = sources[s].by
      /\ row.health = sources[s].health /\ row.lately
  BY <1>1, <1>2 DEF Row
<1>4. sources' = [sources EXCEPT ![s] = row]
  BY <1>1 DEF Stamped
<1>5. sources'[s] = row
  BY <1>4 DEF TablesOK
<1>6. SourcesGo
  BY <1>2, <1>3, <1>4, RowTouched
<1>7. QED
  BY <1>3, <1>5, <1>6

LEMMA SourcesStand ==
  ASSUME TablesOK(sources, aliases), UNCHANGED <<sources, aliases>>
  PROVE  SourcesGo
  BY TablesStand DEF SourcesGo

LEMMA PollStays ==
  ASSUME IInv, TablesOK(sources', aliases'),
         poll'.pc \notin {"idle", "stopped"} =>
           /\ poll.pc \notin {"idle", "stopped"} /\ poll'.id = poll.id /\ poll'.snap = poll.snap
           /\ Kept(poll.id)
           /\ follows[poll.id] # {} =>
                follows'[poll.id] # {} \/ sources'[poll.id].lately
  PROVE  PollFounded'
<1>1. SUFFICES ASSUME poll'.pc \notin {"idle", "stopped"} PROVE PollFounded'
  BY DEF PollFounded
<1>2. /\ poll.id \in Ids /\ poll.snap \in ListedRow
      /\ poll.snap.setup \in {"ok", "needs_attention"}
      /\ sources[poll.id] # None
      /\ follows[poll.id] # {} \/ sources[poll.id].lately
      /\ poll.snap.seq <= sources[poll.id].seq
      /\ sources[poll.id].seq = poll.snap.seq =>
           sources[poll.id].setup = poll.snap.setup
  BY <1>1 DEF IInv, PollFounded
<1>3. /\ sources'[poll.id] # None
      /\ sources[poll.id].seq <= sources'[poll.id].seq
      /\ sources'[poll.id].seq = sources[poll.id].seq =>
           sources'[poll.id].setup = sources[poll.id].setup
      /\ follows'[poll.id] # {} \/ sources'[poll.id].lately
  BY <1>1, <1>2 DEF Kept
<1>4. sources[poll.id].seq \in Nat /\ sources'[poll.id].seq \in Nat
      /\ poll.snap.seq \in Nat
  BY <1>2, <1>3 DEF TablesOK, IInv, Row, ListedRow
<1>5. /\ poll.snap.seq <= sources'[poll.id].seq
      /\ sources'[poll.id].seq = poll.snap.seq =>
           sources'[poll.id].setup = poll.snap.setup
  BY <1>2, <1>3, <1>4
<1>6. QED
  BY <1>1, <1>2, <1>3, <1>5 DEF PollFounded

(* No request moves: those there keep what they rest on.                   *)
LEMMA RequestsRest ==
  ASSUME IInv, UNCHANGED req, TablesOK(sources', aliases'), BySame,
         \A s \in Ids : sources[s] # None /\ sources[s].lately => Kept(s)
  PROVE  Requests'
<1>1. req' \in [Clients -> Request] /\ \A b \in Clients : req'[b] = req[b]
  BY DEF IInv, Others
<1>2. \A b \in Clients : GoesOn(req[b], req'[b])
  BY <1>1 DEF GoesOn
<1>3. QED
  BY <1>1, <1>2, RequestsGo

(* No request is left.                                                     *)
LEMMA NobodyAsks ==
  ASSUME IInv, req' = [c \in Clients |-> IdleReq], TablesOK(sources', aliases'),
         BySame
  PROVE  Requests'
<1>1. req' \in [Clients -> Request] /\ \A b \in Clients : req'[b] = IdleReq
  BY IdleFacts
<1>2. \A b \in Clients : RequestFounded(sources', req'[b]) /\ ~Claimed(req'[b])
  BY <1>1, IdleFacts
<1>3. OneClaim'
  BY <1>2 DEF OneClaim, Claimed
<1>4. UnderCap'
  <2>1. ASSUME NEW did \in Readers
        PROVE  Cardinality(Made(sources', did)) <= DailySources
    <3>1. Cardinality(Made(sources, did)) <= DailySources
      BY DEF IInv, UnderCap
    <3>2. TablesOK(sources, aliases)
      BY DEF IInv
    <3>3. QED
      BY <3>1, <3>2, CreatedShrinks, Bounds
  <2>2. QED
    BY <1>2, <2>1 DEF UnderCap, Creates, Claimed, Made
<1>5. QED
  BY <1>1, <1>2, <1>3, <1>4 DEF Requests

LEMMA Offers ==
  ASSUME IInv, NEW c \in Clients, Offer(c)
  PROVE  SourcesGo /\ Requests' /\ WithinBudget'
<1>1. req[c].pc = "idle" /\ UNCHANGED <<aliases, spent, poll>>
  BY DEF Offer
<1>2. PICK did \in Readers, k \in Keys, anchor \in BOOLEAN :
        LET s == GetWebSourceByKey(k)
            claim == [IdleReq EXCEPT !.pc = "claim", !.did = did, !.key = k]
            anchored == s # None /\ anchor /\ takesAnchor(sources[s])
        IN  /\ sources' = IF s = None THEN sources ELSE Stamped(s)
            /\ \/ UNCHANGED req
               \/ req' = [req EXCEPT ![c] = IF s = None
                      THEN [claim EXCEPT !.anchor = anchor]
                      ELSE [claim EXCEPT !.anchor = anchored, !.id = s,
                                         !.snap = Found(sources[s])]]
  BY DEF Offer
<1>3. PICK s \in Ids \cup {None} : s = GetWebSourceByKey(k)
  BY KeyFinds, RequestFacts
<1>4. PICK anchored \in BOOLEAN :
        anchored = (s # None /\ anchor /\ takesAnchor(sources[s]))
  OBVIOUS
<1>5. \/ UNCHANGED req
      \/ LET claim == [IdleReq EXCEPT !.pc = "claim", !.did = did, !.key = k]
         IN  req' = [req EXCEPT ![c] = IF s = None
                      THEN [claim EXCEPT !.anchor = anchor]
                      ELSE [claim EXCEPT !.anchor = anchored, !.id = s,
                                         !.snap = Found(sources[s])]]
  BY <1>2, <1>3, <1>4
<1>6. sources' = IF s = None THEN sources ELSE Stamped(s)
  BY <1>2, <1>3
<1>7. s # None => sources[s] # None /\ s \in Ids
  <2>1. SUFFICES ASSUME s # None PROVE sources[s] # None /\ s \in Ids
    OBVIOUS
  <2>2. s \in Ids /\ s # None
    BY <2>1
  <2>3. Answers(sources, aliases, k, s)
    BY <1>3, <2>2, KeyFinds, RequestFacts
  <2>4. QED
    BY <2>2, <2>3, RequestFacts DEF Answers, TablesOK
<1>8. SourcesGo /\ (s # None => sources'[s].lately)
  <2>1. CASE s = None
    BY <1>1, <1>6, <2>1, SourcesStand, RequestFacts
  <2>2. CASE s # None
    BY <1>1, <1>6, <1>7, <2>2, StampedGoes, RequestFacts
  <2>3. QED
    BY <2>1, <2>2
<1>9. CASE UNCHANGED req
  <2>1. Requests'
    BY <1>8, <1>9, RequestsRest DEF SourcesGo
  <2>2. WithinBudget'
    BY <1>1, <1>9
    DEF IInv, WithinBudget, Owing, Owes, Worth, PollMayCost, Budget
  <2>3. QED
    BY <1>8, <2>1, <2>2
<1>10. CASE ~UNCHANGED req
  <2>1. PICK x :
          x = IF s = None
              THEN [IdleReq EXCEPT !.pc = "claim", !.did = did, !.key = k,
                                   !.anchor = anchor]
              ELSE [IdleReq EXCEPT !.pc = "claim", !.did = did, !.key = k,
                                   !.anchor = anchored, !.id = s,
                                   !.snap = Found(sources[s])]
    OBVIOUS
  <2>2. req' = [req EXCEPT ![c] = x]
    BY <1>5, <1>10, <2>1 DEF IdleReq
  <2>3. s # None => /\ Found(sources[s]) \in FoundRow
                    /\ Found(sources[s]).health = sources[s].health
                    /\ Found(sources[s]).setup = sources[s].setup
                    /\ rank(sources[s].health) <= rank(sources[s].setup)
    BY <1>7, RequestFacts DEF Found, FoundRow, TablesOK, Row, RowsOf
  <2>4. /\ x \in Request /\ x.pc = "claim" /\ x.did = did /\ x.key = k
        /\ ~x.unvetted /\ x.id = s /\ (s # None => x.snap = Found(sources[s]))
    BY <2>1, <2>3, IdleFacts DEF IdleReq, Request
  <2>5. RequestFounded(sources', x)
    <3>1. CASE s = None
      BY <2>4, <3>1 DEF RequestFounded
    <3>2. CASE s # None
      <4>1. /\ sources'[s] # None /\ sources'[s].lately
            /\ rank(sources[s].setup) <= rank(sources'[s].setup)
        BY <1>7, <1>8, <3>2 DEF SourcesGo, Kept
      <4>2. QED
        BY <2>3, <2>4, <3>2, <4>1 DEF RequestFounded
    <3>3. QED
      BY <3>1, <3>2
  <2>6. GoesOn(req[c], x) /\ ~Owes(x)
    BY <2>4 DEF GoesOn, Claimed, Owes
  <2>7. Requests'
    BY <1>8, <2>2, <2>4, <2>5, <2>6, RequestsStay DEF SourcesGo
  <2>8. UNCHANGED <<poll, spent>>
    BY <1>1
  <2>9. WithinBudget'
    BY <2>2, <2>4, <2>6, <2>8, NothingCharged
  <2>10. QED
    BY <1>8, <2>7, <2>9
<1>11. QED
  BY <1>9, <1>10

(* What a request stores: the sources there stay, and the one it replaces  *)
(* was vetted.  A source it makes is its reader's, who had room for it.    *)
LEMMA Stores ==
  ASSUME IInv, NEW c \in Clients, Store(c)
  PROVE  /\ TablesOK(sources', aliases')
         /\ Hold(sources, aliases, sources', aliases')
         /\ \A s \in Ids : Kept(s)
         /\ Requests' /\ WithinBudget'
         /\ req[c].id # None /\ sources'[req[c].id].seq # sources[req[c].id].seq
              => ~req[c].unvetted
<1>1. /\ req[c].pc = "store" /\ UNCHANGED <<follows, poll, runs, unpaid>>
      /\ Answered(c)
  BY DEF Store
<1>2. PICK id \in Ids :
        storeSetup([key |-> req[c].key, ended |-> req[c].ended,
                    health |-> req[c].health, cost |-> req[c].cost,
                    by |-> req[c].did, replaces |-> req[c].id,
                    atSeq |-> None], id)
  BY DEF Store
<1>3. PICK g : g = [key |-> req[c].key, ended |-> req[c].ended,
                    health |-> req[c].health, cost |-> req[c].cost,
                    by |-> req[c].did, replaces |-> req[c].id, atSeq |-> None]
  OBVIOUS
<1>4. /\ req[c].did \in Readers /\ req[c].key \in Keys /\ req[c].ended \in Keys
      /\ req[c].health \in SetupHealths /\ req[c].cost \in 0..SetupCalls
      /\ req[c].id \in Ids \cup {None}
  BY <1>1, RequestFacts DEF RequestFounded, Request
<1>5. /\ g \in Setup /\ g.health = req[c].health /\ g.cost = req[c].cost
      /\ g.by = req[c].did /\ g.replaces = req[c].id
  BY <1>3, <1>4, Bounds DEF Setup
<1>6. SetupStored(g, id)
  BY <1>2, <1>3, <1>5, StoreSetupStores, RequestFacts
<1>7. PICK x : x = IdleReq
  OBVIOUS
<1>8. /\ x \in Request /\ req' = [req EXCEPT ![c] = x] /\ RequestFounded(sources', x)
      /\ ~Claimed(x) /\ ~Owes(x) /\ GoesOn(req[c], x)
  BY <1>1, <1>7, IdleFacts DEF Answered, GoesOn
<1>9. WithinBudget'
  <2>1. PICK m \in 0..SetupCalls : m = req[c].cost
    BY <1>4
  <2>2. Charged(m)
    BY <1>5, <1>6, <2>1, RequestFacts DEF Charged, SetupStored
  <2>3. m > 0 => Owes(req[c])
    BY <1>1, <2>1 DEF Owes
  <2>4. poll' = poll
    BY <1>1
  <2>5. QED
    BY <1>8, <2>2, <2>3, <2>4, BudgetKept
<1>10. /\ TablesOK(sources', aliases') /\ \A s \in Ids : Kept(s)
       /\ Hold(sources, aliases, sources', aliases')
  BY <1>6 DEF SetupStored
<1>11. Requests'
  <2>1. CASE \A s \in Ids : sources[s] = None => sources'[s] = None
    <3>1. BySame
      BY <1>6, <2>1 DEF SetupStored, BySame
    <3>2. QED
      BY <1>8, <1>10, <3>1, RequestsStay
  <2>2. CASE ~(\A s \in Ids : sources[s] = None => sources'[s] = None)
    <3>1. PICK did \in Readers : did = req[c].did
      BY <1>4
    <3>2. /\ GetWebSource(req[c].id) = None
          /\ sources[id] = None /\ sources'[id].by = did
          /\ \A s \in Ids \ {id} : sources[s] = None => sources'[s] = None
      BY <1>5, <1>6, <2>2, <3>1 DEF SetupStored
    <3>3. \A s \in Ids : sources[s] # None => sources'[s].by = sources[s].by
      BY <1>6 DEF SetupStored
    <3>4. req[c].id = None
      BY <1>4, <3>2, RequestFacts DEF GetWebSource, SourceRows, RequestFounded
    <3>5. Creates(req[c])
      BY <1>1, <3>4 DEF Creates, Claimed
    <3>6. Cardinality(Made(sources, did)) < DailySources
      BY <3>1, <3>5 DEF IInv, UnderCap
    <3>7. Made(sources', did) \subseteq Made(sources, did) \cup {id}
      BY <3>2, <3>3 DEF Made
    <3>8. \A d \in Readers \ {did} : Made(sources', d) \subseteq Made(sources, d)
      BY <3>2, <3>3 DEF Made
    <3>9. Cardinality(Made(sources', did)) <= DailySources
      <4>1. PICK old, new : old = Made(sources, did) /\ new = Made(sources', did)
        OBVIOUS
      <4>2. IsFiniteSet(old) /\ Cardinality(old) \in Nat /\ Cardinality(new) \in Nat
        BY <4>1, <1>10, CreatedFinite, RequestFacts
      <4>3. /\ IsFiniteSet(old \cup {id})
            /\ Cardinality(old \cup {id}) \in {Cardinality(old), Cardinality(old) + 1}
        BY <4>2, FS_AddElement
      <4>4. Cardinality(new) <= Cardinality(old \cup {id})
        BY <4>1, <4>3, <3>7, FS_Subset
      <4>5. QED
        BY <4>1, <4>2, <4>3, <4>4, <3>6, Bounds
    <3>10. ASSUME NEW d \in Readers \ {did}
           PROVE  /\ Cardinality(Made(sources', d)) <= Cardinality(Made(sources, d))
                  /\ Cardinality(Made(sources', d)) \in Nat
                  /\ Cardinality(Made(sources, d)) \in Nat
      <4>1. PICK old, new : old = Made(sources, d) /\ new = Made(sources', d)
        OBVIOUS
      <4>2. IsFiniteSet(old) /\ Cardinality(old) \in Nat /\ Cardinality(new) \in Nat
        BY <4>1, <1>10, CreatedFinite, RequestFacts
      <4>3. new \in SUBSET old
        BY <4>1, <3>8
      <4>4. Cardinality(new) <= Cardinality(old)
        BY <4>2, <4>3, FS_Subset
      <4>5. QED
        BY <4>1, <4>2, <4>4
    <3>11. /\ req' \in [Clients -> Request] /\ req'[c] = x
           /\ \A b \in Clients : b # c => req'[b] = req[b]
      BY <1>8, RequestFacts
    <3>12. \A b \in Clients : RequestFounded(sources', req'[b])
      <4>1. ASSUME NEW b \in Clients, b # c
            PROVE  RequestFounded(sources', req[b])
        BY <1>10, <4>1, FoundedStays, RequestFacts
      <4>2. QED
        BY <1>8, <3>11, <4>1
    <3>13. OneClaim'
      <4>1. \A a, b \in Clients :
              Claimed(req'[a]) /\ Claimed(req'[b]) /\ req'[a].did = req'[b].did
                => a = b
        BY <1>8, <3>11 DEF IInv, OneClaim
      <4>2. QED
        BY <4>1 DEF OneClaim, Claimed
    <3>14. UnderCap'
      <4>1. ASSUME NEW d \in Readers
            PROVE  Cardinality(Made(sources', d)) <= DailySources
        <5>1. CASE d = did
          BY <3>9, <5>1
        <5>2. CASE d # did
          <6>1. Cardinality(Made(sources, d)) <= DailySources
            BY DEF IInv, UnderCap
          <6>2. QED
            BY <3>10, <5>2, <6>1, Bounds
        <5>3. QED
          BY <5>1, <5>2
      <4>2. ASSUME NEW b \in Clients, Creates(req'[b])
            PROVE  Cardinality(Made(sources', req'[b].did)) < DailySources
        <5>1. b # c /\ req'[b] = req[b] /\ Creates(req[b])
          BY <1>8, <3>11, <4>2 DEF Creates
        <5>2. req[b].did # did
          BY <3>1, <3>5, <5>1 DEF IInv, OneClaim, Creates
        <5>3. req[b].did \in Readers
          BY <5>1, RequestFacts DEF RequestFounded, Creates, Claimed
        <5>4. Cardinality(Made(sources, req[b].did)) < DailySources
          BY <5>1 DEF IInv, UnderCap
        <5>5. PICK d \in Readers \ {did} : d = req[b].did
          BY <5>2, <5>3
        <5>6. Cardinality(Made(sources', d)) < DailySources
          BY <3>10, <5>4, <5>5, Bounds
        <5>7. QED
          BY <5>1, <5>5, <5>6
      <4>3. QED
        BY <4>1, <4>2 DEF UnderCap, Creates, Claimed, Made
    <3>15. QED
      BY <3>11, <3>12, <3>13, <3>14 DEF Requests
  <2>3. QED
    BY <2>1, <2>2
<1>12. ASSUME req[c].id # None, req[c].unvetted,
              sources'[req[c].id].seq # sources[req[c].id].seq
       PROVE  FALSE
  <2>1. PICK s \in Ids : s = req[c].id
    BY <1>4, <1>12
  <2>2. PICK snap \in FoundRow : snap = req[c].snap
    BY <1>12, RequestFacts DEF RequestFounded
  <2>3. PICK h \in SetupHealths : h = req[c].health
    BY <1>4
  <2>4. /\ sources[s] # None /\ rank(snap.health) <= rank(snap.setup)
        /\ rank(snap.setup) <= rank(sources[s].setup)
        /\ ~improves(h, snap)
    BY <1>1, <1>12, <2>1, <2>2, <2>3, RequestFacts DEF RequestFounded
  <2>5. improves(h, sources[s])
    BY <1>5, <1>6, <1>12, <2>1, <2>3, <2>4 DEF SetupStored
  <2>6. /\ rank(snap.health) \in 0..3 /\ rank(snap.setup) \in 0..3
        /\ rank(sources[s].setup) \in 0..3 /\ rank(sources[s].health) \in 0..3
        /\ rank(h) \in 0..3
    BY <2>4, RankFacts, RequestFacts DEF TablesOK, Row, FoundRow
  <2>7. QED
    BY <2>4, <2>5, <2>6 DEF improves
<1>13. QED
  BY <1>9, <1>10, <1>11, <1>12

-----------------------------------------------------------------------------
(* The steps of the poller.                                                *)

LEMMA PollFacts ==
  ASSUME IInv, poll.pc \notin {"idle", "stopped"}
  PROVE  /\ poll \in Poll /\ poll.id \in Ids /\ poll.snap \in ListedRow
         /\ poll.snap.setup \in {"ok", "needs_attention"}
         /\ sources[poll.id] # None /\ sources[poll.id] \in Row
         /\ sources[poll.id].seq = poll.snap.seq =>
              sources[poll.id].setup = poll.snap.setup
  BY DEF IInv, Others, PollFounded, TablesOK

LEMMA PollStarted ==
  ASSUME IInv, PollStart
  PROVE  SourcesGo /\ Requests' /\ PollFounded' /\ WithinBudget' /\ poll' \in Poll
<1>1. /\ poll = IdlePoll /\ UNCHANGED <<sources, aliases>> /\ follows' = follows
      /\ req' = req /\ spent' = spent
  BY DEF PollStart, tables
<1>2. PICK s \in SourceRows :
        /\ Due(s)
        /\ poll' = [pc |-> "due", id |-> s, snap |-> Listed(sources[s]),
                    allowed |-> FALSE]
  BY DEF PollStart
<1>3. s \in Ids /\ sources[s] # None /\ sources[s] \in Row
  BY RequestFacts DEF SourceRows, IInv, TablesOK
<1>4. PICK snap : snap = Listed(sources[s])
  OBVIOUS
<1>5. /\ snap \in ListedRow /\ snap.seq = sources[s].seq
      /\ snap.setup = sources[s].setup
  BY <1>3, <1>4 DEF Listed, ListedRow, Row
<1>6. poll' = [pc |-> "due", id |-> s, snap |-> snap, allowed |-> FALSE]
  BY <1>2, <1>4
<1>7. poll'.pc = "due" /\ poll'.id = s /\ poll'.snap = snap /\ poll' \in Poll
  BY <1>3, <1>5, <1>6 DEF Poll
<1>8. SourcesGo
  BY <1>1, SourcesStand DEF IInv
<1>9. Requests'
  BY <1>1, <1>8, RequestsRest DEF SourcesGo
<1>10. PollFounded'
  <2>1. sources[s].seq \in Nat
    BY <1>3 DEF Row
  <2>2. Due(s)
    BY <1>2
  <2>3. QED
    BY <1>1, <1>3, <1>5, <1>7, <2>1, <2>2 DEF PollFounded, Due
<1>11. WithinBudget'
  <2>1. PollMayCost = 0 /\ PollMayCost' = 0
    BY <1>1, <1>7 DEF PollMayCost, IdlePoll
  <2>2. spent' = spent + 0
    BY <1>1 DEF IInv, Others
  <2>3. 0 + PollMayCost' <= PollMayCost
    BY <2>1
  <2>4. QED
    BY <1>1, <2>2, <2>3, PollBudget
<1>12. QED
  BY <1>7, <1>8, <1>9, <1>10, <1>11

LEMMA PollBegun ==
  ASSUME IInv, PollOne
  PROVE  SourcesGo /\ Requests' /\ PollFounded' /\ WithinBudget' /\ poll' \in Poll
<1>1. /\ poll.pc = "due" /\ UNCHANGED <<sources, aliases>> /\ follows' = follows
      /\ req' = req /\ spent' = spent
      /\ poll' = [poll EXCEPT !.pc = "polling", !.allowed = modelBudgetLeft]
  BY DEF PollOne, tables
<1>2. PICK left \in BOOLEAN : left = modelBudgetLeft
  <2>1. modelBudgetLeft \in BOOLEAN
    BY DEF modelBudgetLeft
  <2>2. QED
    BY <2>1
<1>3. /\ poll'.pc = "polling" /\ poll'.id = poll.id /\ poll'.snap = poll.snap
      /\ poll'.allowed = left /\ poll' \in Poll
  <2>1. poll' = [poll EXCEPT !.pc = "polling", !.allowed = left]
    BY <1>1, <1>2
  <2>2. poll \in Poll
    BY <1>1, PollFacts
  <2>3. QED
    BY <2>1, <2>2 DEF Poll
<1>4. SourcesGo
  BY <1>1, SourcesStand DEF IInv
<1>5. Requests'
  BY <1>1, <1>4, RequestsRest DEF SourcesGo
<1>6. PollFounded'
  BY <1>1, <1>3, <1>4, PollFacts, PollStays DEF SourcesGo
<1>7. WithinBudget'
  <2>1. CASE left
    BY <1>1, <1>2, <2>1, BudgetAsked DEF modelBudgetLeft, SumModelSpendSince
  <2>2. CASE ~left
    <3>1. PollMayCost = 0 /\ PollMayCost' = 0
      BY <1>1, <1>3, <2>2 DEF PollMayCost
    <3>2. spent' = spent + 0
      BY <1>1 DEF IInv, Others
    <3>3. 0 + PollMayCost' <= PollMayCost
      BY <3>1
    <3>4. QED
      BY <1>1, <3>2, <3>3, PollBudget
  <2>3. QED
    BY <2>1, <2>2
<1>8. QED
  BY <1>3, <1>4, <1>5, <1>6, <1>7

(* A poll's verdict is no better than the setup it polled by.              *)
LEMMA PolledIsNoBetter ==
  ASSUME NEW row \in ListedRow, row.setup \in {"ok", "needs_attention"},
         NEW verdict \in Health
  PROVE  /\ PolledHealth(row, verdict) \in Health
         /\ rank(PolledHealth(row, verdict)) <= rank(row.setup)
<1>1. rank(verdict) \in 0..3 /\ row.setup \in Health
  BY RankFacts DEF ListedRow
<1>2. CASE row.setup = "ok"
  BY <1>1, <1>2, RankFacts DEF PolledHealth
<1>3. CASE row.setup = "needs_attention"
  BY <1>1, <1>3, RankFacts DEF PolledHealth
<1>4. QED
  BY <1>2, <1>3

LEMMA PollMayCosts ==
  ASSUME poll.pc = "polling", NEW check \in CheckCosts, NEW repair \in RepairCosts
  PROVE  /\ check \in Nat /\ repair \in Nat
         /\ check + repair \in Nat /\ check + repair <= PollMayCost
<1>1. CASE poll.allowed
  <2>1. check \in {0, 1} /\ repair \in 0..SetupCalls /\ PollMayCost = 1 + SetupCalls
    BY <1>1 DEF CheckCosts, RepairCosts, PollMayCost
  <2>2. QED
    BY <2>1, Bounds
<1>2. CASE ~poll.allowed
  <2>1. check = 0 /\ repair = 0 /\ PollMayCost = 0
    BY <1>2 DEF CheckCosts, RepairCosts, PollMayCost
  <2>2. QED
    BY <2>1
<1>3. QED
  BY <1>1, <1>2

LEMMA PollEnded ==
  ASSUME IInv, PollEnds
  PROVE  SourcesGo /\ Requests' /\ PollFounded' /\ WithinBudget' /\ poll' \in Poll
<1>1. /\ poll.pc = "polling" /\ aliases' = aliases /\ follows' = follows
      /\ req' = req
      /\ poll' = IF poll.snap.checked THEN IdlePoll
                 ELSE [poll EXCEPT !.pc = "check"]
  BY DEF PollEnds
<1>2. PICK check \in CheckCosts, repair \in RepairCosts :
        spent' = spent + (check + repair)
  BY DEF PollEnds, recordSpend
<1>3. PICK verdict \in Health :
        sources' = IF Current(poll.id, poll.snap)
                   THEN [sources EXCEPT ![poll.id].health =
                            PolledHealth(poll.snap, verdict)]
                   ELSE sources
  BY DEF PollEnds
<1>4. PICK s \in Ids, snap \in ListedRow, h \in Health :
        /\ s = poll.id /\ snap = poll.snap
        /\ h = PolledHealth(poll.snap, verdict) /\ rank(h) <= rank(snap.setup)
  BY <1>1, PollFacts, PolledIsNoBetter
<1>5. SourcesGo
  <2>1. CASE Current(s, snap)
    <3>1. PICK row : row = [sources[s] EXCEPT !.health = h]
      OBVIOUS
    <3>2. /\ sources[s] # None /\ sources[s] \in Row
          /\ sources[s].setup = snap.setup
      BY <1>1, <1>4, <2>1, PollFacts DEF Current
    <3>3. /\ row \in Row /\ row.key = sources[s].key /\ row.seq = sources[s].seq
          /\ row.setup = sources[s].setup /\ row.by = sources[s].by
          /\ row.lately = sources[s].lately /\ row.health = h
      BY <3>1, <3>2 DEF Row
    <3>4. sources' = [sources EXCEPT ![s] = row]
      BY <1>3, <1>4, <2>1, <3>1
    <3>5. rank(row.health) <= rank(row.setup)
      BY <1>4, <3>2, <3>3
    <3>6. QED
      BY <1>1, <3>2, <3>3, <3>4, <3>5, RowTouched DEF IInv
  <2>2. CASE ~Current(s, snap)
    BY <1>1, <1>3, <1>4, <2>2, SourcesStand DEF IInv
  <2>3. QED
    BY <2>1, <2>2
<1>6. Requests'
  BY <1>1, <1>5, RequestsRest DEF SourcesGo
<1>7. /\ poll' \in Poll /\ poll'.pc # "polling"
      /\ poll'.pc # "idle" => poll'.id = poll.id /\ poll'.snap = poll.snap
  <2>1. CASE poll.snap.checked
    BY <1>1, <2>1, IdleFacts DEF IdlePoll
  <2>2. CASE ~poll.snap.checked
    BY <1>1, <2>2, PollFacts DEF Poll
  <2>3. QED
    BY <2>1, <2>2
<1>8. PollFounded'
  BY <1>1, <1>5, <1>7, PollFacts, PollStays DEF SourcesGo
<1>9. WithinBudget'
  <2>1. PollMayCost' = 0
    BY <1>7 DEF PollMayCost
  <2>2. PICK cost \in Nat : cost = check + repair /\ cost <= PollMayCost
    BY <1>1, PollMayCosts
  <2>3. cost + PollMayCost' <= PollMayCost /\ spent' = spent + cost
    BY <1>2, <2>1, <2>2
  <2>4. QED
    BY <1>1, <2>3, PollBudget
<1>10. QED
  BY <1>5, <1>6, <1>7, <1>8, <1>9

(* A poll that is cut short is charged for its repair, or for nothing.     *)
LEMMA PollIsCut ==
  ASSUME IInv, PollCut
  PROVE  SourcesGo /\ Requests' /\ PollFounded' /\ WithinBudget' /\ poll' \in Poll
<1>1. /\ poll.pc = "polling" /\ UNCHANGED <<sources, aliases>> /\ follows' = follows
      /\ req' = req /\ poll' = [IdlePoll EXCEPT !.pc = "stopped"]
  BY DEF PollCut, tables
<1>2. PICK cost \in Nat : spent' = spent + cost /\ cost <= PollMayCost
  <2>1. PICK check \in CheckCosts, repair \in RepairCosts :
          spent' = spent + repair \/ spent' = spent + 0
    BY DEF PollCut, recordSpend
  <2>2. /\ repair \in Nat /\ repair <= PollMayCost /\ 0 <= PollMayCost
    BY <1>1, <2>1, PollMayCosts, Owed
  <2>3. QED
    BY <2>1, <2>2
<1>3. poll' \in Poll /\ poll'.pc = "stopped"
  BY <1>1, IdleFacts DEF IdlePoll, Poll
<1>4. SourcesGo
  BY <1>1, SourcesStand DEF IInv
<1>5. Requests'
  BY <1>1, <1>4, RequestsRest DEF SourcesGo
<1>6. PollFounded'
  BY <1>3 DEF PollFounded
<1>7. WithinBudget'
  <2>1. PollMayCost' = 0
    BY <1>3 DEF PollMayCost
  <2>2. cost + PollMayCost' <= PollMayCost
    BY <1>2, <2>1
  <2>3. QED
    BY <1>1, <1>2, <2>2, PollBudget
<1>8. QED
  BY <1>3, <1>4, <1>5, <1>6, <1>7

LEMMA CheckStarted ==
  ASSUME IInv, CheckStart
  PROVE  SourcesGo /\ Requests' /\ PollFounded' /\ WithinBudget' /\ poll' \in Poll
<1>1. /\ poll.pc = "check" /\ UNCHANGED <<sources, aliases>> /\ follows' = follows
      /\ req' = req /\ spent' = spent
      /\ poll' = [poll EXCEPT !.pc = "checking"] \/ poll' = IdlePoll
  BY DEF CheckStart, tables
<1>2. /\ poll' \in Poll /\ poll'.pc # "polling"
      /\ poll'.pc # "idle" => poll'.id = poll.id /\ poll'.snap = poll.snap
  <2>1. CASE poll' = IdlePoll
    BY <2>1, IdleFacts DEF IdlePoll
  <2>2. CASE poll' = [poll EXCEPT !.pc = "checking"]
    BY <1>1, <2>2, PollFacts DEF Poll
  <2>3. QED
    BY <1>1, <2>1, <2>2
<1>3. SourcesGo
  BY <1>1, SourcesStand DEF IInv
<1>4. Requests'
  BY <1>1, <1>3, RequestsRest DEF SourcesGo
<1>5. PollFounded'
  BY <1>1, <1>2, <1>3, PollFacts, PollStays DEF SourcesGo
<1>6. WithinBudget'
  <2>1. PollMayCost = 0 /\ PollMayCost' = 0
    BY <1>1, <1>2 DEF PollMayCost
  <2>2. spent' = spent + 0
    BY <1>1 DEF IInv, Others
  <2>3. 0 + PollMayCost' <= PollMayCost
    BY <2>1
  <2>4. QED
    BY <1>1, <2>2, <2>3, PollBudget
<1>7. QED
  BY <1>2, <1>3, <1>4, <1>5, <1>6

(* A check moves the source it was for, or leaves it checked, and never    *)
(* makes another.                                                          *)
LEMMA CheckEnded ==
  ASSUME IInv, CheckEnds
  PROVE  SourcesGo /\ Requests' /\ PollFounded' /\ WithinBudget' /\ poll' \in Poll
<1>1. /\ poll.pc = "checking" /\ poll' = IdlePoll /\ follows' = follows
      /\ req' = req
  BY DEF CheckEnds
<1>2. PICK s \in Ids, snap \in ListedRow : s = poll.id /\ snap = poll.snap
  BY <1>1, PollFacts
<1>3. sources[s] # None /\ sources[s] \in Row
  BY <1>1, <1>2, PollFacts
<1>4. SourcesGo /\ spent' = spent + 0
  <2>1. ASSUME NEW ended \in Keys \ {poll.snap.key}, NEW id \in Ids,
               storeSetup([key |-> poll.snap.key, ended |-> ended,
                           health |-> "ok", cost |-> 0, by |-> poll.snap.by,
                           replaces |-> poll.id, atSeq |-> poll.snap.seq], id)
        PROVE  SourcesGo /\ spent' = spent + 0
    <3>1. PICK g : g = [key |-> snap.key, ended |-> ended, health |-> "ok",
                        cost |-> 0, by |-> snap.by, replaces |-> s,
                        atSeq |-> snap.seq]
      OBVIOUS
    <3>2. "ok" \in SetupHealths
      BY DEF SetupHealths
    <3>3. g \in Setup /\ g.replaces = s /\ g.cost = 0
      BY <3>1, <3>2 DEF Setup, ListedRow
    <3>4. storeSetup(g, id)
      BY <1>2, <2>1, <3>1
    <3>5. SetupStored(g, id)
      BY <3>3, <3>4, StoreSetupStores DEF IInv
    <3>6. GetWebSource(s) # None
      BY <1>3, NoneIsNothing DEF GetWebSource, SourceRows
    <3>7. BySame
      BY <3>3, <3>5, <3>6 DEF SetupStored, BySame
    <3>8. QED
      BY <3>3, <3>5, <3>7 DEF SetupStored, SourcesGo
  <2>2. ASSUME MarkWebSourceSectionChecked, UNCHANGED <<aliases, spent>>
        PROVE  SourcesGo /\ spent' = spent + 0
    <3>1. spent' = spent + 0
      BY <2>2 DEF IInv, Others
    <3>2. CASE Current(s, snap)
      <4>1. PICK row : row = [sources[s] EXCEPT !.checked = TRUE]
        OBVIOUS
      <4>2. /\ row \in Row /\ row.key = sources[s].key /\ row.seq = sources[s].seq
            /\ row.setup = sources[s].setup /\ row.by = sources[s].by
            /\ row.lately = sources[s].lately /\ row.health = sources[s].health
        BY <1>3, <4>1 DEF Row
      <4>3. sources' = [sources EXCEPT ![s] = row]
        BY <1>2, <2>2, <3>2, <4>1 DEF MarkWebSourceSectionChecked
      <4>4. rank(row.health) <= rank(row.setup)
        BY <1>3, <4>2 DEF IInv, TablesOK, RowsOf
      <4>5. aliases' = aliases
        BY <2>2
      <4>6. SourcesGo
        BY <1>3, <4>2, <4>3, <4>4, <4>5, RowTouched DEF IInv
      <4>7. QED
        BY <3>1, <4>6
    <3>3. CASE ~Current(s, snap)
      <4>1. UNCHANGED <<sources, aliases>>
        BY <1>2, <2>2, <3>3 DEF MarkWebSourceSectionChecked
      <4>2. QED
        BY <3>1, <4>1, SourcesStand DEF IInv
    <3>4. QED
      BY <3>2, <3>3
  <2>3. QED
    BY <2>1, <2>2 DEF CheckEnds
<1>5. Requests'
  BY <1>1, <1>4, RequestsRest DEF SourcesGo
<1>6. poll' \in Poll /\ poll'.pc = "idle"
  BY <1>1, IdleFacts DEF IdlePoll
<1>7. PollFounded'
  BY <1>6 DEF PollFounded
<1>8. WithinBudget'
  <2>1. PollMayCost = 0 /\ PollMayCost' = 0
    BY <1>1, <1>6 DEF PollMayCost
  <2>2. 0 + PollMayCost' <= PollMayCost
    BY <2>1
  <2>3. QED
    BY <1>1, <1>4, <2>2, PollBudget
<1>9. QED
  BY <1>4, <1>5, <1>6, <1>7, <1>8

-----------------------------------------------------------------------------
(* The world's steps.                                                      *)

(* What is owed stays, where requests and the poll do.                     *)
LEMMA BudgetRests ==
  ASSUME IInv, UNCHANGED <<spent, req, poll>>
  PROVE  WithinBudget' /\ poll' \in Poll
  BY DEF IInv, Others, WithinBudget, Owing, Owes, Worth, PollMayCost, Budget

(* A follow, or a stamp on a source as somebody leaves it or reads it.     *)
LEMMA ReadersMove ==
  ASSUME IInv, Follow \/ Unfollow \/ MarkServed
  PROVE  SourcesGo /\ Requests' /\ PollFounded' /\ WithinBudget' /\ poll' \in Poll
<1>1. /\ req' = req /\ poll' = poll /\ spent' = spent /\ aliases' = aliases
  BY DEF Follow, Unfollow, MarkServed
<1>2. TablesOK(sources, aliases) /\ follows \in [Ids -> SUBSET Readers]
  BY DEF IInv, Others
<1>3. SourcesGo /\ \A t \in Ids :
        follows[t] # {} => follows'[t] # {} \/ (sources'[t] # None /\ sources'[t].lately)
  <2>1. CASE Follow
    <3>1. /\ sources' = sources
          /\ \E s \in SourceRows, d \in Readers :
               follows' = [follows EXCEPT ![s] = follows[s] \cup {d}]
      BY <2>1 DEF Follow
    <3>2. SourcesGo
      BY <1>1, <1>2, <3>1, SourcesStand
    <3>3. \A t \in Ids : follows[t] # {} => follows'[t] # {}
      BY <1>2, <3>1
    <3>4. QED
      BY <3>2, <3>3
  <2>2. CASE Unfollow
    <3>1. PICK s \in SourceRows, d \in Readers :
            /\ follows' = [follows EXCEPT ![s] = follows[s] \ {d}]
            /\ sources' = Stamped(s)
      BY <2>2 DEF Unfollow
    <3>2. SourcesGo /\ sources'[s].lately /\ s \in Ids /\ sources[s] # None
      BY <1>1, <1>2, <3>1, StampedGoes DEF SourceRows
    <3>3. sources'[s] # None
      BY <3>2 DEF SourcesGo, Kept
    <3>4. \A t \in Ids : t # s => follows'[t] = follows[t]
      BY <1>2, <3>1
    <3>5. QED
      BY <3>2, <3>3, <3>4
  <2>3. CASE MarkServed
    <3>1. PICK s \in SourceRows : sources' = Stamped(s)
      BY <2>3 DEF MarkServed
    <3>2. SourcesGo
      BY <1>1, <1>2, <3>1, StampedGoes DEF SourceRows
    <3>3. follows' = follows
      BY <2>3 DEF MarkServed
    <3>4. QED
      BY <3>2, <3>3
  <2>4. QED
    BY <2>1, <2>2, <2>3
<1>4. Requests'
  BY <1>1, <1>3, RequestsRest DEF SourcesGo
<1>5. PollFounded'
  BY <1>1, <1>3, PollFacts, PollStays DEF SourcesGo
<1>6. QED
  BY <1>1, <1>3, <1>4, <1>5, BudgetRests

(* The sweep leaves what a request or the poll has found.                  *)
LEMMA Swept ==
  ASSUME IInv, DeleteUnfollowedWebSources
  PROVE  /\ TablesOK(sources', aliases')
         /\ Hold(sources, aliases, sources', aliases')
         /\ Requests' /\ PollFounded' /\ WithinBudget' /\ poll' \in Poll
<1> DEFINE unused == {s \in SourceRows : ~sources[s].lately /\ follows[s] = {}}
<1>1. PICK gone \in SUBSET Ids :
        /\ \A s \in gone : ~sources[s].lately /\ follows[s] = {}
        /\ sources' = [s \in Ids |-> IF s \in gone THEN None ELSE sources[s]]
        /\ aliases' = [k \in Keys |-> IF aliases[k] \in gone THEN None
                                      ELSE aliases[k]]
  <2>1. unused \in SUBSET Ids /\ \A s \in unused : ~sources[s].lately /\ follows[s] = {}
    BY DEF SourceRows
  <2>2. /\ sources' = [s \in Ids |-> IF s \in unused THEN None ELSE sources[s]]
        /\ aliases' = [k \in Keys |-> IF aliases[k] \in unused THEN None
                                      ELSE aliases[k]]
    BY DEF DeleteUnfollowedWebSources
  <2>3. QED
    BY <2>1, <2>2
<1>2. follows' = follows /\ spent' = spent /\ req' = req /\ poll' = poll
  BY DEF DeleteUnfollowedWebSources
<1>3. TablesOK(sources, aliases)
  BY DEF IInv
<1>4. TablesOK(sources', aliases') /\ Hold(sources, aliases, sources', aliases')
  <2>1. PICK src2, al2 : src2 = sources' /\ al2 = aliases'
    OBVIOUS
  <2>2. /\ src2 = [s \in Ids |-> IF s \in gone THEN None ELSE sources[s]]
        /\ al2 = [k \in Keys |-> IF aliases[k] \in gone THEN None ELSE aliases[k]]
    BY <1>1, <2>1
  <2>3. TablesOK(src2, al2) /\ Hold(sources, aliases, src2, al2)
    BY <1>3, <2>2, RowsGone
  <2>4. QED
    BY <2>1, <2>3
<1>5. \A s \in Ids : s \notin gone => Kept(s)
  BY <1>1, <1>3, UnchangedIsKept
<1>6. \A s \in Ids : sources[s] # None /\ sources[s].lately => Kept(s)
  BY <1>1, <1>5
<1>7. BySame
  BY <1>1 DEF BySame
<1>8. Requests'
  BY <1>2, <1>4, <1>6, <1>7, RequestsRest
<1>9. poll.pc \notin {"idle", "stopped"} => Kept(poll.id)
  <2>1. SUFFICES ASSUME poll.pc \notin {"idle", "stopped"} PROVE Kept(poll.id)
    OBVIOUS
  <2>2. poll.id \in Ids /\ (follows[poll.id] # {} \/ sources[poll.id].lately)
    BY <2>1 DEF IInv, PollFounded
  <2>3. poll.id \notin gone
    BY <1>1, <2>2
  <2>4. QED
    BY <1>5, <2>2, <2>3
<1>10. PollFounded'
  BY <1>2, <1>4, <1>9, PollStays
<1>11. QED
  BY <1>2, <1>4, <1>8, <1>10, BudgetRests

(* A month goes by: what was made within the day no longer counts.         *)
LEMMA MonthPasses ==
  ASSUME IInv, GracePasses
  PROVE  /\ TablesOK(sources', aliases')
         /\ Hold(sources, aliases, sources', aliases')
         /\ Requests' /\ PollFounded' /\ WithinBudget' /\ poll' \in Poll
<1>1. /\ aliases' = aliases /\ req' = req /\ poll' = IdlePoll /\ spent' = 0
      /\ \A c \in Clients : req[c] = IdleReq
      /\ sources' = [s \in Ids |-> IF sources[s] = None THEN None
                                   ELSE [sources[s] EXCEPT !.lately = FALSE,
                                                           !.by = None]]
  BY DEF GracePasses
<1>2. TablesOK(sources, aliases) /\ req \in [Clients -> Request]
  BY DEF IInv, Others
<1>3. req' = [c \in Clients |-> IdleReq]
  BY <1>1, <1>2
<1>4. ASSUME NEW s \in Ids, sources[s] # None
      PROVE  /\ sources'[s] \in Row /\ sources'[s].key = sources[s].key
             /\ sources'[s].setup = sources[s].setup
             /\ sources'[s].health = sources[s].health /\ sources'[s].by = None
  <2>1. PICK row : row = [sources[s] EXCEPT !.lately = FALSE, !.by = None]
    OBVIOUS
  <2>2. sources'[s] = row
    BY <1>1, <1>4, <2>1
  <2>3. sources[s] \in Row
    BY <1>2, <1>4 DEF TablesOK
  <2>4. /\ row \in Row /\ row.key = sources[s].key /\ row.setup = sources[s].setup
        /\ row.health = sources[s].health /\ row.by = None
    BY <2>1, <2>3 DEF Row
  <2>5. QED
    BY <2>2, <2>4
<1>5. \A s \in Ids : sources[s] = None => sources'[s] = None
  BY <1>1
<1>6. sources' \in [Ids -> Row \cup {None}]
  <2>1. \A s \in Ids : sources'[s] \in Row \cup {None}
    BY <1>4, <1>5
  <2>2. QED
    BY <1>1, <2>1
<1>7. \A s \in Ids : sources'[s] = None <=> sources[s] = None
  BY <1>4, <1>5, NoneIsNothing
<1>8. TablesOK(sources', aliases) /\ Hold(sources, aliases, sources', aliases)
  <2>1. \A s \in RowsOf(sources) :
          /\ sources'[s].key = sources[s].key
          /\ rank(sources'[s].health) <= rank(sources'[s].setup)
    BY <1>2, <1>4 DEF TablesOK, RowsOf
  <2>2. QED
    BY <1>2, <1>6, <1>7, <2>1, RowsChange
<1>9. BySame
  BY <1>4, <1>7 DEF BySame
<1>10. Requests'
  BY <1>1, <1>3, <1>8, <1>9, NobodyAsks
<1>11. WithinBudget'
  BY <1>1, <1>3, NobodyOwes
<1>12. PollFounded' /\ poll' \in Poll
  BY <1>1, IdleFacts DEF PollFounded, IdlePoll
<1>13. QED
  BY <1>1, <1>8, <1>10, <1>11, <1>12

LEMMA Restarted ==
  ASSUME IInv, Restart
  PROVE  SourcesGo /\ Requests' /\ PollFounded' /\ WithinBudget' /\ poll' \in Poll
<1>1. /\ req' = [c \in Clients |-> IdleReq] /\ poll' = IdlePoll
      /\ UNCHANGED <<sources, aliases>> /\ spent' = spent
  BY DEF Restart, tables
<1>2. SourcesGo
  BY <1>1, SourcesStand DEF IInv
<1>3. Requests'
  BY <1>1, <1>2, NobodyAsks DEF SourcesGo
<1>4. WithinBudget'
  BY <1>1, NobodyOwes
<1>5. PollFounded' /\ poll' \in Poll
  BY <1>1, IdleFacts DEF PollFounded, IdlePoll
<1>6. QED
  BY <1>2, <1>3, <1>4, <1>5

-----------------------------------------------------------------------------
(* The invariant, and what it gives.                                       *)

LEMMA RequestStep ==
  ASSUME IInv, NEW c \in Clients, Create(c)
  PROVE  /\ TablesOK(sources', aliases')
         /\ Hold(sources, aliases, sources', aliases')
         /\ Requests' /\ PollFounded' /\ WithinBudget' /\ poll' \in Poll
<1>1. /\ poll' = poll /\ follows' = follows
      /\ req[c].pc # "idle" /\ req[c].pc # "store" => UNCHANGED <<sources, aliases>>
  BY DEF Create, Offer, Claim, Refused, EnterSlot, SlotBusy, SetupEnds, OwnEnds,
         SetupFails, Vet, Confirm, Store, tables
<1>2. /\ TablesOK(sources', aliases')
      /\ Hold(sources, aliases, sources', aliases')
      /\ \A s \in Ids : Kept(s)
      /\ Requests' /\ WithinBudget'
  <2>1. CASE Offer(c)
    BY <2>1, Offers DEF SourcesGo
  <2>2. CASE Store(c)
    BY <2>2, Stores
  <2>3. CASE \/ Claim(c) \/ Refused(c) \/ EnterSlot(c) \/ SlotBusy(c)
             \/ SetupEnds(c) \/ OwnEnds(c) \/ SetupFails(c) \/ Vet(c) \/ Confirm(c)
    <3>1. Requests' /\ WithinBudget'
      BY <2>3, Claims, Refuses, EntersSlot, SetupEnded, OwnEnded, SetupFailed,
         Vetted, Confirmed
    <3>2. UNCHANGED <<sources, aliases>>
      BY <2>3 DEF Claim, Refused, EnterSlot, SlotBusy, SetupEnds, OwnEnds,
                  SetupFails, Vet, Confirm, tables
    <3>3. QED
      BY <3>1, <3>2, TablesStand, RequestFacts
  <2>4. QED
    BY <2>1, <2>2, <2>3 DEF Create
<1>3. PollFounded'
  BY <1>1, <1>2, PollFacts, PollStays
<1>4. poll' \in Poll
  BY <1>1 DEF IInv, Others
<1>5. QED
  BY <1>2, <1>3, <1>4

LEMMA StepKeeps ==
  ASSUME IInv, Next
  PROVE  /\ TablesOK(sources', aliases')
         /\ Hold(sources, aliases, sources', aliases')
         /\ Requests' /\ PollFounded' /\ WithinBudget' /\ poll' \in Poll
<1>1. CASE \E c \in Clients : Create(c)
  BY <1>1, RequestStep
<1>2. CASE PollDue
  BY <1>2, PollStarted, PollBegun, PollEnded, PollIsCut, CheckStarted,
     CheckEnded
  DEF PollDue, SourcesGo
<1>3. CASE World
  BY <1>3, ReadersMove, Swept, MonthPasses, Restarted DEF World, SourcesGo
<1>4. QED
  BY <1>1, <1>2, <1>3 DEF Next

LEMMA FollowsTyped ==
  ASSUME follows \in [Ids -> SUBSET Readers], Next
  PROVE  follows' \in [Ids -> SUBSET Readers]
<1>1. CASE Follow
  <2>1. PICK s \in SourceRows, d \in Readers :
          follows' = [follows EXCEPT ![s] = follows[s] \cup {d}]
    BY <1>1 DEF Follow
  <2>2. QED
    BY <2>1 DEF SourceRows
<1>2. CASE Unfollow
  <2>1. PICK s \in SourceRows, d \in Readers :
          follows' = [follows EXCEPT ![s] = follows[s] \ {d}]
    BY <1>2 DEF Unfollow
  <2>2. QED
    BY <2>1 DEF SourceRows
<1>3. CASE ~Follow /\ ~Unfollow
  <2>1. (\E c \in Clients : Create(c)) => follows' = follows
    BY DEF Create, Offer, Claim, Refused, EnterSlot, SlotBusy, SetupEnds, OwnEnds,
           SetupFails, Vet, Confirm, Store, tables
  <2>2. PollDue => follows' = follows
    BY DEF PollDue, PollStart, PollOne, PollEnds, PollCut, CheckStart, CheckEnds, tables
  <2>3. World => follows' = follows
    BY <1>3 DEF World, MarkServed, GracePasses, DeleteUnfollowedWebSources, Restart,
                tables
  <2>4. QED
    BY <2>1, <2>2, <2>3 DEF Next
<1>4. QED
  BY <1>1, <1>2, <1>3

LEMMA SpentTyped ==
  ASSUME spent \in Nat, req \in [Clients -> Request], Next
  PROVE  spent' \in Nat
<1>1. spent' = 0 \/ \E n \in Nat : spent' = spent + n
  <2>1. CASE UNCHANGED spent
    BY <2>1
  <2>2. ASSUME NEW c \in Clients, SetupFails(c)
        PROVE  \E n \in Nat : spent' = spent + n
    <3>1. PICK n \in Costs(c) : spent' = spent + n
      BY <2>2 DEF SetupFails, recordSpend
    <3>2. n \in Nat
      BY Bounds DEF Costs
    <3>3. QED
      BY <3>1, <3>2
  <2>3. ASSUME NEW c \in Clients, Confirm(c)
        PROVE  \E n \in Nat : spent' = spent + n
    BY <2>3 DEF Confirm, recordSpend
  <2>4. ASSUME NEW c \in Clients, Store(c)
        PROVE  \E n \in Nat : spent' = spent + n
    <3>1. req[c].cost \in Nat
      BY Bounds DEF Request
    <3>2. spent' = spent + req[c].cost
      BY <2>4 DEF Store, storeSetup, recordSpend
    <3>3. QED
      BY <3>1, <3>2
  <2>5. CASE PollEnds \/ PollCut
    <3>1. PICK check \in CheckCosts, repair \in RepairCosts :
            \/ spent' = spent + (check + repair)
            \/ spent' = spent + repair \/ spent' = spent + 0
      BY <2>5 DEF PollEnds, PollCut, recordSpend
    <3>2. check + repair \in Nat /\ repair \in Nat
      BY <2>5, <3>1, PollMayCosts DEF PollEnds, PollCut
    <3>3. QED
      BY <3>1, <3>2
  <2>6. CASE CheckEnds
    <3>1. spent' = spent + 0 \/ spent' = spent
      BY <2>6 DEF CheckEnds, storeSetup, recordSpend
    <3>2. QED
      BY <3>1
  <2>7. CASE GracePasses
    BY <2>7 DEF GracePasses
  <2>8. QED
    BY <2>1, <2>2, <2>3, <2>4, <2>5, <2>6, <2>7
    DEF Next, Create, Offer, Claim, Refused, EnterSlot, SlotBusy, SetupEnds, OwnEnds,
        Vet, PollDue, PollStart, PollOne, CheckStart, World, Follow, Unfollow,
        MarkServed, DeleteUnfollowedWebSources, Restart
<1>2. QED
  BY <1>1

LEMMA RunsTyped ==
  ASSUME runs \in 0..MaxRuns, unpaid \in BOOLEAN, Next
  PROVE  runs' \in 0..MaxRuns /\ unpaid' \in BOOLEAN
<1>1. runs' = runs \/ (runs < MaxRuns /\ runs' = runs + 1)
  <2>1. \A c \in Clients : Create(c) =>
          runs' = runs \/ (runs < MaxRuns /\ runs' = runs + 1)
    BY DEF Create, Offer, Claim, Refused, EnterSlot, SlotBusy, SetupEnds, OwnEnds,
           SetupFails, Vet, Confirm, Store
  <2>2. PollDue => runs' = runs \/ (runs < MaxRuns /\ runs' = runs + 1)
    BY DEF PollDue, PollStart, PollOne, PollEnds, PollCut, CheckStart, CheckEnds
  <2>3. World => runs' = runs
    BY DEF World, Follow, Unfollow, MarkServed, GracePasses,
           DeleteUnfollowedWebSources, Restart
  <2>4. QED
    BY <2>1, <2>2, <2>3 DEF Next
<1>2. unpaid' \in BOOLEAN
  <2>1. \A c \in Clients : Create(c) => unpaid' \in BOOLEAN
    BY DEF Create, Offer, Claim, Refused, EnterSlot, SlotBusy, SetupEnds, OwnEnds,
           SetupFails, Vet, Confirm, Store
  <2>2. PollDue => unpaid' \in BOOLEAN
    BY DEF PollDue, PollStart, PollOne, PollEnds, PollCut, CheckStart, CheckEnds
  <2>3. World => unpaid' \in BOOLEAN
    BY DEF World, Follow, Unfollow, MarkServed, GracePasses,
           DeleteUnfollowedWebSources, Restart
  <2>4. QED
    BY <2>1, <2>2, <2>3 DEF Next
<1>3. QED
  BY <1>1, <1>2, Bounds

LEMMA IndInit == Init => IInv
<1> SUFFICES ASSUME Init PROVE IInv
  OBVIOUS
<1>1. /\ aliases = [k \in Keys |-> None] /\ follows = [s \in Ids |-> {}]
      /\ spent = 0 /\ req = [c \in Clients |-> IdleReq] /\ poll = IdlePoll
      /\ runs = 0 /\ unpaid = FALSE
      /\ \/ sources = [s \in Ids |-> None]
         \/ \E i \in Ids, r \in LegacyRows :
              sources = [[s \in Ids |-> None] EXCEPT ![i] = r]
  BY DEF Init
<1>2. /\ sources \in [Ids -> Row \cup {None}]
      /\ \/ \A s \in Ids : sources[s] = None
         \/ \E i \in Ids, r \in LegacyRows :
              sources[i] = r /\ \A s \in Ids \ {i} : sources[s] = None
  <2>1. CASE sources = [s \in Ids |-> None]
    BY <2>1
  <2>2. ASSUME NEW i \in Ids, NEW r \in LegacyRows,
               sources = [[s \in Ids |-> None] EXCEPT ![i] = r]
        PROVE  /\ sources \in [Ids -> Row \cup {None}] /\ sources[i] = r
               /\ \A s \in Ids \ {i} : sources[s] = None
    <3>1. r \in Row
      BY LegacyAssumption
    <3>2. QED
      BY <2>2, <3>1
  <2>3. QED
    BY <1>1, <2>1, <2>2
<1>3. PICK rows \in SUBSET Ids :
        /\ rows = RowsOf(sources) /\ IsFiniteSet(rows) /\ Cardinality(rows) \in {0, 1}
        /\ \A s, t \in rows : s = t
        /\ \A s \in rows : sources[s] \in LegacyRows
  <2>1. CASE \A s \in Ids : sources[s] = None
    <3>1. RowsOf(sources) = {}
      BY <2>1 DEF RowsOf
    <3>2. IsFiniteSet({}) /\ Cardinality({}) = 0
      BY FS_EmptySet
    <3>3. QED
      BY <3>1, <3>2
  <2>2. ASSUME NEW i \in Ids, sources[i] \in LegacyRows,
               \A s \in Ids \ {i} : sources[s] = None
        PROVE  RowsOf(sources) = {i} /\ IsFiniteSet({i}) /\ Cardinality({i}) = 1
    <3>1. sources[i] # None
      BY <2>2, LegacyAssumption
    <3>2. RowsOf(sources) = {i}
      BY <2>2, <3>1 DEF RowsOf
    <3>3. QED
      BY <3>2, FS_Singleton
  <2>3. CASE \E i \in Ids, r \in LegacyRows :
               sources[i] = r /\ \A s \in Ids \ {i} : sources[s] = None
    <3>1. PICK i \in Ids : /\ sources[i] \in LegacyRows
                           /\ \A s \in Ids \ {i} : sources[s] = None
      BY <2>3
    <3>2. RowsOf(sources) = {i} /\ IsFiniteSet({i}) /\ Cardinality({i}) = 1
      BY <2>2, <3>1
    <3>3. QED
      BY <3>1, <3>2
  <2>4. QED
    BY <1>2, <2>1, <2>3
<1>4. TablesOK(sources, aliases)
  <2>1. aliases \in [Keys -> Ids \cup {None}] /\ \A k \in Keys : aliases[k] = None
    BY <1>1
  <2>2. \A s \in RowsOf(sources) :
          sources[s].key \in Keys /\ rank(sources[s].health) <= rank(sources[s].setup)
    BY <1>3, LegacyAssumption DEF Row
  <2>3. QED
    BY <1>2, <1>3, <2>1, <2>2 DEF TablesOK
<1>5. Others
  <2>1. req \in [Clients -> Request] /\ poll \in Poll
    BY <1>1, IdleFacts
  <2>2. follows \in [Ids -> SUBSET Readers]
    BY <1>1
  <2>3. MaxRuns \in Nat
    BY Bounds
  <2>4. spent \in Nat /\ runs \in 0..MaxRuns
    BY <1>1, <2>3
  <2>5. unpaid \in BOOLEAN
    BY <1>1
  <2>6. QED
    BY <2>1, <2>2, <2>4, <2>5 DEF Others
<1>6. \A c \in Clients : req[c] = IdleReq
  BY <1>1
<1>7. /\ \A c \in Clients : RequestFounded(sources, req[c])
      /\ OneClaim /\ \A c \in Clients : ~Creates(req[c])
  BY <1>6, IdleFacts DEF OneClaim, Creates
<1>8. PollFounded
  BY <1>1 DEF PollFounded, IdlePoll
<1>9. UnderCap
  <2>1. ASSUME NEW did \in Readers
        PROVE  Cardinality(Made(sources, did)) <= DailySources
    <3>1. PICK made : made = Made(sources, did)
      OBVIOUS
    <3>2. made \in SUBSET rows
      BY <1>3, <3>1 DEF Made, RowsOf
    <3>3. Cardinality(made) \in Nat /\ Cardinality(made) <= Cardinality(rows)
      BY <1>3, <3>2, FS_Subset, FS_CardinalityType
    <3>4. CASE made = {}
      BY <3>1, <3>4, FS_EmptySet, Bounds
    <3>5. CASE made # {}
      <4>1. PICK s \in rows : sources[s].by = did
        BY <3>1, <3>2, <3>5 DEF Made
      <4>2. DailySources > 0
        BY <1>3, <4>1, LegacyAssumption, NoneIsNothing
      <4>3. QED
        BY <1>3, <3>1, <3>3, <4>2, Bounds
    <3>6. QED
      BY <3>4, <3>5
  <2>2. QED
    BY <1>7, <2>1 DEF UnderCap
<1>10. WithinBudget
  <2>1. Owing = {}
    BY <1>6, IdleFacts DEF Owing
  <2>2. PollMayCost = 0
    BY <1>1 DEF PollMayCost, IdlePoll
  <2>3. Worth(Owing) = 0
    BY <2>1, NoReaders
  <2>4. QED
    BY <1>1, <2>2, <2>3, Bounds DEF WithinBudget
<1>11. QED
  BY <1>4, <1>5, <1>7, <1>8, <1>9, <1>10 DEF IInv

LEMMA IndStep == IInv /\ [Next]_vars => IInv'
<1> SUFFICES ASSUME IInv, [Next]_vars PROVE IInv'
  OBVIOUS
<1>1. CASE Next
  <2>1. /\ TablesOK(sources', aliases')
        /\ Requests' /\ PollFounded' /\ WithinBudget' /\ poll' \in Poll
    BY <1>1, StepKeeps
  <2>2. /\ req' \in [Clients -> Request]
        /\ (\A c \in Clients : RequestFounded(sources, req[c]))'
        /\ OneClaim' /\ UnderCap'
    BY <2>1 DEF Requests
  <2>3. follows' \in [Ids -> SUBSET Readers]
    BY <1>1, FollowsTyped DEF IInv, Others
  <2>4. spent' \in Nat /\ runs' \in 0..MaxRuns /\ unpaid' \in BOOLEAN
    BY <1>1, SpentTyped, RunsTyped DEF IInv, Others
  <2>5. Others'
    BY <2>1, <2>2, <2>3, <2>4 DEF Others
  <2>6. TablesOK(sources, aliases)'
    BY <2>1 DEF TablesOK, RowsOf
  <2>7. QED
    BY <2>1, <2>2, <2>5, <2>6 DEF IInv
<1>2. CASE UNCHANGED vars
  <2>1. /\ sources' = sources /\ aliases' = aliases /\ follows' = follows
        /\ spent' = spent /\ req' = req /\ poll' = poll /\ runs' = runs
        /\ unpaid' = unpaid
    BY <1>2 DEF vars
  <2>2. TablesOK(sources, aliases)' /\ Others'
    BY <2>1 DEF IInv, TablesOK, RowsOf, Others
  <2>3. (\A c \in Clients : RequestFounded(sources, req[c]))'
    BY <2>1 DEF IInv, RequestFounded, improves
  <2>4. PollFounded' /\ OneClaim'
    BY <2>1 DEF IInv, PollFounded, OneClaim, Claimed
  <2>5. UnderCap'
    BY <2>1 DEF IInv, UnderCap, Creates, Claimed, Made
  <2>6. WithinBudget'
    BY <2>1, BudgetRests
  <2>7. QED
    BY <2>2, <2>3, <2>4, <2>5, <2>6 DEF IInv
<1>3. QED
  BY <1>1, <1>2

(* The tables, requests and the poll have their types in every state.      *)
THEOREM TypeCorrect == Spec => []TypeOK
<1>1. IInv => TypeOK
  BY DEF IInv, TablesOK, Others, TypeOK, RowsOf, SourceRows
<1>2. QED
  BY <1>1, IndInit, IndStep, PTL DEF Spec

(* A pasted key keeps the source it found, for as long as that is there:   *)
(* no setup, move to a section page or sweep gives it another.             *)
THEOREM KeysKept == Spec => KeysStay
<1>1. ASSUME IInv, [Next]_vars, NEW k \in Keys
      PROVE  GetWebSourceByKey(k) # None /\ sources'[GetWebSourceByKey(k)] # None
               => GetWebSourceByKey(k)' = GetWebSourceByKey(k)
  <2>1. PICK s \in Ids \cup {None} : s = GetWebSourceByKey(k)
    BY <1>1, KeyFinds DEF IInv
  <2>2. SUFFICES ASSUME s \in Ids, sources'[s] # None
                 PROVE  GetWebSourceByKey(k)' = s
    BY <2>1
  <2>3. /\ TablesOK(sources', aliases')
        /\ Hold(sources, aliases, sources', aliases')
    <3>1. CASE Next
      BY <1>1, <3>1, StepKeeps
    <3>2. CASE UNCHANGED vars
      BY <1>1, <3>2, TablesStand DEF IInv, vars
    <3>3. QED
      BY <1>1, <3>1, <3>2
  <2>4. Answers(sources, aliases, k, s)
    BY <1>1, <2>1, <2>2, KeyFinds DEF IInv
  <2>5. Answers(sources', aliases', k, s)
    BY <2>2, <2>3, <2>4 DEF Hold
  <2>6. QED
    BY <2>2, <2>3, <2>5, KeyFindsNext
<1>2. IInv /\ [Next]_vars =>
        \A k \in Keys :
          LET s == GetWebSourceByKey(k)
          IN  s # None /\ sources'[s] # None => GetWebSourceByKey(k)' = s
  BY <1>1
<1>3. QED
  BY <1>2, IndInit, IndStep, PTL DEF Spec, KeysStay

(* A reader's post replaces a list that others followed when it was vetted *)
(* only once the model agreed: polls and other setups in between only make *)
(* the source harder to improve on.                                        *)
THEOREM ListsAreVetted == Spec => ReplacedOnlyOnceVetted
<1>1. ASSUME IInv, [Next]_vars, NEW c \in Clients,
             req[c].pc = "store", req'[c].pc = "idle", Regenerates(c),
             sources'[req[c].id].seq # sources[req[c].id].seq
      PROVE  ~req[c].unvetted
  <2>1. req[c].id # None /\ req'[c] # req[c] /\ sources' # sources
    BY <1>1 DEF Regenerates
  <2>2. ASSUME NEW b \in Clients, Create(b)
        PROVE  b = c /\ Store(c)
    <3>1. \E x : req' = [req EXCEPT ![b] = x]
      BY <2>2, RequestFacts, <1>1
      DEF Create, Offer, Claim, Refused, EnterSlot, SlotBusy, SetupEnds, OwnEnds,
          SetupFails, Vet, Confirm, Store, Answered
    <3>2. b = c
      BY <1>1, <2>1, <3>1, RequestFacts
    <3>3. QED
      BY <1>1, <2>2, <3>2
      DEF Create, Offer, Claim, Refused, EnterSlot, SlotBusy, SetupEnds, OwnEnds,
          SetupFails, Vet, Confirm
  <2>3. ~PollDue
    BY <2>1 DEF PollDue, PollStart, PollOne, PollEnds, PollCut, CheckStart, CheckEnds
  <2>4. ~World
    BY <2>1 DEF World, Follow, Unfollow, MarkServed, GracePasses,
                DeleteUnfollowedWebSources, Restart, tables
  <2>5. ~UNCHANGED vars
    BY <2>1 DEF vars
  <2>6. Store(c)
    BY <1>1, <2>2, <2>3, <2>4, <2>5 DEF Next
  <2>7. QED
    BY <1>1, <2>1, <2>6, Stores
<1>2. IInv /\ [Next]_vars =>
        \A c \in Clients :
          /\ req[c].pc = "store" /\ req'[c].pc = "idle" /\ Regenerates(c)
          /\ sources'[req[c].id] # None
          /\ sources'[req[c].id].seq # sources[req[c].id].seq
          => ~req[c].unvetted
  BY <1>1
<1>3. QED
  BY <1>2, IndInit, IndStep, PTL DEF Spec, ReplacedOnlyOnceVetted

(* A reader never has more sources of a day than the cap, though the cap   *)
(* is read before the setup and the source is counted after it.            *)
THEOREM DailyCapIsHeld == Spec => []DailyCapHolds
<1>1. IInv => DailyCapHolds
  <2>1. \A d \in Readers : CreatedBy(d) = Made(sources, d)
    BY DEF CreatedBy, Made, SourceRows
  <2>2. QED
    BY <2>1 DEF IInv, UnderCap, DailyCapHolds
<1>2. QED
  BY <1>1, IndInit, IndStep, PTL DEF Spec

(* What a day's setups, looks and polls spend passes the model's budget by *)
(* no more than a setup of each reader and one poll were allowed when the  *)
(* budget was last asked, whatever number of calls a setup makes.          *)
THEOREM SpendHasABound == Spec => []SpendIsBounded
<1>1. IInv => SpendIsBounded
  <2> SUFFICES ASSUME IInv PROVE SpendIsBounded
    OBVIOUS
  <2>1. spent \in Nat /\ spent + Worth(Owing) + PollMayCost <= Budget
    BY DEF IInv, Others, WithinBudget
  <2>2. spent <= ModelDaily + Worth(Readers) + SetupCalls
    BY <2>1, Owed, Bounds
  <2>3. PICK n \in Nat : n = Cardinality(Readers)
    BY Bounds
  <2>4. Worth(Readers) + SetupCalls = (n + 1) * SetupCalls
    <3>1. (n + 1) * SetupCalls = SetupCalls * n + SetupCalls
      BY <2>3, Bounds
    <3>2. QED
      BY <2>3, <3>1 DEF Worth
  <2>5. (n + 1) * SetupCalls \in Nat
    BY <2>3, Bounds
  <2>6. spent <= ModelDaily + (n + 1) * SetupCalls
    BY <2>1, <2>2, <2>4, <2>5, Bounds
  <2>7. QED
    BY <2>3, <2>6 DEF SpendIsBounded
<1>2. QED
  BY <1>1, IndInit, IndStep, PTL DEF Spec
=============================================================================
