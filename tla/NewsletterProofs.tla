-------------------------- MODULE NewsletterProofs --------------------------
(***************************************************************************)
(* Proofs about Newsletter for every set of readers, senders and mails and *)
(* every bound.  A step of a request changes rows in few ways, which       *)
(* RowsEvolve names; most of the inductive invariant IInv follows from     *)
(* that alone, and what is left is shown action by action.                 *)
(***************************************************************************)
EXTENDS NewsletterViews, FiniteSetTheorems, TLAPS

LEMMA Bounds ==
    /\ MaxStamp \in Nat /\ MaxFailures \in Nat
    /\ None \notin Owners /\ None \notin Senders /\ None \notin SourceIds
    /\ None \notin MessageIds /\ None \notin SaveIds
    /\ None \notin Source /\ None \notin Message /\ None \notin Receipt
    /\ SenderOf \in [Mails -> Senders]
  BY NewsletterAssumption, NoRowIsNone

LEMMA IdleTypes == IdleReq \in Request /\ IdleSession \in Session
  BY DEF IdleReq, Request, IdleSession, Session

(* A row stays its owner's; its key may go, and a source that takes mail   *)
(* again takes none from before now.                                       *)
SourcesEvolve ==
    \A s \in SourceIds : sources'[s] # None =>
        \/ /\ NewSource(s)
           /\ sources'[s].key = None
           /\ sources'[s].status = "active"
           /\ ~sources'[s].deleted
        \/ /\ sources[s] # None
           /\ sources'[s].owner = sources[s].owner
           /\ sources'[s].key \in {sources[s].key, None}
           /\ \/ sources'[s].status = "stopped"
              \/ sources'[s].acceptAfter > clock
              \/ /\ sources'[s].status = sources[s].status
                 /\ sources'[s].acceptAfter = sources[s].acceptAfter

MessagesEvolve ==
    \A m \in MessageIds : messages'[m] # None =>
        /\ messages[m] # None
        /\ messages'[m].owner = messages[m].owner
        /\ messages'[m].mail = messages[m].mail

RowsAreTyped ==
    /\ sources' \in [SourceIds -> Source \cup {None}]
    /\ messages' \in [MessageIds -> Message \cup {None}]
    /\ saves' \in [MessageIds -> SaveIds \cup {None}]
    /\ \A m \in MessageIds : messages'[m] # None =>
         /\ sources'[messages'[m].source] # None
         /\ sources'[messages'[m].source].owner = messages'[m].owner
    /\ \A m \in MessageIds : messages'[m] = None => saves'[m] = None

RowsEvolve == SourcesEvolve /\ MessagesEvolve /\ RowsAreTyped

RequestsEnd == \A c \in Clients : req'[c] \in {req[c], IdleReq}

-----------------------------------------------------------------------------
(* What follows from RowsEvolve.                                           *)

LEMMA KeysStayUnique ==
  ASSUME TypeOK, RowsEvolve
  PROVE  UniqueKeys'
<1> USE Bounds
<1>1. ASSUME NEW s \in SourceIds, NEW t \in SourceIds,
             sources'[s] # None, sources'[t] # None,
             sources'[s].key # None, sources'[s].key = sources'[t].key,
             sources'[s].owner = sources'[t].owner
      PROVE  s = t
  <2>1. /\ sources[s] # None /\ sources'[s].owner = sources[s].owner
        /\ sources'[s].key = sources[s].key
    BY <1>1 DEF RowsEvolve, SourcesEvolve
  <2>2. /\ sources[t] # None /\ sources'[t].owner = sources[t].owner
        /\ sources'[t].key = sources[t].key
    BY <1>1 DEF RowsEvolve, SourcesEvolve
  <2>3. /\ s \in SourceRows /\ t \in SourceRows
        /\ sources[s].key # None /\ sources[s].key = sources[t].key
        /\ sources[s].owner = sources[t].owner
    BY <1>1, <2>1, <2>2 DEF SourceRows
  <2>4. \A x, y \in SourceRows :
          sources[x].key # None /\ sources[x].key = sources[y].key
          /\ sources[x].owner = sources[y].owner => x = y
    BY DEF TypeOK, UniqueKeys
  <2>5. QED
    BY <2>3, <2>4
<1>2. ASSUME NEW m \in MessageIds, NEW n \in MessageIds,
             messages'[m] # None, messages'[n] # None,
             messages'[m].mail = messages'[n].mail,
             messages'[m].owner = messages'[n].owner
      PROVE  m = n
  BY <1>2 DEF TypeOK, UniqueKeys, MessageRows, RowsEvolve, MessagesEvolve
<1>3. ASSUME NEW m \in MessageIds, messages'[m] # None
      PROVE  /\ messages'[m].source \in SourceIds
             /\ sources'[messages'[m].source] # None
             /\ sources'[messages'[m].source].owner = messages'[m].owner
  <2>1. messages'[m] \in Message
    BY <1>3 DEF RowsEvolve, RowsAreTyped
  <2>2. QED
    BY <1>3, <2>1 DEF RowsEvolve, RowsAreTyped, Message
<1>4. \A m \in MessageIds : messages'[m] = None => saves'[m] = None
  BY DEF RowsEvolve, RowsAreTyped
<1>5. QED
  BY <1>1, <1>2, <1>3, <1>4 DEF UniqueKeys, SourceRows, MessageRows

LEMMA RequestsStayFounded ==
  ASSUME TypeOK, RequestsAreFounded, SourcesEvolve, MessagesEvolve, RequestsEnd
  PROVE  RequestsAreFounded'
<1> USE Bounds
<1>1. SUFFICES ASSUME NEW c \in Clients
      PROVE  /\ req'[c].op # "none" => req'[c].owner \in Owners
             /\ req'[c].op \in {"stop", "enable", "move"} =>
                  req'[c].source \in SourceIds
             /\ req'[c].op \in {"move", "moveNew", "unsave"} =>
                  req'[c].message \in MessageIds
             /\ req'[c].source \in SourceIds /\ sources'[req'[c].source] # None
                => sources'[req'[c].source].owner = req'[c].owner
             /\ req'[c].message \in MessageIds /\ messages'[req'[c].message] # None
                => messages'[req'[c].message].owner = req'[c].owner
  BY DEF RequestsAreFounded, SourceRows, MessageRows
<1>2. CASE req'[c] = IdleReq
  BY <1>2 DEF IdleReq
<1>3. CASE req'[c] = req[c]
  <2>1. req[c].source \in SourceIds /\ sources'[req[c].source] # None =>
          /\ sources[req[c].source] # None
          /\ sources'[req[c].source].owner = sources[req[c].source].owner
    BY DEF SourcesEvolve, NewSource
  <2>2. req[c].message \in MessageIds /\ messages'[req[c].message] # None =>
          /\ messages[req[c].message] # None
          /\ messages'[req[c].message].owner = messages[req[c].message].owner
    BY DEF MessagesEvolve
  <2>3. QED
    BY <1>3, <2>1, <2>2 DEF RequestsAreFounded, SourceRows, MessageRows
<1>4. QED
  BY <1>2, <1>3 DEF RequestsEnd

LEMMA StopsStayRemembered ==
  ASSUME TypeOK, StampsAreUsedOnce, StopsAreRemembered, SourcesEvolve,
         sources' \in [SourceIds -> Source \cup {None}],
         UNCHANGED <<receipts, smtp>>
  PROVE  StopsAreRemembered'
<1> USE Bounds
<1>1. ASSUME NEW s \in SourceIds, NEW t \in Nat, t <= clock,
             TakesNothingFrom(s, t), ~NewSource(s), sources'[s] # None
      PROVE  sources'[s].status = "stopped" \/ sources'[s].acceptAfter > t
  <2>1. sources[s] # None /\ sources[s] \in Source
    BY <1>1 DEF SourcesEvolve, TypeOK
  <2>2. sources[s].acceptAfter \in Nat /\ clock \in Nat
    BY <2>1 DEF Source, TypeOK, Stamps
  <2>3. sources[s].status = "stopped" \/ sources[s].acceptAfter > t
    BY <1>1, <2>1 DEF TakesNothingFrom, SourceRows
  <2>4. CASE sources'[s].acceptAfter > clock
    <3>1. sources'[s] \in Source
      BY <1>1
    <3>2. sources'[s].acceptAfter \in Nat
      BY <3>1 DEF Source, Stamps
    <3>3. QED
      BY <1>1, <2>2, <2>4, <3>2
  <2>5. QED
    BY <1>1, <2>1, <2>3, <2>4 DEF SourcesEvolve
<1>2. ASSUME NEW r \in ReceiptRows, NEW s \in receipts[r].stopped
      PROVE  s \in SourceIds /\ sources'[s] # None =>
               sources'[s].status = "stopped" \/ sources'[s].acceptAfter > r[1]
  <2>1. r[1] \in Nat /\ r[1] <= clock /\ TakesNothingFrom(s, r[1])
    BY DEF StampsAreUsedOnce, StopsAreRemembered, ReceiptRows, Stamps
  <2>2. ~NewSource(s)
    BY DEF NewSource
  <2>3. QED
    BY <1>1, <2>1, <2>2
<1>3. ASSUME NEW s \in smtp.stopped
      PROVE  s \in SourceIds /\ sources'[s] # None =>
               sources'[s].status = "stopped" \/ sources'[s].acceptAfter > smtp.now
  <2>1. smtp.now \in Nat /\ smtp.now <= clock /\ TakesNothingFrom(s, smtp.now)
    BY DEF StampsAreUsedOnce, StopsAreRemembered, TypeOK, Session, Stamps
  <2>2. ~NewSource(s)
    BY DEF NewSource
  <2>3. QED
    BY <1>1, <2>1, <2>2
<1>4. QED
  BY <1>2, <1>3 DEF StopsAreRemembered, TakesNothingFrom, ReceiptRows, SourceRows

LEMMA PromisesStayHeld ==
  ASSUME TypeOK, PromisesHold, SourcesEvolve,
         UNCHANGED receipts, promised' \subseteq promised,
         \A r \in promised' : \A s \in SourcesByKey(r[2], receipts[r].mail) :
            sources'[s] # None /\ sources'[s].key # None =>
              sources'[s].status \in {sources[s].status, "active"}
  PROVE  PromisesHold'
<1> USE Bounds
<1>1. SUFFICES ASSUME NEW r \in promised', NEW s \in SourceIds,
                      sources'[s] # None, sources'[s].owner = r[2],
                      sources'[s].key = SenderOf[receipts[r].mail]
               PROVE  sources'[s].status = "active"
  BY DEF PromisesHold, SourcesByKey, SourceRows
<1>2. receipts[r].mail \in Mails
  BY DEF TypeOK, ReceiptRows, Receipt
<1>3. sources'[s].key # None
  BY <1>1, <1>2
<1>4. s \in SourcesByKey(r[2], receipts[r].mail)
  BY <1>1, <1>3 DEF SourcesEvolve, SourcesByKey, SourceRows
<1>5. QED
  BY <1>1, <1>3, <1>4 DEF PromisesHold

(* What a sweep leaves.                                                    *)
LEMMA SweptFacts ==
  ASSUME NEW src \in [SourceIds -> Source \cup {None}], NEW msg, NEW o
  PROVE  /\ SweptSources(src, msg, o) \in [SourceIds -> Source \cup {None}]
         /\ \A s \in SourceIds : SweptSources(src, msg, o)[s] \in {src[s], None}
         /\ \A m \in MessageIds : msg[m] # None /\ msg[m].source \in SourceIds =>
              SweptSources(src, msg, o)[msg[m].source] = src[msg[m].source]
         /\ \A s \in SourceIds :
              /\ SweptSources(src, msg, o)[s] # None
              /\ src[s].deleted /\ src[s].owner = o
              => \E m \in MessageIds : msg[m] # None /\ msg[m].source = s
  BY DEF SweptSources

LEMMA Remembered ==
  ASSUME NEW l \in SUBSET SourceIds, Remember(l)
  PROVE  /\ late' \subseteq SourceRows'
         /\ \A s \in SourceIds : sources'[s] # None => (s \in late' <=> s \in l)
  BY DEF Remember, SourceRows

(* The three parts that are about stopped and deleted sources.             *)
Housekeeping ==
    DeletedRowsAreHidden /\ StoppedKeepsSaved /\ HiddenRowHoldsMessage

-----------------------------------------------------------------------------
(* DeleteSource.                                                           *)

LEMMA DeleteSourceRows ==
  ASSUME TypeOK, Housekeeping, DeleteSource
  PROVE  /\ RowsEvolve
         /\ Housekeeping'
         /\ late' \subseteq SourceRows'
         /\ \A t \in SourceIds : sources'[t] # None /\ sources'[t].key # None =>
              sources'[t].status = sources[t].status
<1> USE Bounds
<1>1. PICK s \in SourceRows :
        /\ ~sources[s].deleted
        /\ messages' = WithoutUnsaved(s)
        /\ sources' = SweptSources(
              [sources EXCEPT ![s] = [@ EXCEPT !.status = "stopped",
                                      !.key = FreedKey(s), !.deleted = TRUE]],
              messages', sources[s].owner)
        /\ Cascade(saves)
        /\ Remember(late)
  BY DEF DeleteSource
<1>2. s \in SourceIds /\ sources[s] \in Source
  BY DEF SourceRows, TypeOK
<1> DEFINE src == [sources EXCEPT ![s] = [@ EXCEPT !.status = "stopped",
                                      !.key = FreedKey(s), !.deleted = TRUE]]
           o == sources[s].owner
<1>3. /\ src[s] \in Source
      /\ src[s].owner = o /\ src[s].key = None /\ src[s].deleted
      /\ src[s].status = "stopped"
  BY <1>2 DEF Source, FreedKey, TypeOK
<1>4. \A t \in SourceIds : t # s => src[t] = sources[t]
  OBVIOUS
<1>5. src \in [SourceIds -> Source \cup {None}]
  BY <1>2, <1>3 DEF TypeOK
<1> HIDE DEF src
<1>6. sources' = SweptSources(src, messages', o)
  BY <1>1 DEF src
<1>7. /\ sources' \in [SourceIds -> Source \cup {None}]
      /\ \A t \in SourceIds : sources'[t] \in {src[t], None}
      /\ \A m \in MessageIds : messages'[m] # None /\ messages'[m].source \in SourceIds =>
           sources'[messages'[m].source] = src[messages'[m].source]
      /\ \A t \in SourceIds : sources'[t] # None /\ src[t].deleted /\ src[t].owner = o
           => \E m \in MessageIds : messages'[m] # None /\ messages'[m].source = t
  BY <1>5, <1>6, SweptFacts
<1>8. \A m \in MessageIds :
        /\ messages'[m] \in {messages[m], None}
        /\ messages'[m] = None <=>
             (messages[m] = None \/ (messages[m].source = s /\ saves[m] = None))
        /\ saves'[m] = IF messages'[m] = None THEN None ELSE saves[m]
  BY <1>1 DEF WithoutUnsaved, MessageRows, Unsaved, Cascade
<1>9. messages' \in [MessageIds -> Message \cup {None}]
      /\ saves' \in [MessageIds -> SaveIds \cup {None}]
  BY <1>1, <1>8 DEF WithoutUnsaved, Cascade, TypeOK, MessageRows
<1>10. SourcesEvolve
  BY <1>2, <1>3, <1>4, <1>7 DEF SourcesEvolve, SourceRows
<1>11. MessagesEvolve
  BY <1>8 DEF MessagesEvolve
<1>12. \A m \in MessageIds : messages'[m] # None =>
         /\ messages[m].source \in SourceIds
         /\ messages'[m].source = messages[m].source
         /\ sources'[messages[m].source] = src[messages[m].source]
         /\ sources[messages[m].source] # None
         /\ sources[messages[m].source].owner = messages[m].owner
  BY <1>7, <1>8 DEF TypeOK, UniqueKeys, MessageRows, SourceRows
<1>13. RowsAreTyped
  BY <1>2, <1>3, <1>4, <1>7, <1>8, <1>9, <1>12 DEF RowsAreTyped
<1>14. /\ late' \subseteq SourceRows'
       /\ \A t \in SourceIds : sources'[t] # None => (t \in late' <=> t \in late)
  BY <1>1, Remembered DEF TypeOK, SourceRows
<1>15. DeletedRowsAreHidden'
  BY <1>3, <1>4, <1>7, <1>14
  DEF Housekeeping, DeletedRowsAreHidden, SourceRows
<1>16. StoppedKeepsSaved'
  BY <1>3, <1>4, <1>8, <1>12, <1>14
  DEF Housekeeping, StoppedKeepsSaved, MessageRows, Unsaved
<1>17. HiddenRowHoldsMessage'
  BY <1>3, <1>4, <1>7, <1>8, <1>14
  DEF Housekeeping, HiddenRowHoldsMessage, MessageRows, SourceRows
<1>18. \A t \in SourceIds : sources'[t] # None /\ sources'[t].key # None =>
         sources'[t].status = sources[t].status
  BY <1>3, <1>4, <1>7
<1>19. QED
  BY <1>10, <1>11, <1>13, <1>14, <1>15, <1>16, <1>17, <1>18
  DEF RowsEvolve, Housekeeping

-----------------------------------------------------------------------------
(* StopSource sweeps nothing: what is hidden holds saved messages only.    *)

LEMMA StopSourceRows ==
  ASSUME TypeOK, RequestsAreFounded, Housekeeping,
         NEW c \in Clients, StopSource(c)
  PROVE  RowsEvolve /\ Housekeeping' /\ late' \subseteq SourceRows'
<1> USE Bounds
<1> DEFINE s == req[c].source
<1>1. /\ s \in SourceIds /\ sources[s] # None /\ sources[s] \in Source
  BY DEF StopSource, TypeOK, RequestsAreFounded
<1>2. /\ sources' \in [SourceIds -> Source \cup {None}]
      /\ sources'[s] # None /\ sources'[s].status = "stopped"
      /\ sources'[s].owner = sources[s].owner
      /\ sources'[s].key = sources[s].key
      /\ sources'[s].deleted = sources[s].deleted
      /\ \A t \in SourceIds : t # s => sources'[t] = sources[t]
  <2>1. [sources[s] EXCEPT !.status = "stopped"] \in Source
    BY <1>1 DEF Source
  <2>2. sources' = [sources EXCEPT ![s] = [sources[s] EXCEPT !.status = "stopped"]]
    BY DEF StopSource
  <2>3. QED
    BY <1>1, <2>1, <2>2 DEF TypeOK, Source
<1>3. \A m \in MessageIds :
        /\ messages'[m] \in {messages[m], None}
        /\ messages'[m] = None <=>
             (messages[m] = None \/ (messages[m].source = s /\ saves[m] = None))
        /\ saves'[m] = IF messages'[m] = None THEN None ELSE saves[m]
  BY DEF StopSource, WithoutUnsaved, MessageRows, Unsaved, Cascade
<1>4. messages' \in [MessageIds -> Message \cup {None}]
      /\ saves' \in [MessageIds -> SaveIds \cup {None}]
  BY <1>3 DEF StopSource, WithoutUnsaved, Cascade, TypeOK, MessageRows
<1> HIDE DEF s
<1>5. \A m \in MessageIds : messages'[m] # None =>
         /\ messages[m].source \in SourceIds
         /\ messages'[m].source = messages[m].source
         /\ sources[messages[m].source] # None
         /\ sources[messages[m].source].owner = messages[m].owner
  BY <1>3 DEF TypeOK, UniqueKeys, MessageRows, SourceRows
<1>6. SourcesEvolve /\ MessagesEvolve
  BY <1>1, <1>2, <1>3 DEF SourcesEvolve, MessagesEvolve
<1>7. RowsAreTyped
  BY <1>2, <1>3, <1>4, <1>5 DEF RowsAreTyped
<1>8. late' = late /\ late' \subseteq SourceRows'
  BY <1>2 DEF StopSource, TypeOK, SourceRows
<1>9. DeletedRowsAreHidden'
  BY <1>1, <1>2, <1>8 DEF Housekeeping, DeletedRowsAreHidden, SourceRows
<1>10. StoppedKeepsSaved'
  BY <1>1, <1>2, <1>3, <1>5, <1>8
  DEF Housekeeping, StoppedKeepsSaved, MessageRows, Unsaved
<1>11. HiddenRowHoldsMessage'
  <2> SUFFICES ASSUME NEW t \in SourceIds, sources'[t] # None,
                      sources'[t].deleted, t \notin late
               PROVE  \E m \in MessageIds :
                         messages'[m] # None /\ messages'[m].source = t
    BY <1>8 DEF HiddenRowHoldsMessage, SourceRows, MessageRows
  <2>1. sources[t] # None /\ sources[t].deleted
    BY <1>1, <1>2
  <2>2. PICK m \in MessageRows : messages[m].source = t
    BY <2>1 DEF Housekeeping, HiddenRowHoldsMessage, SourceRows
  <2>3. sources[t].status = "stopped"
    BY <2>1 DEF Housekeeping, DeletedRowsAreHidden, SourceRows
  <2>4. saves[m] # None
    BY <2>2, <2>3 DEF Housekeeping, StoppedKeepsSaved, Unsaved
  <2>5. QED
    BY <1>3, <2>2, <2>4 DEF MessageRows
<1>12. QED
  BY <1>6, <1>7, <1>8, <1>9, <1>10, <1>11 DEF RowsEvolve, Housekeeping

-----------------------------------------------------------------------------
(* EnableSource.                                                           *)

LEMMA EnableSourceRows ==
  ASSUME TypeOK, RequestsAreFounded, Housekeeping,
         NEW c \in Clients, EnableSource(c)
  PROVE  /\ RowsEvolve
         /\ Housekeeping'
         /\ late' \subseteq SourceRows'
         /\ \A t \in SourceIds : sources'[t] # None =>
              sources'[t].status \in {sources[t].status, "active"}
<1> USE Bounds
<1> DEFINE s == req[c].source
           l == IF sources[s].deleted THEN late \cup {s} ELSE late
<1>1. /\ s \in SourceIds /\ sources[s] # None /\ sources[s] \in Source
  BY DEF EnableSource, TypeOK, RequestsAreFounded
<1>2. clock \in Nat /\ clock + 1 \in Stamps /\ clock + 1 > clock
  BY DEF EnableSource, TypeOK, Stamps
<1>3. /\ sources' \in [SourceIds -> Source \cup {None}]
      /\ sources'[s] # None /\ sources'[s].status = "active"
      /\ sources'[s].owner = sources[s].owner
      /\ sources'[s].key = sources[s].key
      /\ sources'[s].deleted = sources[s].deleted
      /\ sources'[s].acceptAfter > clock
      /\ \A t \in SourceIds : t # s => sources'[t] = sources[t]
  <2> DEFINE row == [sources[s] EXCEPT !.status = "active",
                                       !.acceptAfter = clock + 1]
  <2>1. row \in Source
    BY <1>1, <1>2 DEF Source
  <2>2. sources' = [sources EXCEPT ![s] = row]
    BY DEF EnableSource
  <2>3. /\ row.status = "active" /\ row.owner = sources[s].owner
        /\ row.key = sources[s].key /\ row.deleted = sources[s].deleted
        /\ row.acceptAfter = clock + 1
    BY <1>1 DEF Source
  <2> HIDE DEF row
  <2>4. QED
    BY <1>1, <1>2, <2>1, <2>2, <2>3 DEF TypeOK
<1>4. messages' = messages /\ saves' = saves /\ Remember(l)
  BY DEF EnableSource
<1>5. /\ late' \subseteq SourceRows'
      /\ \A t \in SourceIds : sources'[t] # None => (t \in late' <=> t \in l)
  <2>1. l \in SUBSET SourceIds
    BY <1>1 DEF TypeOK, SourceRows
  <2>2. QED
    BY <1>4, <2>1, Remembered
<1>6. s \in l \/ ~sources[s].deleted
  OBVIOUS
<1>7. late \subseteq l
  OBVIOUS
<1> HIDE DEF s, l
<1>8. SourcesEvolve /\ MessagesEvolve
  BY <1>1, <1>3, <1>4 DEF SourcesEvolve, MessagesEvolve
<1>9. \A m \in MessageIds : messages[m] # None =>
         /\ messages[m].source \in SourceIds
         /\ sources[messages[m].source] # None
         /\ sources[messages[m].source].owner = messages[m].owner
  BY DEF TypeOK, UniqueKeys, MessageRows, SourceRows
<1>10. RowsAreTyped
  BY <1>3, <1>4, <1>9 DEF RowsAreTyped, TypeOK, UniqueKeys, MessageRows
<1>11. DeletedRowsAreHidden'
  BY <1>1, <1>3, <1>5, <1>6, <1>7
  DEF Housekeeping, DeletedRowsAreHidden, SourceRows
<1>12. StoppedKeepsSaved'
  BY <1>1, <1>3, <1>4, <1>5, <1>7, <1>9
  DEF Housekeeping, StoppedKeepsSaved, MessageRows, Unsaved
<1>13. HiddenRowHoldsMessage'
  BY <1>1, <1>3, <1>4, <1>5, <1>6, <1>7
  DEF Housekeeping, HiddenRowHoldsMessage, MessageRows, SourceRows
<1>14. \A t \in SourceIds : sources'[t] # None =>
         sources'[t].status \in {sources[t].status, "active"}
  BY <1>3
<1>15. QED
  BY <1>5, <1>8, <1>10, <1>11, <1>12, <1>13, <1>14 DEF RowsEvolve, Housekeeping

-----------------------------------------------------------------------------
(* Moves.  A row that loses its last message is of the request's owner, so *)
(* the sweep reaches it.                                                   *)

LEMMA MoveRows ==
  ASSUME TypeOK, RequestsAreFounded, Housekeeping,
         NEW c \in Clients, Move(c)
  PROVE  /\ RowsEvolve
         /\ Housekeeping'
         /\ late' \subseteq SourceRows'
         /\ \A t \in SourceIds : sources'[t] \in {sources[t], None}
<1> USE Bounds
<1> DEFINE m == req[c].message
           s == req[c].source
           o == req[c].owner
           l == IF messages[m] # None /\ sources[s].status = "stopped"
                THEN late \cup {s} ELSE late
<1>1. /\ m \in MessageIds /\ s \in SourceIds
      /\ messages[m] = None \/ sources[s] # None
      /\ sources[s] # None => sources[s].owner = o
      /\ messages[m] # None => messages[m].owner = o
  BY DEF Move, RequestsAreFounded, SourceRows, MessageRows
<1>2. sources' = SweptSources(sources, messages', o)
  BY DEF Move, MoveSwept
<1>3. messages' = Moved(m, s) /\ saves' = saves /\ Remember(l)
  BY DEF Move
<1>4. /\ late \subseteq l /\ l \subseteq late \cup {s}
      /\ messages[m] # None /\ sources[s].status = "stopped" => s \in l
  OBVIOUS
<1> HIDE DEF m, s, o, l
<1>5. /\ sources' \in [SourceIds -> Source \cup {None}]
      /\ \A t \in SourceIds : sources'[t] \in {sources[t], None}
      /\ \A n \in MessageIds : messages'[n] # None /\ messages'[n].source \in SourceIds
           => sources'[messages'[n].source] = sources[messages'[n].source]
      /\ \A t \in SourceIds :
           sources'[t] # None /\ sources[t].deleted /\ sources[t].owner = o
           => \E n \in MessageIds : messages'[n] # None /\ messages'[n].source = t
  <2>1. sources \in [SourceIds -> Source \cup {None}]
    BY DEF TypeOK
  <2>2. QED
    BY <1>2, <2>1, SweptFacts
<1>6. /\ messages' \in [MessageIds -> Message \cup {None}]
      /\ \A n \in MessageIds : n # m => messages'[n] = messages[n]
      /\ messages[m] = None => messages'[m] = None
      /\ messages[m] # None =>
           /\ messages'[m] # None /\ messages'[m].source = s
           /\ messages'[m].owner = messages[m].owner
           /\ messages'[m].mail = messages[m].mail
  <2>1. CASE messages[m] = None
    BY <1>3, <2>1 DEF Moved, TypeOK
  <2>2. CASE messages[m] # None
    <3>1. messages[m] \in Message
      BY <1>1, <2>2 DEF TypeOK
    <3>2. [messages[m] EXCEPT !.source = s] \in Message
      BY <1>1, <3>1 DEF Message
    <3>3. messages' = [messages EXCEPT ![m] = [messages[m] EXCEPT !.source = s]]
      BY <1>3, <2>2 DEF Moved
    <3>4. QED
      BY <1>1, <2>2, <3>1, <3>2, <3>3 DEF TypeOK, Message
  <2>3. QED
    BY <2>1, <2>2
<1>7. \A n \in MessageIds : messages[n] # None =>
         /\ messages[n].source \in SourceIds
         /\ sources[messages[n].source] # None
         /\ sources[messages[n].source].owner = messages[n].owner
  BY DEF TypeOK, UniqueKeys, MessageRows, SourceRows
<1>8. /\ late' \subseteq SourceRows'
      /\ \A t \in SourceIds : sources'[t] # None => (t \in late' <=> t \in l)
  <2>1. l \in SUBSET SourceIds
    BY <1>1, <1>4 DEF TypeOK, SourceRows
  <2>2. QED
    BY <1>3, <2>1, Remembered
<1>9. SourcesEvolve
  BY <1>5 DEF SourcesEvolve
<1>10. MessagesEvolve
  BY <1>1, <1>6 DEF MessagesEvolve
<1>11. \A n \in MessageIds : messages'[n] # None =>
         /\ messages'[n].source \in SourceIds
         /\ sources[messages'[n].source] # None
         /\ sources[messages'[n].source].owner = messages'[n].owner
         /\ sources'[messages'[n].source] = sources[messages'[n].source]
  BY <1>1, <1>5, <1>6, <1>7
<1>12. RowsAreTyped
  BY <1>1, <1>3, <1>5, <1>6, <1>11 DEF RowsAreTyped, TypeOK, UniqueKeys, MessageRows
<1>13. DeletedRowsAreHidden'
  BY <1>4, <1>5, <1>8 DEF Housekeeping, DeletedRowsAreHidden, SourceRows
<1>14. StoppedKeepsSaved'
  <2> SUFFICES ASSUME NEW n \in MessageIds, messages'[n] # None,
                      sources'[messages'[n].source].status = "stopped",
                      saves'[n] = None
               PROVE  messages'[n].source \in late'
    BY DEF StoppedKeepsSaved, MessageRows, Unsaved
  <2>1. sources[messages'[n].source].status = "stopped"
    BY <1>11
  <2>2. messages'[n].source \in l
    BY <1>1, <1>3, <1>4, <1>6, <2>1
    DEF Housekeeping, StoppedKeepsSaved, MessageRows, Unsaved
  <2>3. QED
    BY <1>8, <1>11, <2>2
<1>15. HiddenRowHoldsMessage'
  <2> SUFFICES ASSUME NEW t \in SourceIds, sources'[t] # None,
                      sources'[t].deleted, t \notin late'
               PROVE  \E n \in MessageIds :
                         messages'[n] # None /\ messages'[n].source = t
    BY DEF HiddenRowHoldsMessage, SourceRows, MessageRows
  <2>1. sources'[t] = sources[t] /\ t \notin late
    BY <1>4, <1>5, <1>8
  <2>2. CASE sources[t].owner = o
    BY <1>5, <2>1, <2>2
  <2>3. CASE sources[t].owner # o
    <3>1. PICK n \in MessageIds : messages[n] # None /\ messages[n].source = t
      BY <2>1 DEF Housekeeping, HiddenRowHoldsMessage, SourceRows, MessageRows
    <3>2. n # m
      BY <1>1, <1>7, <2>3, <3>1
    <3>3. QED
      BY <1>6, <3>1, <3>2
  <2>4. QED
    BY <2>2, <2>3
<1>16. QED
  BY <1>5, <1>8, <1>9, <1>10, <1>12, <1>13, <1>14, <1>15
  DEF RowsEvolve, Housekeeping

LEMMA MoveNewRows ==
  ASSUME TypeOK, RequestsAreFounded, Housekeeping,
         NEW c \in Clients, MoveNew(c)
  PROVE  /\ RowsEvolve
         /\ Housekeeping'
         /\ late' \subseteq SourceRows'
         /\ \A t \in SourceRows : sources'[t] \in {sources[t], None}
<1> USE Bounds
<1> DEFINE m == req[c].message
           o == req[c].owner
           new == [owner |-> o, key |-> None, status |-> "active",
                   acceptAfter |-> 0, deleted |-> FALSE]
<1>1. /\ m \in MessageIds /\ o \in Owners
      /\ messages[m] # None => messages[m].owner = o
  BY DEF MoveNew, RequestsAreFounded, MessageRows
<1>2. PICK s \in SourceIds :
        /\ NewSource(s)
        /\ messages' = Moved(m, s)
        /\ sources' = MoveSwept([sources EXCEPT ![s] = new], o)
  BY DEF MoveNew
<1>3. sources[s] = None
  BY <1>2 DEF NewSource
<1> DEFINE src == [sources EXCEPT ![s] = new]
<1>4. new \in Source
  BY <1>1 DEF Source
<1>5. /\ new.owner = o /\ new.key = None /\ new.status = "active"
      /\ ~new.deleted
  OBVIOUS
<1>6. saves' = saves /\ Remember(late)
  BY DEF MoveNew
<1> HIDE DEF m, o, new
<1>7. /\ src \in [SourceIds -> Source \cup {None}]
      /\ src[s] = new
      /\ \A t \in SourceIds : t # s => src[t] = sources[t]
  BY <1>4 DEF TypeOK
<1>8. sources' = SweptSources(src, messages', o)
  BY <1>2 DEF MoveSwept
<1> HIDE DEF src
<1>9. /\ sources' \in [SourceIds -> Source \cup {None}]
      /\ \A t \in SourceIds : sources'[t] \in {src[t], None}
      /\ \A n \in MessageIds : messages'[n] # None /\ messages'[n].source \in SourceIds
           => sources'[messages'[n].source] = src[messages'[n].source]
      /\ \A t \in SourceIds :
           sources'[t] # None /\ src[t].deleted /\ src[t].owner = o
           => \E n \in MessageIds : messages'[n] # None /\ messages'[n].source = t
  BY <1>7, <1>8, SweptFacts
<1>10. /\ messages' \in [MessageIds -> Message \cup {None}]
       /\ \A n \in MessageIds : n # m => messages'[n] = messages[n]
       /\ messages[m] = None => messages'[m] = None
       /\ messages[m] # None =>
            /\ messages'[m] # None /\ messages'[m].source = s
            /\ messages'[m].owner = messages[m].owner
            /\ messages'[m].mail = messages[m].mail
  <2>1. CASE messages[m] = None
    BY <1>2, <2>1 DEF Moved, TypeOK
  <2>2. CASE messages[m] # None
    <3>1. messages[m] \in Message
      BY <1>1, <2>2 DEF TypeOK
    <3>2. [messages[m] EXCEPT !.source = s] \in Message
      BY <1>2, <3>1 DEF Message
    <3>3. messages' = [messages EXCEPT ![m] = [messages[m] EXCEPT !.source = s]]
      BY <1>2, <2>2 DEF Moved
    <3>4. QED
      BY <1>1, <2>2, <3>1, <3>2, <3>3 DEF TypeOK, Message
  <2>3. QED
    BY <2>1, <2>2
<1>11. \A n \in MessageIds : messages[n] # None =>
         /\ messages[n].source \in SourceIds
         /\ messages[n].source # s
         /\ sources[messages[n].source] # None
         /\ sources[messages[n].source].owner = messages[n].owner
  BY <1>3 DEF TypeOK, UniqueKeys, MessageRows, SourceRows
<1>12. /\ late' \subseteq SourceRows'
       /\ \A t \in SourceIds : sources'[t] # None => (t \in late' <=> t \in late)
  BY <1>6, Remembered DEF TypeOK, SourceRows
<1>13. SourcesEvolve
  <2>1. sources'[s] # None =>
          /\ sources'[s].key = None /\ sources'[s].status = "active"
          /\ ~sources'[s].deleted
    BY <1>5, <1>7, <1>9
  <2>2. \A t \in SourceIds \ {s} : sources'[t] # None =>
          sources[t] # None /\ sources'[t] = sources[t]
    BY <1>7, <1>9
  <2>3. QED
    BY <1>2, <2>1, <2>2 DEF SourcesEvolve
<1>14. MessagesEvolve
  BY <1>1, <1>10 DEF MessagesEvolve
<1>15. \A n \in MessageIds : messages'[n] # None =>
         /\ messages'[n].source \in SourceIds
         /\ sources'[messages'[n].source] = src[messages'[n].source]
         /\ src[messages'[n].source] # None
         /\ src[messages'[n].source].owner = messages'[n].owner
  BY <1>1, <1>4, <1>5, <1>7, <1>9, <1>10, <1>11
<1>16. RowsAreTyped
  BY <1>1, <1>6, <1>9, <1>10, <1>15 DEF RowsAreTyped, TypeOK, UniqueKeys, MessageRows
<1>17. DeletedRowsAreHidden'
  BY <1>5, <1>7, <1>9, <1>12 DEF Housekeeping, DeletedRowsAreHidden, SourceRows
<1>18. StoppedKeepsSaved'
  <2> SUFFICES ASSUME NEW n \in MessageIds, messages'[n] # None,
                      sources'[messages'[n].source].status = "stopped",
                      saves'[n] = None
               PROVE  messages'[n].source \in late'
    BY DEF StoppedKeepsSaved, MessageRows, Unsaved
  <2>1. n # m /\ messages'[n] = messages[n]
    BY <1>1, <1>5, <1>7, <1>9, <1>10, <1>15
  <2>2. sources[messages[n].source].status = "stopped"
    BY <1>7, <1>11, <1>15, <2>1
  <2>3. messages[n].source \in late
    BY <1>6, <2>1, <2>2 DEF Housekeeping, StoppedKeepsSaved, MessageRows, Unsaved
  <2>4. QED
    BY <1>12, <1>15, <2>1, <2>3
<1>19. HiddenRowHoldsMessage'
  <2> SUFFICES ASSUME NEW t \in SourceIds, sources'[t] # None,
                      sources'[t].deleted, t \notin late'
               PROVE  \E n \in MessageIds :
                         messages'[n] # None /\ messages'[n].source = t
    BY DEF HiddenRowHoldsMessage, SourceRows, MessageRows
  <2>1. sources'[t] = src[t] /\ t \notin late /\ t # s /\ sources[t] = src[t]
    BY <1>5, <1>7, <1>9, <1>12
  <2>2. CASE sources[t].owner = o
    BY <1>9, <2>1, <2>2
  <2>3. CASE sources[t].owner # o
    <3>1. PICK n \in MessageIds : messages[n] # None /\ messages[n].source = t
      BY <2>1 DEF Housekeeping, HiddenRowHoldsMessage, SourceRows, MessageRows
    <3>2. n # m
      BY <1>1, <1>11, <2>3, <3>1
    <3>3. QED
      BY <1>10, <3>1, <3>2
  <2>4. QED
    BY <2>2, <2>3
<1>20. \A t \in SourceRows : sources'[t] \in {sources[t], None}
  BY <1>3, <1>7, <1>9 DEF SourceRows
<1>21. QED
  BY <1>12, <1>13, <1>14, <1>16, <1>17, <1>18, <1>19, <1>20
  DEF RowsEvolve, Housekeeping

-----------------------------------------------------------------------------
(* Saves.  A message of a stopped source goes with its save.               *)

LEMMA SaveMessageRows ==
  ASSUME TypeOK, Housekeeping, SaveMessage
  PROVE  /\ RowsEvolve
         /\ Housekeeping'
         /\ late' \subseteq SourceRows'
         /\ sources' = sources
<1> USE Bounds
<1>1. PICK m \in MessageRows, v \in SaveIds : saves' = [saves EXCEPT ![m] = v]
  BY DEF SaveMessage
<1>2. m \in MessageIds /\ v # None
  BY DEF MessageRows
<1>3. sources' = sources /\ messages' = messages /\ late' = late
  BY DEF SaveMessage
<1>4. SourcesEvolve /\ MessagesEvolve
  BY <1>3 DEF SourcesEvolve, MessagesEvolve
<1>5. RowsAreTyped
  <2>1. \A n \in MessageIds : messages[n] # None =>
          /\ sources[messages[n].source] # None
          /\ sources[messages[n].source].owner = messages[n].owner
    BY DEF TypeOK, UniqueKeys, MessageRows, SourceRows
  <2>2. saves' \in [MessageIds -> SaveIds \cup {None}]
    BY <1>1, <1>2 DEF TypeOK
  <2>3. \A n \in MessageIds : messages[n] = None => saves'[n] = None
    BY <1>1, <1>2 DEF TypeOK, UniqueKeys, MessageRows
  <2>4. QED
    BY <1>3, <2>1, <2>2, <2>3 DEF RowsAreTyped, TypeOK
<1>6. Housekeeping'
  BY <1>1, <1>2, <1>3
  DEF Housekeeping, DeletedRowsAreHidden, StoppedKeepsSaved,
      HiddenRowHoldsMessage, SourceRows, MessageRows, Unsaved, TypeOK
<1>7. QED
  BY <1>3, <1>4, <1>5, <1>6 DEF RowsEvolve, TypeOK, SourceRows

LEMMA DeleteSaveRows ==
  ASSUME TypeOK, RequestsAreFounded, Housekeeping,
         NEW c \in Clients, DeleteSave(c)
  PROVE  /\ RowsEvolve
         /\ Housekeeping'
         /\ late' \subseteq SourceRows'
         /\ \A t \in SourceIds : sources'[t] \in {sources[t], None}
<1> USE Bounds
<1> DEFINE m == req[c].message
           o == req[c].owner
           left == [n \in MessageIds |-> IF n = m /\ saves[n] = req[c].save
                                         THEN None ELSE saves[n]]
<1>1. /\ m \in MessageIds
      /\ messages[m] # None => messages[m].owner = o
  BY DEF DeleteSave, RequestsAreFounded, MessageRows
<1>2. /\ messages' = IF GoneOnceUnsaved(m, left)
                     THEN [messages EXCEPT ![m] = None] ELSE messages
      /\ Cascade(left)
      /\ Remember(late)
  BY DEF DeleteSave
<1>1a. sources' = SweptSources(sources, messages', o)
  BY DEF DeleteSave
<1>3. \A n \in MessageIds :
        /\ left[n] \in {saves[n], None}
        /\ n # m => left[n] = saves[n]
  OBVIOUS
<1>4. left \in [MessageIds -> SaveIds \cup {None}]
  BY DEF TypeOK
<1> HIDE DEF m, o, left
<1>5. /\ sources' \in [SourceIds -> Source \cup {None}]
      /\ \A t \in SourceIds : sources'[t] \in {sources[t], None}
      /\ \A n \in MessageIds : messages'[n] # None /\ messages'[n].source \in SourceIds
           => sources'[messages'[n].source] = sources[messages'[n].source]
      /\ \A t \in SourceIds :
           sources'[t] # None /\ sources[t].deleted /\ sources[t].owner = o
           => \E n \in MessageIds : messages'[n] # None /\ messages'[n].source = t
  <2>1. sources \in [SourceIds -> Source \cup {None}]
    BY DEF TypeOK
  <2>2. QED
    BY <1>1a, <2>1, SweptFacts
<1>6. /\ messages' \in [MessageIds -> Message \cup {None}]
      /\ \A n \in MessageIds : n # m => messages'[n] = messages[n]
      /\ messages'[m] \in {messages[m], None}
      /\ messages'[m] # None =>
           left[m] # None \/ sources[messages[m].source].status # "stopped"
  BY <1>1, <1>2 DEF TypeOK, GoneOnceUnsaved
<1>7. /\ saves' \in [MessageIds -> SaveIds \cup {None}]
      /\ \A n \in MessageIds :
           saves'[n] = IF messages'[n] = None THEN None ELSE left[n]
  BY <1>2, <1>4 DEF Cascade
<1>8. \A n \in MessageIds : messages[n] # None =>
         /\ messages[n].source \in SourceIds
         /\ sources[messages[n].source] # None
         /\ sources[messages[n].source].owner = messages[n].owner
  BY DEF TypeOK, UniqueKeys, MessageRows, SourceRows
<1>9. /\ late' \subseteq SourceRows'
      /\ \A t \in SourceIds : sources'[t] # None => (t \in late' <=> t \in late)
  BY <1>2, Remembered DEF TypeOK, SourceRows
<1>10. SourcesEvolve
  BY <1>5 DEF SourcesEvolve
<1>11. \A n \in MessageIds : messages'[n] # None =>
         messages[n] # None /\ messages'[n] = messages[n]
  BY <1>1, <1>6
<1>12. MessagesEvolve
  BY <1>11 DEF MessagesEvolve
<1>13. RowsAreTyped
  BY <1>5, <1>6, <1>7, <1>8, <1>11 DEF RowsAreTyped
<1>14. DeletedRowsAreHidden'
  BY <1>5, <1>9 DEF Housekeeping, DeletedRowsAreHidden, SourceRows
<1>15. StoppedKeepsSaved'
  <2> SUFFICES ASSUME NEW n \in MessageIds, messages'[n] # None,
                      sources'[messages'[n].source].status = "stopped",
                      saves'[n] = None
               PROVE  messages'[n].source \in late'
    BY DEF StoppedKeepsSaved, MessageRows, Unsaved
  <2>1. /\ messages[n] # None /\ messages'[n] = messages[n]
        /\ messages[n].source \in SourceIds
        /\ sources'[messages[n].source] # None
        /\ sources[messages[n].source].status = "stopped"
    BY <1>5, <1>8, <1>11
  <2>2. saves[n] = None
    BY <1>3, <1>6, <1>7, <2>1
  <2>3. messages[n].source \in late
    BY <2>1, <2>2 DEF Housekeeping, StoppedKeepsSaved, MessageRows, Unsaved
  <2>4. QED
    BY <1>9, <2>1, <2>3
<1>16. HiddenRowHoldsMessage'
  <2> SUFFICES ASSUME NEW t \in SourceIds, sources'[t] # None,
                      sources'[t].deleted, t \notin late'
               PROVE  \E n \in MessageIds :
                         messages'[n] # None /\ messages'[n].source = t
    BY DEF HiddenRowHoldsMessage, SourceRows, MessageRows
  <2>1. sources'[t] = sources[t] /\ t \notin late
    BY <1>5, <1>9
  <2>2. CASE sources[t].owner = o
    BY <1>5, <2>1, <2>2
  <2>3. CASE sources[t].owner # o
    <3>1. PICK n \in MessageIds : messages[n] # None /\ messages[n].source = t
      BY <2>1 DEF Housekeeping, HiddenRowHoldsMessage, SourceRows, MessageRows
    <3>2. n # m
      BY <1>1, <1>8, <2>3, <3>1
    <3>3. QED
      BY <1>6, <3>1, <3>2
  <2>4. QED
    BY <2>2, <2>3
<1>17. QED
  BY <1>5, <1>9, <1>10, <1>12, <1>13, <1>14, <1>15, <1>16
  DEF RowsEvolve, Housekeeping

-----------------------------------------------------------------------------
(* The processor.  It adds a message, a source or both, at most one each.  *)

SourceAdded(r) ==
    \A s \in SourceIds :
        /\ sources[s] # None => sources'[s] = sources[s]
        /\ sources[s] = None /\ sources'[s] # None =>
             /\ NewSource(s)
             /\ sources'[s].owner = r[2]
             /\ sources'[s].key = SenderOf[receipts[r].mail]
             /\ sources'[s].status = "active"
             /\ ~sources'[s].deleted
             /\ SourcesByKey(r[2], receipts[r].mail) = {}
             /\ \A t \in SourceIds :
                  sources[t] = None /\ sources'[t] # None => t = s

MessageAdded(r) ==
    \A m \in MessageIds :
        /\ messages[m] # None => messages'[m] = messages[m]
        /\ messages[m] = None /\ messages'[m] # None =>
             /\ NewMessage(m)
             /\ messages'[m].owner = r[2]
             /\ messages'[m].mail = receipts[r].mail
             /\ messages'[m].source \in SourceIds
             /\ sources'[messages'[m].source] # None
             /\ \/ sources[messages'[m].source] = None
                \/ /\ messages'[m].source \in SourcesByKey(r[2], receipts[r].mail)
                   /\ ~Discarded(messages'[m].source, r[1])
             /\ ~AlreadyStored(r[2], receipts[r].mail)
             /\ \A n \in MessageIds :
                  messages[n] = None /\ messages'[n] # None => n = m

LEMMA ProcessRows ==
  ASSUME TypeOK, NEW r \in Stamps \X Owners, ProcessNext(r)
  PROVE  /\ SourceAdded(r) /\ MessageAdded(r) /\ Take(r)
         /\ sources' \in [SourceIds -> Source \cup {None}]
         /\ messages' \in [MessageIds -> Message \cup {None}]
         /\ saves' = saves
         /\ receipts[r] \in Receipt
<1> USE Bounds
<1> DEFINE mail == receipts[r].mail
           known == SourcesByKey(r[2], mail)
<1>1. receipts[r] \in Receipt /\ mail \in Mails /\ r[2] \in Owners
  <2>1. receipts[r] # None
    BY DEF ProcessNext, Due, ReceiptRows
  <2>2. QED
    BY <2>1 DEF TypeOK, Receipt
<1>2. known \subseteq SourceIds /\ \A s \in known : sources[s] # None
  BY DEF SourcesByKey, SourceRows
<1>3. ASSUME NEW s \in SourceIds, Store(r, s),
             sources'[s] # None,
             \/ sources[s] = None
             \/ s \in known /\ ~Discarded(s, r[1]),
             ~AlreadyStored(r[2], mail)
      PROVE  /\ MessageAdded(r) /\ Take(r) /\ saves' = saves
             /\ messages' \in [MessageIds -> Message \cup {None}]
  <2> DEFINE row == [owner |-> r[2], mail |-> mail, source |-> s]
  <2>1. PICK m \in MessageIds :
          NewMessage(m) /\ messages' = [messages EXCEPT ![m] = row]
    BY <1>3 DEF Store
  <2>2. row \in Message
    BY <1>1 DEF Message
  <2>3. row.owner = r[2] /\ row.mail = mail /\ row.source = s
    OBVIOUS
  <2> HIDE DEF row
  <2>4. messages[m] = None
    BY <2>1 DEF NewMessage
  <2>5. \A n \in MessageIds : messages[n] # None => messages'[n] = messages[n]
    BY <2>1, <2>4
  <2>6. \A n \in MessageIds : messages[n] = None /\ messages'[n] # None =>
          n = m /\ messages'[n] = row
    BY <2>1 DEF TypeOK
  <2>7. MessageAdded(r)
    BY <1>3, <2>1, <2>3, <2>5, <2>6 DEF MessageAdded
  <2>8. messages' \in [MessageIds -> Message \cup {None}]
    BY <2>1, <2>2 DEF TypeOK
  <2>9. QED
    BY <1>3, <2>7, <2>8 DEF Store
<1>4. messages' = messages =>
        MessageAdded(r) /\ messages' \in [MessageIds -> Message \cup {None}]
  BY DEF MessageAdded, TypeOK
<1>5. sources' = sources =>
        SourceAdded(r) /\ sources' \in [SourceIds -> Source \cup {None}]
  BY DEF SourceAdded, TypeOK
<1>6. CASE \E s \in known :
              /\ Discarded(s, r[1]) \/ AlreadyStored(r[2], mail)
              /\ Drop(r)
  BY <1>1, <1>4, <1>5, <1>6 DEF Drop
<1>7. CASE \E s \in known :
              /\ ~Discarded(s, r[1]) /\ ~AlreadyStored(r[2], mail)
              /\ Store(r, s)
              /\ UNCHANGED sources
  BY <1>1, <1>2, <1>3, <1>5, <1>7
<1>8. CASE /\ known = {}
           /\ \E s \in SourceIds :
                /\ NewSource(s)
                /\ sources' = [sources EXCEPT ![s] =
                     [owner |-> r[2], key |-> SenderOf[mail],
                      status |-> "active", acceptAfter |-> 0,
                      deleted |-> FALSE]]
                /\ IF AlreadyStored(r[2], mail)
                   THEN Take(r) /\ UNCHANGED <<messages, saves>>
                   ELSE Store(r, s)
  <2> DEFINE new == [owner |-> r[2], key |-> SenderOf[mail],
                     status |-> "active", acceptAfter |-> 0,
                     deleted |-> FALSE]
  <2>1. PICK s \in SourceIds :
          /\ NewSource(s)
          /\ sources' = [sources EXCEPT ![s] = new]
          /\ IF AlreadyStored(r[2], mail)
             THEN Take(r) /\ UNCHANGED <<messages, saves>>
             ELSE Store(r, s)
    BY <1>8
  <2>2. new \in Source
    BY <1>1 DEF Source
  <2>3. /\ new.owner = r[2] /\ new.key = SenderOf[mail]
        /\ new.status = "active" /\ ~new.deleted /\ new # None
    BY <2>2
  <2> HIDE DEF new
  <2>4. sources[s] = None /\ sources'[s] = new
    BY <2>1 DEF NewSource, TypeOK
  <2>5. sources' \in [SourceIds -> Source \cup {None}]
    BY <2>1, <2>2 DEF TypeOK
  <2>6. \A t \in SourceIds : t # s => sources'[t] = sources[t]
    BY <2>1
  <2>7. SourceAdded(r)
    BY <1>8, <2>1, <2>3, <2>4, <2>6 DEF SourceAdded
  <2>8. CASE AlreadyStored(r[2], mail)
    BY <1>1, <1>4, <2>1, <2>5, <2>7, <2>8
  <2>9. CASE ~AlreadyStored(r[2], mail)
    BY <1>1, <1>3, <2>1, <2>3, <2>4, <2>5, <2>7, <2>9
  <2>10. QED
    BY <2>8, <2>9
<1>9. QED
  BY <1>6, <1>7, <1>8 DEF ProcessNext

LEMMA ProcessKeepsKeys ==
  ASSUME TypeOK, NEW r \in Stamps \X Owners, ProcessNext(r)
  PROVE  UniqueKeys'
<1> USE Bounds
<1>1. /\ SourceAdded(r) /\ MessageAdded(r) /\ saves' = saves
      /\ receipts[r] \in Receipt
  BY ProcessRows
<1>2. SenderOf[receipts[r].mail] # None
  BY <1>1 DEF Receipt
<1>3. ASSUME NEW s \in SourceIds, NEW t \in SourceIds,
             sources[s] # None, sources[t] = None, sources'[t] # None,
             sources'[s].key = sources'[t].key,
             sources'[s].owner = sources'[t].owner
      PROVE  FALSE
  BY <1>1, <1>3 DEF SourceAdded, SourcesByKey, SourceRows
<1>4. ASSUME NEW s \in SourceIds, NEW t \in SourceIds,
             sources[s] # None, sources[t] # None, sources'[s].key # None,
             sources'[s].key = sources'[t].key,
             sources'[s].owner = sources'[t].owner
      PROVE  s = t
  <2>1. sources'[s] = sources[s] /\ sources'[t] = sources[t]
    BY <1>1, <1>4 DEF SourceAdded
  <2>2. QED
    BY <1>4, <2>1 DEF TypeOK, UniqueKeys, SourceRows
<1>5. ASSUME NEW s \in SourceIds, NEW t \in SourceIds,
             sources'[s] # None, sources'[t] # None, sources'[s].key # None,
             sources'[s].key = sources'[t].key,
             sources'[s].owner = sources'[t].owner
      PROVE  s = t
  <2>1. CASE sources[s] = None /\ sources[t] = None
    BY <1>1, <1>5, <2>1 DEF SourceAdded
  <2>2. QED
    BY <1>3, <1>4, <1>5, <2>1
<1>6. ASSUME NEW m \in MessageIds, NEW n \in MessageIds,
             messages'[m] # None, messages'[n] # None,
             messages'[m].mail = messages'[n].mail,
             messages'[m].owner = messages'[n].owner
      PROVE  m = n
  <2>1. ASSUME NEW x \in MessageIds, NEW y \in MessageIds,
               messages[x] # None, messages[y] = None, messages'[y] # None,
               messages'[x].mail = messages'[y].mail,
               messages'[x].owner = messages'[y].owner
        PROVE  FALSE
    BY <1>1, <2>1 DEF MessageAdded, AlreadyStored, MessageRows
  <2>2. CASE messages[m] # None /\ messages[n] # None
    <3>1. messages'[m] = messages[m] /\ messages'[n] = messages[n]
      BY <1>1, <2>2 DEF MessageAdded
    <3>2. QED
      BY <1>6, <2>2, <3>1 DEF TypeOK, UniqueKeys, MessageRows
  <2>3. CASE messages[m] = None /\ messages[n] = None
    BY <1>1, <1>6, <2>3 DEF MessageAdded
  <2>4. QED
    BY <1>6, <2>1, <2>2, <2>3
<1>7. ASSUME NEW m \in MessageIds, messages'[m] # None
      PROVE  /\ messages'[m].source \in SourceIds
             /\ sources'[messages'[m].source] # None
             /\ sources'[messages'[m].source].owner = messages'[m].owner
  <2>1. CASE messages[m] # None
    <3>1. messages'[m] = messages[m]
      BY <1>1, <2>1 DEF MessageAdded
    <3>2. /\ messages[m].source \in SourceIds
          /\ sources[messages[m].source] # None
          /\ sources[messages[m].source].owner = messages[m].owner
      BY <2>1 DEF TypeOK, UniqueKeys, MessageRows, SourceRows
    <3>3. QED
      BY <1>1, <3>1, <3>2 DEF SourceAdded
  <2>2. CASE messages[m] = None
    BY <1>1, <1>7, <2>2
    DEF MessageAdded, SourceAdded, SourcesByKey, SourceRows
  <2>3. QED
    BY <2>1, <2>2
<1>8. \A m \in MessageIds : messages'[m] = None => saves'[m] = None
  BY <1>1 DEF MessageAdded, TypeOK, UniqueKeys, MessageRows
<1>9. QED
  BY <1>5, <1>6, <1>7, <1>8 DEF UniqueKeys, SourceRows, MessageRows

LEMMA Taken ==
  ASSUME TypeOK, NEW r \in Stamps \X Owners, Take(r)
  PROVE  /\ receipts' \in [Stamps \X Owners -> Receipt \cup {None}]
         /\ ReceiptRows' = ReceiptRows \ {r}
         /\ \A q \in ReceiptRows' : receipts'[q] = receipts[q]
         /\ promised' = promised \ {r}
         /\ promised' \subseteq ReceiptRows'
  BY DEF Take, TypeOK, ReceiptRows

LEMMA ProcessKeepsHouse ==
  ASSUME TypeOK, Housekeeping, NEW r \in Stamps \X Owners, ProcessNext(r)
  PROVE  Housekeeping' /\ late' \subseteq SourceRows'
<1> USE Bounds
<1>1. SourceAdded(r) /\ MessageAdded(r) /\ saves' = saves
  BY ProcessRows
<1>2. late' = late /\ late \subseteq SourceIds
  BY DEF ProcessNext, TypeOK, SourceRows
<1>3. late' \subseteq SourceRows'
  BY <1>1, <1>2 DEF TypeOK, SourceRows, SourceAdded
<1>4. ASSUME NEW s \in SourceIds, sources'[s] # None, sources'[s].deleted
      PROVE  sources[s] # None /\ sources'[s] = sources[s]
  BY <1>1, <1>4 DEF SourceAdded
<1>5. DeletedRowsAreHidden'
  BY <1>2, <1>4 DEF Housekeeping, DeletedRowsAreHidden, SourceRows
<1>6. StoppedKeepsSaved'
  <2> SUFFICES ASSUME NEW m \in MessageIds, messages'[m] # None,
                      sources'[messages'[m].source].status = "stopped",
                      saves[m] = None
               PROVE  messages'[m].source \in late
    BY <1>1, <1>2 DEF StoppedKeepsSaved, MessageRows, Unsaved
  <2>1. CASE messages[m] = None
    <3>1. messages'[m].source \in SourceIds /\ sources'[messages'[m].source] # None
      BY <1>1, <2>1 DEF MessageAdded
    <3>2. CASE sources[messages'[m].source] = None
      BY <1>1, <3>1, <3>2 DEF SourceAdded
    <3>3. CASE sources[messages'[m].source] # None
      <4>1. sources'[messages'[m].source] = sources[messages'[m].source]
        BY <1>1, <3>1, <3>3 DEF SourceAdded
      <4>2. ~Discarded(messages'[m].source, r[1])
        BY <1>1, <2>1, <3>3 DEF MessageAdded
      <4>3. QED
        BY <4>1, <4>2 DEF Discarded
    <3>4. QED
      BY <3>2, <3>3
  <2>2. CASE messages[m] # None
    <3>1. /\ messages'[m] = messages[m]
          /\ messages[m].source \in SourceIds
          /\ sources[messages[m].source] # None
      BY <1>1, <2>2 DEF MessageAdded, TypeOK, UniqueKeys, MessageRows, SourceRows
    <3>2. sources'[messages[m].source] = sources[messages[m].source]
      BY <1>1, <3>1 DEF SourceAdded
    <3>3. QED
      BY <2>2, <3>1, <3>2 DEF Housekeeping, StoppedKeepsSaved, MessageRows, Unsaved
  <2>3. QED
    BY <2>1, <2>2
<1>7. HiddenRowHoldsMessage'
  <2> SUFFICES ASSUME NEW s \in SourceIds, sources'[s] # None,
                      sources'[s].deleted, s \notin late
               PROVE  \E m \in MessageIds :
                         messages'[m] # None /\ messages'[m].source = s
    BY <1>2 DEF HiddenRowHoldsMessage, MessageRows, SourceRows
  <2>1. PICK m \in MessageIds : messages[m] # None /\ messages[m].source = s
    BY <1>4 DEF Housekeeping, HiddenRowHoldsMessage, MessageRows, SourceRows
  <2>2. QED
    BY <1>1, <2>1 DEF MessageAdded
<1>8. QED
  BY <1>3, <1>5, <1>6, <1>7 DEF Housekeeping

LEMMA ProcessKeepsRest ==
  ASSUME TypeOK, StampsAreUsedOnce, RequestsAreFounded, StopsAreRemembered,
         PromisesHold, NEW r \in Stamps \X Owners, ProcessNext(r)
  PROVE  StampsAreUsedOnce' /\ RequestsAreFounded' /\ StopsAreRemembered'
         /\ PromisesHold'
<1> USE Bounds
<1>1. SourceAdded(r) /\ MessageAdded(r) /\ Take(r) /\ receipts[r] \in Receipt
  BY ProcessRows
<1>2. /\ ReceiptRows' = ReceiptRows \ {r}
      /\ \A q \in ReceiptRows' : receipts'[q] = receipts[q]
      /\ promised' = promised \ {r}
      /\ promised' \subseteq ReceiptRows'
  BY <1>1, Taken
<1>3. smtp' = smtp /\ req' = req /\ clock' = clock
  BY DEF ProcessNext
<1>4. StampsAreUsedOnce'
  BY <1>2, <1>3 DEF StampsAreUsedOnce
<1>5. ASSUME NEW s \in SourceIds, sources'[s] # None, ~NewSource(s)
      PROVE  sources[s] # None /\ sources'[s] = sources[s]
  BY <1>1, <1>5 DEF SourceAdded
<1>6. RequestsAreFounded'
  <2>1. SUFFICES ASSUME NEW c \in Clients
        PROVE  /\ req[c].source \in SourceIds /\ sources'[req[c].source] # None
                  => sources'[req[c].source].owner = req[c].owner
               /\ req[c].message \in MessageIds /\ messages'[req[c].message] # None
                  => messages'[req[c].message].owner = req[c].owner
    BY <1>3 DEF RequestsAreFounded, SourceRows, MessageRows
  <2>2. ~NewSource(req[c].source) /\ ~NewMessage(req[c].message)
    BY DEF NewSource, NewMessage
  <2>3. req[c].message \in MessageIds /\ messages'[req[c].message] # None =>
          /\ messages[req[c].message] # None
          /\ messages'[req[c].message] = messages[req[c].message]
    BY <1>1, <2>2 DEF MessageAdded
  <2>4. QED
    BY <1>5, <2>2, <2>3 DEF RequestsAreFounded, SourceRows, MessageRows
<1>7. StopsAreRemembered'
  <2>1. ASSUME NEW q \in ReceiptRows, NEW s \in receipts[q].stopped,
               s \in SourceIds, sources'[s] # None
        PROVE  sources'[s].status = "stopped" \/ sources'[s].acceptAfter > q[1]
    <3>1. ~NewSource(s)
      BY DEF NewSource
    <3>2. QED
      BY <1>5, <2>1, <3>1 DEF StopsAreRemembered, TakesNothingFrom, SourceRows
  <2>2. ASSUME NEW s \in smtp.stopped, s \in SourceIds, sources'[s] # None
        PROVE  sources'[s].status = "stopped" \/ sources'[s].acceptAfter > smtp.now
    <3>1. ~NewSource(s)
      BY DEF NewSource
    <3>2. QED
      BY <1>5, <2>2, <3>1 DEF StopsAreRemembered, TakesNothingFrom, SourceRows
  <2>3. QED
    BY <1>2, <1>3, <2>1, <2>2 DEF StopsAreRemembered, TakesNothingFrom, SourceRows
<1>8. PromisesHold'
  <2>1. SUFFICES ASSUME NEW q \in promised, q \in ReceiptRows, NEW s \in SourceIds,
                        sources'[s] # None, sources'[s].owner = q[2],
                        sources'[s].key = SenderOf[receipts[q].mail]
                 PROVE  sources'[s].status = "active"
    BY <1>2 DEF PromisesHold, SourcesByKey, SourceRows
  <2>2. CASE sources[s] = None
    BY <1>1, <2>1, <2>2 DEF SourceAdded
  <2>3. CASE sources[s] # None
    <3>1. sources'[s] = sources[s]
      BY <1>1, <2>3 DEF SourceAdded
    <3>2. QED
      BY <2>1, <2>3, <3>1 DEF PromisesHold, SourcesByKey, SourceRows
  <2>4. QED
    BY <2>2, <2>3
<1>9. QED
  BY <1>4, <1>6, <1>7, <1>8

LEMMA ProcessStep ==
  ASSUME IInv, NEW r \in Stamps \X Owners, ProcessNext(r)
  PROVE  IInv'
<1>1. TypeOK'
  <2>1. /\ sources' \in [SourceIds -> Source \cup {None}]
        /\ messages' \in [MessageIds -> Message \cup {None}]
        /\ saves' = saves /\ Take(r)
    BY ProcessRows DEF IInv
  <2>2. /\ receipts' \in [Stamps \X Owners -> Receipt \cup {None}]
        /\ promised' \subseteq ReceiptRows'
    BY <2>1, Taken DEF IInv
  <2>3. UniqueKeys'
    BY ProcessKeepsKeys DEF IInv
  <2>4. late' \subseteq SourceRows'
    BY ProcessKeepsHouse DEF IInv, Housekeeping
  <2>5. UNCHANGED <<smtp, req, clock, failures>>
    BY DEF ProcessNext
  <2>6. QED
    BY <2>1, <2>2, <2>3, <2>4, <2>5 DEF TypeOK, IInv
<1>2. Housekeeping'
  BY ProcessKeepsHouse DEF IInv, Housekeeping
<1>3. QED
  BY <1>1, <1>2, ProcessKeepsRest DEF IInv, Housekeeping

-----------------------------------------------------------------------------
(* Steps that leave sources, messages and saves alone.                     *)

TablesRest == UNCHANGED <<sources, messages, saves, late>>

LEMMA TablesKept ==
  ASSUME IInv, TablesRest
  PROVE  /\ sources' \in [SourceIds -> Source \cup {None}]
         /\ messages' \in [MessageIds -> Message \cup {None}]
         /\ saves' \in [MessageIds -> SaveIds \cup {None}]
         /\ UniqueKeys'
         /\ late' \subseteq SourceRows'
         /\ Housekeeping'
<1>1. UniqueKeys'
  BY DEF TablesRest, IInv, TypeOK, UniqueKeys, SourceRows, MessageRows
<1>2. Housekeeping'
  BY DEF TablesRest, IInv, Housekeeping, DeletedRowsAreHidden, StoppedKeepsSaved,
         HiddenRowHoldsMessage, SourceRows, MessageRows, Unsaved
<1>3. QED
  BY <1>1, <1>2 DEF TablesRest, IInv, TypeOK, SourceRows

LEMMA RequestsKept ==
  ASSUME IInv, TablesRest, RequestsEnd
  PROVE  RequestsAreFounded'
<1>1. SourcesEvolve
  BY DEF SourcesEvolve, TablesRest
<1>2. MessagesEvolve
  BY DEF MessagesEvolve, TablesRest
<1>3. QED
  BY <1>1, <1>2, RequestsStayFounded DEF IInv

(* Receipts that stay what they are, apart from their retry time.          *)
LEMMA ReceiptsKept ==
  ASSUME IInv, UNCHANGED <<sources, promised, smtp, clock>>,
         receipts' \in [Stamps \X Owners -> Receipt \cup {None}],
         ReceiptRows' = ReceiptRows,
         \A r \in ReceiptRows : /\ receipts'[r].mail = receipts[r].mail
                                /\ receipts'[r].stopped = receipts[r].stopped
  PROVE  /\ StampsAreUsedOnce' /\ StopsAreRemembered' /\ PromisesHold'
         /\ promised' \subseteq ReceiptRows'
<1>1. StampsAreUsedOnce'
  BY DEF IInv, StampsAreUsedOnce
<1>2. StopsAreRemembered'
  BY DEF IInv, StopsAreRemembered, TakesNothingFrom, SourceRows
<1>3. PromisesHold'
  BY DEF IInv, TypeOK, PromisesHold, SourcesByKey, SourceRows
<1>4. QED
  BY <1>1, <1>2, <1>3 DEF IInv, TypeOK

LEMMA StampDeliveryStep ==
  ASSUME IInv, StampDelivery
  PROVE  IInv'
<1> USE Bounds
<1>1. PICK mail \in Mails, to \in SUBSET Owners \ {{}} :
        smtp' = [mail |-> mail, to |-> to, now |-> clock + 1,
                 stopped |-> StoppedNow]
  BY DEF StampDelivery
<1>2. clock \in Nat /\ clock' = clock + 1 /\ clock + 1 \in Stamps
  BY DEF StampDelivery, IInv, TypeOK, Stamps
<1>3. TablesRest /\ RequestsEnd /\ UNCHANGED <<receipts, promised, req, failures>>
  BY DEF StampDelivery, TablesRest, tables, RequestsEnd
<1>4. StoppedNow \subseteq SourceIds
  BY DEF StoppedNow, SourceRows
<1>5. ReceiptRows' = ReceiptRows
  BY <1>3 DEF ReceiptRows
<1>6. smtp' \in Session /\ clock' \in 0..MaxStamp
  BY <1>1, <1>2, <1>4 DEF Session, Stamps
<1>7. TypeOK'
  BY <1>3, <1>5, <1>6, TablesKept DEF IInv, TypeOK
<1>8. StampsAreUsedOnce'
  <2>1. \A r \in ReceiptRows : r[1] \in Nat /\ r[1] <= clock
    BY DEF ReceiptRows, Stamps, IInv, StampsAreUsedOnce
  <2>2. QED
    BY <1>1, <1>2, <1>5, <2>1 DEF StampsAreUsedOnce
<1>9. StopsAreRemembered'
  BY <1>1, <1>3, <1>5
  DEF IInv, StopsAreRemembered, TakesNothingFrom, StoppedNow, SourceRows, TablesRest
<1>10. PromisesHold'
  BY <1>3 DEF IInv, PromisesHold, SourcesByKey, SourceRows, TablesRest
<1>11. QED
  BY <1>3, <1>7, <1>8, <1>9, <1>10, TablesKept, RequestsKept DEF IInv, Housekeeping

LEMMA AcceptReceiptsStep ==
  ASSUME IInv, AcceptReceipts
  PROVE  IInv'
<1> USE Bounds
<1> DEFINE now == smtp.now
           new == [mail |-> smtp.mail, deferred |-> FALSE,
                   stopped |-> smtp.stopped]
<1>1. /\ now \in Stamps /\ now <= clock
      /\ \A r \in ReceiptRows : r[1] # now
      /\ smtp \in Session /\ smtp.mail \in Mails
  BY DEF AcceptReceipts, IInv, StampsAreUsedOnce, TypeOK, Session
<1>2. new \in Receipt
  BY <1>1 DEF Receipt, Session
<1>3. new.mail = smtp.mail /\ new.stopped = smtp.stopped /\ new # None
  BY <1>2
<1>4. receipts' = [r \in Stamps \X Owners |->
         IF r[1] = now /\ r[2] \in smtp.to THEN new ELSE receipts[r]]
  BY DEF AcceptReceipts
<1>5. promised' = promised \cup
            {r \in {now} \X smtp.to :
                SourcesByKey(r[2], smtp.mail) \cap
                  {s \in StoppedNow : ~sources[s].deleted} = {}}
  BY DEF AcceptReceipts
<1>6. TablesRest /\ RequestsEnd /\ UNCHANGED <<req, clock, failures>>
  BY DEF AcceptReceipts, TablesRest, RequestsEnd
<1>7. smtp' = IdleSession
  BY DEF AcceptReceipts
<1> HIDE DEF now, new
<1>8. \A r \in ReceiptRows : r \in ReceiptRows' /\ receipts'[r] = receipts[r]
  BY <1>1, <1>4 DEF ReceiptRows
<1>9. \A r \in ReceiptRows' : r \notin ReceiptRows =>
        r[1] = now /\ r[2] \in smtp.to /\ receipts'[r] = new
  BY <1>4 DEF ReceiptRows
<1>10. \A r \in {now} \X smtp.to :
         /\ r \in ReceiptRows' /\ r \notin ReceiptRows /\ receipts'[r] = new
  BY <1>1, <1>3, <1>4 DEF ReceiptRows, Session
<1>11. TypeOK'
  <2>1. receipts' \in [Stamps \X Owners -> Receipt \cup {None}]
    BY <1>2, <1>4 DEF IInv, TypeOK
  <2>2. promised' \subseteq ReceiptRows'
    BY <1>5, <1>8, <1>10 DEF IInv, TypeOK
  <2>3. QED
    BY <1>6, <1>7, <2>1, <2>2, TablesKept, IdleTypes DEF IInv, TypeOK
<1>12. StampsAreUsedOnce'
  <2>1. clock \in Nat
    BY DEF IInv, TypeOK
  <2>2. \A r \in ReceiptRows' : r[1] <= clock
    BY <1>1, <1>8, <1>9 DEF IInv, StampsAreUsedOnce
  <2>3. QED
    BY <1>6, <1>7, <2>1, <2>2 DEF StampsAreUsedOnce, IdleSession
<1>13. StopsAreRemembered'
  <2>1. ASSUME NEW r \in ReceiptRows', NEW s \in receipts'[r].stopped
        PROVE  TakesNothingFrom(s, r[1])
    <3>1. CASE r \in ReceiptRows
      BY <1>8, <2>1, <3>1 DEF IInv, StopsAreRemembered
    <3>2. CASE r \notin ReceiptRows
      <4>1. r[1] = smtp.now /\ s \in smtp.stopped
        BY <1>3, <1>9, <2>1, <3>2 DEF now
      <4>2. QED
        BY <4>1 DEF IInv, StopsAreRemembered
    <3>3. QED
      BY <3>1, <3>2
  <2>2. QED
    BY <1>6, <1>7, <2>1
    DEF StopsAreRemembered, TakesNothingFrom, SourceRows, TablesRest, IdleSession
<1>14. PromisesHold'
  <2>1. SUFFICES ASSUME NEW r \in promised',
                        NEW s \in SourcesByKey(r[2], receipts'[r].mail)
                 PROVE  sources[s].status = "active"
    BY <1>6 DEF PromisesHold, SourcesByKey, SourceRows, TablesRest
  <2>2. CASE r \in promised
    BY <1>8, <2>1, <2>2 DEF IInv, TypeOK, PromisesHold
  <2>3. CASE r \notin promised
    <3>1. /\ r \in {now} \X smtp.to
          /\ SourcesByKey(r[2], smtp.mail) \cap
               {t \in StoppedNow : ~sources[t].deleted} = {}
      BY <1>5, <2>3
    <3>2. receipts'[r].mail = smtp.mail
      BY <1>3, <1>10, <3>1
    <3>3. /\ s \in SourceIds /\ sources[s] # None
          /\ sources[s].key = SenderOf[smtp.mail]
      BY <2>1, <3>2 DEF SourcesByKey, SourceRows
    <3>4. ~sources[s].deleted
      BY <1>1, <3>3 DEF IInv, DeletedRowsAreHidden, SourceRows
    <3>5. sources[s].status # "stopped"
      BY <2>1, <3>1, <3>2, <3>3, <3>4 DEF StoppedNow, SourceRows
    <3>6. sources[s] \in Source
      BY <3>3 DEF IInv, TypeOK
    <3>7. QED
      BY <3>5, <3>6 DEF Source
  <2>4. QED
    BY <2>2, <2>3
<1>15. QED
  BY <1>6, <1>11, <1>12, <1>13, <1>14, TablesKept, RequestsKept
  DEF IInv, Housekeeping

(* A session or requests that end, by themselves or in a crash.            *)
LEMMA EndingStep ==
  ASSUME IInv, TablesRest, UNCHANGED <<receipts, clock, failures, promised>>,
         smtp' \in {smtp, IdleSession}, req' \in [Clients -> Request], RequestsEnd
  PROVE  IInv'
<1>1. ReceiptRows' = ReceiptRows
  BY DEF ReceiptRows
<1>2. TypeOK'
  BY <1>1, TablesKept, IdleTypes DEF IInv, TypeOK
<1>3. StampsAreUsedOnce'
  BY <1>1 DEF IInv, TypeOK, StampsAreUsedOnce, IdleSession
<1>4. StopsAreRemembered'
  BY <1>1 DEF IInv, StopsAreRemembered, TakesNothingFrom, SourceRows,
              TablesRest, IdleSession
<1>5. PromisesHold'
  BY DEF IInv, PromisesHold, SourcesByKey, SourceRows, TablesRest
<1>6. QED
  BY <1>2, <1>3, <1>4, <1>5, TablesKept, RequestsKept DEF IInv, Housekeeping

LEMMA RefuseStep ==
  ASSUME IInv, Refuse
  PROVE  IInv'
<1>1. TablesRest /\ UNCHANGED <<receipts, clock, failures, promised, req>>
  BY DEF Refuse, tables, TablesRest
<1>2. smtp' = IdleSession /\ req' \in [Clients -> Request] /\ RequestsEnd
  BY <1>1 DEF Refuse, IInv, TypeOK, RequestsEnd
<1>3. QED
  BY <1>1, <1>2, EndingStep

LEMMA CrashStep ==
  ASSUME IInv, Crash
  PROVE  IInv'
<1>1. TablesRest /\ UNCHANGED <<receipts, clock, failures, promised>>
  BY DEF Crash, tables, TablesRest
<1>2. smtp' = IdleSession /\ req' \in [Clients -> Request] /\ RequestsEnd
  BY IdleTypes DEF Crash, RequestsEnd
<1>3. QED
  BY <1>1, <1>2, EndingStep

LEMMA DoneFacts ==
  ASSUME TypeOK, NEW c \in Clients, Done(c)
  PROVE  req' \in [Clients -> Request] /\ RequestsEnd
<1>1. req' = [req EXCEPT ![c] = IdleReq]
  BY DEF Done
<1>2. req \in [Clients -> Request]
  BY DEF TypeOK
<1>3. QED
  BY <1>1, <1>2, IdleTypes DEF RequestsEnd

LEMMA WriteFailsStep ==
  ASSUME IInv, NEW c \in Clients, WriteFails(c)
  PROVE  IInv'
<1>1. TablesRest /\ UNCHANGED <<receipts, clock, failures, promised, smtp>>
  BY DEF WriteFails, tables, TablesRest
<1>2. req' \in [Clients -> Request] /\ RequestsEnd
  BY DoneFacts DEF WriteFails, IInv
<1>3. QED
  BY <1>1, <1>2, EndingStep

LEMMA ProcessFailsStep ==
  ASSUME IInv, NEW r \in Stamps \X Owners, ProcessFails(r)
  PROVE  IInv'
<1> USE Bounds
<1>1. receipts[r] \in Receipt
  BY DEF ProcessFails, Due, ReceiptRows, IInv, TypeOK
<1>2. PICK noted \in BOOLEAN : receipts' = [receipts EXCEPT ![r].deferred = noted]
  BY DEF ProcessFails
<1>3. /\ [receipts[r] EXCEPT !.deferred = noted] \in Receipt
      /\ receipts' = [receipts EXCEPT ![r] = [receipts[r] EXCEPT !.deferred = noted]]
      /\ [receipts[r] EXCEPT !.deferred = noted].mail = receipts[r].mail
      /\ [receipts[r] EXCEPT !.deferred = noted].stopped = receipts[r].stopped
  BY <1>1, <1>2 DEF Receipt
<1>4. receipts' \in [Stamps \X Owners -> Receipt \cup {None}]
  BY <1>3 DEF IInv, TypeOK
<1>5. /\ ReceiptRows' = ReceiptRows
      /\ \A q \in ReceiptRows : /\ receipts'[q].mail = receipts[q].mail
                                /\ receipts'[q].stopped = receipts[q].stopped
  BY <1>1, <1>3 DEF ReceiptRows, IInv, TypeOK
<1>6. failures' \in 0..MaxFailures
  BY DEF ProcessFails, IInv, TypeOK
<1>7. TablesRest /\ RequestsEnd /\ UNCHANGED <<promised, smtp, clock, req>>
  BY DEF ProcessFails, TablesRest, RequestsEnd
<1>8. TypeOK'
  BY <1>4, <1>5, <1>6, <1>7, TablesKept DEF IInv, TypeOK
<1>9. StampsAreUsedOnce' /\ StopsAreRemembered' /\ PromisesHold'
  BY <1>4, <1>5, <1>7, ReceiptsKept DEF TablesRest
<1>10. QED
  BY <1>7, <1>8, <1>9, TablesKept, RequestsKept DEF IInv, Housekeeping

LEMMA BackoffEndsStep ==
  ASSUME IInv, NEW r \in Stamps \X Owners, BackoffEnds(r)
  PROVE  IInv'
<1> USE Bounds
<1>1. receipts[r] \in Receipt
  BY DEF BackoffEnds, ReceiptRows, IInv, TypeOK
<1>2. receipts' = [receipts EXCEPT ![r].deferred = FALSE]
  BY DEF BackoffEnds
<1>3. /\ [receipts[r] EXCEPT !.deferred = FALSE] \in Receipt
      /\ receipts' = [receipts EXCEPT ![r] = [receipts[r] EXCEPT !.deferred = FALSE]]
      /\ [receipts[r] EXCEPT !.deferred = FALSE].mail = receipts[r].mail
      /\ [receipts[r] EXCEPT !.deferred = FALSE].stopped = receipts[r].stopped
  BY <1>1, <1>2 DEF Receipt
<1>4. receipts' \in [Stamps \X Owners -> Receipt \cup {None}]
  BY <1>3 DEF IInv, TypeOK
<1>5. /\ ReceiptRows' = ReceiptRows
      /\ \A q \in ReceiptRows : /\ receipts'[q].mail = receipts[q].mail
                                /\ receipts'[q].stopped = receipts[q].stopped
  BY <1>1, <1>3 DEF ReceiptRows, IInv, TypeOK
<1>6. TablesRest /\ RequestsEnd /\ UNCHANGED <<promised, smtp, clock, req, failures>>
  BY DEF BackoffEnds, TablesRest, RequestsEnd
<1>7. TypeOK'
  BY <1>4, <1>5, <1>6, TablesKept DEF IInv, TypeOK
<1>8. StampsAreUsedOnce' /\ StopsAreRemembered' /\ PromisesHold'
  BY <1>4, <1>5, <1>6, ReceiptsKept DEF TablesRest
<1>9. QED
  BY <1>6, <1>7, <1>8, TablesKept, RequestsKept DEF IInv, Housekeeping

(* A request that has checked.                                             *)
LEMMA CheckedStep ==
  ASSUME IInv, NEW c \in Clients, NEW q \in Request, Checked(c, q),
         q.op # "none" => q.owner \in Owners,
         q.op \in {"stop", "enable", "move"} => q.source \in SourceIds,
         q.op \in {"move", "moveNew", "unsave"} => q.message \in MessageIds,
         q.source \in SourceRows => sources[q.source].owner = q.owner,
         q.message \in MessageRows => messages[q.message].owner = q.owner
  PROVE  IInv'
<1>1. req' = [req EXCEPT ![c] = q]
  BY DEF Checked
<1>2. TablesRest /\ UNCHANGED <<receipts, clock, failures, promised, smtp>>
  BY DEF Checked, tables, TablesRest
<1>3. ReceiptRows' = ReceiptRows
  BY <1>2 DEF ReceiptRows
<1>4. TypeOK'
  BY <1>1, <1>2, <1>3, TablesKept DEF IInv, TypeOK
<1>5. RequestsAreFounded'
  <2>1. ASSUME NEW d \in Clients
        PROVE  /\ req'[d].op # "none" => req'[d].owner \in Owners
               /\ req'[d].op \in {"stop", "enable", "move"} =>
                    req'[d].source \in SourceIds
               /\ req'[d].op \in {"move", "moveNew", "unsave"} =>
                    req'[d].message \in MessageIds
               /\ req'[d].source \in SourceRows =>
                    sources[req'[d].source].owner = req'[d].owner
               /\ req'[d].message \in MessageRows =>
                    messages[req'[d].message].owner = req'[d].owner
    <3>1. CASE d = c
      BY <1>1, <3>1 DEF IInv, TypeOK
    <3>2. CASE d # c
      BY <1>1, <3>2 DEF IInv, RequestsAreFounded
    <3>3. QED
      BY <3>1, <3>2
  <2>2. QED
    BY <1>2, <2>1 DEF RequestsAreFounded, SourceRows, MessageRows, TablesRest
<1>6. StampsAreUsedOnce' /\ StopsAreRemembered' /\ PromisesHold'
  BY <1>2, <1>3, ReceiptsKept DEF TablesRest, IInv, TypeOK
<1>7. QED
  BY <1>2, <1>4, <1>5, <1>6, TablesKept DEF IInv, Housekeeping

LEMMA CheckSourceStep ==
  ASSUME IInv, NEW c \in Clients, CheckSource(c)
  PROVE  IInv'
<1>1. PICK op \in {"stop", "enable"}, s \in SourceRows :
        Checked(c, [IdleReq EXCEPT !.op = op, !.owner = sources[s].owner,
                                   !.source = s])
  BY DEF CheckSource
<1> DEFINE q == [IdleReq EXCEPT !.op = op, !.owner = sources[s].owner,
                                !.source = s]
<1>2. s \in SourceIds /\ sources[s].owner \in Owners
  BY DEF IInv, TypeOK, SourceRows, Source
<1>3. q \in Request /\ q.op = op /\ q.owner = sources[s].owner /\ q.source = s
      /\ q.message = None
  BY <1>2 DEF IdleReq, Request
<1>4. Checked(c, q)
  BY <1>1
<1> HIDE DEF q
<1>5. QED
  BY <1>2, <1>3, <1>4, CheckedStep, Bounds DEF MessageRows

LEMMA CheckMoveStep ==
  ASSUME IInv, NEW c \in Clients, CheckMove(c)
  PROVE  IInv'
<1>1. PICK m \in MessageRows :
        LET r == [IdleReq EXCEPT !.owner = messages[m].owner, !.message = m]
        IN  \/ Checked(c, [r EXCEPT !.op = "moveNew"])
            \/ \E s \in SourceRows :
                 /\ sources[s].owner = messages[m].owner
                 /\ ~sources[s].deleted
                 /\ sources[s].status = "active"
                 /\ Checked(c, [r EXCEPT !.op = "move", !.source = s])
  BY DEF CheckMove
<1>2. m \in MessageIds /\ messages[m].owner \in Owners
  BY DEF IInv, TypeOK, MessageRows, Message
<1> DEFINE r == [IdleReq EXCEPT !.owner = messages[m].owner, !.message = m]
<1>3. r \in Request /\ r.owner = messages[m].owner /\ r.message = m
      /\ r.source = None
  BY <1>2 DEF IdleReq, Request
<1> HIDE DEF r
<1>4. CASE Checked(c, [r EXCEPT !.op = "moveNew"])
  <2> DEFINE q == [r EXCEPT !.op = "moveNew"]
  <2>1. q \in Request /\ q.op = "moveNew" /\ q.owner = messages[m].owner
        /\ q.message = m /\ q.source = None
    BY <1>3 DEF Request
  <2>2. Checked(c, q)
    BY <1>4
  <2> HIDE DEF q
  <2>3. QED
    BY <1>2, <2>1, <2>2, CheckedStep, Bounds DEF SourceRows
<1>5. CASE \E s \in SourceRows :
             /\ sources[s].owner = messages[m].owner
             /\ ~sources[s].deleted
             /\ sources[s].status = "active"
             /\ Checked(c, [r EXCEPT !.op = "move", !.source = s])
  <2>1. PICK s \in SourceRows :
          /\ sources[s].owner = messages[m].owner
          /\ Checked(c, [r EXCEPT !.op = "move", !.source = s])
    BY <1>5
  <2> DEFINE q == [r EXCEPT !.op = "move", !.source = s]
  <2>2. s \in SourceIds
    BY DEF SourceRows
  <2>3. q \in Request /\ q.op = "move" /\ q.owner = messages[m].owner
        /\ q.message = m /\ q.source = s
    BY <1>3, <2>2 DEF Request
  <2>4. Checked(c, q)
    BY <2>1
  <2> HIDE DEF q
  <2>5. QED
    BY <1>2, <2>1, <2>2, <2>3, <2>4, CheckedStep
<1>6. QED
  BY <1>1, <1>4, <1>5 DEF r

LEMMA CheckSaveStep ==
  ASSUME IInv, NEW c \in Clients, CheckSave(c)
  PROVE  IInv'
<1>1. PICK m \in MessageIds :
        /\ ~Unsaved(m)
        /\ Checked(c, [IdleReq EXCEPT !.op = "unsave",
                          !.owner = messages[m].owner, !.message = m,
                          !.save = saves[m]])
  BY DEF CheckSave
<1> DEFINE q == [IdleReq EXCEPT !.op = "unsave", !.owner = messages[m].owner,
                    !.message = m, !.save = saves[m]]
<1>2. messages[m] # None /\ saves[m] \in SaveIds
  BY <1>1 DEF IInv, TypeOK, UniqueKeys, MessageRows, Unsaved
<1>3. messages[m].owner \in Owners
  BY <1>2 DEF IInv, TypeOK, Message
<1>4. q \in Request /\ q.op = "unsave" /\ q.owner = messages[m].owner
      /\ q.message = m /\ q.source = None
  BY <1>2, <1>3 DEF IdleReq, Request
<1>5. Checked(c, q)
  BY <1>1
<1> HIDE DEF q
<1>6. QED
  BY <1>3, <1>4, <1>5, CheckedStep, Bounds DEF SourceRows

-----------------------------------------------------------------------------
(* The transactions.                                                       *)

LEMMA ReaderStep ==
  ASSUME IInv, RowsEvolve, Housekeeping', late' \subseteq SourceRows',
         UNCHANGED <<receipts, smtp, failures>>,
         clock' \in {clock, clock + 1}, clock' \in 0..MaxStamp,
         req' \in [Clients -> Request], RequestsEnd,
         promised' \subseteq promised, PromisesHold'
  PROVE  IInv'
<1>1. UniqueKeys'
  BY KeysStayUnique DEF IInv
<1>2. ReceiptRows' = ReceiptRows
  BY DEF ReceiptRows
<1>3. TypeOK'
  BY <1>1, <1>2 DEF IInv, TypeOK, RowsEvolve, RowsAreTyped
<1>4. StampsAreUsedOnce'
  <2>1. \A r \in ReceiptRows : r[1] \in Nat
    BY DEF ReceiptRows, Stamps
  <2>2. clock \in Nat /\ smtp.now \in Nat
    BY DEF IInv, TypeOK, Session, Stamps
  <2>3. QED
    BY <1>2, <2>1, <2>2 DEF IInv, StampsAreUsedOnce
<1>5. RequestsAreFounded'
  BY RequestsStayFounded DEF IInv, RowsEvolve
<1>6. StopsAreRemembered'
  BY StopsStayRemembered DEF IInv, RowsEvolve, RowsAreTyped
<1>7. QED
  BY <1>3, <1>4, <1>5, <1>6 DEF IInv, Housekeeping

LEMMA HouseInIInv == IInv => TypeOK /\ RequestsAreFounded /\ PromisesHold /\ Housekeeping
  BY DEF IInv, Housekeeping

LEMMA DeleteSourceStep ==
  ASSUME IInv, DeleteSource
  PROVE  IInv'
<1>1. /\ RowsEvolve /\ Housekeeping' /\ late' \subseteq SourceRows'
      /\ \A t \in SourceIds : sources'[t] # None /\ sources'[t].key # None =>
           sources'[t].status = sources[t].status
  BY HouseInIInv, DeleteSourceRows
<1>2. UNCHANGED <<receipts, smtp, failures, clock, req, promised>>
  BY DEF DeleteSource
<1>3. PromisesHold'
  BY <1>1, <1>2, HouseInIInv, PromisesStayHeld
  DEF RowsEvolve, SourcesByKey, SourceRows
<1>4. req' \in [Clients -> Request] /\ RequestsEnd /\ clock' \in 0..MaxStamp
  BY <1>2 DEF IInv, TypeOK, RequestsEnd
<1>5. QED
  BY <1>1, <1>2, <1>3, <1>4, ReaderStep

LEMMA SaveMessageStep ==
  ASSUME IInv, SaveMessage
  PROVE  IInv'
<1>1. /\ RowsEvolve /\ Housekeeping' /\ late' \subseteq SourceRows'
      /\ sources' = sources
  BY HouseInIInv, SaveMessageRows
<1>2. UNCHANGED <<receipts, smtp, failures, clock, req, promised>>
  BY DEF SaveMessage
<1>3. PromisesHold'
  BY <1>1, <1>2, HouseInIInv, PromisesStayHeld DEF RowsEvolve
<1>4. req' \in [Clients -> Request] /\ RequestsEnd /\ clock' \in 0..MaxStamp
  BY <1>2 DEF IInv, TypeOK, RequestsEnd
<1>5. QED
  BY <1>1, <1>2, <1>3, <1>4, ReaderStep

LEMMA StopSourceStep ==
  ASSUME IInv, NEW c \in Clients, StopSource(c)
  PROVE  IInv'
<1> DEFINE s == req[c].source
<1>1. RowsEvolve /\ Housekeeping' /\ late' \subseteq SourceRows'
  BY HouseInIInv, StopSourceRows
<1>2. UNCHANGED <<receipts, smtp, failures, clock>>
  BY DEF StopSource
<1>3. req' \in [Clients -> Request] /\ RequestsEnd /\ clock' \in 0..MaxStamp
  BY <1>2, DoneFacts, HouseInIInv DEF StopSource, IInv, TypeOK
<1>4. /\ promised' = {r \in promised :
                        s \notin SourcesByKey(r[2], receipts[r].mail)}
      /\ sources' = [sources EXCEPT ![s].status = "stopped"]
  BY DEF StopSource
<1>5. \A t \in SourceIds : t # s => sources'[t] = sources[t]
  BY <1>4
<1>6. PromisesHold'
  BY <1>1, <1>2, <1>4, <1>5, HouseInIInv, PromisesStayHeld
  DEF RowsEvolve, SourcesByKey, SourceRows
<1>7. QED
  BY <1>1, <1>2, <1>3, <1>4, <1>6, ReaderStep

LEMMA EnableSourceStep ==
  ASSUME IInv, NEW c \in Clients, EnableSource(c)
  PROVE  IInv'
<1>1. /\ RowsEvolve /\ Housekeeping' /\ late' \subseteq SourceRows'
      /\ \A t \in SourceIds : sources'[t] # None =>
           sources'[t].status \in {sources[t].status, "active"}
  BY HouseInIInv, EnableSourceRows
<1>2. /\ UNCHANGED <<receipts, smtp, failures, promised>>
      /\ clock' = clock + 1 /\ clock < MaxStamp
  BY DEF EnableSource
<1>3. req' \in [Clients -> Request] /\ RequestsEnd
  BY DoneFacts, HouseInIInv DEF EnableSource
<1>4. clock' \in 0..MaxStamp
  BY <1>2, Bounds DEF IInv, TypeOK
<1>5. PromisesHold'
  BY <1>1, <1>2, HouseInIInv, PromisesStayHeld
  DEF RowsEvolve, SourcesByKey, SourceRows
<1>6. QED
  BY <1>1, <1>2, <1>3, <1>4, <1>5, ReaderStep

LEMMA MoveStep ==
  ASSUME IInv, NEW c \in Clients, Move(c) \/ MoveNew(c) \/ DeleteSave(c)
  PROVE  IInv'
<1>1. /\ RowsEvolve /\ Housekeeping' /\ late' \subseteq SourceRows'
      /\ \A t \in SourceRows : sources'[t] \in {sources[t], None}
  BY HouseInIInv, MoveRows, MoveNewRows, DeleteSaveRows DEF SourceRows
<1>2. UNCHANGED <<receipts, smtp, failures, clock, promised>> /\ Done(c)
  BY DEF Move, MoveNew, DeleteSave
<1>3. req' \in [Clients -> Request] /\ RequestsEnd /\ clock' \in 0..MaxStamp
  BY <1>2, DoneFacts, HouseInIInv DEF IInv, TypeOK
<1>4. PromisesHold'
  BY <1>1, <1>2, HouseInIInv, PromisesStayHeld DEF RowsEvolve, SourcesByKey
<1>5. QED
  BY <1>1, <1>2, <1>3, <1>4, ReaderStep

-----------------------------------------------------------------------------
LEMMA InitIInv == Init => IInv
<1> SUFFICES ASSUME Init PROVE IInv
  OBVIOUS
<1> USE Bounds, IdleTypes DEF Init
<1>1. SourceRows = {} /\ MessageRows = {} /\ ReceiptRows = {}
  BY DEF SourceRows, MessageRows, ReceiptRows
<1>2. TypeOK
  BY <1>1 DEF TypeOK, UniqueKeys
<1>3. StampsAreUsedOnce /\ RequestsAreFounded /\ StopsAreRemembered
  BY <1>1 DEF StampsAreUsedOnce, RequestsAreFounded, StopsAreRemembered,
              IdleSession, IdleReq
<1>4. Housekeeping /\ PromisesHold
  BY <1>1 DEF Housekeeping, DeletedRowsAreHidden, StoppedKeepsSaved,
              HiddenRowHoldsMessage, PromisesHold
<1>5. QED
  BY <1>2, <1>3, <1>4 DEF IInv, Housekeeping

LEMMA StepIInv == IInv /\ [Next]_vars => IInv'
<1> SUFFICES ASSUME IInv, [Next]_vars PROVE IInv'
  OBVIOUS
<1>1. CASE UNCHANGED vars
  <2>1. TablesRest /\ UNCHANGED <<receipts, clock, failures, promised, smtp, req>>
    BY <1>1 DEF vars, TablesRest
  <2>2. req' \in [Clients -> Request] /\ RequestsEnd
    BY <2>1 DEF IInv, TypeOK, RequestsEnd
  <2>3. QED
    BY <2>1, <2>2, EndingStep
<1>2. CASE Delivery
  BY <1>2, StampDeliveryStep, AcceptReceiptsStep, RefuseStep DEF Delivery
<1>3. CASE Processor
  BY <1>3, ProcessStep, ProcessFailsStep, BackoffEndsStep DEF Processor
<1>4. CASE Reader
  BY <1>4, DeleteSourceStep, SaveMessageStep, CheckSourceStep, CheckMoveStep,
     CheckSaveStep, WriteFailsStep, StopSourceStep, EnableSourceStep, MoveStep
  DEF Reader
<1>5. CASE Crash
  BY <1>5, CrashStep
<1>6. QED
  BY <1>1, <1>2, <1>3, <1>4, <1>5 DEF Next

(* The invariant from which every other theorem follows.                   *)
THEOREM Inductive == Spec => []IInv
  BY InitIInv, StepIInv, PTL DEF Spec

(* Every row and request is well formed, a reader has one source for each  *)
(* sender and one message for each mail, and no message outlives its       *)
(* source, whatever the handlers and the processor interleave.             *)
THEOREM TypeCorrect == Spec => []TypeOK
<1>1. IInv => TypeOK
  BY DEF IInv
<1>2. QED
  BY <1>1, Inductive, PTL

(* A stopped source holds saved messages only, unless a request with a     *)
(* stale check changed it (StopSource, DeleteSave, ProcessNext).           *)
THEOREM StopsSweep == Spec => []StoppedKeepsSaved
<1>1. IInv => StoppedKeepsSaved
  BY DEF IInv
<1>2. QED
  BY <1>1, Inductive, PTL

(* A deleted source's row is swept with its last message, whichever        *)
(* request takes that away.                                                *)
THEOREM HiddenRowsEnd == Spec => []HiddenRowHoldsMessage
<1>1. IInv => HiddenRowHoldsMessage
  BY DEF IInv
<1>2. QED
  BY <1>1, Inductive, PTL

-----------------------------------------------------------------------------
(* The action properties.                                                  *)

LEMMA OnlyProcessTakes ==
  ASSUME IInv, [Next]_vars, NEW r \in ReceiptRows, receipts'[r] = None
  PROVE  r \in Stamps \X Owners /\ ProcessNext(r)
<1> USE Bounds
<1>1. r \in Stamps \X Owners /\ receipts[r] # None
  BY DEF ReceiptRows
<1>2. receipts' # receipts
  BY <1>1
<1>3. ASSUME AcceptReceipts PROVE FALSE
  <2> DEFINE new == [mail |-> smtp.mail, deferred |-> FALSE,
                     stopped |-> smtp.stopped]
  <2>1. new \in Receipt
    BY <1>3 DEF AcceptReceipts, IInv, TypeOK, Session, Receipt
  <2>2. receipts'[r] \in {new, receipts[r]}
    BY <1>1, <1>3 DEF AcceptReceipts
  <2> HIDE DEF new
  <2>3. QED
    BY <1>1, <2>1, <2>2
<1>4. ASSUME NEW q \in Stamps \X Owners, ProcessFails(q) \/ BackoffEnds(q)
      PROVE  FALSE
  <2>1. PICK b \in BOOLEAN : receipts' = [receipts EXCEPT ![q].deferred = b]
    BY <1>4 DEF ProcessFails, BackoffEnds
  <2>2. receipts[q] \in Receipt
    BY <1>4 DEF ProcessFails, BackoffEnds, Due, ReceiptRows, IInv, TypeOK
  <2>3. [receipts[q] EXCEPT !.deferred = b] \in Receipt
    BY <2>2 DEF Receipt
  <2>4. QED
    BY <1>1, <2>1, <2>2, <2>3 DEF IInv, TypeOK
<1>5. ASSUME NEW q \in Stamps \X Owners, ProcessNext(q)
      PROVE  q = r
  BY <1>1, <1>5, ProcessRows DEF Take, IInv, TypeOK
<1>6. CASE Processor
  BY <1>1, <1>4, <1>5, <1>6 DEF Processor
<1>7. CASE Delivery
  BY <1>2, <1>3, <1>7 DEF Delivery, StampDelivery, Refuse, tables
<1>8. CASE Reader
  BY <1>2, <1>8 DEF Reader, DeleteSource, SaveMessage, CheckSource, CheckMove,
     CheckSave, Checked, WriteFails, StopSource, EnableSource, Move, MoveNew,
     DeleteSave, tables
<1>9. CASE Crash \/ UNCHANGED vars
  BY <1>2, <1>9 DEF Crash, vars, tables
<1>10. QED
  BY <1>6, <1>7, <1>8, <1>9 DEF Next

(* Mail that came while a source was stopped is never filed under it: the  *)
(* source is still stopped, or was enabled later than the mail's stamp.    *)
THEOREM BacklogIsDropped == Spec => BacklogStaysOut
<1>1. ASSUME IInv, [Next]_vars, NEW r \in ReceiptRows, NEW m \in MessageIds,
             receipts'[r] = None, messages[m] = None, messages'[m] # None
      PROVE  messages'[m].source \notin receipts[r].stopped
  <2> DEFINE s == messages'[m].source
  <2>1. r \in Stamps \X Owners /\ ProcessNext(r)
    BY <1>1, OnlyProcessTakes
  <2>2. SourceAdded(r) /\ MessageAdded(r)
    BY <1>1, <2>1, ProcessRows DEF IInv
  <2>3. /\ s \in SourceIds /\ sources'[s] # None
        /\ \/ sources[s] = None
           \/ s \in SourceRows /\ ~Discarded(s, r[1])
    BY <1>1, <2>2 DEF MessageAdded, SourcesByKey
  <2> HIDE DEF s
  <2>4. CASE sources[s] = None
    BY <2>2, <2>3, <2>4 DEF SourceAdded, NewSource, s
  <2>5. CASE s \in SourceRows /\ ~Discarded(s, r[1])
    <3>1. sources[s] \in Source /\ r[1] \in Nat
      BY <1>1, <2>1, <2>5 DEF IInv, TypeOK, SourceRows, Stamps
    <3>2. ~(sources[s].status = "stopped") /\ ~(sources[s].acceptAfter > r[1])
      BY <2>5, <3>1 DEF Discarded, Source, Stamps
    <3>3. QED
      BY <1>1, <2>5, <3>2 DEF IInv, StopsAreRemembered, TakesNothingFrom, s
  <2>6. QED
    BY <2>3, <2>4, <2>5
<1>2. IInv /\ [Next]_vars =>
        [\A r \in ReceiptRows, m \in MessageIds :
           /\ receipts'[r] = None
           /\ messages[m] = None /\ messages'[m] # None
           => messages'[m].source \notin receipts[r].stopped]_vars
  BY <1>1
<1>3. QED
  BY <1>2, Inductive, PTL DEF Spec, BacklogStaysOut

(* A receipt taken while its sender was not stopped ends as a message,     *)
(* unless an enable came between: a stop withdraws the promise, a delete   *)
(* frees the key for a new source.                                         *)
THEOREM AcceptedMailIsFiled == Spec => AcceptedMailFiled
<1>1. ASSUME IInv, [Next]_vars, NEW r \in promised, receipts'[r] = None
      PROVE  \/ FiledNext(r)
             \/ \E s \in SourcesByKey(r[2], receipts[r].mail) :
                  sources[s].acceptAfter > r[1]
  <2> DEFINE mail == receipts[r].mail
             known == SourcesByKey(r[2], mail)
  <2>1. r \in ReceiptRows
    BY <1>1 DEF IInv, TypeOK
  <2>2. r \in Stamps \X Owners /\ ProcessNext(r)
    BY <1>1, <2>1, OnlyProcessTakes
  <2>3. MessageAdded(r) /\ receipts[r] \in Receipt
    BY <1>1, <2>2, ProcessRows DEF IInv
  <2>4. ASSUME AlreadyStored(r[2], mail) PROVE FiledNext(r)
    BY <2>3, <2>4 DEF AlreadyStored, MessageRows, MessageAdded, FiledNext
  <2>5. ASSUME NEW s \in SourceIds, Store(r, s) PROVE FiledNext(r)
    <3> DEFINE row == [owner |-> r[2], mail |-> mail, source |-> s]
    <3>1. PICK m \in MessageIds : messages' = [messages EXCEPT ![m] = row]
      BY <2>5 DEF Store
    <3>2. messages'[m] = row
      BY <1>1, <3>1 DEF IInv, TypeOK
    <3>3. row # None
      <4>1. row \in Message
        BY <2>2, <2>3, <2>5 DEF Message, Receipt
      <4>2. QED
        BY <4>1, Bounds
    <3>4. QED
      BY <3>2, <3>3 DEF FiledNext
  <2>6. ASSUME NEW s \in known, Discarded(s, r[1])
        PROVE  sources[s].acceptAfter > r[1]
    <3>1. sources[s].status = "active"
      BY <1>1 DEF IInv, PromisesHold
    <3>2. sources[s].acceptAfter \in Nat /\ r[1] \in Nat
      BY <1>1, <2>2 DEF SourcesByKey, SourceRows, IInv, TypeOK, Source, Stamps
    <3>3. QED
      BY <2>6, <3>1, <3>2 DEF Discarded
  <2>7. known \subseteq SourceIds
    BY DEF SourcesByKey, SourceRows
  <2>8. QED
    BY <2>2, <2>4, <2>5, <2>6, <2>7 DEF ProcessNext
<1>2. IInv /\ [Next]_vars =>
        [\A r \in promised : receipts'[r] = None =>
           \/ FiledNext(r)
           \/ \E s \in SourcesByKey(r[2], receipts[r].mail) :
                sources[s].acceptAfter > r[1]]_vars
  BY <1>1
<1>3. QED
  BY <1>2, Inductive, PTL DEF Spec, AcceptedMailFiled

LEMMA SaveEnds ==
  ASSUME IInv, [Next]_vars, NEW m \in MessageIds,
         saves[m] # None, saves'[m] # saves[m]
  PROVE  \E c \in Clients : DeleteSave(c) /\ req[c].save = saves[m]
<1> USE Bounds
<1>1. messages[m] # None
  BY DEF IInv, TypeOK, UniqueKeys, MessageRows
<1>2. ASSUME NEW s, messages' = WithoutUnsaved(s), Cascade(saves)
      PROVE  FALSE
  <2>1. messages'[m] = messages[m]
    BY <1>2 DEF WithoutUnsaved, Unsaved
  <2>2. QED
    BY <1>1, <1>2, <2>1 DEF Cascade
<1>3. ASSUME SaveMessage PROVE FALSE
  <2>1. PICK n \in MessageRows, v \in SaveIds :
          Unsaved(n) /\ saves' = [saves EXCEPT ![n] = v]
    BY <1>3 DEF SaveMessage
  <2>2. n # m
    BY <2>1 DEF Unsaved
  <2>3. QED
    BY <2>1, <2>2 DEF IInv, TypeOK
<1>4. ASSUME NEW c \in Clients, DeleteSave(c)
      PROVE  req[c].save = saves[m]
  <2> DEFINE left == [n \in MessageIds |->
                        IF n = req[c].message /\ saves[n] = req[c].save
                        THEN None ELSE saves[n]]
  <2>1. /\ messages' = IF GoneOnceUnsaved(req[c].message, left)
                       THEN [messages EXCEPT ![req[c].message] = None]
                       ELSE messages
        /\ Cascade(left)
    BY <1>4 DEF DeleteSave
  <2>2. SUFFICES ASSUME left[m] = saves[m] PROVE FALSE
    OBVIOUS
  <2>3. messages'[m] = messages[m]
    BY <2>1, <2>2 DEF GoneOnceUnsaved, IInv, TypeOK
  <2>4. QED
    BY <1>1, <2>1, <2>2, <2>3 DEF Cascade
<1>5. saves' # saves
  OBVIOUS
<1>6. CASE Processor
  BY <1>5, <1>6, ProcessRows DEF Processor, ProcessFails, BackoffEnds, IInv
<1>7. CASE Reader
  BY <1>2, <1>3, <1>4, <1>5, <1>7
  DEF Reader, DeleteSource, CheckSource, CheckMove, CheckSave, Checked,
      WriteFails, StopSource, EnableSource, Move, MoveNew, tables
<1>8. CASE Delivery \/ Crash \/ UNCHANGED vars
  BY <1>5, <1>8 DEF Delivery, StampDelivery, AcceptReceipts, Refuse, Crash,
     vars, tables
<1>9. QED
  BY <1>6, <1>7, <1>8 DEF Next

(* No stop, delete, move, sweep or cascade takes a save away; only the     *)
(* request that checked that very save does.                               *)
THEOREM SavesStay == Spec => SaveEndsByUnsave
<1>1. IInv /\ [Next]_vars =>
        [\A m \in MessageIds : saves[m] # None /\ saves'[m] # saves[m] =>
           \E c \in Clients : DeleteSave(c) /\ req[c].save = saves[m]]_vars
  BY SaveEnds
<1>2. QED
  BY <1>1, Inductive, PTL DEF Spec, SaveEndsByUnsave

-----------------------------------------------------------------------------
(* What the reader sees.                                                   *)

(* A message stays its owner's, wherever it is moved.                      *)
LEMMA OwnersStay ==
  ASSUME IInv, [Next]_vars, NEW m \in MessageIds,
         messages[m] # None, messages'[m] # None
  PROVE  messages'[m].owner = messages[m].owner
<1>1. CASE messages' = messages
  BY <1>1
<1>2. CASE MessagesEvolve
  BY <1>2 DEF MessagesEvolve
<1>3. ASSUME NEW r \in Stamps \X Owners, ProcessNext(r)
      PROVE  messages'[m] = messages[m]
  BY <1>3, ProcessRows, HouseInIInv DEF MessageAdded
<1>4. CASE Reader
  <2>1. ASSUME NEW c \in Clients,
               StopSource(c) \/ EnableSource(c) \/ Move(c) \/ MoveNew(c)
               \/ DeleteSave(c)
        PROVE  MessagesEvolve
    BY <2>1, HouseInIInv, StopSourceRows, EnableSourceRows, MoveRows,
       MoveNewRows, DeleteSaveRows DEF RowsEvolve
  <2>2. DeleteSource \/ SaveMessage => MessagesEvolve
    BY HouseInIInv, DeleteSourceRows, SaveMessageRows DEF RowsEvolve
  <2>3. ASSUME NEW c \in Clients,
               CheckSource(c) \/ CheckMove(c) \/ CheckSave(c) \/ WriteFails(c)
        PROVE  messages' = messages
    BY <2>3 DEF CheckSource, CheckMove, CheckSave, Checked, WriteFails, tables
  <2>4. QED
    BY <1>1, <1>2, <1>4, <2>1, <2>2, <2>3 DEF Reader
<1>5. CASE Processor
  BY <1>1, <1>3, <1>5 DEF Processor, ProcessFails, BackoffEnds
<1>6. CASE Delivery \/ Crash \/ UNCHANGED vars
  BY <1>1, <1>6 DEF Delivery, StampDelivery, AcceptReceipts, Refuse, Crash,
                    vars, tables
<1>7. QED
  BY <1>4, <1>5, <1>6 DEF Next

(* A saved issue stays listed in the library until its very save is        *)
(* removed, whatever becomes of its source (SPEC.md).                      *)
THEOREM SavedStaysListed == Spec => SavedStaysInLibrary
<1>1. ASSUME IInv, IInv', [Next]_vars, NEW o \in Owners, NEW m \in ListSaves(o),
             ~(\E c \in Clients : DeleteSave(c) /\ req[c].save = saves[m])
      PROVE  m \in ListSaves(o)'
  <2>1. /\ m \in MessageIds /\ messages[m] # None /\ saves[m] # None
        /\ messages[m].owner = o
    BY <1>1 DEF ListSaves, MessageRows, Unsaved
  <2>2. saves'[m] = saves[m]
    BY <1>1, <2>1, SaveEnds
  <2>3. m \in MessageRows'
    BY <1>1, <2>1, <2>2 DEF IInv, TypeOK, UniqueKeys, MessageRows
  <2>4. messages'[m].owner = o
    BY <1>1, <2>1, <2>3, OwnersStay DEF MessageRows
  <2>5. /\ messages'[m].source \in SourceRows'
        /\ sources'[messages'[m].source].owner = o
    BY <1>1, <2>3, <2>4 DEF IInv, TypeOK, UniqueKeys
  <2>6. QED
    BY <2>1, <2>2, <2>3, <2>4, <2>5 DEF ListSaves, Unsaved
<1>2. IInv /\ IInv' /\ [Next]_vars =>
        [\A o \in Owners : \A m \in ListSaves(o) :
           m \in ListSaves(o)' \/ \E c \in Clients :
               DeleteSave(c) /\ req[c].save = saves[m]]_vars
  BY <1>1
<1>3. QED
  BY <1>2, Inductive, PTL DEF Spec, SavedStaysInLibrary

(* Nothing is stored that the reader cannot come to, and nothing is shown  *)
(* in the digest whose source is not on the active list.                   *)
THEOREM NothingStranded == Spec => []NothingIsStranded
<1>1. ASSUME IInv, NEW o \in Owners, NEW m \in GetMessageBySlug(o),
             messages[m].source \notin late
      PROVE  LET s == messages[m].source
             IN  /\ m \in ListSourceMessages(o, s) \cup ListSaves(o)
                 /\ m \in ListDigestMessages(o) => s \in ListSources(o).active
  <2> DEFINE s == messages[m].source
  <2>1. /\ m \in MessageRows /\ messages[m].owner = o
        /\ s \in SourceRows /\ sources[s].owner = o /\ sources[s] \in Source
    BY <1>1 DEF GetMessageBySlug, IInv, TypeOK, UniqueKeys, SourceRows
  <2>2. sources[s].deleted => sources[s].status = "stopped"
    BY <1>1, <2>1 DEF IInv, DeletedRowsAreHidden
  <2>3. sources[s].status = "stopped" => ~Unsaved(m)
    BY <1>1, <2>1 DEF IInv, StoppedKeepsSaved
  <2>4. CASE sources[s].deleted
    BY <2>1, <2>2, <2>3, <2>4 DEF ListSaves, ListDigestMessages
  <2>5. CASE ~sources[s].deleted
    <3>1. s \in ListNewsletterSources(o)
      BY <2>1, <2>5 DEF ListNewsletterSources
    <3>2. m \in ListSourceMessages(o, s)
      BY <2>1, <3>1 DEF ListSourceMessages, GetSource, IssuesOf
    <3>3. m \in ListDigestMessages(o) => s \in ListSources(o).active
      BY <3>1 DEF ListDigestMessages, ListSources
    <3>4. QED
      BY <3>2, <3>3
  <2>6. QED
    BY <2>4, <2>5
<1>2. IInv => NothingIsStranded
  BY <1>1 DEF NothingIsStranded
<1>3. QED
  BY <1>2, Inductive, PTL

-----------------------------------------------------------------------------
(* Storage.  A row's bytes are the row paired with each of its places, so  *)
(* what a step adds or takes away is counted without summing anything.     *)

LEMMA SizesFit ==
  ASSUME NEW mail \in Mails
  PROVE  /\ Reserved(mail) \in Nat /\ fitNormalizedMail(mail) \in Nat
         /\ fitNormalizedMail(mail) <= Reserved(mail)
  BY NewsletterAssumption DEF Reserved, fitNormalizedMail

LEMMA Limits ==
    /\ OwnerBytes \in Nat /\ GlobalBytes \in Nat /\ IsFiniteSet(Owners)
  BY NewsletterAssumption

(* So many places of one row, and of each row of a set.                    *)
LEMMA PlacesCounted ==
  ASSUME NEW rows, IsFiniteSet(rows), NEW n \in Nat
  PROVE  /\ IsFiniteSet(rows \X (1..n))
         /\ Cardinality(rows \X (1..n)) = Cardinality(rows) * n
<1>1. IsFiniteSet(1..n) /\ Cardinality(1..n) = n
  <2>1. n \in Int /\ 1 \in Int
    OBVIOUS
  <2>2. /\ IsFiniteSet(1..n)
        /\ Cardinality(1..n) = IF 1 > n THEN 0 ELSE n - 1 + 1
    BY <2>1, FS_Interval
  <2> QED
    BY <2>2
<1> QED
  BY <1>1, FS_Product

LEMMA RowCounted ==
  ASSUME NEW row, NEW n \in Nat
  PROVE  /\ IsFiniteSet({row} \X (1..n))
         /\ Cardinality({row} \X (1..n)) = n
<1>1. IsFiniteSet({row}) /\ Cardinality({row}) = 1
  BY FS_Singleton
<1> QED
  BY <1>1, PlacesCounted

(* A set within a finite one, within one and a few more, or within one     *)
(* less a part of it.                                                      *)
LEMMA Within ==
  ASSUME NEW A, IsFiniteSet(A), NEW B \in SUBSET A
  PROVE  /\ IsFiniteSet(B) /\ Cardinality(B) \in Nat /\ Cardinality(A) \in Nat
         /\ Cardinality(B) <= Cardinality(A)
  BY FS_Subset, FS_CardinalityType

LEMMA WithinMore ==
  ASSUME NEW A, IsFiniteSet(A), NEW D, IsFiniteSet(D), NEW B \in SUBSET (A \cup D)
  PROVE  /\ IsFiniteSet(B) /\ Cardinality(B) \in Nat /\ Cardinality(A) \in Nat
         /\ Cardinality(D) \in Nat
         /\ Cardinality(B) <= Cardinality(A) + Cardinality(D)
<1>1. /\ IsFiniteSet(A \cup D)
      /\ Cardinality(A \cup D)
           = Cardinality(A) + Cardinality(D) - Cardinality(A \cap D)
  BY FS_Union
<1>2. IsFiniteSet(A \cap D)
  BY FS_Subset
<1>3. /\ Cardinality(A) \in Nat /\ Cardinality(D) \in Nat
      /\ Cardinality(A \cap D) \in Nat /\ Cardinality(A \cup D) \in Nat
  BY <1>1, <1>2, FS_CardinalityType
<1>4. /\ IsFiniteSet(B) /\ Cardinality(B) \in Nat
      /\ Cardinality(B) <= Cardinality(A \cup D)
  BY <1>1, Within
<1> QED
  BY <1>1, <1>3, <1>4

LEMMA WithinLess ==
  ASSUME NEW A, IsFiniteSet(A), NEW D \in SUBSET A, NEW B \in SUBSET (A \ D)
  PROVE  /\ IsFiniteSet(B) /\ Cardinality(B) \in Nat /\ Cardinality(A) \in Nat
         /\ Cardinality(D) \in Nat
         /\ Cardinality(B) <= Cardinality(A) - Cardinality(D)
<1>1. A \cap D = D
  OBVIOUS
<1>2. /\ IsFiniteSet(A \ D)
      /\ Cardinality(A \ D) = Cardinality(A) - Cardinality(D)
  BY <1>1, FS_Difference
<1>3. /\ IsFiniteSet(D) /\ Cardinality(A) \in Nat /\ Cardinality(D) \in Nat
      /\ Cardinality(A \ D) \in Nat
  BY <1>2, FS_Subset, FS_CardinalityType
<1>4. /\ IsFiniteSet(B) /\ Cardinality(B) \in Nat
      /\ Cardinality(B) <= Cardinality(A \ D)
  BY <1>2, Within
<1> QED
  BY <1>2, <1>3, <1>4

(* The rows of an owner, and the bytes of all rows finitely many.          *)
ReceiptsOf(o) == {r \in ReceiptRows : r[2] = o}
MessagesOf(o) == {m \in MessageRows : messages[m].owner = o}

Fits ==
    /\ IsFiniteSet(ReceiptBytes(ReceiptRows))
    /\ IsFiniteSet(MessageBytes(MessageRows))
    /\ StorageWithinQuota

LEMMA OwnersHoldSome ==
  ASSUME NEW o
  PROVE  /\ ReceiptBytes(ReceiptsOf(o)) \subseteq ReceiptBytes(ReceiptRows)
         /\ MessageBytes(MessagesOf(o)) \subseteq MessageBytes(MessageRows)
  BY DEF ReceiptBytes, MessageBytes, ReceiptsOf, MessagesOf

(* What is stored is kept within the limits by whatever makes no two sets  *)
(* of bytes larger together.                                               *)
NoLarger(A, B, C, D) ==
    Cardinality(C) + Cardinality(D) <= Cardinality(A) + Cardinality(B)

LEMMA StaysWithin ==
  ASSUME Fits,
         IsFiniteSet(ReceiptBytes(ReceiptRows)'),
         IsFiniteSet(MessageBytes(MessageRows)'),
         NoLarger(ReceiptBytes(ReceiptRows), MessageBytes(MessageRows),
                  ReceiptBytes(ReceiptRows)', MessageBytes(MessageRows)'),
         \A o \in Owners :
            NoLarger(ReceiptBytes(ReceiptsOf(o)), MessageBytes(MessagesOf(o)),
                     ReceiptBytes(ReceiptsOf(o))', MessageBytes(MessagesOf(o))')
  PROVE  Fits'
<1>1. GlobalStorageBytes' <= GlobalBytes
  <2>1. /\ Cardinality(ReceiptBytes(ReceiptRows)) \in Nat
        /\ Cardinality(MessageBytes(MessageRows)) \in Nat
        /\ Cardinality(ReceiptBytes(ReceiptRows)') \in Nat
        /\ Cardinality(MessageBytes(MessageRows)') \in Nat
    BY FS_CardinalityType DEF Fits
  <2>2. Cardinality(ReceiptBytes(ReceiptRows))
          + Cardinality(MessageBytes(MessageRows)) <= GlobalBytes
    BY DEF Fits, StorageWithinQuota, GlobalStorageBytes
  <2> QED
    BY <2>1, <2>2, Limits DEF GlobalStorageBytes, NoLarger
<1>2. ASSUME NEW o \in Owners PROVE OwnerStorageBytes(o)' <= OwnerBytes
  <2>1. /\ IsFiniteSet(ReceiptBytes(ReceiptsOf(o)))
        /\ IsFiniteSet(MessageBytes(MessagesOf(o)))
    BY OwnersHoldSome, FS_Subset DEF Fits
  <2>2. /\ ReceiptBytes(ReceiptsOf(o))' \subseteq ReceiptBytes(ReceiptRows)'
        /\ MessageBytes(MessagesOf(o))' \subseteq MessageBytes(MessageRows)'
    BY DEF ReceiptBytes, MessageBytes, ReceiptsOf, MessagesOf
  <2>3. /\ IsFiniteSet(ReceiptBytes(ReceiptsOf(o))')
        /\ IsFiniteSet(MessageBytes(MessagesOf(o))')
    BY <2>2, FS_Subset
  <2>4. /\ Cardinality(ReceiptBytes(ReceiptsOf(o))) \in Nat
        /\ Cardinality(MessageBytes(MessagesOf(o))) \in Nat
        /\ Cardinality(ReceiptBytes(ReceiptsOf(o))') \in Nat
        /\ Cardinality(MessageBytes(MessagesOf(o))') \in Nat
    BY <2>1, <2>3, FS_CardinalityType
  <2>5. Cardinality(ReceiptBytes(ReceiptsOf(o)))
          + Cardinality(MessageBytes(MessagesOf(o))) <= OwnerBytes
    BY DEF Fits, StorageWithinQuota, OwnerStorageBytes, ReceiptsOf, MessagesOf
  <2>6. OwnerStorageBytes(o)' = Cardinality(ReceiptBytes(ReceiptsOf(o))')
                                + Cardinality(MessageBytes(MessagesOf(o))')
    BY DEF OwnerStorageBytes, ReceiptsOf, MessagesOf
  <2> QED
    BY <2>4, <2>5, <2>6, Limits DEF NoLarger
<1> QED
  BY <1>1, <1>2 DEF Fits, StorageWithinQuota

LEMMA TwoWithin ==
  ASSUME NEW A, NEW B, IsFiniteSet(A), IsFiniteSet(B),
         NEW C \in SUBSET A, NEW D \in SUBSET B
  PROVE  /\ IsFiniteSet(C) /\ IsFiniteSet(D)
         /\ NoLarger(A, B, C, D)
<1>1. /\ IsFiniteSet(C) /\ Cardinality(C) \in Nat /\ Cardinality(A) \in Nat
      /\ Cardinality(C) <= Cardinality(A)
  BY Within
<1>2. /\ IsFiniteSet(D) /\ Cardinality(D) \in Nat /\ Cardinality(B) \in Nat
      /\ Cardinality(D) <= Cardinality(B)
  BY Within
<1> QED
  BY <1>1, <1>2 DEF NoLarger

(* Receipts that stay name their mail still.                               *)
ReceiptsEvolve ==
    \A r \in ReceiptRows' :
        r \in ReceiptRows /\ receipts'[r].mail = receipts[r].mail

LEMMA EvolvingShrinks ==
  ASSUME Fits, ReceiptsEvolve, MessagesEvolve
  PROVE  Fits'
<1>1. ReceiptBytes(ReceiptRows)' \subseteq ReceiptBytes(ReceiptRows)
  BY DEF ReceiptBytes, ReceiptsEvolve
<1>2. MessageBytes(MessageRows)' \subseteq MessageBytes(MessageRows)
  BY DEF MessageBytes, MessagesEvolve, MessageRows
<1>3. ASSUME NEW o \in Owners
      PROVE  /\ ReceiptBytes(ReceiptsOf(o))' \subseteq ReceiptBytes(ReceiptsOf(o))
             /\ MessageBytes(MessagesOf(o))' \subseteq MessageBytes(MessagesOf(o))
  <2>1. ReceiptBytes(ReceiptsOf(o))' \subseteq ReceiptBytes(ReceiptsOf(o))
    BY DEF ReceiptBytes, ReceiptsOf, ReceiptsEvolve
  <2>2. MessageBytes(MessagesOf(o))' \subseteq MessageBytes(MessagesOf(o))
    BY DEF MessageBytes, MessagesOf, MessagesEvolve, MessageRows
  <2> QED
    BY <2>1, <2>2
<1>4. /\ IsFiniteSet(ReceiptBytes(ReceiptRows)')
      /\ IsFiniteSet(MessageBytes(MessageRows)')
      /\ NoLarger(ReceiptBytes(ReceiptRows), MessageBytes(MessageRows),
                  ReceiptBytes(ReceiptRows)', MessageBytes(MessageRows)')
  BY <1>1, <1>2, TwoWithin DEF Fits
<1>5. ASSUME NEW o \in Owners
      PROVE  NoLarger(ReceiptBytes(ReceiptsOf(o)), MessageBytes(MessagesOf(o)),
                      ReceiptBytes(ReceiptsOf(o))', MessageBytes(MessagesOf(o))')
  <2>1. /\ IsFiniteSet(ReceiptBytes(ReceiptsOf(o)))
        /\ IsFiniteSet(MessageBytes(MessagesOf(o)))
    BY OwnersHoldSome, FS_Subset DEF Fits
  <2> QED
    BY <1>3, <2>1, TwoWithin
<1> QED
  BY <1>4, <1>5, StaysWithin

(* acceptReceipts adds what the guard has counted.                         *)
LEMMA AcceptFits ==
  ASSUME IInv, Fits, AcceptReceipts
  PROVE  Fits'
<1> DEFINE mail == smtp.mail
           to == smtp.to
           n == Reserved(mail)
           added == ({smtp.now} \X to) \X (1..n)
<1>1. /\ mail \in Mails /\ to \subseteq Owners
      /\ WithinQuota(mail, to)
      /\ receipts' = [r \in Stamps \X Owners |->
            IF r[1] = smtp.now /\ r[2] \in to
            THEN [mail |-> mail, deferred |-> FALSE, stopped |-> smtp.stopped]
            ELSE receipts[r]]
      /\ messages' = messages
  BY DEF AcceptReceipts, IInv, TypeOK, Session
<1>2. n \in Nat /\ IsFiniteSet(to) /\ Cardinality(to) \in Nat
  BY <1>1, SizesFit, Limits, FS_Subset, FS_CardinalityType
<1>3. IsFiniteSet(added) /\ Cardinality(added) = Cardinality(to) * n
  <2>1. /\ IsFiniteSet({smtp.now} \X to)
        /\ Cardinality({smtp.now} \X to) = Cardinality(to)
    <3>1. IsFiniteSet({smtp.now}) /\ Cardinality({smtp.now}) = 1
      BY FS_Singleton
    <3>2. /\ IsFiniteSet({smtp.now} \X to)
          /\ Cardinality({smtp.now} \X to) = 1 * Cardinality(to)
      BY <1>2, <3>1, FS_Product
    <3> QED
      BY <1>2, <3>2
  <2>2. /\ IsFiniteSet(({smtp.now} \X to) \X (1..n))
        /\ Cardinality(({smtp.now} \X to) \X (1..n)) =
             Cardinality({smtp.now} \X to) * n
    <3> HIDE DEF n, to
    <3> QED
      BY <1>2, <2>1, PlacesCounted
  <2> QED
    BY <2>1, <2>2
<1>4. ASSUME NEW r \in ReceiptRows'
      PROVE  \/ /\ r \in {smtp.now} \X to /\ receipts'[r].mail = mail
             \/ r \in ReceiptRows /\ receipts'[r].mail = receipts[r].mail
  BY <1>1 DEF ReceiptRows
<1>5. ReceiptBytes(ReceiptRows)' \subseteq ReceiptBytes(ReceiptRows) \cup added
  BY <1>4 DEF ReceiptBytes
<1>6. MessageBytes(MessageRows)' = MessageBytes(MessageRows)
  BY <1>1 DEF MessageBytes, MessageRows
<1> HIDE DEF added
<1>7. /\ IsFiniteSet(ReceiptBytes(ReceiptRows)')
      /\ Cardinality(ReceiptBytes(ReceiptRows)') \in Nat
      /\ Cardinality(ReceiptBytes(ReceiptRows)) \in Nat
      /\ Cardinality(ReceiptBytes(ReceiptRows)')
           <= Cardinality(ReceiptBytes(ReceiptRows)) + Cardinality(added)
  BY <1>3, <1>5, WithinMore DEF Fits
<1>8. GlobalStorageBytes' <= GlobalBytes
  <2>1. Cardinality(MessageBytes(MessageRows)) \in Nat
    BY FS_CardinalityType DEF Fits
  <2>2. /\ n * Cardinality(to) <= GlobalBytes
        /\ GlobalStorageBytes <= GlobalBytes - n * Cardinality(to)
    <3>1. ~exceedsStorageLimit(GlobalStorageBytes, n * Cardinality(to), GlobalBytes)
      BY <1>1 DEF WithinQuota
    <3>2. n * Cardinality(to) \in Nat /\ GlobalStorageBytes \in Nat
      BY <1>2, <1>7, <2>1 DEF GlobalStorageBytes
    <3> QED
      BY <3>1, <3>2, Limits DEF exceedsStorageLimit
  <2>3. GlobalStorageBytes' = Cardinality(ReceiptBytes(ReceiptRows)')
                              + Cardinality(MessageBytes(MessageRows))
    BY <1>6 DEF GlobalStorageBytes
  <2>4. Cardinality(added) = n * Cardinality(to) /\ n * Cardinality(to) \in Nat
    BY <1>2, <1>3
  <2> QED
    BY <1>7, <2>1, <2>2, <2>3, <2>4, Limits DEF GlobalStorageBytes
<1>9. ASSUME NEW o \in Owners PROVE OwnerStorageBytes(o)' <= OwnerBytes
  <2>1. MessageBytes(MessagesOf(o))' = MessageBytes(MessagesOf(o))
    BY <1>1 DEF MessageBytes, MessagesOf, MessageRows
  <2>2. /\ IsFiniteSet(ReceiptBytes(ReceiptsOf(o)))
        /\ IsFiniteSet(MessageBytes(MessagesOf(o)))
        /\ Cardinality(ReceiptBytes(ReceiptsOf(o))) \in Nat
        /\ Cardinality(MessageBytes(MessagesOf(o))) \in Nat
    BY OwnersHoldSome, FS_Subset, FS_CardinalityType DEF Fits
  <2>3. /\ OwnerStorageBytes(o) = Cardinality(ReceiptBytes(ReceiptsOf(o)))
                                  + Cardinality(MessageBytes(MessagesOf(o)))
        /\ OwnerStorageBytes(o)' = Cardinality(ReceiptBytes(ReceiptsOf(o))')
                                   + Cardinality(MessageBytes(MessagesOf(o)))
    BY <2>1 DEF OwnerStorageBytes, ReceiptsOf, MessagesOf
  <2>4. CASE o \notin to
    <3>1. ReceiptBytes(ReceiptsOf(o))' \subseteq ReceiptBytes(ReceiptsOf(o))
      BY <1>4, <2>4 DEF ReceiptBytes, ReceiptsOf
    <3>2. /\ Cardinality(ReceiptBytes(ReceiptsOf(o))') \in Nat
          /\ Cardinality(ReceiptBytes(ReceiptsOf(o))')
               <= Cardinality(ReceiptBytes(ReceiptsOf(o)))
      BY <2>2, <3>1, Within
    <3>3. OwnerStorageBytes(o) <= OwnerBytes
      BY DEF Fits, StorageWithinQuota
    <3> QED
      BY <2>2, <2>3, <3>2, <3>3, Limits
  <2>5. CASE o \in to
    <3> DEFINE own == {<<smtp.now, o>>} \X (1..n)
    <3>1. ReceiptBytes(ReceiptsOf(o))' \subseteq ReceiptBytes(ReceiptsOf(o)) \cup own
      BY <1>4 DEF ReceiptBytes, ReceiptsOf
    <3>2. IsFiniteSet(own) /\ Cardinality(own) = n
      BY <1>2, RowCounted
    <3> HIDE DEF own
    <3>3. /\ Cardinality(ReceiptBytes(ReceiptsOf(o))') \in Nat
          /\ Cardinality(ReceiptBytes(ReceiptsOf(o))')
               <= Cardinality(ReceiptBytes(ReceiptsOf(o))) + n
      BY <2>2, <3>1, <3>2, WithinMore
    <3>4. n <= OwnerBytes /\ OwnerStorageBytes(o) <= OwnerBytes - n
      <4>1. ~exceedsStorageLimit(OwnerStorageBytes(o), n, OwnerBytes)
        BY <1>1, <2>5 DEF WithinQuota
      <4>2. OwnerStorageBytes(o) \in Nat
        BY <2>2, <2>3
      <4> QED
        BY <1>2, <4>1, <4>2, Limits DEF exceedsStorageLimit
    <3> QED
      BY <1>2, <2>2, <2>3, <3>3, <3>4, Limits
  <2> QED
    BY <2>4, <2>5
<1> QED
  BY <1>6, <1>7, <1>8, <1>9 DEF Fits, StorageWithinQuota

(* A receipt's bytes go and its message's, which are no more, come.        *)
LEMMA ProcessFits ==
  ASSUME IInv, Fits, NEW r \in Stamps \X Owners, ProcessNext(r)
  PROVE  Fits'
<1> DEFINE mail == receipts[r].mail
           n == Reserved(mail)
           k == fitNormalizedMail(mail)
           gone == {r} \X (1..n)
<1>1. /\ MessageAdded(r) /\ receipts[r] \in Receipt
      /\ ReceiptRows' = ReceiptRows \ {r}
      /\ \A q \in ReceiptRows' : receipts'[q] = receipts[q]
      /\ r \in ReceiptRows
  BY ProcessRows, Taken DEF IInv, ProcessNext, Due
<1>2. /\ n \in Nat /\ k \in Nat /\ k <= n
  BY <1>1, SizesFit DEF Receipt
<1>3. IsFiniteSet(gone) /\ Cardinality(gone) = n
  BY <1>2, RowCounted
<1>4. /\ gone \subseteq ReceiptBytes(ReceiptRows)
      /\ ReceiptBytes(ReceiptRows)' \subseteq ReceiptBytes(ReceiptRows) \ gone
  BY <1>1 DEF ReceiptBytes
<1>5. /\ gone \subseteq ReceiptBytes(ReceiptsOf(r[2]))
      /\ ReceiptBytes(ReceiptsOf(r[2]))' \subseteq ReceiptBytes(ReceiptsOf(r[2])) \ gone
  BY <1>1 DEF ReceiptBytes, ReceiptsOf
<1>6. ASSUME NEW o \in Owners
      PROVE  ReceiptBytes(ReceiptsOf(o))' \subseteq ReceiptBytes(ReceiptsOf(o))
  BY <1>1 DEF ReceiptBytes, ReceiptsOf
<1>7. PICK m : \A x \in MessageRows' :
        \/ x \in MessageRows /\ messages'[x] = messages[x]
        \/ x = m /\ messages'[x].owner = r[2] /\ messages'[x].mail = mail
  <2>1. CASE \E x \in MessageIds : messages[x] = None /\ messages'[x] # None
    <3>1. PICK m \in MessageIds : messages[m] = None /\ messages'[m] # None
      BY <2>1
    <3> WITNESS m
    <3> QED
      BY <1>1, <3>1 DEF MessageAdded, MessageRows
  <2>2. CASE ~\E x \in MessageIds : messages[x] = None /\ messages'[x] # None
    BY <1>1, <2>2 DEF MessageAdded, MessageRows
  <2> QED
    BY <2>1, <2>2
<1> DEFINE new == {m} \X (1..k)
<1>8. IsFiniteSet(new) /\ Cardinality(new) = k
  BY <1>2, RowCounted
<1>9. MessageBytes(MessageRows)' \subseteq MessageBytes(MessageRows) \cup new
  BY <1>7 DEF MessageBytes
<1>10. MessageBytes(MessagesOf(r[2]))' \subseteq MessageBytes(MessagesOf(r[2])) \cup new
  BY <1>7 DEF MessageBytes, MessagesOf
<1>11. ASSUME NEW o \in Owners, o # r[2]
       PROVE  MessageBytes(MessagesOf(o))' \subseteq MessageBytes(MessagesOf(o))
  BY <1>7, <1>11 DEF MessageBytes, MessagesOf
<1> HIDE DEF gone, new, n, k
<1>12. ASSUME NEW A, NEW B, IsFiniteSet(A), IsFiniteSet(B), gone \subseteq A,
              NEW C \in SUBSET (A \ gone), NEW D \in SUBSET (B \cup new)
       PROVE  IsFiniteSet(C) /\ IsFiniteSet(D) /\ NoLarger(A, B, C, D)
  <2>1. /\ IsFiniteSet(C) /\ Cardinality(C) \in Nat /\ Cardinality(A) \in Nat
        /\ Cardinality(C) <= Cardinality(A) - n
    BY <1>3, <1>12, WithinLess
  <2>2. /\ IsFiniteSet(D) /\ Cardinality(D) \in Nat /\ Cardinality(B) \in Nat
        /\ Cardinality(D) <= Cardinality(B) + k
    BY <1>8, <1>12, WithinMore
  <2> QED
    BY <1>2, <2>1, <2>2 DEF NoLarger
<1>13. /\ IsFiniteSet(ReceiptBytes(ReceiptRows)')
       /\ IsFiniteSet(MessageBytes(MessageRows)')
       /\ NoLarger(ReceiptBytes(ReceiptRows), MessageBytes(MessageRows),
                   ReceiptBytes(ReceiptRows)', MessageBytes(MessageRows)')
  BY <1>4, <1>9, <1>12 DEF Fits
<1>14. ASSUME NEW o \in Owners
       PROVE  NoLarger(ReceiptBytes(ReceiptsOf(o)), MessageBytes(MessagesOf(o)),
                       ReceiptBytes(ReceiptsOf(o))', MessageBytes(MessagesOf(o))')
  <2>1. /\ IsFiniteSet(ReceiptBytes(ReceiptsOf(o)))
        /\ IsFiniteSet(MessageBytes(MessagesOf(o)))
    BY OwnersHoldSome, FS_Subset DEF Fits
  <2>2. CASE o = r[2]
    BY <1>5, <1>10, <1>12, <2>1, <2>2
  <2>3. CASE o # r[2]
    BY <1>6, <1>11, <2>1, <2>3, TwoWithin
  <2> QED
    BY <2>2, <2>3
<1> QED
  BY <1>13, <1>14, StaysWithin

LEMMA InitFits == Init => Fits
<1> SUFFICES ASSUME Init PROVE Fits
  OBVIOUS
<1>1. ReceiptRows = {} /\ MessageRows = {}
  BY DEF Init, ReceiptRows, MessageRows
<1>2. /\ ReceiptBytes(ReceiptRows) = {} /\ MessageBytes(MessageRows) = {}
      /\ \A o \in Owners : /\ ReceiptBytes({r \in ReceiptRows : r[2] = o}) = {}
                           /\ MessageBytes({m \in MessageRows :
                                             messages[m].owner = o}) = {}
  BY <1>1 DEF ReceiptBytes, MessageBytes
<1>3. IsFiniteSet({}) /\ Cardinality({}) = 0
  BY FS_EmptySet
<1>4. /\ 0 <= GlobalBytes /\ 0 <= OwnerBytes /\ 0 + 0 = 0
  BY Limits
<1>5. GlobalStorageBytes <= GlobalBytes
  BY <1>2, <1>3, <1>4 DEF GlobalStorageBytes
<1>6. ASSUME NEW o \in Owners PROVE OwnerStorageBytes(o) <= OwnerBytes
  BY <1>2, <1>3, <1>4 DEF OwnerStorageBytes
<1> QED
  BY <1>2, <1>3, <1>5, <1>6 DEF Fits, StorageWithinQuota

LEMMA StepFits == IInv /\ Fits /\ [Next]_vars => Fits'
<1> SUFFICES ASSUME IInv, Fits, [Next]_vars PROVE Fits'
  OBVIOUS
<1>1. CASE AcceptReceipts
  BY <1>1, AcceptFits
<1>2. ASSUME NEW r \in Stamps \X Owners, ProcessNext(r)
      PROVE  Fits'
  BY <1>2, ProcessFits
<1>3. CASE ~AcceptReceipts /\ ~\E r \in Stamps \X Owners : ProcessNext(r)
  <2>1. ReceiptsEvolve
    <3>1. CASE receipts' = receipts
      BY <3>1 DEF ReceiptsEvolve, ReceiptRows
    <3>2. ASSUME NEW r \in Stamps \X Owners, NEW b \in BOOLEAN,
                 r \in ReceiptRows,
                 receipts' = [receipts EXCEPT ![r].deferred = b]
          PROVE  ReceiptsEvolve
      <4>1. receipts[r] \in Receipt /\ receipts[r] # None
        BY <3>2 DEF IInv, TypeOK, ReceiptRows
      <4>2. PICK row : row = [receipts[r] EXCEPT !.deferred = b]
        OBVIOUS
      <4>3. row.mail = receipts[r].mail
        BY <4>1, <4>2 DEF Receipt
      <4>4. receipts' = [receipts EXCEPT ![r] = row]
        BY <3>2, <4>2
      <4> QED
        BY <3>2, <4>3, <4>4 DEF ReceiptsEvolve, ReceiptRows, IInv, TypeOK
    <3>3. ASSUME NEW r \in Stamps \X Owners, ProcessFails(r) \/ BackoffEnds(r)
          PROVE  ReceiptsEvolve
      <4>1. r \in ReceiptRows
        BY <3>3 DEF ProcessFails, BackoffEnds, Due
      <4>2. \E b \in BOOLEAN : receipts' = [receipts EXCEPT ![r].deferred = b]
        BY <3>3 DEF ProcessFails, BackoffEnds
      <4> QED
        BY <3>2, <4>1, <4>2
    <3>4. receipts' = receipts
            \/ \E r \in Stamps \X Owners : ProcessFails(r) \/ BackoffEnds(r)
      BY <1>3 DEF Next, Delivery, Processor, Reader, Crash, StampDelivery, Refuse,
           DeleteSource, SaveMessage, CheckSource, CheckMove, CheckSave, Checked,
           WriteFails, StopSource, EnableSource, Move, MoveNew, DeleteSave,
           tables, vars
    <3> QED
      BY <3>1, <3>3, <3>4
  <2>2. MessagesEvolve
    <3>1. CASE messages' = messages
      BY <3>1 DEF MessagesEvolve
    <3>2. CASE DeleteSource
      BY <3>2, DeleteSourceRows, HouseInIInv DEF RowsEvolve
    <3>3. ASSUME NEW c \in Clients,
                 StopSource(c) \/ Move(c) \/ MoveNew(c) \/ DeleteSave(c)
          PROVE  MessagesEvolve
      BY <3>3, StopSourceRows, MoveRows, MoveNewRows, DeleteSaveRows, HouseInIInv
         DEF RowsEvolve
    <3>4. \/ messages' = messages \/ DeleteSource
          \/ \E c \in Clients :
               StopSource(c) \/ Move(c) \/ MoveNew(c) \/ DeleteSave(c)
      BY <1>3 DEF Next, Delivery, Processor, Reader, Crash, StampDelivery, Refuse,
           ProcessFails, BackoffEnds, SaveMessage, CheckSource, CheckMove,
           CheckSave, Checked, WriteFails, EnableSource, tables, vars
    <3> QED
      BY <3>1, <3>2, <3>3, <3>4
  <2> QED
    BY <2>1, <2>2, EvolvingShrinks
<1> QED
  BY <1>1, <1>2, <1>3

(* Receipts and messages together stay within each reader's limit and the  *)
(* global one: acceptReceipts reserves for a receipt at least what         *)
(* fitNormalizedMail lets its message take.                                *)
THEOREM StorageFits == Spec => []StorageWithinQuota
<1>1. Fits => StorageWithinQuota
  BY DEF Fits
<1> QED
  BY <1>1, InitFits, StepFits, Inductive, PTL DEF Spec
=============================================================================
