----------------------------- MODULE Newsletter -----------------------------
(***************************************************************************)
(* Inbound newsletters (internal/newsletter).  SMTP stores a mail as a     *)
(* receipt for each recipient and answers; one processor turns receipts    *)
(* into messages under the sender's source; the reader stops, enables and  *)
(* deletes sources and moves, saves and unsaves messages.                  *)
(*                                                                         *)
(* Every write is a transaction of the one writer connection.  Many        *)
(* handlers first check on the reader connection, and newsletter routes    *)
(* hold no session lock: anything may happen between check and write.      *)
(*                                                                         *)
(* Row ids are random: an unused value stands for a new one.  Stamps have  *)
(* nanoseconds, so no two are equal, and a receipt is named by its own.    *)
(* Titles, tags, remote images and unsubscribe URLs are left out; a delete *)
(* after a confirmed unsubscribe is DeleteSource.                          *)
(***************************************************************************)
EXTENDS Naturals, FiniteSets

CONSTANTS
    Owners,         \* readers, by DID
    Senders,        \* what a mail's source key is made from
    Mails,          \* mails a publisher sends, perhaps more than once
    SenderOf,       \* the sender of a mail
    RawBytes,       \* its size as received
    NormalBytes,    \* its size once parsed
    FallbackBytes,  \* the size fitNormalizedMail cuts a mail to
    Reservation,    \* defaultReceiptReservationBytes
    OwnerBytes,     \* ownerStorageBytes
    GlobalBytes,    \* globalStorageBytes
    SourceIds, MessageIds, SaveIds,
    None,           \* no row, no key, no id
    Clients,        \* requests of the API that may be in flight together
    MaxStamp,       \* bound: deliveries and enables
    MaxFailures,    \* bound: processing attempts that fail
    MaxManual       \* bound: sources without a key when a move adds one

ASSUME NewsletterAssumption ==
    /\ SenderOf \in [Mails -> Senders]
    /\ RawBytes \in [Mails -> Nat] /\ NormalBytes \in [Mails -> Nat]
    /\ {FallbackBytes, Reservation, OwnerBytes, GlobalBytes} \subseteq Nat
    /\ {MaxStamp, MaxFailures, MaxManual} \subseteq Nat
    /\ FallbackBytes <= Reservation
    /\ IsFiniteSet(Owners)
    /\ None \notin Owners \cup Senders \cup SourceIds \cup MessageIds \cup SaveIds

Stamps == 1..MaxStamp

(* A manual or a deleted source has a key no mail matches: None.           *)
Source == [owner : Owners, key : Senders \cup {None},
           status : {"active", "stopped"}, acceptAfter : Stamps \cup {0},
           deleted : BOOLEAN]
Message == [owner : Owners, mail : Mails, source : SourceIds]
Receipt == [mail : Mails,
            deferred : BOOLEAN,            \* next_attempt_at lies ahead
            stopped : SUBSET SourceIds]    \* history: stopped at its stamp
Request == [op : {"none", "stop", "enable", "move", "moveNew", "unsave"},
            owner : Owners \cup {None},
            source : SourceIds \cup {None}, message : MessageIds \cup {None},
            save : SaveIds \cup {None}]
Session == [mail : Mails \cup {None}, to : SUBSET Owners,
            now : Stamps \cup {0}, stopped : SUBSET SourceIds]

ASSUME NoRowIsNone == None \notin Source \cup Message \cup Receipt

VARIABLES
    receipts,  \* newsletter_receipts by stamp and owner
    sources,   \* newsletter_sources
    messages,  \* newsletter_messages
    saves,     \* newsletter_saves, by message
    smtp,      \* the SMTP session that has a mail in hand
    req,       \* requests between check and write
    clock,     \* the last stamp
    failures,  \* counter for MaxFailures
    late,      \* history: sources a stale check let a request change
    promised   \* history: receipts taken while the source was not stopped

vars == <<receipts, sources, messages, saves, smtp, req, clock, failures,
          late, promised>>
tables == <<receipts, sources, messages, saves>>

IdleReq == [op |-> "none", owner |-> None, source |-> None, message |-> None,
            save |-> None]
IdleSession == [mail |-> None, to |-> {}, now |-> 0, stopped |-> {}]

SourceRows == {s \in SourceIds : sources[s] # None}
MessageRows == {m \in MessageIds : messages[m] # None}
ReceiptRows == {r \in Stamps \X Owners : receipts[r] # None}

(* The unique indexes on (did, source_key), (did, dedupe_key) and          *)
(* (did, message_id), and the foreign keys.                                *)
UniqueKeys ==
    /\ \A s, t \in SourceRows :
         /\ sources[s].key # None
         /\ sources[s].key = sources[t].key
         /\ sources[s].owner = sources[t].owner
         => s = t
    /\ \A m, n \in MessageRows :
         /\ messages[m].mail = messages[n].mail
         /\ messages[m].owner = messages[n].owner
         => m = n
    /\ \A m \in MessageRows :
         /\ messages[m].source \in SourceRows
         /\ sources[messages[m].source].owner = messages[m].owner
    /\ \A m \in MessageIds \ MessageRows : saves[m] = None

TypeOK ==
    /\ receipts \in [Stamps \X Owners -> Receipt \cup {None}]
    /\ sources \in [SourceIds -> Source \cup {None}]
    /\ messages \in [MessageIds -> Message \cup {None}]
    /\ saves \in [MessageIds -> SaveIds \cup {None}]
    /\ UniqueKeys
    /\ smtp \in Session
    /\ req \in [Clients -> Request]
    /\ clock \in 0..MaxStamp
    /\ failures \in 0..MaxFailures
    /\ late \subseteq SourceRows
    /\ promised \subseteq ReceiptRows

Init ==
    /\ receipts = [r \in Stamps \X Owners |-> None]
    /\ sources = [s \in SourceIds |-> None]
    /\ messages = [m \in MessageIds |-> None]
    /\ saves = [m \in MessageIds |-> None]
    /\ smtp = IdleSession
    /\ req = [c \in Clients |-> IdleReq]
    /\ clock = 0
    /\ failures = 0
    /\ late = {}
    /\ promised = {}

(* Ids that no row and no request in flight knows.                         *)
NewSource(s) ==
    /\ sources[s] = None
    /\ \A c \in Clients : req[c].source # s
    /\ s \notin smtp.stopped
    /\ \A r \in ReceiptRows : s \notin receipts[r].stopped
NewMessage(m) ==
    /\ messages[m] = None
    /\ \A c \in Clients : req[c].message # m
NewSave(v) ==
    /\ \A m \in MessageIds : saves[m] # v
    /\ \A c \in Clients : req[c].save # v

-----------------------------------------------------------------------------
(* Storage.                                                                *)

Reserved(mail) ==
    IF RawBytes[mail] < Reservation THEN Reservation ELSE RawBytes[mail]

(* Mutant: a large mail is stored whole.                                   *)
fitWhole(mail) == NormalBytes[mail]
fitNormalizedMail(mail) ==
    IF NormalBytes[mail] <= Reservation THEN NormalBytes[mail]
    ELSE FallbackBytes

(* The bytes of a set of rows, told apart by row and place.                *)
ReceiptBytes(rows) ==
    UNION {{r} \X (1..Reserved(receipts[r].mail)) : r \in rows}
MessageBytes(rows) ==
    UNION {{m} \X (1..fitNormalizedMail(messages[m].mail)) : m \in rows}

OwnerStorageBytes(o) ==
    Cardinality(ReceiptBytes({r \in ReceiptRows : r[2] = o}))
    + Cardinality(MessageBytes({m \in MessageRows : messages[m].owner = o}))
GlobalStorageBytes ==
    Cardinality(ReceiptBytes(ReceiptRows))
    + Cardinality(MessageBytes(MessageRows))

exceedsStorageLimit(used, added, limit) ==
    added > limit \/ used > limit - added

WithinQuota(mail, to) ==
    /\ ~exceedsStorageLimit(GlobalStorageBytes,
                            Reserved(mail) * Cardinality(to), GlobalBytes)
    /\ \A o \in to :
         ~exceedsStorageLimit(OwnerStorageBytes(o), Reserved(mail), OwnerBytes)

-----------------------------------------------------------------------------
(* Delivery.                                                               *)

(* The source a mail belongs to, if there is one.                          *)
SourcesByKey(o, mail) ==
    {s \in SourceRows : sources[s].owner = o /\ sources[s].key = SenderOf[mail]}
StoppedNow == {s \in SourceRows : sources[s].status = "stopped"}

(* DATA: the stamp is taken before the transaction.                        *)
StampDelivery ==
    /\ smtp = IdleSession
    /\ clock < MaxStamp
    /\ \E mail \in Mails, to \in SUBSET Owners \ {{}} :
         smtp' = [mail |-> mail, to |-> to, now |-> clock + 1,
                  stopped |-> StoppedNow]
    /\ clock' = clock + 1
    /\ UNCHANGED <<tables, req, failures, late, promised>>

(* acceptReceipts: a receipt for each recipient or for none.               *)
AcceptReceipts ==
    /\ smtp.mail # None
    /\ WithinQuota(smtp.mail, smtp.to)
    /\ receipts' = [r \in Stamps \X Owners |->
            IF r[1] = smtp.now /\ r[2] \in smtp.to
            THEN [mail |-> smtp.mail, deferred |-> FALSE,
                  stopped |-> smtp.stopped]
            ELSE receipts[r]]
    /\ promised' = promised \cup
            {r \in {smtp.now} \X smtp.to :
                SourcesByKey(r[2], smtp.mail) \cap
                  {s \in StoppedNow : ~sources[s].deleted} = {}}
    /\ smtp' = IdleSession
    /\ UNCHANGED <<sources, messages, saves, req, clock, failures, late>>

(* Over quota, or the transaction fails: the sender is to try again.       *)
Refuse ==
    /\ smtp.mail # None
    /\ smtp' = IdleSession
    /\ UNCHANGED <<tables, req, clock, failures, late, promised>>

(* GetNextNewsletterReceipt: the oldest that is due.  Mutant: one that has *)
(* failed is never due again.                                              *)
BackoffNeverEnds(r) == FALSE
BackoffIsOver(r) == receipts[r].deferred
Due(r) ==
    /\ r \in ReceiptRows
    /\ ~receipts[r].deferred
    /\ \A q \in ReceiptRows : receipts[q].deferred \/ r[1] <= q[1]

(* Mail for a stopped source and mail from before the last enable is       *)
(* dropped.  Mutants: one of the two is forgotten.                         *)
DiscardedIfStopped(s, t) == sources[s].status = "stopped"
DiscardedIfOld(s, t) == t < sources[s].acceptAfter
Discarded(s, t) == sources[s].status = "stopped" \/ t < sources[s].acceptAfter

(* UNIQUE (did, dedupe_key).  Mutant: there is no such index.              *)
NeverStored(o, mail) == FALSE
AlreadyStored(o, mail) ==
    \E m \in MessageRows : messages[m].owner = o /\ messages[m].mail = mail

Take(r) ==
    /\ receipts' = [receipts EXCEPT ![r] = None]
    /\ promised' = promised \ {r}

Drop(r) ==
    /\ Take(r)
    /\ UNCHANGED <<sources, messages, saves>>

Store(r, s) ==
    /\ Take(r)
    /\ \E m \in MessageIds :
         /\ NewMessage(m)
         /\ messages' = [messages EXCEPT ![m] =
                [owner |-> r[2], mail |-> receipts[r].mail, source |-> s]]
    /\ UNCHANGED saves

(* The processor is alone: no one else touches a receipt once it is read.  *)
ProcessNext(r) ==
    /\ Due(r)
    /\ LET mail == receipts[r].mail
           known == SourcesByKey(r[2], mail)
       IN  \/ \E s \in known :
                /\ Discarded(s, r[1]) \/ AlreadyStored(r[2], mail)
                /\ Drop(r)
           \/ \E s \in known :
                /\ ~Discarded(s, r[1]) /\ ~AlreadyStored(r[2], mail)
                /\ Store(r, s)
                /\ UNCHANGED sources
           \/ /\ known = {}
              /\ \E s \in SourceIds :
                   /\ NewSource(s)
                   /\ sources' = [sources EXCEPT ![s] =
                        [owner |-> r[2], key |-> SenderOf[mail],
                         status |-> "active", acceptAfter |-> 0,
                         deleted |-> FALSE]]
                   /\ IF AlreadyStored(r[2], mail)
                      THEN Take(r) /\ UNCHANGED <<messages, saves>>
                      ELSE Store(r, s)
    /\ UNCHANGED <<smtp, req, clock, failures, late>>

(* The transaction fails; noting the retry may fail too.                   *)
ProcessFails(r) ==
    /\ Due(r)
    /\ failures < MaxFailures
    /\ failures' = failures + 1
    /\ \E noted \in BOOLEAN :
         receipts' = [receipts EXCEPT ![r].deferred = noted]
    /\ UNCHANGED <<sources, messages, saves, smtp, req, clock, late, promised>>

BackoffEnds(r) ==
    /\ r \in ReceiptRows
    /\ BackoffIsOver(r)
    /\ receipts' = [receipts EXCEPT ![r].deferred = FALSE]
    /\ UNCHANGED <<sources, messages, saves, smtp, req, clock, failures, late,
                   promised>>

-----------------------------------------------------------------------------
(* What the transactions of the reader's requests are made of.             *)

Unsaved(m) == saves[m] = None

(* DeleteUnsavedNewsletterMessages.                                        *)
WithoutUnsaved(s) ==
    [m \in MessageIds |-> IF m \in MessageRows /\ messages[m].source = s
                             /\ Unsaved(m)
                          THEN None ELSE messages[m]]

(* DeleteEmptyDeletedNewsletterSources.                                    *)
SweptSources(src, msg, o) ==
    [s \in SourceIds |->
        IF /\ src[s] # None /\ src[s].owner = o /\ src[s].deleted
           /\ \A m \in MessageIds : msg[m] # None => msg[m].source # s
        THEN None ELSE src[s]]

(* A save goes with its message (ON DELETE CASCADE).                       *)
Cascade(sv) == saves' = [m \in MessageIds |->
                            IF messages'[m] = None THEN None ELSE sv[m]]

Remember(l) == late' = {s \in l : sources'[s] # None}

(* DeleteSource, one transaction: the row stays, hidden, while saved       *)
(* issues need it, and its key is free.  Mutant: the key stays taken.      *)
KeptKey(s) == sources[s].key
FreedKey(s) == None

DeleteSource ==
    \E s \in SourceRows :
        /\ ~sources[s].deleted
        /\ messages' = WithoutUnsaved(s)
        /\ sources' = SweptSources(
              [sources EXCEPT ![s] = [@ EXCEPT !.status = "stopped",
                                      !.key = FreedKey(s), !.deleted = TRUE]],
              messages', sources[s].owner)
        /\ Cascade(saves)
        /\ Remember(late)
        /\ UNCHANGED <<receipts, smtp, req, clock, failures, promised>>

(* SaveMessage, one transaction; a message has at most one save.           *)
SaveMessage ==
    \E m \in MessageRows, v \in SaveIds :
        /\ Unsaved(m)
        /\ NewSave(v)
        /\ saves' = [saves EXCEPT ![m] = v]
        /\ UNCHANGED <<receipts, sources, messages, smtp, req, clock, failures,
                       late, promised>>

-----------------------------------------------------------------------------
(* Requests that check first and write later.                              *)

Checked(c, r) ==
    /\ req[c].op = "none"
    /\ req' = [req EXCEPT ![c] = r]
    /\ UNCHANGED <<tables, smtp, clock, failures, late, promised>>

(* GetSource knows no deleted source; enable does not ask for the status.  *)
CheckSource(c) ==
    \E op \in {"stop", "enable"}, s \in SourceRows :
        /\ ~sources[s].deleted
        /\ Checked(c, [IdleReq EXCEPT !.op = op, !.owner = sources[s].owner,
                                      !.source = s])

CheckMove(c) ==
    \E m \in MessageRows :
        LET r == [IdleReq EXCEPT !.owner = messages[m].owner, !.message = m]
        IN  \/ Checked(c, [r EXCEPT !.op = "moveNew"])
            \/ \E s \in SourceRows :
                 /\ sources[s].owner = messages[m].owner
                 /\ ~sources[s].deleted
                 /\ sources[s].status = "active"
                 /\ Checked(c, [r EXCEPT !.op = "move", !.source = s])

CheckSave(c) ==
    \E m \in MessageIds :
        /\ ~Unsaved(m)
        /\ Checked(c, [IdleReq EXCEPT !.op = "unsave",
                          !.owner = messages[m].owner, !.message = m,
                          !.save = saves[m]])

Done(c) == req' = [req EXCEPT ![c] = IdleReq]

(* The write fails, or finds nothing left to change.                       *)
WriteFails(c) ==
    /\ req[c].op # "none"
    /\ Done(c)
    /\ UNCHANGED <<tables, smtp, clock, failures, late, promised>>

StopSource(c) ==
    LET s == req[c].source
    IN  /\ req[c].op = "stop"
        /\ sources[s] # None
        /\ sources' = [sources EXCEPT ![s].status = "stopped"]
        /\ messages' = WithoutUnsaved(s)
        /\ Cascade(saves)
        /\ promised' = {r \in promised :
                          s \notin SourcesByKey(r[2], receipts[r].mail)}
        /\ Done(c)
        /\ UNCHANGED <<receipts, smtp, clock, failures, late>>

EnableSource(c) ==
    LET s == req[c].source
    IN  /\ req[c].op = "enable"
        /\ sources[s] # None
        /\ clock < MaxStamp
        /\ clock' = clock + 1
        /\ sources' = [sources EXCEPT ![s] = [@ EXCEPT !.status = "active",
                                              !.acceptAfter = clock + 1]]
        /\ Remember(IF sources[s].deleted THEN late \cup {s} ELSE late)
        /\ Done(c)
        /\ UNCHANGED <<receipts, messages, saves, smtp, failures, promised>>

(* What a move does to messages; one that is gone is no error.             *)
Moved(m, s) ==
    IF messages[m] = None THEN messages
    ELSE [messages EXCEPT ![m] = [@ EXCEPT !.source = s]]

(* MoveMessage to a source that was active when it was checked.  A missing *)
(* one breaks the foreign key.  Mutant: nothing is swept.                  *)
MoveUnswept(src, o) == src
MoveSwept(src, o) == SweptSources(src, messages', o)

Move(c) ==
    LET m == req[c].message
        s == req[c].source
    IN  /\ req[c].op = "move"
        /\ messages[m] = None \/ sources[s] # None
        /\ messages' = Moved(m, s)
        /\ sources' = MoveSwept(sources, req[c].owner)
        /\ Remember(IF messages[m] # None /\ sources[s].status = "stopped"
                    THEN late \cup {s} ELSE late)
        /\ Done(c)
        /\ UNCHANGED <<receipts, saves, smtp, clock, failures, promised>>

(* MoveMessage to a new source, made in the same transaction.              *)
MoveNew(c) ==
    LET m == req[c].message
        o == req[c].owner
    IN  /\ req[c].op = "moveNew"
        /\ Cardinality({s \in SourceRows : sources[s].key = None}) < MaxManual
        /\ \E s \in SourceIds :
             /\ NewSource(s)
             /\ messages' = Moved(m, s)
             /\ sources' = MoveSwept(
                   [sources EXCEPT ![s] =
                      [owner |-> o, key |-> None, status |-> "active",
                       acceptAfter |-> 0, deleted |-> FALSE]], o)
        /\ Remember(late)
        /\ Done(c)
        /\ UNCHANGED <<receipts, saves, smtp, clock, failures, promised>>

(* DeleteStoppedUnsavedNewsletterMessage.  Mutants: saved or not; nothing. *)
NeverGone(m, sv) == FALSE
GoneOnceStopped(m, sv) ==
    messages[m] # None /\ sources[messages[m].source].status = "stopped"
GoneOnceUnsaved(m, sv) ==
    /\ messages[m] # None
    /\ sv[m] = None
    /\ sources[messages[m].source].status = "stopped"

DeleteSave(c) ==
    LET m == req[c].message
        left == [n \in MessageIds |-> IF n = m /\ saves[n] = req[c].save
                                      THEN None ELSE saves[n]]
    IN  /\ req[c].op = "unsave"
        /\ messages' = IF GoneOnceUnsaved(m, left)
                       THEN [messages EXCEPT ![m] = None] ELSE messages
        /\ sources' = SweptSources(sources, messages', req[c].owner)
        /\ Cascade(left)
        /\ Remember(late)
        /\ Done(c)
        /\ UNCHANGED <<receipts, smtp, clock, failures, promised>>

Crash ==
    /\ smtp' = IdleSession
    /\ req' = [c \in Clients |-> IdleReq]
    /\ UNCHANGED <<tables, clock, failures, late, promised>>

-----------------------------------------------------------------------------
Delivery == StampDelivery \/ AcceptReceipts \/ Refuse
Processor ==
    \E r \in Stamps \X Owners : ProcessNext(r) \/ ProcessFails(r) \/ BackoffEnds(r)
Reader ==
    \/ DeleteSource
    \/ SaveMessage
    \/ \E c \in Clients :
         \/ CheckSource(c) \/ CheckMove(c) \/ CheckSave(c) \/ WriteFails(c)
         \/ StopSource(c) \/ EnableSource(c) \/ Move(c) \/ MoveNew(c)
         \/ DeleteSave(c)

Next == Delivery \/ Processor \/ Reader \/ Crash

Spec == Init /\ [][Next]_vars

(* RunProcessor wakes every five seconds for whatever is due, and a        *)
(* backoff is a time that passes.                                          *)
LiveSpec ==
    /\ Spec
    /\ WF_vars(\E r \in Stamps \X Owners : ProcessNext(r))
    /\ \A r \in Stamps \X Owners : WF_vars(BackoffEnds(r))

-----------------------------------------------------------------------------
(* Properties.                                                             *)

(* Whatever the order of deliveries, processing and retries, receipts and  *)
(* messages together stay within each owner's limit and the global one     *)
(* (acceptReceipts reserves what a message may at most take).              *)
StorageWithinQuota ==
    /\ GlobalStorageBytes <= GlobalBytes
    /\ \A o \in Owners : OwnerStorageBytes(o) <= OwnerBytes

(* "Unsaved newsletter messages are deleted, while saved messages remain"  *)
(* (SPEC.md): a stopped source holds saved messages only, whichever of     *)
(* stop, unsave and processing came last.  The code does not keep this for *)
(* a source that a move or an enable reached after it was stopped or       *)
(* deleted.                                                                *)
StoppedKeepsSaved ==
    \A m \in MessageRows :
        sources[messages[m].source].status = "stopped" =>
            ~Unsaved(m) \/ messages[m].source \in late

(* A deleted source's hidden row goes with its last message, whether it is *)
(* unsaved or moved away (DeleteEmptyDeletedNewsletterSources).            *)
HiddenRowHoldsMessage ==
    \A s \in SourceRows : sources[s].deleted =>
        s \in late \/ \E m \in MessageRows : messages[m].source = s

(* "Saved messages stay in the Library" (SPEC.md): a save ends only when   *)
(* the reader removes that very save.                                      *)
SaveEndsByUnsave ==
    [][\A m \in MessageIds : saves[m] # None /\ saves'[m] # saves[m] =>
         \E c \in Clients : DeleteSave(c) /\ req[c].save = saves[m]]_vars

(* "Re-enabling affects only future deliveries" (SPEC.md): mail that came  *)
(* while a source was stopped is never filed under it.                     *)
BacklogStaysOut ==
    [][\A r \in ReceiptRows, m \in MessageIds :
         /\ receipts'[r] = None
         /\ messages[m] = None /\ messages'[m] # None
         => messages'[m].source \notin receipts[r].stopped]_vars

FiledNext(r) == \E m \in MessageIds :
    /\ messages'[m] # None
    /\ messages'[m].owner = r[2] /\ messages'[m].mail = receipts[r].mail

(* Mail that was answered for, from a sender the reader has not stopped,   *)
(* is filed when its receipt goes, also after the sender's source was      *)
(* deleted; an enable since then is the exception.                         *)
AcceptedMailFiled ==
    [][\A r \in promised : receipts'[r] = None =>
         \/ FiledNext(r)
         \/ \E s \in SourcesByKey(r[2], receipts[r].mail) :
              sources[s].acceptAfter > r[1]]_vars

(* No receipt waits for ever behind failures, retries and restarts.        *)
QueueDrains ==
    \A r \in Stamps \X Owners : receipts[r] # None ~> receipts[r] = None

(* "While the source is active, confirmation, welcome, account, and other  *)
(* messages delivered to the address remain readable" (SPEC.md).           *)
ActiveMailReadable ==
    [][\A r \in promised : receipts'[r] = None => FiledNext(r)]_vars

(* A deleted source "stays as a hidden stopped row" until its saved issues *)
(* are gone (newsletters.sql).                                             *)
DeletedStaysStopped ==
    \A s \in SourceRows : sources[s].deleted => sources[s].status = "stopped"

-----------------------------------------------------------------------------
(* The inductive invariant of the proofs in NewsletterProofs.              *)

(* A stamp names the receipts of one delivery.                             *)
StampsAreUsedOnce ==
    /\ smtp.now <= clock
    /\ \A r \in ReceiptRows : r[1] <= clock
    /\ smtp.mail # None =>
         smtp.now \in Stamps /\ \A r \in ReceiptRows : r[1] # smtp.now

(* The rows a request has checked are its owner's, as long as they last.   *)
RequestsAreFounded ==
    \A c \in Clients :
        /\ req[c].op # "none" => req[c].owner \in Owners
        /\ req[c].op \in {"stop", "enable", "move"} => req[c].source \in SourceIds
        /\ req[c].op \in {"move", "moveNew", "unsave"} =>
             req[c].message \in MessageIds
        /\ req[c].source \in SourceRows =>
             sources[req[c].source].owner = req[c].owner
        /\ req[c].message \in MessageRows =>
             messages[req[c].message].owner = req[c].owner

(* A source that was stopped at a stamp takes nothing from before an       *)
(* enable, if it still exists.                                             *)
TakesNothingFrom(s, t) ==
    s \in SourceRows =>
        sources[s].status = "stopped" \/ sources[s].acceptAfter > t
StopsAreRemembered ==
    /\ \A r \in ReceiptRows : \A s \in receipts[r].stopped :
         TakesNothingFrom(s, r[1])
    /\ \A s \in smtp.stopped : TakesNothingFrom(s, smtp.now)

DeletedRowsAreHidden ==
    \A s \in SourceRows : sources[s].deleted =>
        sources[s].key = None /\ (sources[s].status = "stopped" \/ s \in late)

PromisesHold ==
    \A r \in promised : \A s \in SourcesByKey(r[2], receipts[r].mail) :
        sources[s].status = "active"

IInv ==
    /\ TypeOK
    /\ StampsAreUsedOnce
    /\ RequestsAreFounded
    /\ StopsAreRemembered
    /\ DeletedRowsAreHidden
    /\ PromisesHold
    /\ StoppedKeepsSaved
    /\ HiddenRowHoldsMessage
=============================================================================
