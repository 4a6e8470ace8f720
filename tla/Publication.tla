---------------------------- MODULE Publication -----------------------------
(***************************************************************************)
(* One standard.site publication in the shared catalog (internal/sync      *)
(* standardpipeline.go over internal/standardfeed client.go): a fetch      *)
(* lists the publisher's documents page by page, then makes the cached     *)
(* entries equal to the listing in one transaction, deletes included.      *)
(* Meanwhile readers open entries, whose full text is extracted from the   *)
(* post's page and cached in the entry (internal/api entries.go).          *)
(*                                                                         *)
(* A document's revision stands for its CID and for its page's content.    *)
(* Titles, dates, icons and the publication's own record are left out, and *)
(* so is a document whose own upsert fails: the next fetch tries it again. *)
(*                                                                         *)
(* StandardMirrorProofs proves about this module and StandardMirror        *)
(* together, so the names both would have begin with Publication here.     *)
(***************************************************************************)
EXTENDS Naturals, Sequences

CONSTANTS
    Fetches,    \* fetches of the publication at work at a time
    Readers,    \* requests that extract
    Docs,       \* documents, in the order of their record keys
    Pathless,   \* those without a page of their own
    None,
    Pages,      \* how listRecords pages them: a sequence of sets
    MaxEdits    \* bound: revisions the publisher writes

ASSUME PublicationAssumption ==
    /\ Pathless \subseteq Docs
    /\ Pages \in Seq(SUBSET Docs) /\ UNION {Pages[i] : i \in 1..Len(Pages)} = Docs
    /\ MaxEdits \in Nat
    /\ None \notin Docs \cup Nat

Revs == 0..MaxEdits
Record == [rev : Revs, wellFormed : BOOLEAN]
Entry == [cid : Revs, body : Revs \cup {None}]

ASSUME NoRecordIsNone == None \notin Record \cup Entry

Extraction == [doc : Docs \cup {None}, page : Revs \cup {None}, live : BOOLEAN]
NoExtraction == [doc |-> None, page |-> None, live |-> FALSE]

VARIABLES
    repo,     \* the publisher's records
    edits,    \* the newest revision
    entries,  \* feed_entries of the publication
    call,     \* the fetches; steady is history: the documents that have been
              \* in the repo since the fetch began
    reader    \* the extractions: the document, its page once read, and whether
              \* the row they read, which they update by id, still exists

publicationVars == <<repo, edits, entries, call, reader>>

NoCall == [pc |-> "idle"]
Call == [pc : {"listing"}, page : 1..Len(Pages) + 1, steady : SUBSET Docs,
         seen : [Docs -> Record \cup {None}]]
Entries == {d \in Docs : entries[d] # None}

PublicationTypeOK ==
    /\ repo \in [Docs -> Record \cup {None}]
    /\ edits \in Revs
    /\ entries \in [Docs -> Entry \cup {None}]
    /\ call \in [Fetches -> Call \cup {NoCall}]
    /\ reader \in [Readers -> Extraction]

PublicationInit ==
    /\ repo \in [Docs -> [rev : {0}, wellFormed : {TRUE}] \cup {None}]
    /\ edits = 0
    /\ entries = [d \in Docs |-> None]
    /\ call = [c \in Fetches |-> NoCall]
    /\ reader = [r \in Readers |-> NoExtraction]

-----------------------------------------------------------------------------
(* The publisher.                                                          *)

Write(d, wellFormed) ==
    /\ edits < MaxEdits
    /\ edits' = edits + 1
    /\ repo' = [repo EXCEPT ![d] = [rev |-> edits + 1, wellFormed |-> wellFormed]]
    /\ UNCHANGED <<entries, call, reader>>

Remove(d) ==
    /\ repo[d] # None
    /\ edits < MaxEdits
    /\ edits' = edits + 1
    /\ repo' = [repo EXCEPT ![d] = None]
    /\ call' = [c \in Fetches |->
                  IF call[c] = NoCall THEN NoCall
                  ELSE [call[c] EXCEPT !.steady = @ \ {d}]]
    /\ UNCHANGED <<entries, reader>>

-----------------------------------------------------------------------------
(* FetchAndStore.                                                          *)

(* GetPublication answered.                                                *)
GetPublication(c) ==
    /\ call[c] = NoCall
    /\ call' = [call EXCEPT ![c] =
         [pc |-> "listing", page |-> 1, seen |-> [d \in Docs |-> None],
          steady |-> {d \in Docs : repo[d] # None}]]
    /\ UNCHANGED <<repo, edits, entries, reader>>

Listing(c) == call[c].pc = "listing" /\ call[c].page <= Len(Pages)
Listed(c) == call[c].pc = "listing" /\ call[c].page = Len(Pages) + 1

ListDocumentsPage(c) ==
    /\ Listing(c)
    /\ call' = [call EXCEPT ![c].page = @ + 1,
                            ![c].seen = [d \in Docs |->
                              IF d \in Pages[call[c].page] THEN repo[d] ELSE @[d]]]
    /\ UNCHANGED <<repo, edits, entries, reader>>

(* Mutant: what was listed before an error counts as the listing.          *)
PartialListing(c) ==
    /\ Listing(c)
    /\ call' = [call EXCEPT ![c].page = Len(Pages) + 1]
    /\ UNCHANGED <<repo, edits, entries, reader>>
(* A page fails, and with it the fetch.                                    *)
ListDocumentsFails(c) ==
    /\ Listing(c)
    /\ call' = [call EXCEPT ![c] = NoCall]
    /\ UNCHANGED <<repo, edits, entries, reader>>

(* entryParams: a document without a page brings its text along, any other *)
(* revision leaves the text to be extracted again.                         *)
entryParams(d, rev) ==
    [cid |-> rev, body |-> IF d \in Pathless THEN rev ELSE None]

(* The stored guids with their CIDs, read in the transaction.              *)
ListFeedEntriesForDiff == [d \in Docs |->
    IF entries[d] = None THEN None ELSE entries[d].cid]

(* The upsert owns the text and the CID of an entry that is there.         *)
UpsertStandardfeedEntry(d, rev) == entryParams(d, rev)

(* Mutant: only documents the cache does not know are stored.              *)
NewOnly(d, seen) ==
    IF seen = None THEN None
    ELSE IF entries[d] = None /\ seen.wellFormed
    THEN UpsertStandardfeedEntry(d, seen.rev)
    ELSE entries[d]
(* One document of the diff: gone, malformed, unchanged, or new.           *)
Diff(d, seen) ==
    IF seen = None THEN None
    ELSE IF ~seen.wellFormed THEN entries[d]
    ELSE IF ListFeedEntriesForDiff[d] = seen.rev THEN entries[d]
    ELSE UpsertStandardfeedEntry(d, seen.rev)

Store(c) ==
    /\ Listed(c)
    /\ entries' = [d \in Docs |-> Diff(d, call[c].seen[d])]
    /\ reader' = [r \in Readers |->
         [reader[r] EXCEPT !.live = @ /\ entries'[reader[r].doc] # None]]
    /\ call' = [call EXCEPT ![c] = NoCall]
    /\ UNCHANGED <<repo, edits>>

(* The transaction rolls back.                                             *)
StoreFails(c) ==
    /\ Listed(c)
    /\ call' = [call EXCEPT ![c] = NoCall]
    /\ UNCHANGED <<repo, edits, entries, reader>>

-----------------------------------------------------------------------------
(* EntryExtractHandler.                                                    *)

(* The cached entry has no text yet, and a page to read it from.           *)
ExtractStarts(r) ==
    /\ reader[r].doc = None
    /\ \E d \in Entries \ Pathless :
         entries[d].body = None /\ reader' = [reader EXCEPT ![r] =
                                        [doc |-> d, page |-> None, live |-> TRUE]]
    /\ UNCHANGED <<repo, edits, entries, call>>

extractReadable(r) ==
    /\ reader[r].doc # None /\ reader[r].page = None
    /\ reader' = [reader EXCEPT ![r] =
         IF repo[reader[r].doc] = None THEN NoExtraction
         ELSE [@ EXCEPT !.page = repo[reader[r].doc].rev]]
    /\ UNCHANGED <<repo, edits, entries, call>>

UpdateFeedEntryExtractedBody(r) ==
    /\ reader[r].page # None
    /\ entries' = [d \in Docs |->
         IF d = reader[r].doc /\ reader[r].live
         THEN [entries[d] EXCEPT !.body = reader[r].page] ELSE entries[d]]
    /\ reader' = [reader EXCEPT ![r] = NoExtraction]
    /\ UNCHANGED <<repo, edits, call>>

Restart ==
    /\ call' = [c \in Fetches |-> NoCall]
    /\ reader' = [r \in Readers |-> NoExtraction]
    /\ UNCHANGED <<repo, edits, entries>>

PublicationNext ==
    \/ \E d \in Docs : Remove(d) \/ \E w \in BOOLEAN : Write(d, w)
    \/ \E c \in Fetches : \/ GetPublication(c) \/ ListDocumentsPage(c)
                          \/ ListDocumentsFails(c) \/ Store(c) \/ StoreFails(c)
    \/ \E r \in Readers : \/ ExtractStarts(r) \/ extractReadable(r)
                          \/ UpdateFeedEntryExtractedBody(r)
    \/ Restart

PublicationSpec == PublicationInit /\ [][PublicationNext]_publicationVars

(* The global refresh fetches a followed publication on its timer; a fetch *)
(* that keeps being tried gets through in the end.                         *)
FairSpec ==
    /\ PublicationSpec
    /\ \A c \in Fetches :
         /\ WF_publicationVars(GetPublication(c)) /\ SF_publicationVars(Store(c))
         /\ \A i \in 1..Len(Pages) :
              SF_publicationVars(ListDocumentsPage(c) /\ call[c].page = i)

-----------------------------------------------------------------------------
(* A fetch never drops a document that was in the publication all along,   *)
(* however its listing was paged, interrupted or outrun by another fetch.  *)
SteadyDocsStay ==
    [][\A d \in Entries : entries'[d] = None =>
         \E c \in Fetches :
            call[c] # NoCall /\ d \notin call[c].steady]_publicationVars

Mirrored == \A d \in Docs :
    IF repo[d] = None THEN entries[d] = None
    ELSE repo[d].wellFormed => entries[d] # None /\ entries[d].cid = repo[d].rev

(* Once the publisher is done writing, the cache comes to hold exactly the *)
(* publication and stays so, whatever older listing was stored in between. *)
CacheConverges == <>[]Mirrored

(* database/db/entries.sql.go:357: "a CID change must reset the cached      *)
(* readability body", so that a cached text is not older than its entry.   *)
TextFollowsRevision ==
    \A d \in Entries : entries[d].body # None => entries[d].body >= entries[d].cid
=============================================================================
