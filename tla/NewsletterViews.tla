-------------------------- MODULE NewsletterViews --------------------------
(***************************************************************************)
(* What the reader sees of the newsletter tables: the pages of the sources *)
(* (internal/api/newsletters.go), the digest, the library of saves and a   *)
(* single issue.  Each is one query; what they show is left, which rows    *)
(* they join is kept.                                                      *)
(***************************************************************************)
EXTENDS Newsletter

IssuesOf(s) ==
    {m \in MessageRows : /\ messages[m].source = s
                         /\ messages[m].owner = sources[s].owner}

(* A deleted source is not listed; the service sorts the rest by status.   *)
ListNewsletterSources(o) ==
    {s \in SourceRows : sources[s].owner = o /\ ~sources[s].deleted}
ListSources(o) ==
    [active |-> {s \in ListNewsletterSources(o) : sources[s].status = "active"},
     stopped |-> {s \in ListNewsletterSources(o) : sources[s].status = "stopped"}]

(* GetSource, with what its page shows: the issues and the saved ones.     *)
GetSource(o, s) ==
    [found |-> s \in ListNewsletterSources(o),
     issues |-> IssuesOf(s),
     saved |-> {m \in IssuesOf(s) : ~Unsaved(m)}]

(* ListSourceMessages asks for the source first: no page, no messages.     *)
ListSourceMessages(o, s) ==
    IF GetSource(o, s).found THEN GetSource(o, s).issues ELSE {}

(* ListNewsletterSaves joins the message and its source.                   *)
ListSaves(o) ==
    {m \in MessageRows : /\ ~Unsaved(m)
                         /\ messages[m].owner = o
                         /\ messages[m].source \in SourceRows
                         /\ sources[messages[m].source].owner = o}

(* ListNewsletterMessagesForDigest asks for active sources only.           *)
ListDigestMessages(o) ==
    {m \in MessageRows : /\ messages[m].owner = o
                         /\ sources[messages[m].source].status = "active"}

(* GetNewsletterMessageBySlug asks for neither.                            *)
GetMessageBySlug(o) == {m \in MessageRows : messages[m].owner = o}

-----------------------------------------------------------------------------
(* Properties.                                                             *)

(* "Saved messages stay in the Library" (SPEC.md): a saved issue is listed *)
(* until the reader removes that very save, whatever becomes of its        *)
(* source, by stops, deletes, moves and sweeps in any order.               *)
SavedStaysInLibrary ==
    [][\A o \in Owners : \A m \in ListSaves(o) :
         m \in ListSaves(o)' \/ \E c \in Clients :
             DeleteSave(c) /\ req[c].save = saves[m]]_vars

(* Nothing is stored that the reader cannot come to: an issue that can be  *)
(* read is on its source's page or in the library, and one that the digest *)
(* shows has its source on the active list.  Sources that a move or an     *)
(* enable reached after they were stopped or deleted are excepted.         *)
NothingIsStranded ==
    \A o \in Owners : \A m \in GetMessageBySlug(o) :
        LET s == messages[m].source
        IN  \/ s \in late
            \/ /\ m \in ListSourceMessages(o, s) \cup ListSaves(o)
               /\ m \in ListDigestMessages(o) => s \in ListSources(o).active
=============================================================================
