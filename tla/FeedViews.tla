----------------------------- MODULE FeedViews -----------------------------
(***************************************************************************)
(* What the reader sees of the feed catalog: the list of sources with      *)
(* their health and a source's page (internal/api source_detail.go,        *)
(* subscriptions_wire.go), the digest, the library (saves.go) and a single *)
(* post (entries.go).  What a page shows of its rows is kept as far as the *)
(* pages can disagree: which posts there are, and the source's status.     *)
(***************************************************************************)
EXTENDS FeedPipeline

(* A feed with failures is unavailable until its next fetch; one that was  *)
(* never fetched, or that the catalog does not have, is waited for.        *)
withSourceHealth ==
    CASE row # None /\ row.failures > 0 ->
           [status |-> "unavailable", nextFetch |-> row.next]
      [] row # None /\ row.failures = 0 /\ row.fetched -> [status |-> "ready"]
      [] OTHER -> [status |-> "waiting"]

(* Both stats queries join the feed from the left and count its entries.   *)
GetUserSourceWithStats ==
    [health |-> withSourceHealth, total |-> Stored, saved |-> saved]
ListUserSourcesWithStats == IF followed THEN {withSourceHealth} ELSE {}

(* SubscriptionEntriesHandler: no subscription, no list.                   *)
GetUserSubscription == followed
SubscriptionEntries == IF GetUserSubscription THEN ListEntriesForSource ELSE {}

(* The digest of a day.                                                    *)
ListDigestForUser(d) == {p \in ListEntriesForSource : entries[p].date = d}

(* A save shows the title and the reader link of a cached entry with its   *)
(* link, if any.                                                           *)
Cached(url) == \E p \in Stored : entries[p].url = url
ListUserSaves(s) == Cached(s.url)
Library == {s \in saved : ListUserSaves(s)}

(* EntryHandler: the entry by its slug, the subscription that lets the     *)
(* reader see it, and its feed, whose absence is unexpected.               *)
GetFeedEntryBySlug(p) == p \in Stored
loadAndAuthorize(p) == GetFeedEntryBySlug(p) /\ followed
GetFeed == row # None
Entry(p) == loadAndAuthorize(p) /\ GetFeed

-----------------------------------------------------------------------------
(* Properties.                                                             *)

(* A post with this link gets another.                                     *)
Relinked(url) ==
    \E p \in Stored : /\ entries[p].url = url
                      /\ entries'[p] # None /\ entries'[p].url # url

(* The sweep and the fetches take no post away from its reader: what a     *)
(* source page (and so the digest) lists opens, with its source, until it  *)
(* is unfollowed, and the library keeps the reader link of a save until it *)
(* is unsaved or the publisher gives a post of that link another, whoever  *)
(* unfollows and however the sweep runs between.                           *)
ReadablePostsStay ==
    [][/\ \A p \in SubscriptionEntries : Entry(p)' \/ Unfollow
       /\ \A s \in Library : (s \in Library)' \/ Unsave \/ Relinked(s.url)]_vars

(* A post never moves to a later day's digest, whatever dates the feed     *)
(* gives it and in whatever order its documents are stored.                *)
NeverResurfaces ==
    [][\A p \in ListEntriesForSource : \A d \in 1..MaxNow :
         p \in ListDigestForUser(d) =>
           \A e \in (d + 1)..MaxNow : p \notin ListDigestForUser(e)']_vars

(* The status a followed source is listed with is true whatever fetches,   *)
(* failures and sweeps overlapped: one that waits has no posts yet, one    *)
(* that is ready shows what its validators vouch for, and one that is      *)
(* unavailable is tried again within the ladder's last step, although a    *)
(* late failure may have overwritten a newer success.                      *)
StatusIsTrue ==
    \A health \in ListUserSourcesWithStats :
        /\ health.status = "waiting" => GetUserSourceWithStats.total = {}
        /\ health.status = "ready" /\ row.etag # 0 =>
             Listed(row.etag) \subseteq SubscriptionEntries \cup refused
        /\ health.status = "unavailable" => health.nextFetch <= now + Cap
=============================================================================
