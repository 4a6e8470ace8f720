--------------------------- MODULE MCFeedPipeline ---------------------------
(* A publisher gives a post a later date and another link, or takes both   *)
(* back.                                                                   *)
EXTENDS FeedViews, TLC

CONSTANTS u1, u2

MCItems == {[date |-> 1, url |-> u1], [date |-> 2, url |-> u2]}
OneStep == <<1>>
Symmetry == Permutations(Fetches) \cup Permutations(Posts)
=============================================================================
