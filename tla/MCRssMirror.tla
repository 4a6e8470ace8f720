---------------------------- MODULE MCRssMirror ----------------------------
(* RssMirror on small instances: two URLs of one channel, of which the     *)
(* second is known to serve the feed of the first as well.                 *)
EXTENDS RssMirror, TLC

CONSTANTS s1, s2, a, b, t

TwoSessions == {s1, s2}
TwoFeeds == {a, b}
OneTag == {t}
Tagged == {{t}}
MCAliases == [f \in Feeds |-> IF f = b THEN {a} ELSE {}]

Symmetry == Permutations({s1, s2})
=============================================================================
