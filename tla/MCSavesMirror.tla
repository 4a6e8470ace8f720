--------------------------- MODULE MCSavesMirror ---------------------------
(* SavesMirror on small instances. *)
EXTENDS SavesMirror, TLC

CONSTANTS s1, s2, a, b, t1, t2, n1, n2

OneSession == {s1}
TwoSessions == {s1, s2}
OneItem == {a}
TwoItems == {a, b}
OneTag == {t1}
TwoTags == {t1, t2}
OneNote == {n1}
TwoNotes == {n1, n2}

Symmetry == Permutations({s1, s2}) \cup Permutations({a, b})
=============================================================================
