-------------------------- MODULE MCStandardMirror --------------------------
(* StandardMirror on small instances. *)
EXTENDS StandardMirror, TLC

CONSTANTS s1, s2, p1, m0, m1, m2

OneSession == {s1}
TwoSessions == {s1, s2}
OnePub == {p1}
TwoMetas == {m0, m1}
ThreeMetas == {m0, m1, m2}

Symmetry == Permutations({s1, s2}) \cup Permutations({m1, m2})
=============================================================================
