---------------------------- MODULE MCSyncEngine ----------------------------
(* The sync engine and a page on small instances. *)
EXTENDS DigestPage

CONSTANTS u1, s1, s2

OneUser == {u1}
TwoSessions == {s1, s2}
=============================================================================
