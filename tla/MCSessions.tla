----------------------------- MODULE MCSessions -----------------------------
(* Sessions on a small instance. *)
EXTENDS Sessions, TLC

CONSTANTS r1, r2, s1, st1

TwoRequests == {r1, r2}
OneSid == {s1}
OneState == {st1}
=============================================================================
