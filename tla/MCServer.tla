------------------------------ MODULE MCServer ------------------------------
(* The process on a small instance. *)
EXTENDS Server

CONSTANTS h1, j1, w1, w2, c1

OneHandler == {h1}
OneJob == {j1}
TwoWorkers == {w1, w2}
OneConn == {c1}
=============================================================================
