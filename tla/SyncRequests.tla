---------------------------- MODULE SyncRequests ----------------------------
(***************************************************************************)
(* What the sync engine promises whoever asks for a sync, and what the     *)
(* mirrors (SavesMirror, StandardMirror, RssMirror) take for granted: a    *)
(* user has at most one pass at a time, a request that comes during a pass *)
(* is not served by it, and every request is followed by a pass that began *)
(* after it, unless the process is closing.                                *)
(***************************************************************************)
CONSTANT Users

VARIABLES
    wanted,    \* users with a request that no pass has begun after
    working,   \* users whose pass is at work
    closing    \* the process is shutting down

vars == <<wanted, working, closing>>

Init ==
    /\ wanted = {}
    /\ working = {}
    /\ closing = FALSE

(* A repair, a login or a refresh asks for a pass.                         *)
Ask(u) ==
    /\ wanted' = wanted \cup {u}
    /\ UNCHANGED <<working, closing>>

Begin(u) ==
    /\ u \notin working
    /\ working' = working \cup {u}
    /\ wanted' = wanted \ {u}
    /\ UNCHANGED closing

End(u) ==
    /\ u \in working
    /\ working' = working \ {u}
    /\ UNCHANGED <<wanted, closing>>

Close ==
    /\ closing' = TRUE
    /\ UNCHANGED <<wanted, working>>

(* The process dies and starts again: it remembers nothing.                *)
Restart == wanted' = {} /\ working' = {} /\ closing' = FALSE

Next ==
    \/ \E u \in Users : Ask(u) \/ Begin(u) \/ End(u)
    \/ Close \/ Restart

Spec == Init /\ [][Next]_vars

(* A pass ends; while the process is open, a request is followed by one.   *)
FairSpec ==
    /\ Spec
    /\ \A u \in Users :
         /\ WF_vars(End(u))
         /\ WF_vars(u \in wanted /\ ~closing /\ Begin(u))
=============================================================================
