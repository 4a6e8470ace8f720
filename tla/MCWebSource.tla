---------------------------- MODULE MCWebSource ----------------------------
(* One site with two listings.  An older version may have left one source, *)
(* healthy or in doubt, that was never checked for a section page.         *)
EXTENDS WebSource, TLC

CONSTANT k1

OldRow(h) == [key |-> k1, setup |-> h, health |-> h, seq |-> 0,
              by |-> None, checked |-> FALSE, lately |-> FALSE]
MCLegacyRows == {OldRow("ok"), OldRow("needs_attention")}
Unsure == {[OldRow("needs_attention") EXCEPT !.checked = TRUE]}

Symmetry == Permutations(Readers) \cup Permutations(Clients)
            \cup Permutations(Ids)
=============================================================================
