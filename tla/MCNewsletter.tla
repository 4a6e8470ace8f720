---------------------------- MODULE MCNewsletter ----------------------------
(* Two mails of one sender: a small one, and one that its parsed form      *)
(* would outgrow.                                                          *)
EXTENDS NewsletterViews, TLC

CONSTANTS small, large, sender

MCSenderOf == [m \in Mails |-> sender]
MCRawBytes == [m \in Mails |-> IF m = large THEN 3 ELSE 1]
MCNormalBytes == [m \in Mails |-> IF m = large THEN 6 ELSE 1]

Symmetry == Permutations(Owners) \cup Permutations(SourceIds)
            \cup Permutations(MessageIds) \cup Permutations(SaveIds)
            \cup Permutations(Clients)
=============================================================================
