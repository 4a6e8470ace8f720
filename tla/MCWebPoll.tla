----------------------------- MODULE MCWebPoll -----------------------------
EXTENDS WebPoll, TLC

Symmetry == Permutations(Lists) \cup Permutations(Layouts)
=============================================================================
