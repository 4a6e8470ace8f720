--------------------------- MODULE MCPublication ----------------------------
EXTENDS Publication, TLC

CONSTANTS d1, d2

MCPages == <<{d1}, {d2}>>
=============================================================================
