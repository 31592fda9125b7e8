------------------------------ MODULE MCScreen ------------------------------
EXTENDS Screen

MCCounts == {1, 2}
MCSavedAt == {<<1, 1>>}
=============================================================================
