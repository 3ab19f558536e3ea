------------------------------ MODULE GadgetMC ------------------------------
EXTENDS Gadget
CONSTANTS g1, g2, k1, k2
ClassOfMC == [g \in Gadget |-> IF g = g1 THEN k1 ELSE k2]
=============================================================================
