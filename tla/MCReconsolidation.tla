------------------------- MODULE MCReconsolidation -------------------------
EXTENDS Reconsolidation
=============================================================================
