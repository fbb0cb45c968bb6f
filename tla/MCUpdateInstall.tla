--------------------------- MODULE MCUpdateInstall ---------------------------
EXTENDS UpdateInstall
=============================================================================
