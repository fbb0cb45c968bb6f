------------------------ MODULE MCContentReplacement ------------------------
EXTENDS ContentReplacement
=============================================================================
