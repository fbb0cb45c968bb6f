----------------------- MODULE MCRestoreTransaction -----------------------
\* Instances of RestoreTransaction for TLC.
EXTENDS RestoreTransaction
=============================================================================
