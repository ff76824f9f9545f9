---------------------------- MODULE MCUploadPath ----------------------------
EXTENDS UploadPath

CONSTANT u1  \* the one user who uploads
Owner == [r \in Request |-> u1]
=============================================================================
