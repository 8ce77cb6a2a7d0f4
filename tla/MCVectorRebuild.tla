--------------------------- MODULE MCVectorRebuild ---------------------------
EXTENDS VectorRebuild
=============================================================================
