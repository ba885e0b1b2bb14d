--------------------------- MODULE MCMutationReplay ---------------------------
\* The instance of MutationReplay for TLC.  The run checks liveness, so no
\* symmetry is declared.
EXTENDS MutationReplay
=============================================================================
