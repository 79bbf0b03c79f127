------------------------- MODULE MCOneShotApproval -------------------------
EXTENDS OneShotApproval
=============================================================================
