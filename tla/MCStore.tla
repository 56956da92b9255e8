------------------------------ MODULE MCStore ------------------------------
EXTENDS Store

CONSTANT a1
=============================================================================
