-------------------------- MODULE MCRuntimeUpdate --------------------------
EXTENDS RuntimeUpdate
=============================================================================
