---------------------------- MODULE MCSchedulers ----------------------------
EXTENDS AleSchedulers
=============================================================================
