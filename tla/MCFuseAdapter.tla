---------------------------- MODULE MCFuseAdapter ----------------------------
EXTENDS FuseAdapter
==============================================================================
