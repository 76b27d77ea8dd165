------------------------------ MODULE MCCsiNode ------------------------------
\* Two volumes, one of which finds its tenant by name, on one node.
EXTENDS CsiNode
==============================================================================
