------------------------------ MODULE MCHandoff ------------------------------
EXTENDS Handoff
=============================================================================
