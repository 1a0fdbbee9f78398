----------------------------- MODULE MCFencing -----------------------------
EXTENDS Fencing
=============================================================================
