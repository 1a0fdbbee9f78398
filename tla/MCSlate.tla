------------------------------ MODULE MCSlate -------------------------------
EXTENDS Slate
=============================================================================
