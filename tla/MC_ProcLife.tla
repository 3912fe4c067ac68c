----------------------------- MODULE MC_ProcLife -----------------------------
EXTENDS ProcLife
=============================================================================
