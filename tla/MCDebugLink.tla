---------------------------- MODULE MCDebugLink -----------------------------
EXTENDS DebugLink
=============================================================================
