------------------------------- MODULE MCEvents -------------------------------
\* One instance's events: see README, "Bounds".
EXTENDS EventStream
=============================================================================
