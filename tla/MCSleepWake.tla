---------------------------- MODULE MCSleepWake -----------------------------
EXTENDS SleepWake
=============================================================================
