--------------------------- MODULE MCUnotifyMonitor ---------------------------
EXTENDS UnotifyMonitor
=============================================================================
