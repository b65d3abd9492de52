---------------------------- MODULE MCPtraceMonitor ----------------------------
EXTENDS PtraceMonitor
=============================================================================
