---------------------------- MODULE MCPtraceAttach ----------------------------
(* Three threads, any subset of which exists when the monitor attaches. *)
EXTENDS PtraceAttach
=============================================================================
