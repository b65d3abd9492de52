------------------------------- MODULE MCLaunch -------------------------------
(* Every mode of starting a sandboxee, with up to MaxFds mapped descriptors. *)
EXTENDS Launch
=============================================================================
