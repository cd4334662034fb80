---------------------------- MODULE MCEntryPoint ----------------------------
(***************************************************************************)
(* Instances of EntryPoint for TLC.                                        *)
(***************************************************************************)
EXTENDS EntryPoint

CONSTANTS r0, r1, r2, f

AllModes == {"prompt", "reload", "kernel"}
=============================================================================
