----------------------------- MODULE MCVT100Host ----------------------------
(* An instance of VT100Host for TLC. *)
EXTENDS VT100Host
============================================================================
