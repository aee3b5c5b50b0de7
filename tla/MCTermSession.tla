--------------------------- MODULE MCTermSession ---------------------------
(* An instance of TermSession for TLC. *)
EXTENDS TermSession
============================================================================
