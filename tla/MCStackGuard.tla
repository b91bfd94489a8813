---------------------------- MODULE MCStackGuard ----------------------------
(* Instance of StackGuard for TLC, in units of 16 bytes.                   *)
EXTENDS StackGuard
=============================================================================
