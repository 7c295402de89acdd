------------------------------- MODULE Option -------------------------------
(***************************************************************************)
(* The value that is none, shared by the modules that are checked together.*)
(***************************************************************************)
CONSTANT None
=============================================================================
