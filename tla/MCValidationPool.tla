-------------------------- MODULE MCValidationPool --------------------------
(* A pool for a handful of files. *)
EXTENDS ValidationPool

=============================================================================
