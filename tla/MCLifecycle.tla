---------------------------- MODULE MCLifecycle ----------------------------
(***************************************************************************)
(* Lifecycle for TLC, which gives the bounds their values in the .cfg.     *)
(***************************************************************************)
EXTENDS Lifecycle

=============================================================================
