---------------------------- MODULE MCPublishing ----------------------------
(***************************************************************************)
(* A finite instance of Publish and of the queue under it.                 *)
(***************************************************************************)
EXTENDS Publish, TLC
=============================================================================
