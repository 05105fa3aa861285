------------------------------- MODULE MCFuse -------------------------------
(* Model-checking instance of Fuse: all its values are in the configurations. *)
EXTENDS Fuse
=============================================================================
