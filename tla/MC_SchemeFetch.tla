---------------------------- MODULE MC_SchemeFetch ----------------------------
(* SchemeFetch on small bodies, for TLC.                                   *)
EXTENDS SchemeFetch

CONSTANT Unbounded

MCUsizeMax == 15

=============================================================================
