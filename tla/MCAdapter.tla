----------------------------- MODULE MCAdapter ----------------------------
(* An instance of Adapter for TLC: three configured instances, of which    *)
(* the one in the middle cannot be configured.                             *)
EXTENDS Adapter

CONSTANTS i1, i2, i3

MCOrder == <<i1, i2, i3>>

=============================================================================
