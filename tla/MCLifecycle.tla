---------------------------- MODULE MCLifecycle ----------------------------
(***************************************************************************)
(* An instance of Lifecycle for TLC: sessions that share their id.         *)
(***************************************************************************)
EXTENDS Lifecycle

CONSTANTS s1, s2, a

MCIdOf == [s \in Sessions |-> a]

=============================================================================
