--------------------------- MODULE MCPersistence ---------------------------
(***************************************************************************)
(* A small instance of Persistence, on which both safety and liveness are  *)
(* checked, so without symmetry.                                           *)
(***************************************************************************)
EXTENDS Persistence

CONSTANTS c1, c2, c3, k1, v1, v2

=============================================================================
