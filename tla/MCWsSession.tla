---------------------------- MODULE MCWsSession ----------------------------
(***************************************************************************)
(* An instance of WsSession for TLC: channels of one place, so that three  *)
(* messages and their completions fill everything up to the reader.        *)
(***************************************************************************)
EXTENDS WsSession

=============================================================================
