------------------------- MODULE MCLifecyclePermits -------------------------
(***************************************************************************)
(* An instance of Lifecycle for TLC in which handlers wait for a permit:   *)
(* three sessions that share their id, for two permits.                    *)
(*                                                                         *)
(* What has no say in who waits for whom is held still: only actions that  *)
(* the specification does not make fair are restricted.                    *)
(***************************************************************************)
EXTENDS Lifecycle

CONSTANTS s1, s2, s3, a

MCIdOf == [s \in Sessions |-> a]

\* Sessions with one id are interchangeable, so they connect in one order.
InTurn ==
  /\ session[s2] # "absent" => session[s1] # "absent"
  /\ session[s3] # "absent" => session[s2] # "absent"

\* A handshake that fails leaves a session the others never hear of.
NoneRefused == \A s \in Sessions : session[s] = "absent" => session'[s] # "gone"

\* No client leaves a mark. One listener begins: it may panic, and serializing its object
\* then poisons the map, which is all that a listener means to handlers.
Quiet ==
  \A i \in Sessions :
    content[i] = {} /\ listener[i] # "ended" /\ (listener[i] = "listening" => i = s1)

MCInit == Init /\ store = [id \in Ids |-> {{}}]
MCNext == Next /\ InTurn' /\ NoneRefused /\ Quiet'
MCSpec == MCInit /\ [][MCNext]_vars /\ Fairness

=============================================================================
