---------------------------- MODULE MCTurnOutputs ----------------------------
(***************************************************************************)
(* Two turns, so that one replaces the other; two sessions, so that the    *)
(* bridge of the failed one outlives it; two chunks, so that one is        *)
(* abandoned and another may follow; one display, which comes, stalls, is  *)
(* evicted and comes back: displays do not act on each other.              *)
(***************************************************************************)
EXTENDS TurnOutputs
CONSTANTS b1, b2
MCBridges == {b1, b2}
MCEmitters == MCBridges \cup {Loop, Reset}
=============================================================================
