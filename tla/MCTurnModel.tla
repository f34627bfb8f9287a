----------------------------- MODULE MCTurnModel ----------------------------
(***************************************************************************)
(* Two turns and three tool calls: two calls of one response, so that      *)
(* results can be missing when the first arrives, a call of its            *)
(* continuation, and a turn that is replaced while all of this is          *)
(* underway.                                                               *)
(***************************************************************************)
EXTENDS TurnModel
=============================================================================
