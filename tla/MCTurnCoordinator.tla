-------------------------- MODULE MCTurnCoordinator -------------------------
(***************************************************************************)
(* The coordinator with two outside interrupters and four commands: enough *)
(* for two interrupts that overlap each other and the loop's own, for a    *)
(* command that is overtaken in the queue while another is in the loop's   *)
(* hand, and for all of it to straddle a stop and a restart.               *)
(***************************************************************************)
EXTENDS TurnCoordinator
=============================================================================
