----------------------------- MODULE MCFirmware -----------------------------
(***************************************************************************)
(* Two steps of travel below the switch, backoffs of two and one, one      *)
(* step of overshoot, a homing phase that outlasts the deepest fall, and   *)
(* one upset.  Three lines: a motion, what interrupts it, and a motion     *)
(* that starts from where the interruption left the machine.               *)
(***************************************************************************)
EXTENDS Firmware

MCMoves == {-1, 2}
=============================================================================
