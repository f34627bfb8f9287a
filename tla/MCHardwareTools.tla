-------------------------- MODULE MCHardwareTools ---------------------------
(***************************************************************************)
(* Three calls over two turns: one holds the lock, one waits for it across *)
(* the replacement of its turn, one belongs to the turn that replaced it.  *)
(***************************************************************************)
EXTENDS HardwareTools
=============================================================================
