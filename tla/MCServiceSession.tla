-------------------------- MODULE MCServiceSession --------------------------
(***************************************************************************)
(* The service with two commands, three sessions and one failed connection *)
(* attempt: enough for a session to fail while the reset of the one before *)
(* is still queued, for a command to overtake a turn that is being reset,  *)
(* and for the stop to meet each of them.  The last session never fails,   *)
(* so that recovery has an end.  The two small instances that look for a   *)
(* counterexample make do with one command and two sessions.               *)
(***************************************************************************)
EXTENDS ServiceSession
=============================================================================
