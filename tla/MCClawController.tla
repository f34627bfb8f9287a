-------------------------- MODULE MCClawController --------------------------
(***************************************************************************)
(* One device is enough: more only matter to Discover, whose outcome is    *)
(* one device or None.  Three commands and a refresh: a motion whose       *)
(* caller gave up, the HALT after it, and a poll between them.             *)
(***************************************************************************)
EXTENDS ClawController
Device(usb, passes, arduino) == [usb |-> usb, passes |-> passes, arduino |-> arduino]
MCDevices == {Device(TRUE, TRUE, TRUE)}
=============================================================================
