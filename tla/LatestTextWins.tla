--------------------------- MODULE LatestTextWins ---------------------------
(***************************************************************************)
(* What the turn coordinator promises, without saying how.                 *)
(*                                                                         *)
(* Commands are numbered in the order in which they are submitted.  At any *)
(* moment at most one turn is eligible, i.e. may dispatch tools, play      *)
(* audio and touch the display.  A turn becomes eligible only while no     *)
(* other is, only for a command newer than every command begun before, and *)
(* with an identity that no earlier turn had; once it has lost its         *)
(* eligibility it never gets it back.                                      *)
(***************************************************************************)
EXTENDS Integers

CONSTANT MaxTexts   \* bound on the number of submitted commands

VARIABLES submitted,    \* number of the newest command, 0 before the first
          begun,        \* number of the newest command that became a turn
          eligible,     \* identity of the eligible turn, 0 when there is none
          retired       \* identities that have lost their eligibility

vars == <<submitted, begun, eligible, retired>>

Init ==
  /\ submitted = 0
  /\ begun = 0
  /\ eligible = 0
  /\ retired = {}

Submit ==
  /\ submitted' = submitted + 1
  /\ UNCHANGED <<begun, eligible, retired>>

Begin ==
  /\ eligible = 0
  /\ begun' \in (begun + 1)..submitted
  /\ eligible' \in (1..MaxTexts) \ retired
  /\ UNCHANGED <<submitted, retired>>

End ==
  /\ eligible # 0
  /\ retired' = retired \cup {eligible}
  /\ eligible' = 0
  /\ UNCHANGED <<submitted, begun>>

Next == Submit \/ Begin \/ End

Spec == Init /\ [][Next]_vars
=============================================================================
