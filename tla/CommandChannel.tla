--------------------------- MODULE CommandChannel ---------------------------
(***************************************************************************)
(* What the tools rely on when they send commands to the machine           *)
(* (agent/common/claw_controller): the machine does one thing at a time,   *)
(* and what a caller is told about a command is true.  "unknown" covers    *)
(* the callers that gave up, or to whom the port raised an exception:      *)
(* their command may still be carried out.                                 *)
(***************************************************************************)
EXTENDS Naturals

CONSTANT Commands

VARIABLES work,   \* per command, what the machine did with it
          said    \* per command, what its caller was told

Works == {"none", "running", "done", "stopped"}
Answers == {"none", "ok", "failed", "unknown"}

Init ==
  /\ work = [c \in Commands |-> "none"]
  /\ said = [c \in Commands |-> "none"]

\* A command is begun once, and never after its caller has heard the end of it.
Works1(c) ==
  \/ work'[c] = work[c]
  \/ /\ work[c] = "none" /\ work'[c] \in {"running", "done"}
     /\ said[c] \in {"none", "unknown"}
  \/ work[c] = "running" /\ work'[c] \in {"done", "stopped"}

\* A caller is told once: success when the machine is done, failure when it
\* has not begun or has stopped.
Tells1(c) ==
  \/ said'[c] = said[c]
  \/ /\ said[c] = "none"
     /\ \/ said'[c] = "ok" /\ work'[c] = "done"
        \/ said'[c] = "failed" /\ work'[c] \in {"none", "stopped"}
        \/ said'[c] = "unknown"

Step ==
  /\ work' \in [Commands -> Works]
  /\ said' \in [Commands -> Answers]
  /\ \A c \in Commands : Works1(c) /\ Tells1(c)
  /\ \A c, d \in Commands :
       work'[c] = "running" /\ work'[d] = "running" => c = d

Spec == Init /\ [][Step]_<<work, said>>
=============================================================================
