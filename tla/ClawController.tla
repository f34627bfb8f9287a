--------------------------- MODULE ClawController ---------------------------
(***************************************************************************)
(* agent/common/claw_controller/controller.py and config.py: the facade    *)
(* chooses a backend when the service starts and hands every command to    *)
(* it.  The serial backend is SerialLink; the sim backend is SerialLink    *)
(* with _sim set.  The facade has no state of its own between the result   *)
(* of a command and the cached state it returns with it.                   *)
(*                                                                         *)
(* The service starts it once, lets tools call it under their lock, and    *)
(* when it stops cancels what still runs (drain) before it stops the       *)
(* facade.                                                                 *)
(***************************************************************************)
EXTENDS SerialLink

CONSTANTS Devices,  \* the serial devices that may be plugged in
          None      \* no device

VARIABLES
  mode,         \* config.mode: auto, sim or serial, "spent" from when the port
                \* opens, since nothing reads it after that
  serial_port,  \* config.serial_port, None for ""
  phase,        \* off, opening, up, failed or stopped
  active,       \* _active_backend: none, sim or serial
  start_error   \* set_start_error was called (the next result overwrites it)

facade == <<mode, serial_port, phase, active, start_error>>
vars == <<linkVars, facade>>

\* _discover_serial_port over the plugged devices, each [usb, passes, arduino]:
\* it has a USB name, it passes the filters of the environment, it says Arduino.
Discover(plugged) ==
  LET candidates == {d \in plugged : d.usb /\ d.passes}
      arduinos == {d \in candidates : d.arduino}
      chosen == IF Cardinality(arduinos) = 1 THEN arduinos ELSE candidates
  IN  IF Cardinality(chosen) = 1 THEN CHOOSE d \in chosen : TRUE ELSE None

\* _serial_port_from_env: a named port is taken as it is.
SerialPort(named, plugged) == IF named # None THEN named ELSE Discover(plugged)

\* from_env: any other mode is auto.
Init ==
  /\ LinkInit
  /\ mode \in {"auto", "sim", "serial"}
  /\ serial_port \in {SerialPort(named, plugged) :
                        named \in Devices \cup {None}, plugged \in SUBSET Devices}
  /\ phase = "off" /\ active = "none" /\ start_error = FALSE

-----------------------------------------------------------------------------
\* start()

Simulate ==
  /\ active' = "sim" /\ phase' = "up"
  /\ sim' = TRUE
  /\ UNCHANGED <<port, reading, ready>>

StartSim ==
  /\ phase = "off" /\ mode = "sim"
  /\ Simulate
  /\ UNCHANGED <<sends, scheduled, latch, cached, line, machine, tasks, mode,
                 serial_port, start_error>>

\* The port opens, which resets the board, and the reader thread starts.
StartOpens ==
  /\ phase = "off" /\ mode # "sim" /\ serial_port # None
  /\ phase' = "opening"
  /\ port' = "open" /\ reading' = TRUE /\ booting' = TRUE
  /\ mode' = "spent"
  /\ UNCHANGED <<sends, scheduled, latch, cached, sim, ready, line, running,
                 work, moved, tasks, serial_port, active, start_error>>

\* Faulty variant: that the transport fell back to simulation goes unnoticed.
StartFailsUnnoticed ==
  /\ phase = "off" /\ mode # "sim"
  /\ active' = "serial" /\ phase' = "up" /\ sim' = TRUE
  /\ UNCHANGED <<start_error, port, reading, ready>>
  /\ UNCHANGED <<sends, scheduled, latch, cached, line, machine, tasks, mode,
                 serial_port>>

\* No device, or it does not open: the transport falls back to simulation, and
\* the serial backend therefore closes it and raises.  In auto mode the sim
\* backend takes over; in serial mode start() raises and the agent ends.
StartFails ==
  /\ phase = "off" /\ mode # "sim"
  /\ IF mode = "auto"
       THEN Simulate /\ start_error' = TRUE
       ELSE /\ phase' = "failed" /\ active' = "serial"
            /\ UNCHANGED <<start_error, threads>>
  /\ UNCHANGED <<sends, scheduled, latch, cached, line, machine, tasks, mode,
                 serial_port>>

\* READY was seen, or five seconds are over.
StartEnds ==
  /\ phase = "opening"
  /\ phase' = "up" /\ active' = "serial"
  /\ UNCHANGED <<linkVars, mode, serial_port, start_error>>

-----------------------------------------------------------------------------
\* The service at work: the tools' calls and the poller, which starts after READY

AtWork == phase = "up" /\ (Tools \/ Poll) /\ UNCHANGED facade

\* Those who await _send when the service stops: the execution drain() cancels
\* after its wait, and the poller.
Waiting == {i \in {IF refresh # 0 THEN refresh ELSE tool, poll} \ {0} :
              call[i] # "returned"}

\* stop() of the service: drain(), then close() of the backend, which cancels the
\* poller, joins the reader thread and closes the port.  What has not been read
\* is lost; the futures are left as they are.
Stop ==
  /\ phase = "up"
  /\ phase' = "stopped" /\ active' = "none"
  /\ CallsCancelled(Waiting)
  /\ tool' = 0 /\ refresh' = 0
  /\ reading' = FALSE /\ port' = "closed"
  /\ rx' = <<>>
  /\ lost' = lost \cup {rx[n].id : n \in 1..Len(rx)}
  /\ UNCHANGED <<nextId, kind, pending, scheduled, latch, cached, sim, ready,
                 writers, wire, machine, poll, mode, serial_port, start_error>>

Environment ==
  /\ \/ Loop \/ _handle_line \/ Machine \/ Unplugged
     \/ \E i \in Ids : Send(i)
  /\ UNCHANGED facade

Settled ==
  /\ phase \in {"failed", "stopped"}
  /\ writers = {} /\ wire = <<>> /\ scheduled = {} /\ running = 0 /\ ~booting
  /\ UNCHANGED vars

Next ==
  \/ StartSim \/ StartOpens \/ StartFails \/ StartEnds
  \/ AtWork \/ Environment
  \/ Stop \/ Settled

Spec == Init /\ [][Next]_vars

\* Timers fire, the loop runs, and a worker thread ends its write and its flush,
\* with an exception at worst.  The code does not see to the last: the port is
\* opened with no write_timeout (legacy_controller.py:213-221), and a driver
\* that blocks is outside the model.  The machine and the cable owe nothing.
Fairness ==
  /\ \A i \in Ids : WF_vars(Send(i) /\ UNCHANGED facade)
  /\ WF_vars(Loop /\ UNCHANGED facade)

FairSpec == Spec /\ Fairness

-----------------------------------------------------------------------------
\* Types, and those of the link.
TypeOK ==
  /\ LinkTypeOK
  /\ mode \in {"auto", "sim", "serial", "spent"}
  /\ serial_port \in Devices \cup {None}
  /\ phase \in {"off", "opening", "up", "failed", "stopped"}
  /\ active \in {"none", "sim", "serial"}
  /\ start_error \in BOOLEAN

\* Commands that do something, as CommandChannel sees them.
Said(i) ==
  IF kind[i] = "STATE?" THEN "none"
  ELSE CASE told[i] = "none" -> "none"
         [] told[i] \in {"OK", "SIM"} -> "ok"
         [] told[i] \in {"TIMEOUT", "CANCELLED", "ERR", "RAISED"} -> "unknown"
         [] OTHER -> "failed"

Channel == INSTANCE CommandChannel
  WITH Commands <- Ids,
       work <- [i \in Ids |-> IF kind[i] = "STATE?" THEN "none" ELSE work[i]],
       said <- [i \in Ids |-> Said(i)]

\* What a tool is told about its command is what the machine did: a success is
\* the end of that very command, and a failure the machine reported, or halt()
\* in its place, is final, whatever the threads and late answers do.  A caller
\* who gave up, or who got an exception of the port, has been told nothing of
\* the machine: after a flush that failed the command may be running.
TruthfulResults == Channel!Spec

\* "guard against new motion until the operator resets" (legacy_controller.py,
\* ClawState.emergency_stopped): once the machine has served the HALT of the
\* current e-stop, no motion begins, whichever thread writes last.
HaltSticks ==
  [][\A h \in Ids :
       /\ emergency_stopped /\ kind[h] = "HALT" /\ h > resetAt
       /\ work[h] = "done"
       => running' \in {0, running}]_vars

\* The machine refuses a command as BUSY only if a caller before it gave up on a
\* motion: the lock of the tools and the answers of the machine do the rest.
BusyOnlyAfterGivingUp ==
  \A i \in Ids : told[i] = "BUSY" =>
    \E j \in 1..(i - 1) : kind[j] \in Motions /\ told[j] \in {"TIMEOUT", "CANCELLED"}

\* home_z: "Refresh state so the UI reflects the new homed status quickly"
\* (legacy_controller.py:740): after it has returned a success the cached state
\* is no older than the homing, unless a query went unanswered.
HomedShown ==
  phase = "up" =>
  \A z \in Ids : kind[z] = "ZHOME" /\ told[z] = "OK" /\ tool # z =>
    \/ cached >= z
    \/ \E q \in Ids : q > z /\ kind[q] = "STATE?"
                       /\ told[q] \in {"TIMEOUT", "CANCELLED", "ERR", "RAISED"}

\* No future is left behind while the service works: what stays in _pending when
\* nothing is on its way belongs to a command whose line or answer was lost, and
\* whose caller was answered by halt() or got the exception of a flush that
\* _send does not catch.
BooksEmpty ==
  /\ phase = "up"
  /\ writers = {} /\ wire = <<>> /\ rx = <<>> /\ running = 0 /\ ~booting
  => \A i \in pending :
       call[i] = "returned" => i \in lost /\ told[i] \in {"HALTED", "RAISED"}

\* A command is answered by a simulation only where the configuration allows it:
\* in serial mode never, in auto mode only after a start error was reported.
NoSilentSimulation ==
  (\E i \in Ids : told[i] = "SIM") =>
    active # "serial" /\ (mode = "sim" \/ (mode = "auto" /\ start_error))

\* Every command that a tool issues comes to an end, even when the machine never
\* answers: on a pulled cable, in the boot loader, after a stop.  The driver is
\* taken to end each write and flush (see Fairness).
ToolsReturn == tool # 0 ~> tool = 0
=============================================================================
