----------------------------- MODULE SerialLink ------------------------------
(***************************************************************************)
(* agent/common/claw_controller/legacy_controller.py: commands over the    *)
(* serial line, each answered through a future that the reader thread      *)
(* resolves, beside a task that polls the machine's state.                 *)
(*                                                                         *)
(* Three kinds of threads meet here: the event loop (one step from await   *)
(* to await), one worker thread per write (asyncio.to_thread), in any      *)
(* order, and the reader thread, which hands results to the loop by        *)
(* call_soon_threadsafe.  A timeout may fire whenever a caller waits: the  *)
(* line, the threads and a loop that is late have no bounds here, and      *)
(* raise_claw's 15 s are shorter than the 20 s a stuck homing takes.       *)
(*                                                                         *)
(* Not in the model: the values of positions and switches, and the ACK and *)
(* EVT lines, which only feed the log and the events of a result.  The     *)
(* machine is Firmware, seen from the line.                                *)
(***************************************************************************)
EXTENDS Integers, Sequences, FiniteSets

CONSTANT MaxIds   \* bound on the commands issued, refreshes of home_z apart

ASSUME MaxIdsAssumption == MaxIds \in Nat \ {0}

VARIABLES
  nextId,             \* _id_counter
  kind,               \* per command, its keyword
  call,               \* per command, where its _send is
  fut,                \* per command, its future: open, cancelled or a result
  told,               \* per command, what _send returned
  pending,            \* _pending
  scheduled,          \* results on their way from call_soon_threadsafe
  emergency_stopped,  \* the e-stop latch
  cached,             \* _state: the last motion the machine had made by then
  sim,                \* _sim
  port,               \* the serial port: closed, open, or broken (unplugged)
  reading,            \* the reader thread runs
  ready,              \* _ready_event
  writers,            \* commands whose worker thread has not written yet
  wire,               \* lines on the way to the machine
  rx,                 \* lines on the way back
  booting,            \* the board is in its boot loader
  running,            \* the machine's active command, 0 when it is idle
  work,               \* per command, what the machine did with it
  moved,              \* the last motion the machine completed
  lost,               \* commands of which a line was lost on the way
  tool,               \* the command issued under the tools' lock, 0 for none
  refresh,            \* the STATE? by which home_z refreshes the state, or 0
  poll,               \* the last STATE? of _state_poll_loop
  resetAt             \* nextId when the latch was last reset

sends == <<nextId, kind, call, fut, told, pending>>
latch == <<emergency_stopped, resetAt>>
threads == <<sim, port, reading, ready>>
line == <<writers, wire, rx, lost>>
machine == <<booting, running, work, moved>>
tasks == <<tool, refresh, poll>>
linkVars == <<sends, scheduled, latch, cached, threads, line, machine, tasks>>

\* MOVE stands for X, Y, Z, RAISE and HOME; SERVO for OPEN, CLOSE and S.
Motions == {"MOVE", "ZHOME"}
Kinds == Motions \cup {"SERVO", "HALT", "STATE?"}

\* The machine's final replies as _handle_line reads them: LIMIT is OK, STUCK
\* and HALTED are DONE lines that are not ok, BUSY is an ERR line.
Replies == {"OK", "STUCK", "HALTED", "BUSY"}
\* A caller may also be told so by the link: ERR for an exception of the port
\* that _send catches, RAISED for one that it does not.
Results == Replies \cup {"SIM", "ERR", "RAISED", "TIMEOUT", "CANCELLED"}

\* home_z at the bound may still refresh once.
Ids == 1..(MaxIds + 1)

LinkInit ==
  /\ nextId = 0
  /\ kind = [i \in Ids |-> "none"] /\ call = [i \in Ids |-> "none"]
  /\ fut = [i \in Ids |-> "none"] /\ told = [i \in Ids |-> "none"]
  /\ pending = {} /\ scheduled = {}
  /\ emergency_stopped = FALSE /\ resetAt = 0
  /\ cached = 0
  /\ sim = FALSE /\ port = "closed" /\ reading = FALSE /\ ready = FALSE
  /\ writers = {} /\ wire = <<>> /\ rx = <<>> /\ lost = {}
  /\ booting = FALSE /\ running = 0 /\ moved = 0
  /\ work = [i \in Ids |-> "none"]
  /\ tool = 0 /\ refresh = 0 /\ poll = 0

-----------------------------------------------------------------------------
\* _send, on the event loop

id == nextId + 1

\* The future is registered before the worker thread is asked to write.
SendBegins(k) ==
  /\ nextId' = id
  /\ kind' = [kind EXCEPT ![id] = k]
  /\ call' = [call EXCEPT ![id] = "writing"]
  /\ fut' = [fut EXCEPT ![id] = "open"]
  /\ pending' = pending \cup {id}
  /\ writers' = writers \cup {id}
  /\ UNCHANGED <<told, threads, wire, rx, lost, machine, cached>>

\* _sim_send: done at once, and the cached state is all the machine there is.
SimSend(k) ==
  /\ nextId' = id
  /\ kind' = [kind EXCEPT ![id] = k]
  /\ call' = [call EXCEPT ![id] = "returned"]
  /\ told' = [told EXCEPT ![id] = "SIM"]
  /\ work' = [work EXCEPT ![id] = "done"]
  /\ moved' = IF k \in Motions THEN id ELSE moved
  /\ cached' = moved'
  /\ UNCHANGED <<fut, pending, threads, line, booting, running>>

\* Faulty variant: tools do not wait for each other.
IssueUnlocked(k) ==
  /\ nextId < MaxIds
  /\ IF sim THEN SimSend(k) /\ UNCHANGED tool
            ELSE SendBegins(k) /\ tool' = id
  /\ UNCHANGED <<refresh, poll>>

\* A command of the tools: their lock admits one at a time (HardwareTools).
Issue(k) ==
  /\ tool = 0
  /\ nextId < MaxIds
  /\ IF sim THEN SimSend(k) /\ UNCHANGED tool
            ELSE SendBegins(k) /\ tool' = id
  /\ UNCHANGED <<refresh, poll>>

\* While the latch is set a motion is refused without a line, and nothing
\* changes.
Guarded(k) ==
  /\ ~emergency_stopped
  /\ Issue(k)
  /\ UNCHANGED <<latch, scheduled>>

move_axis == Guarded("MOVE")
lower_claw == move_axis
raise_claw == Guarded("MOVE")
home == Guarded("MOVE")
open_claw == Guarded("SERVO")
close_claw == Guarded("SERVO")
home_z == Guarded("ZHOME")

\* Faulty variant: the emergency stop does not wait for the tools' lock.
haltUnlocked ==
  /\ IssueUnlocked("HALT")
  /\ emergency_stopped' = TRUE
  /\ scheduled' = scheduled \cup
                    {<<i, "HALTED">> : i \in {j \in pending : fut[j] = "open"}}
  /\ UNCHANGED resetAt

\* The latch is set first.  Whoever waits gets a result of his own, but his
\* entry stays in _pending.
halt ==
  /\ Issue("HALT")
  /\ emergency_stopped' = TRUE
  /\ scheduled' = scheduled \cup
                    {<<i, "HALTED">> : i \in {j \in pending : fut[j] = "open"}}
  /\ UNCHANGED resetAt

reset_emergency ==
  /\ tool = 0
  /\ emergency_stopped
  /\ emergency_stopped' = FALSE
  /\ resetAt' = nextId
  /\ UNCHANGED <<sends, scheduled, cached, threads, line, machine, tasks>>

\* _state_poll_loop sends one query after the other.
Poll ==
  /\ reading /\ ~sim
  /\ poll # 0 => call[poll] = "returned"
  /\ nextId < MaxIds
  /\ SendBegins("STATE?")
  /\ poll' = id
  /\ UNCHANGED <<scheduled, latch, tool, refresh>>

\* home_z refreshes the cached state before it returns a success.
HomeZRefreshes ==
  /\ tool # 0 /\ refresh = 0
  /\ kind[tool] = "ZHOME" /\ told[tool] = "OK"
  /\ SendBegins("STATE?")
  /\ refresh' = id
  /\ UNCHANGED <<scheduled, latch, tool, poll>>

\* Faulty variant: home_z returns without a refresh.
ToolReturnsEarly ==
  /\ tool # 0
  /\ call[tool] = "returned"
  /\ tool' = 0 /\ refresh' = 0
  /\ UNCHANGED <<sends, scheduled, latch, cached, threads, line, machine, poll>>

\* The command under the lock is over.
ToolReturns ==
  /\ tool # 0
  /\ call[tool] = "returned"
  /\ \/ refresh # 0 /\ call[refresh] = "returned"
     \/ kind[tool] # "ZHOME" \/ told[tool] # "OK"
  /\ tool' = 0 /\ refresh' = 0
  /\ UNCHANGED <<sends, scheduled, latch, cached, threads, line, machine, poll>>

-----------------------------------------------------------------------------
\* The worker threads, and what _send does after them

\* write() hands the line to the cable.  The thread still has to flush.
WriteLine(i) ==
  /\ i \in writers /\ port = "open"
  /\ writers' = writers \ {i}
  /\ wire' = Append(wire, i)
  /\ UNCHANGED <<sends, scheduled, latch, cached, threads, rx, lost, machine,
                 tasks>>

\* The port is broken or closed: write() raises, and a caller who is still
\* there gets the error.
WriteFails(i) ==
  /\ i \in writers /\ port # "open"
  /\ writers' = writers \ {i}
  /\ IF call[i] = "writing"
       THEN /\ call' = [call EXCEPT ![i] = "returned"]
            /\ told' = [told EXCEPT ![i] = "ERR"]
            /\ pending' = pending \ {i}
       ELSE UNCHANGED <<call, told, pending>>
  /\ UNCHANGED <<nextId, kind, fut, scheduled, latch, cached, threads, wire, rx,
                 lost, machine, tasks>>

\* Faulty variant: the caller waits for a result that has already come.
WrittenWaits(i) ==
  /\ call' = [call EXCEPT ![i] = "waiting"]
  /\ UNCHANGED told

\* to_thread is over; wait_for finds a future that is already resolved, or waits.
Written(i) ==
  IF fut[i] \in Results
    THEN /\ call' = [call EXCEPT ![i] = "returned"]
         /\ told' = [told EXCEPT ![i] = fut[i]]
    ELSE /\ call' = [call EXCEPT ![i] = "waiting"]
         /\ UNCHANGED told

\* The thread has written and flushes; nobody waits for it if the caller has
\* been cancelled.  (That the next thread writes after this flush, by the write
\* lock, is left out: more orders than the code has.)
Flushing(i) == call[i] = "writing" /\ i \notin writers

FlushEnds(i) ==
  /\ Flushing(i)
  /\ Written(i)
  /\ UNCHANGED <<nextId, kind, fut, pending, scheduled, latch, cached, threads,
                 line, machine, tasks>>

\* The port has gone since the line was written, and the machine may be at work
\* on it.  flush() raises: an error of SERIAL_EXCEPTIONS, or, on POSIX, a
\* termios.error, which is not one of them and leaves the entry in _pending.
FlushFails(i) ==
  /\ Flushing(i) /\ port # "open"
  /\ call' = [call EXCEPT ![i] = "returned"]
  /\ \/ told' = [told EXCEPT ![i] = "ERR"] /\ pending' = pending \ {i}
     \/ told' = [told EXCEPT ![i] = "RAISED"] /\ UNCHANGED pending
  /\ UNCHANGED <<nextId, kind, fut, scheduled, latch, cached, threads, line,
                 machine, tasks>>

\* Faulty variant: the wait for the answer of a command has no timeout.
TimeoutQueriesOnly(i) ==
  /\ call[i] = "waiting" /\ kind[i] = "STATE?"
  /\ call' = [call EXCEPT ![i] = "returned"]
  /\ told' = [told EXCEPT ![i] = "TIMEOUT"]
  /\ fut' = [fut EXCEPT ![i] = "cancelled"]
  /\ pending' = pending \ {i}
  /\ UNCHANGED <<nextId, kind, scheduled, latch, cached, threads, line, machine,
                 tasks>>

\* wait_for gives up and cancels the future.
Timeout(i) ==
  /\ call[i] = "waiting"
  /\ call' = [call EXCEPT ![i] = "returned"]
  /\ told' = [told EXCEPT ![i] = "TIMEOUT"]
  /\ fut' = [fut EXCEPT ![i] = "cancelled"]
  /\ pending' = pending \ {i}
  /\ UNCHANGED <<nextId, kind, scheduled, latch, cached, threads, line, machine,
                 tasks>>

\* Those who await _send are cancelled: nothing is removed from _pending.
CallsCancelled(C) ==
  /\ call' = [i \in Ids |-> IF i \in C THEN "returned" ELSE call[i]]
  /\ told' = [i \in Ids |-> IF i \in C THEN "CANCELLED" ELSE told[i]]
  /\ fut' = [i \in Ids |-> IF i \in C /\ call[i] = "waiting" THEN "cancelled"
                                                        ELSE fut[i]]

\* The loop runs a set_result; on a future that is done it raises
\* InvalidStateError, which only the loop's log sees.
Resolves(i, r) ==
  /\ <<i, r>> \in scheduled
  /\ scheduled' = scheduled \ {<<i, r>>}
  /\ fut' = [fut EXCEPT ![i] = IF @ = "open" THEN r ELSE @]
  /\ IF fut[i] = "open" /\ call[i] = "waiting"
       THEN /\ call' = [call EXCEPT ![i] = "returned"]
            /\ told' = [told EXCEPT ![i] = r]
       ELSE UNCHANGED <<call, told>>
  /\ UNCHANGED <<nextId, kind, pending, latch, cached, threads, line, machine,
                 tasks>>

-----------------------------------------------------------------------------
\* The reader thread.  A line back is [id, r, at]: at is the last motion the
\* machine had completed when it wrote a STATE line, and READY has id 0.

\* Faulty variant: a result goes to the newest command, not to its own.
_resolve_newest(i, r) ==
  /\ pending' = pending \ {i}
  /\ scheduled' = IF i \in pending
                    THEN scheduled \cup
                           {<<j, r>> : j \in {k \in pending :
                                          \A l \in pending : l <= k}}
                    ELSE scheduled

\* Faulty variant: the entry stays in _pending.
_resolve_keeps(i, r) ==
  /\ UNCHANGED pending
  /\ scheduled' = IF i \in pending /\ fut[i] = "open"
                    THEN scheduled \cup {<<i, r>>} ELSE scheduled

\* The future is looked at here, in the thread, and set later, on the loop.
_resolve_future(i, r) ==
  /\ pending' = pending \ {i}
  /\ scheduled' = IF i \in pending /\ fut[i] = "open"
                    THEN scheduled \cup {<<i, r>>} ELSE scheduled

_handle_line ==
  /\ reading /\ rx # <<>>
  /\ rx' = Tail(rx)
  /\ ready' = (ready \/ Head(rx).id = 0)
  /\ cached' = IF Head(rx).at = -1 THEN cached ELSE Head(rx).at
  /\ _resolve_future(Head(rx).id, Head(rx).r)
  /\ UNCHANGED <<nextId, kind, call, fut, told, latch, sim, port, reading,
                 writers, wire, lost, machine, tasks>>

-----------------------------------------------------------------------------
\* The machine (Firmware) and the cable

\* What it says is lost when nobody has the port open.
Says(lines) ==
  IF port = "open"
    THEN rx' = rx \o lines /\ UNCHANGED lost
    ELSE /\ UNCHANGED rx
         /\ lost' = lost \cup {lines[n].id : n \in 1..Len(lines)}

Reply(i, r) == [id |-> i, r |-> r, at |-> -1]

Boots ==
  /\ booting
  /\ booting' = FALSE
  /\ Says(<<Reply(0, "OK")>>)
  /\ UNCHANGED <<sends, scheduled, latch, cached, threads, writers, wire,
                 running, work, moved, tasks>>

Takes(i) ==
  /\ wire # <<>> /\ i = Head(wire)
  /\ wire' = Tail(wire)
  /\ UNCHANGED <<sends, scheduled, latch, cached, threads, writers, booting,
                 tasks>>

\* The boot loader swallows what comes too early.
TakesNothing(i) ==
  /\ booting
  /\ Takes(i)
  /\ lost' = lost \cup {i}
  /\ UNCHANGED <<rx, running, work, moved>>

TakesQuery(i) ==
  /\ ~booting /\ kind[i] = "STATE?"
  /\ Takes(i)
  /\ Says(<<[id |-> i, r |-> "OK", at |-> moved]>>)
  /\ UNCHANGED <<running, work, moved>>

\* The motion underway is answered first, then the HALT.
TakesHalt(i) ==
  /\ ~booting /\ kind[i] = "HALT"
  /\ Takes(i)
  /\ running' = 0
  /\ work' = [j \in Ids |-> IF j = i THEN "done"
                            ELSE IF j = running THEN "stopped" ELSE work[j]]
  /\ Says(IF running = 0 THEN <<Reply(i, "OK")>>
                         ELSE <<Reply(running, "HALTED"), Reply(i, "OK")>>)
  /\ UNCHANGED moved

TakesBusy(i) ==
  /\ ~booting /\ kind[i] \in Motions \cup {"SERVO"} /\ running # 0
  /\ Takes(i)
  /\ Says(<<Reply(i, "BUSY")>>)
  /\ UNCHANGED <<running, work, moved>>

TakesServo(i) ==
  /\ ~booting /\ kind[i] = "SERVO" /\ running = 0
  /\ Takes(i)
  /\ work' = [work EXCEPT ![i] = "done"]
  /\ Says(<<Reply(i, "OK")>>)
  /\ UNCHANGED <<running, moved>>

TakesMotion(i) ==
  /\ ~booting /\ kind[i] \in Motions /\ running = 0
  /\ Takes(i)
  /\ running' = i
  /\ work' = [work EXCEPT ![i] = "running"]
  /\ UNCHANGED <<rx, lost, moved>>

Finishes ==
  /\ running # 0
  /\ running' = 0
  /\ \/ /\ work' = [work EXCEPT ![running] = "done"]
        /\ moved' = running
        /\ Says(<<Reply(running, "OK")>>)
     \/ /\ work' = [work EXCEPT ![running] = "stopped"]
        /\ Says(<<Reply(running, "STUCK")>>)
        /\ UNCHANGED moved
  /\ UNCHANGED <<sends, scheduled, latch, cached, threads, writers, wire,
                 booting, tasks>>

\* The cable is pulled.  Reads and writes raise from now on; the reader thread
\* logs and goes on, the machine too.
Unplugged ==
  /\ port = "open"
  /\ port' = "broken"
  /\ wire' = <<>> /\ rx' = <<>>
  /\ lost' = lost \cup {wire[n] : n \in 1..Len(wire)}
                  \cup {rx[n].id : n \in 1..Len(rx)}
  /\ UNCHANGED <<sends, scheduled, latch, cached, sim, reading, ready, writers,
                 machine, tasks>>

-----------------------------------------------------------------------------
Tools == \/ move_axis \/ lower_claw \/ raise_claw \/ home
         \/ open_claw \/ close_claw \/ home_z
         \/ halt \/ reset_emergency

Send(i) == \/ WriteLine(i) \/ WriteFails(i)
           \/ FlushEnds(i) \/ FlushFails(i) \/ Timeout(i)
Loop == \/ HomeZRefreshes \/ ToolReturns
        \/ \E i \in Ids, r \in Results : Resolves(i, r)
MachineTakes(i) ==
  \/ TakesNothing(i) \/ TakesQuery(i) \/ TakesHalt(i)
  \/ TakesBusy(i) \/ TakesServo(i) \/ TakesMotion(i)
Machine == Boots \/ Finishes \/ \E i \in Ids : MachineTakes(i)

\* Types; a caller that waits has an open future, and a motion underway is
\* recorded as such.
LinkTypeOK ==
  /\ nextId \in 0..(MaxIds + 1)
  /\ kind \in [Ids -> Kinds \cup {"none"}]
  /\ call \in [Ids -> {"none", "writing", "waiting", "returned"}]
  /\ fut \in [Ids -> Replies \cup {"none", "open", "cancelled"}]
  /\ told \in [Ids -> Results \cup {"none"}]
  /\ pending \subseteq 1..nextId
  /\ scheduled \subseteq (1..nextId) \X Replies
  /\ emergency_stopped \in BOOLEAN /\ resetAt \in 0..nextId
  /\ {cached, running, moved} \subseteq 0..nextId
  /\ {sim, reading, ready, booting} \subseteq BOOLEAN
  /\ port \in {"closed", "open", "broken"}
  /\ writers \subseteq 1..nextId
  /\ wire \in Seq(1..nextId)
  /\ rx \in Seq([id : 0..nextId, r : Replies, at : -1..nextId])
  /\ work \in [Ids -> {"none", "running", "done", "stopped"}]
  /\ lost \subseteq 0..nextId
  /\ {tool, refresh, poll} \subseteq 0..nextId
  /\ \A i \in Ids : call[i] = "waiting" => fut[i] = "open"
  /\ \A i \in Ids : work[i] = "running" <=> running = i
=============================================================================
