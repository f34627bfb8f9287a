------------------------ MODULE ClawControllerProofs ------------------------
(***************************************************************************)
(* The controller and its link, for any number of commands and any         *)
(* devices.                                                                *)
(*                                                                         *)
(* An emergency stop holds.  While the latch is set no motion is issued    *)
(* (Latched), so that the only danger is a motion issued before the HALT   *)
(* and written after it.  The tools' lock excludes that: a motion whose    *)
(* line is not written yet has the lock (Locked), so that no motion is     *)
(* older than a HALT and still unwritten (Overtaken), the wire keeps the   *)
(* order (Ordered), and behind a HALT that is done no older motion is left *)
(* (Swept).                                                                *)
(*                                                                         *)
(* It implements CommandChannel.  What is said of a command is right       *)
(* wherever it is said, in a line on its way back, in a result on its way  *)
(* to the loop, in a future, to the caller (Reported), because the machine *)
(* takes each line once (Once), and because halt() answers for the machine *)
(* only the queries of the poller: whoever else waits has the tools' lock  *)
(* (Held).                                                                 *)
(*                                                                         *)
(* The machine refuses a command as BUSY only if a caller before it gave   *)
(* up on a motion.  Only the command that has the tools' lock awaits its   *)
(* answer (Own), and it is the newest (Newest): when the machine takes it  *)
(* while a motion is underway, the caller of that motion has returned      *)
(* without an answer, by a timeout or a cancellation; an exception it gets *)
(* only from a port that is gone (Severed), and then BUSY is heard of no   *)
(* more.                                                                   *)
(*                                                                         *)
(* Nothing is left in _pending but the entries of callers whom halt()      *)
(* answered, or to whom a flush raised what _send does not catch, and of   *)
(* which a line was lost: the line of whatever is pending is on its way,   *)
(* underway or lost (Accounted).                                           *)
(*                                                                         *)
(* The cached state shows a homing that home_z reported.  Motions reach    *)
(* the machine and end in the order of their ids (Row), the states it      *)
(* tells come back in that order (Views), and the query by which home_z    *)
(* refreshes is answered by one that shows the homing (Homing).            *)
(***************************************************************************)
EXTENDS ClawController, FiniteSetTheorems, TLAPS

Places == {"none", "writing", "waiting", "returned"}

\* The types the argument needs; the bound on the ids holds because home_z
\* refreshes once.
Types ==
  /\ nextId \in 0..(MaxIds + 1)
  /\ nextId = MaxIds + 1 => tool = 0 \/ refresh # 0
  /\ kind \in [Ids -> Kinds \cup {"none"}]
  /\ call \in [Ids -> Places]
  /\ work \in [Ids -> {"none", "running", "done", "stopped"}]
  /\ emergency_stopped \in BOOLEAN /\ sim \in BOOLEAN
  /\ resetAt \in Nat
  /\ writers \subseteq Ids
  /\ wire \in Seq(Ids)

\* Nothing is known of a command before it is issued.
Fresh ==
  /\ \A i \in Ids : i > nextId => kind[i] = "none" /\ work[i] = "none"
  /\ \A i \in writers : i <= nextId
  /\ \A n \in 1..Len(wire) : wire[n] <= nextId
  /\ running # 0 => running \in Ids /\ kind[running] \in Motions

\* No line before the service is at work, and none in a simulation; the lock is
\* taken only while the service is at work.
Quiet ==
  /\ sim \/ phase \in {"off", "opening"} => writers = {} /\ wire = <<>>
  /\ sim \/ phase # "up" => tool = 0

\* A HALT since the last reset means that the latch is set, and then it is newer
\* than every motion.
Latched ==
  \A h \in Ids : kind[h] = "HALT" /\ h > resetAt =>
    emergency_stopped /\ \A m \in Ids : kind[m] \in Motions => m < h

\* Whose line is not written has not returned; a motion among them has the lock.
Locked ==
  phase = "up" =>
    \A i \in writers : call[i] = "writing" /\ (kind[i] \in Motions => tool = i)

Overtaken ==
  \A h \in Ids : kind[h] = "HALT" =>
    \A m \in writers : kind[m] \in Motions => h < m

Ordered ==
  \A a, b \in 1..Len(wire) :
    /\ a < b
    /\ kind[wire[a]] = "HALT" /\ kind[wire[b]] \in Motions
    => wire[a] < wire[b]

Swept ==
  \A h \in Ids : kind[h] = "HALT" /\ work[h] = "done" =>
    \A n \in 1..Len(wire) : kind[wire[n]] \in Motions => h < wire[n]

IInv ==
  Types /\ Fresh /\ Quiet /\ Latched /\ Locked /\ Overtaken /\ Ordered /\ Swept

USE MaxIdsAssumption DEF Ids, Motions, Kinds, Places

\* The initial state satisfies the inductive invariant.
LEMMA InitIInv == Init => IInv
PROOF
<1> SUFFICES ASSUME Init PROVE IInv
  OBVIOUS
<1>1. /\ nextId = 0 /\ tool = 0 /\ resetAt = 0 /\ running = 0
      /\ kind = [i \in Ids |-> "none"] /\ call = [i \in Ids |-> "none"]
      /\ work = [i \in Ids |-> "none"]
      /\ emergency_stopped = FALSE /\ sim = FALSE
      /\ writers = {} /\ wire = <<>>
  BY DEF Init, LinkInit
<1>2. Types
  <2>1. 0 \in 0..(MaxIds + 1) /\ 0 # MaxIds + 1 /\ 0 \in Nat
    OBVIOUS
  <2>2. /\ kind \in [Ids -> Kinds \cup {"none"}]
        /\ call \in [Ids -> Places]
        /\ work \in [Ids -> {"none", "running", "done", "stopped"}]
    BY <1>1
  <2>3. writers \subseteq Ids /\ wire \in Seq(Ids)
    BY <1>1
  <2> QED BY <1>1, <2>1, <2>2, <2>3 DEF Types
<1>3. Fresh /\ Quiet
  BY <1>1 DEF Fresh, Quiet
<1>4. Latched /\ Locked /\ Overtaken /\ Ordered /\ Swept
  BY <1>1 DEF Latched, Locked, Overtaken, Ordered, Swept
<1> QED BY <1>2, <1>3, <1>4 DEF IInv

relevant == <<nextId, kind, call, work, emergency_stopped, sim, resetAt, writers,
              wire, running, tool, refresh, phase>>

\* A step that touches none of these variables preserves the invariant.
LEMMA IrrelevantIInv ==
  ASSUME IInv, UNCHANGED relevant
  PROVE  IInv'
BY DEF relevant, IInv, Types, Fresh, Quiet, Latched, Locked, Overtaken, Ordered,
       Swept

\* A command goes to the worker threads: a query at any time, anything else under
\* the tools' lock, and a motion only while the latch is not set.
LEMMA SendBeginsIInv ==
  ASSUME IInv, NEW k \in Kinds, SendBegins(k),
         nextId <= MaxIds, ~sim, phase = "up", phase' = phase,
         running' = running, resetAt' = resetAt,
         k = "HALT" => emergency_stopped',
         k # "HALT" => emergency_stopped' = emergency_stopped,
         k \in Motions => ~emergency_stopped,
         k # "STATE?" => tool = 0 /\ tool' = id /\ nextId < MaxIds,
         k = "STATE?" => tool' = tool,
         k = "STATE?" => refresh' # 0 \/ (refresh' = refresh /\ nextId < MaxIds),
         emergency_stopped' \in BOOLEAN
  PROVE  IInv'
PROOF
<1>1. id \in Ids /\ id = nextId + 1 /\ kind[id] = "none" /\ work[id] = "none"
      /\ nextId \in Nat /\ MaxIds \in Nat
  BY DEF IInv, Types, Fresh, id
<1>2. /\ nextId' = id /\ writers' = writers \cup {id}
      /\ kind' = [kind EXCEPT ![id] = k]
      /\ call' = [call EXCEPT ![id] = "writing"]
      /\ UNCHANGED <<sim, wire, work, running>>
  BY DEF SendBegins, threads, machine
<1>3. /\ kind'[id] = k /\ call'[id] = "writing"
      /\ \A i \in Ids : i # id => kind'[i] = kind[i] /\ call'[i] = call[i]
  BY <1>1, <1>2 DEF IInv, Types
<1>4. Types'
  BY <1>1, <1>2 DEF IInv, Types
<1>5. Fresh'
  BY <1>1, <1>2, <1>3 DEF IInv, Types, Fresh
<1>6. Quiet'
  BY <1>2 DEF Quiet
<1>7. Latched'
  BY <1>1, <1>2, <1>3 DEF IInv, Types, Fresh, Latched
<1>8. Locked'
  BY <1>1, <1>2, <1>3 DEF IInv, Types, Fresh, Locked
<1>9. Overtaken'
  BY <1>1, <1>2, <1>3 DEF IInv, Types, Fresh, Locked, Overtaken
<1>10. \A n \in 1..Len(wire) : wire[n] \in Ids /\ wire[n] # id
  BY <1>1 DEF IInv, Types, Fresh
<1>11. Ordered'
  BY <1>2, <1>3, <1>10 DEF IInv, Ordered
<1>12. Swept'
  BY <1>1, <1>2, <1>3, <1>10 DEF IInv, Types, Swept
<1> QED BY <1>4, <1>5, <1>6, <1>7, <1>8, <1>9, <1>11, <1>12 DEF IInv

\* A simulated command is done at once; the wire is empty then.
LEMMA SimSendIInv ==
  ASSUME IInv, NEW k \in Kinds, SimSend(k),
         nextId < MaxIds, sim, phase' = phase,
         resetAt' = resetAt, refresh' = refresh, tool' = tool,
         k = "HALT" => emergency_stopped',
         k # "HALT" => emergency_stopped' = emergency_stopped,
         k \in Motions => ~emergency_stopped,
         emergency_stopped' \in BOOLEAN
  PROVE  IInv'
PROOF
<1>1. id \in Ids /\ id = nextId + 1 /\ kind[id] = "none"
      /\ nextId \in Nat /\ MaxIds \in Nat
  BY DEF IInv, Types, Fresh, id
<1>2. /\ nextId' = id
      /\ kind' = [kind EXCEPT ![id] = k]
      /\ call' = [call EXCEPT ![id] = "returned"]
      /\ work' = [work EXCEPT ![id] = "done"]
      /\ UNCHANGED <<sim, writers, wire, running>>
  BY DEF SimSend, threads, line
<1>3. /\ kind'[id] = k
      /\ \A i \in Ids : i # id => kind'[i] = kind[i] /\ work'[i] = work[i]
  BY <1>1, <1>2 DEF IInv, Types
<1>4. writers = {} /\ wire = <<>> /\ tool = 0
  BY DEF IInv, Quiet
<1>5. Types'
  BY <1>1, <1>2, <1>4 DEF IInv, Types
<1>6. Fresh'
  BY <1>1, <1>2, <1>3, <1>4 DEF IInv, Types, Fresh
<1>7. Latched'
  BY <1>1, <1>2, <1>3 DEF IInv, Types, Fresh, Latched
<1>8. Quiet' /\ Locked' /\ Overtaken' /\ Ordered' /\ Swept'
  BY <1>2, <1>4 DEF Quiet, Locked, Overtaken, Ordered, Swept
<1> QED BY <1>5, <1>6, <1>7, <1>8 DEF IInv

\* The tools' commands.
LEMMA IssueIInv ==
  ASSUME IInv, NEW k \in Kinds \ {"STATE?"}, Issue(k),
         phase = "up", phase' = phase, resetAt' = resetAt,
         k = "HALT" => emergency_stopped',
         k # "HALT" => emergency_stopped' = emergency_stopped,
         k \in Motions => ~emergency_stopped,
         emergency_stopped' \in BOOLEAN
  PROVE  IInv'
PROOF
<1>0. nextId \in Nat /\ MaxIds \in Nat /\ nextId < MaxIds /\ tool = 0 /\ refresh' = refresh
  BY DEF Issue, IInv, Types
<1>1. CASE sim
  BY <1>0, <1>1, SimSendIInv DEF Issue
<1>2. CASE ~sim
  <2>1. SendBegins(k) /\ tool' = id /\ running' = running
    BY <1>2 DEF Issue, SendBegins, machine
  <2> QED BY <1>0, <1>2, <2>1, SendBeginsIInv
<1> QED BY <1>1, <1>2

-----------------------------------------------------------------------------
\* A caller whose line has been written waits for the answer, or returns.
LEMMA ReturnIInv ==
  ASSUME IInv, NEW i \in Ids, call[i] = "waiting" \/ i \notin writers,
         call' = [call EXCEPT ![i] = "waiting"] \/ call' = [call EXCEPT ![i] = "returned"],
         UNCHANGED <<nextId, kind, work, emergency_stopped, sim, resetAt, writers,
                     wire, running, tool, refresh, phase>>
  PROVE  IInv'
PROOF
<1>1. Types' /\ Locked'
  BY DEF IInv, Types, Locked
<1>2. Fresh' /\ Quiet' /\ Latched' /\ Overtaken' /\ Ordered' /\ Swept'
  BY DEF IInv, Fresh, Quiet, Latched, Overtaken, Ordered, Swept
<1> QED BY <1>1, <1>2 DEF IInv

\* A worker thread writes: by Overtaken no HALT on the wire, or done, is newer
\* than a motion that joins the wire.
LEMMA WriteLineIInv ==
  ASSUME IInv, NEW i \in Ids, WriteLine(i), phase' = phase
  PROVE  IInv'
PROOF
<1>1. /\ i \in writers /\ writers' = writers \ {i}
      /\ wire' = Append(wire, i) /\ wire \in Seq(Ids)
      /\ UNCHANGED <<nextId, kind, work, emergency_stopped, sim, resetAt, running,
                     tool, refresh>>
  BY DEF WriteLine, sends, threads, machine, tasks, latch, IInv, Types
<1>2. /\ wire' \in Seq(Ids) /\ Len(wire') = Len(wire) + 1 /\ Len(wire) \in Nat
      /\ wire'[Len(wire) + 1] = i
      /\ \A n \in 1..Len(wire) : wire'[n] = wire[n] /\ wire[n] \in Ids
  BY <1>1
<1>3. call' = call
  BY DEF WriteLine, sends
<1>4. /\ i <= nextId
      /\ \A h \in Ids : kind[h] = "HALT" /\ kind[i] \in Motions => h < i
      /\ ~sim /\ phase \notin {"off", "opening"}
  BY <1>1 DEF IInv, Fresh, Overtaken, Quiet
<1>5. Types'
  BY <1>1, <1>2, <1>3 DEF IInv, Types
<1>6. Fresh'
  BY <1>1, <1>2, <1>4 DEF IInv, Types, Fresh
<1>7. Quiet' /\ Latched'
  BY <1>1, <1>4 DEF IInv, Quiet, Latched
<1>8. Locked' /\ Overtaken'
  BY <1>1, <1>3 DEF IInv, Types, Locked, Overtaken
<1>9. Ordered'
  <2> SUFFICES ASSUME NEW a \in 1..Len(wire'), NEW b \in 1..Len(wire'), a < b,
                      kind[wire'[a]] = "HALT", kind[wire'[b]] \in Motions
               PROVE  wire'[a] < wire'[b]
    BY <1>1 DEF Ordered
  <2>1. a \in 1..Len(wire) /\ wire'[a] = wire[a] /\ wire[a] \in Ids
    BY <1>2
  <2>2. CASE b = Len(wire) + 1
    BY <1>2, <1>4, <2>1, <2>2
  <2>3. CASE b \in 1..Len(wire)
    BY <1>2, <2>1, <2>3 DEF IInv, Ordered
  <2>4. b = Len(wire) + 1 \/ b \in 1..Len(wire)
    <3>1. Len(wire) \in Nat /\ b \in 1..(Len(wire) + 1)
      BY <1>2
    <3> QED BY <3>1
  <2> QED BY <2>2, <2>3, <2>4
<1>10. Swept'
  BY <1>1, <1>2, <1>4 DEF IInv, Swept
<1> QED BY <1>5, <1>6, <1>7, <1>8, <1>9, <1>10 DEF IInv

\* The write raises.
LEMMA WriteFailsIInv ==
  ASSUME IInv, NEW i \in Ids, WriteFails(i), phase' = phase
  PROVE  IInv'
PROOF
<1>1. /\ i \in writers /\ writers' = writers \ {i}
      /\ UNCHANGED <<nextId, kind, work, wire, emergency_stopped, sim, resetAt,
                     running, tool, refresh>>
  BY DEF WriteFails, threads, machine, tasks, latch
<1>2. call' \in [Ids -> Places]
      /\ \A j \in Ids : j # i => call'[j] = call[j]
  BY DEF WriteFails, IInv, Types
<1>3. Types'
  BY <1>1, <1>2 DEF IInv, Types
<1>4. Fresh' /\ Quiet' /\ Latched' /\ Overtaken' /\ Ordered' /\ Swept'
  BY <1>1 DEF IInv, Fresh, Quiet, Latched, Overtaken, Ordered, Swept
<1>5. Locked'
  BY <1>1, <1>2 DEF IInv, Types, Locked
<1> QED BY <1>3, <1>4, <1>5 DEF IInv

-----------------------------------------------------------------------------
\* The machine takes the line at the head of the wire.  Of HALTs it completes only
\* that one, and by Ordered no older motion is behind it.
LEMMA TakenIInv ==
  ASSUME IInv, wire # <<>>, wire' = Tail(wire), NEW i \in Ids, i = Head(wire),
         UNCHANGED <<nextId, kind, call, emergency_stopped, sim, resetAt, writers,
                     tool, refresh, phase>>,
         work' \in [Ids -> {"none", "running", "done", "stopped"}],
         \A j \in Ids : j > nextId => work'[j] = "none",
         \A j \in Ids : kind[j] = "HALT" /\ work'[j] = "done" =>
                          work[j] = "done" \/ j = i,
         running' # 0 => running' \in Ids /\ kind[running'] \in Motions
  PROVE  IInv'
PROOF
<1>1. wire \in Seq(Ids) /\ Len(wire) \in Nat /\ Len(wire) >= 1 /\ i = wire[1]
  BY DEF IInv, Types
<1>2. /\ wire' \in Seq(Ids) /\ Len(wire') = Len(wire) - 1
      /\ \A n \in 1..Len(wire') : n + 1 \in 1..Len(wire) /\ wire'[n] = wire[n + 1]
  BY <1>1
<1>3. Types'
  BY <1>2 DEF IInv, Types
<1>4. Fresh'
  BY <1>2 DEF IInv, Fresh
<1>5. Quiet'
  BY DEF IInv, Quiet
<1>6. Latched' /\ Locked' /\ Overtaken'
  BY DEF IInv, Latched, Locked, Overtaken
<1>7. Ordered'
  <2> SUFFICES ASSUME NEW a \in 1..Len(wire'), NEW b \in 1..Len(wire'), a < b,
                      kind[wire'[a]] = "HALT", kind[wire'[b]] \in Motions
               PROVE  wire'[a] < wire'[b]
    BY DEF Ordered
  <2>1. /\ a + 1 \in 1..Len(wire) /\ b + 1 \in 1..Len(wire) /\ a + 1 < b + 1
        /\ wire'[a] = wire[a + 1] /\ wire'[b] = wire[b + 1]
    BY <1>2
  <2> QED BY <2>1 DEF IInv, Ordered
<1>8. Swept'
  <2> SUFFICES ASSUME NEW h \in Ids, kind[h] = "HALT", work'[h] = "done",
                      NEW n \in 1..Len(wire'), kind[wire'[n]] \in Motions
               PROVE  h < wire'[n]
    BY DEF Swept
  <2>1. n + 1 \in 1..Len(wire) /\ wire'[n] = wire[n + 1] /\ 1 < n + 1
    BY <1>2
  <2>2. CASE work[h] = "done"
    BY <2>1, <2>2 DEF IInv, Swept
  <2>3. CASE h = i
    BY <1>1, <2>1, <2>3 DEF IInv, Ordered
  <2> QED BY <2>2, <2>3
<1> QED BY <1>3, <1>4, <1>5, <1>6, <1>7, <1>8 DEF IInv

\* The machine ends a motion, and nothing else.
LEMMA FinishesIInv ==
  ASSUME IInv, Finishes, phase' = phase
  PROVE  IInv'
PROOF
<1>1. /\ running \in Ids /\ kind[running] \in Motions /\ running' = 0
      /\ UNCHANGED <<nextId, kind, call, emergency_stopped, sim, resetAt, writers,
                     wire, tool, refresh, phase>>
      /\ work' \in [Ids -> {"none", "running", "done", "stopped"}]
      /\ \A j \in Ids : j # running => work'[j] = work[j]
  BY DEF Finishes, sends, latch, threads, tasks, IInv, Types, Fresh
<1>2. running <= nextId
  BY <1>1 DEF IInv, Types, Fresh
<1>3. Types' /\ Fresh'
  BY <1>1, <1>2 DEF IInv, Types, Fresh
<1>4. Quiet' /\ Latched' /\ Locked' /\ Overtaken' /\ Ordered'
  BY <1>1 DEF IInv, Quiet, Latched, Locked, Overtaken, Ordered
<1>5. Swept'
  BY <1>1 DEF IInv, Swept
<1> QED BY <1>3, <1>4, <1>5 DEF IInv

\* Every line the machine takes.
LEMMA MachineTakesIInv ==
  ASSUME IInv, NEW i \in Ids, MachineTakes(i), phase' = phase
  PROVE  IInv'
PROOF
<1>1. /\ wire # <<>> /\ wire' = Tail(wire) /\ i = Head(wire)
      /\ UNCHANGED <<nextId, kind, call, emergency_stopped, sim, resetAt, writers,
                     tool, refresh, phase>>
  BY DEF MachineTakes, TakesNothing, TakesQuery, TakesHalt, TakesBusy, TakesServo,
         TakesMotion, Takes, sends, latch, threads, tasks
<1>2. i <= nextId
  <2>1. wire \in Seq(Ids) /\ 1 \in 1..Len(wire) /\ i = wire[1]
    BY <1>1 DEF IInv, Types
  <2> QED BY <2>1 DEF IInv, Fresh
<1>3. running # 0 => running \in Ids /\ kind[running] \in Motions
                     /\ running <= nextId
  BY DEF IInv, Types, Fresh
<1>4. CASE UNCHANGED <<work, running>>
  BY <1>1, <1>4, TakenIInv DEF IInv, Types, Fresh
<1>5. CASE TakesHalt(i)
  <2>1. running' = 0 /\ work' = [j \in Ids |-> IF j = i THEN "done"
                              ELSE IF j = running THEN "stopped" ELSE work[j]]
    BY <1>5 DEF TakesHalt
  <2>2. /\ work' \in [Ids -> {"none", "running", "done", "stopped"}]
        /\ \A j \in Ids : j > nextId => work'[j] = "none"
        /\ \A j \in Ids : work'[j] = "done" => work[j] = "done" \/ j = i
    BY <1>2, <1>3, <2>1 DEF IInv, Types, Fresh
  <2> QED BY <1>1, <2>1, <2>2, TakenIInv
<1>6. CASE TakesServo(i)
  <2>1. running' = running /\ work' = [work EXCEPT ![i] = "done"]
    BY <1>6 DEF TakesServo
  <2>2. /\ work' \in [Ids -> {"none", "running", "done", "stopped"}]
        /\ \A j \in Ids : j > nextId => work'[j] = "none"
        /\ \A j \in Ids : work'[j] = "done" => work[j] = "done" \/ j = i
    BY <1>2, <2>1 DEF IInv, Types, Fresh
  <2> QED BY <1>1, <1>3, <2>1, <2>2, TakenIInv
<1>7. CASE TakesMotion(i)
  <2>1. running' = i /\ kind[i] \in Motions
        /\ work' = [work EXCEPT ![i] = "running"]
    BY <1>7 DEF TakesMotion
  <2>2. /\ work' \in [Ids -> {"none", "running", "done", "stopped"}]
        /\ \A j \in Ids : j > nextId => work'[j] = "none"
        /\ \A j \in Ids : work'[j] = "done" => work[j] = "done"
    BY <1>2, <2>1 DEF IInv, Types, Fresh
  <2> QED BY <1>1, <2>1, <2>2, TakenIInv
<1> QED BY <1>4, <1>5, <1>6, <1>7
        DEF MachineTakes, TakesNothing, TakesQuery, TakesBusy

-----------------------------------------------------------------------------
\* start(): no line is written before its end.
LEMMA StartIInv ==
  ASSUME IInv, StartSim \/ StartOpens \/ StartFails \/ StartEnds
  PROVE  IInv'
PROOF
<1>1. /\ phase \in {"off", "opening"} /\ phase' \in {"opening", "up", "failed"}
      /\ sim' \in BOOLEAN
      /\ UNCHANGED <<nextId, kind, call, work, emergency_stopped, resetAt, writers,
                     wire, running, tool, refresh>>
  <2>1. CASE StartSim
    BY <2>1 DEF StartSim, Simulate, sends, latch, line, machine, tasks
  <2>2. CASE StartOpens
    BY <2>2 DEF StartOpens, sends, latch, line, tasks, IInv, Types
  <2>3. CASE StartFails
    BY <2>3 DEF StartFails, Simulate, sends, latch, line, machine, tasks, threads,
                IInv, Types
  <2>4. CASE StartEnds
    BY <2>4 DEF StartEnds, linkVars, sends, latch, line, machine, tasks, threads,
                IInv, Types
  <2> QED BY <2>1, <2>2, <2>3, <2>4
<1>2. writers = {} /\ wire = <<>> /\ tool = 0
  BY <1>1 DEF IInv, Quiet
<1>3. Types' /\ Fresh' /\ Quiet'
  BY <1>1, <1>2 DEF IInv, Types, Fresh, Quiet
<1>4. Latched' /\ Locked' /\ Overtaken' /\ Ordered' /\ Swept'
  BY <1>1, <1>2 DEF IInv, Latched, Locked, Overtaken, Ordered, Swept
<1> QED BY <1>3, <1>4 DEF IInv

\* The latch is reset: what was issued no longer counts.
LEMMA ResetIInv ==
  ASSUME IInv, reset_emergency, phase' = phase
  PROVE  IInv'
PROOF
<1>1. /\ emergency_stopped' = FALSE /\ resetAt' = nextId /\ nextId \in Nat
      /\ UNCHANGED <<nextId, kind, call, work, sim, writers, wire, running, tool,
                     refresh, phase>>
  BY DEF reset_emergency, sends, threads, line, machine, tasks, IInv, Types
<1>2. Types' /\ Fresh' /\ Quiet'
  BY <1>1 DEF IInv, Types, Fresh, Quiet
<1>3. Latched'
  BY <1>1 DEF IInv, Fresh, Latched
<1>4. Locked' /\ Overtaken' /\ Ordered' /\ Swept'
  BY <1>1 DEF IInv, Locked, Overtaken, Ordered, Swept
<1> QED BY <1>2, <1>3, <1>4 DEF IInv

\* The tools and the poller.
LEMMA AtWorkIInv ==
  ASSUME IInv, AtWork
  PROVE  IInv'
PROOF
<1>1. phase = "up" /\ phase' = phase
  BY DEF AtWork, facade
<1>2. emergency_stopped \in BOOLEAN
  BY DEF IInv, Types
<1>3. ASSUME NEW k \in Motions \cup {"SERVO"}, Guarded(k)
      PROVE  IInv'
  BY <1>1, <1>2, <1>3, IssueIInv DEF Guarded, latch
<1>4. CASE halt
  BY <1>1, <1>4, IssueIInv DEF halt
<1>5. CASE reset_emergency
  BY <1>1, <1>5, ResetIInv
<1>6. CASE Poll
  <2>1. /\ SendBegins("STATE?") /\ ~sim /\ nextId < MaxIds /\ nextId \in Nat
        /\ UNCHANGED <<running, resetAt, emergency_stopped, tool, refresh>>
    BY <1>6 DEF Poll, SendBegins, latch, machine, IInv, Types
  <2> QED BY <1>1, <1>2, <2>1, SendBeginsIInv
<1> QED BY <1>3, <1>4, <1>5, <1>6
        DEF AtWork, Tools, move_axis, lower_claw, raise_claw, home, open_claw,
            close_claw, home_z

-----------------------------------------------------------------------------
\* The event loop, apart from the tools.
LEMMA LoopIInv ==
  ASSUME IInv, Loop, phase' = phase
  PROVE  IInv'
PROOF
<1>1. CASE HomeZRefreshes
  <2>1. /\ tool # 0 /\ refresh = 0 /\ SendBegins("STATE?") /\ refresh' = id
        /\ UNCHANGED <<running, resetAt, emergency_stopped, tool>>
    BY <1>1 DEF HomeZRefreshes, SendBegins, latch, machine
  <2>2. nextId <= MaxIds /\ id # 0 /\ emergency_stopped' \in BOOLEAN
    BY <2>1 DEF IInv, Types, id
  <2>3. ~sim /\ phase = "up"
    BY <2>1 DEF IInv, Types, Quiet
  <2> QED BY <2>1, <2>2, <2>3, SendBeginsIInv
<1>2. CASE ToolReturns
  <2>1. /\ tool # 0 /\ call[tool] = "returned" /\ tool' = 0
        /\ UNCHANGED <<nextId, kind, call, work, emergency_stopped, sim, resetAt,
                       writers, wire, running>>
    BY <1>2 DEF ToolReturns, sends, latch, threads, line, machine
  <2>2. Types' /\ Fresh' /\ Quiet'
    BY <2>1 DEF IInv, Types, Fresh, Quiet
  <2>3. Latched' /\ Overtaken' /\ Ordered' /\ Swept'
    BY <2>1 DEF IInv, Latched, Overtaken, Ordered, Swept
  <2>4. Locked'
    BY <2>1 DEF IInv, Locked
  <2> QED BY <2>2, <2>3, <2>4 DEF IInv
<1>3. ASSUME NEW i \in Ids, NEW r \in Results, Resolves(i, r)
      PROVE  IInv'
  <2>1. UNCHANGED <<nextId, kind, work, emergency_stopped, sim, resetAt, writers,
                    wire, running, tool, refresh, phase>>
    BY <1>3 DEF Resolves, latch, threads, line, machine, tasks
  <2>2. CASE call' = call
    BY <2>1, <2>2, IrrelevantIInv DEF relevant
  <2>3. CASE call[i] = "waiting" /\ call' = [call EXCEPT ![i] = "returned"]
    BY <2>1, <2>3, ReturnIInv
  <2> QED BY <1>3, <2>2, <2>3 DEF Resolves
<1> QED BY <1>1, <1>2, <1>3 DEF Loop

\* A command on its way out, and the wait for its answer.
LEMMA SendIInv ==
  ASSUME IInv, NEW i \in Ids, Send(i), phase' = phase
  PROVE  IInv'
PROOF
<1>1. CASE Timeout(i)
  BY <1>1, ReturnIInv DEF Timeout, latch, threads, line, machine, tasks
<1>2. CASE FlushEnds(i) \/ FlushFails(i)
  <2>1. /\ i \notin writers
        /\ call' = [call EXCEPT ![i] = "waiting"] \/ call' = [call EXCEPT ![i] = "returned"]
        /\ UNCHANGED <<nextId, kind, work, emergency_stopped, sim, resetAt, writers,
                       wire, running, tool, refresh, phase>>
    BY <1>2 DEF FlushEnds, FlushFails, Flushing, Written, latch, threads, line,
                machine, tasks
  <2> QED BY <2>1, ReturnIInv
<1> QED BY <1>1, <1>2, WriteLineIInv, WriteFailsIInv DEF Send

\* The threads, the machine and the cable.
LEMMA EnvironmentIInv ==
  ASSUME IInv, Environment
  PROVE  IInv'
PROOF
<1>1. phase' = phase
  BY DEF Environment, facade
<1>2. CASE _handle_line
  BY <1>1, <1>2, IrrelevantIInv
     DEF _handle_line, relevant, latch, machine, tasks
<1>3. CASE Unplugged
  <2>1. /\ wire' = <<>>
        /\ UNCHANGED <<nextId, kind, call, work, emergency_stopped, sim, resetAt,
                       writers, running, tool, refresh, phase>>
    BY <1>1, <1>3 DEF Unplugged, sends, latch, machine, tasks
  <2>2. Types' /\ Fresh' /\ Quiet'
    BY <2>1 DEF IInv, Types, Fresh, Quiet
  <2>3. Latched' /\ Locked' /\ Overtaken' /\ Ordered' /\ Swept'
    BY <2>1 DEF IInv, Latched, Locked, Overtaken, Ordered, Swept
  <2> QED BY <2>2, <2>3 DEF IInv
<1>4. CASE Boots
  <2>1. UNCHANGED <<writers, wire>>
    BY <1>4 DEF Boots
  <2> QED BY <1>1, <1>4, <2>1, IrrelevantIInv
          DEF Boots, relevant, sends, latch, threads, tasks
<1>5. CASE Machine
  BY <1>1, <1>4, <1>5, FinishesIInv, MachineTakesIInv DEF Machine
<1> QED BY <1>1, <1>2, <1>3, <1>5, LoopIInv, SendIInv DEF Environment

\* The service stops; its lines may still reach the machine.
LEMMA StopIInv ==
  ASSUME IInv, Stop
  PROVE  IInv'
PROOF
<1>1. /\ phase' = "stopped" /\ tool' = 0
      /\ call' = [i \in Ids |-> IF i \in Waiting THEN "returned" ELSE call[i]]
      /\ UNCHANGED <<nextId, kind, work, emergency_stopped, sim, resetAt, writers,
                     wire, running>>
  BY DEF Stop, CallsCancelled, latch, machine
<1>2. call' \in [Ids -> Places]
  BY <1>1 DEF IInv, Types
<1>3. Types' /\ Quiet'
  BY <1>1, <1>2 DEF IInv, Types, Quiet, Stop
<1>4. Fresh' /\ Latched' /\ Locked' /\ Overtaken' /\ Ordered' /\ Swept'
  BY <1>1 DEF IInv, Fresh, Latched, Locked, Overtaken, Ordered, Swept
<1> QED BY <1>3, <1>4 DEF IInv

\* Every step preserves the invariant.
LEMMA NextIInv == IInv /\ [Next]_vars => IInv'
PROOF
<1> SUFFICES ASSUME IInv, [Next]_vars PROVE IInv'
  OBVIOUS
<1>1. CASE UNCHANGED vars
  BY <1>1, IrrelevantIInv
     DEF vars, facade, linkVars, sends, latch, threads, line, machine, tasks,
         relevant
<1>2. CASE Settled
  BY <1>1, <1>2 DEF Settled
<1> QED BY <1>1, <1>2, StartIInv, AtWorkIInv, EnvironmentIInv, StopIInv DEF Next

\* The invariant holds in every behaviour.
LEMMA Inductive == Spec => []IInv
BY InitIInv, NextIInv, PTL DEF Spec

-----------------------------------------------------------------------------
\* Of all steps only TakesMotion gives the machine something new to do.
LEMMA OnlyTakesMotionStarts ==
  ASSUME [Next]_vars, running' \notin {0, running}
  PROVE  \E i \in Ids : TakesMotion(i)
PROOF
<1>1. ~(UNCHANGED vars) /\ ~Settled
  BY DEF vars, linkVars, machine, Settled
<1>2. ~StartSim /\ ~StartOpens /\ ~StartFails /\ ~StartEnds /\ ~Stop
  BY DEF StartSim, StartOpens, StartFails, StartEnds, Stop, linkVars, machine
<1>3. ~AtWork
  <2>1. \A k \in Kinds : ~SendBegins(k) /\ ~SimSend(k)
    BY DEF SendBegins, SimSend, machine
  <2> QED BY <2>1 DEF AtWork, Tools, move_axis, lower_claw, raise_claw, home,
                      open_claw, close_claw, home_z, halt, reset_emergency, Poll,
                      Guarded, Issue, machine
<1>4. ~Loop /\ ~_handle_line /\ ~Unplugged /\ \A i \in Ids : ~Send(i)
  BY DEF Loop, HomeZRefreshes, SendBegins, ToolReturns, Resolves, _handle_line,
         Unplugged, Send, WriteLine, WriteFails, FlushEnds, FlushFails, Flushing,
         Timeout, machine
<1>5. ~Boots /\ ~Finishes
  BY DEF Boots, Finishes
<1>6. \A i \in Ids : MachineTakes(i) => TakesMotion(i)
  BY DEF MachineTakes, TakesNothing, TakesQuery, TakesHalt, TakesBusy, TakesServo
<1> QED BY <1>1, <1>2, <1>3, <1>4, <1>5, <1>6 DEF Next, Environment, Machine

\* The motion it would be is at the head of the wire: newer than the HALT by
\* Swept, older by Latched.
LEMMA NothingStarts ==
  ASSUME IInv, [Next]_vars, NEW h \in Ids,
         kind[h] = "HALT", h > resetAt, work[h] = "done"
  PROVE  running' \in {0, running}
PROOF
<1> SUFFICES ASSUME running' \notin {0, running} PROVE FALSE
  OBVIOUS
<1>1. PICK i \in Ids : TakesMotion(i)
  BY OnlyTakesMotionStarts
<1>2. kind[i] \in Motions /\ 1 \in 1..Len(wire) /\ i = wire[1]
  BY <1>1 DEF TakesMotion, Takes, IInv, Types
<1>3. h < i
  BY <1>2 DEF IInv, Swept
<1>4. i < h
  BY <1>2 DEF IInv, Latched
<1> QED BY <1>3, <1>4

\* An emergency stop holds: once the machine has served the HALT of the current
\* e-stop no motion begins, in whatever order the worker threads write
\* (legacy_controller.py, halt() and the guards on emergency_stopped).
THEOREM EmergencyStopHolds == Spec => HaltSticks
PROOF
<1>1. IInv /\ [Next]_vars =>
        [\A h \in Ids :
           /\ emergency_stopped /\ kind[h] = "HALT" /\ h > resetAt
           /\ work[h] = "done"
           => running' \in {0, running}]_vars
  BY NothingStarts
<1> QED BY <1>1, Inductive, PTL DEF Spec, HaltSticks

-----------------------------------------------------------------------------
\* What is said of a command

InWire(i) == \E n \in 1..Len(wire) : wire[n] = i

\* A report on a command the machine has taken, or will never get.
Right(i, r) ==
  /\ i \notin writers /\ ~InWire(i)
  /\ r \in {"OK", "SIM"} => work[i] = "done"
  /\ r \in {"STUCK", "HALTED"} => work[i] = "stopped"
  /\ r = "BUSY" => work[i] = "none"

\* What the machine reports, or a simulation in its place.
Reports == Replies \cup {"SIM"}

\* Where a report may be: back from the machine, on its way to the loop, in the
\* future, with the caller.
Claimed(i, r) ==
  \/ \E n \in 1..Len(rx) : rx[n].id = i /\ rx[n].r = r
  \/ <<i, r>> \in scheduled
  \/ fut[i] = r
  \/ told[i] = r

\* Commands whose result somebody may still get: not queries, and not those whose
\* caller was driven out by an exception, which halt() still answers.
Plain(i) == kind[i] # "STATE?" /\ told[i] # "RAISED"

Reported ==
  \A i \in Ids, r \in Reports : Plain(i) /\ Claimed(i, r) => Right(i, r)

\* A line is written once, and nothing is done before it is taken.
Once ==
  /\ \A i \in writers : work[i] = "none" /\ ~InWire(i)
  /\ \A n \in 1..Len(wire) : work[wire[n]] = "none"
  /\ \A m, n \in 1..Len(wire) : wire[m] = wire[n] => m = n
  /\ \A i \in Ids : kind[i] = "STATE?" => work[i] = "none"

\* Whoever awaits a future, other than for a query, has the tools' lock.
Held ==
  phase = "up" => \A i \in pending :
    fut[i] = "open" /\ Plain(i) => tool = i /\ call[i] # "returned"

\* A caller is told something when it returns.
Told ==
  \A i \in Ids :
    /\ told[i] # "none" <=> call[i] = "returned"
    /\ call[i] = "writing" => fut[i] \notin {"none", "cancelled"}

\* Nothing is known of a command before it is issued, nobody waits before the
\* service is at work, and nobody in a simulation.
Blank ==
  /\ \A i \in Ids : i > nextId => call[i] = "none" /\ fut[i] = "none"
  /\ sim \/ phase \in {"off", "opening"} => pending = {}

CInv == TypeOK /\ Reported /\ Once /\ Held /\ Told /\ Blank

-----------------------------------------------------------------------------
\* A sequence of members of a set is one of members of a larger set.
LEMMA SeqMonotone ==
  ASSUME NEW A, NEW B, A \subseteq B, NEW s \in Seq(A)
  PROVE  s \in Seq(B)
OBVIOUS

\* What a sequence holds.
LEMMA SeqElement ==
  ASSUME NEW S, NEW s \in Seq(S)
  PROVE  \A n \in 1..Len(s) : s[n] \in S
OBVIOUS

\* The port the configuration names or finds is a device or none.
LEMMA PortType ==
  ASSUME NEW named \in Devices \cup {None}, NEW plugged \in SUBSET Devices
  PROVE  SerialPort(named, plugged) \in Devices \cup {None}
PROOF
<1>1. Discover(plugged) \in Devices \cup {None}
  <2> DEFINE candidates == {d \in plugged : d.usb /\ d.passes}
             arduinos == {d \in candidates : d.arduino}
             chosen == IF Cardinality(arduinos) = 1 THEN arduinos ELSE candidates
  <2>1. Discover(plugged) =
          IF Cardinality(chosen) = 1 THEN CHOOSE d \in chosen : TRUE ELSE None
    BY DEF Discover
  <2>2. chosen \subseteq Devices
    OBVIOUS
  <2>3. Cardinality(chosen) = 1 => chosen # {}
    BY FS_EmptySet
  <2> HIDE DEF chosen
  <2> QED BY <2>1, <2>2, <2>3
<1> QED BY <1>1 DEF SerialPort

\* The initial state satisfies the invariant.
LEMMA InitCInv == Init => CInv
PROOF
<1> SUFFICES ASSUME Init PROVE CInv
  OBVIOUS
<1>1. /\ nextId = 0 /\ tool = 0 /\ refresh = 0 /\ poll = 0 /\ resetAt = 0
      /\ running = 0 /\ cached = 0 /\ moved = 0
      /\ kind = [i \in Ids |-> "none"] /\ call = [i \in Ids |-> "none"]
      /\ work = [i \in Ids |-> "none"] /\ fut = [i \in Ids |-> "none"]
      /\ told = [i \in Ids |-> "none"]
      /\ emergency_stopped = FALSE /\ sim = FALSE /\ reading = FALSE
      /\ ready = FALSE /\ booting = FALSE /\ port = "closed"
      /\ writers = {} /\ wire = <<>> /\ rx = <<>> /\ lost = {}
      /\ pending = {} /\ scheduled = {}
  BY DEF Init, LinkInit
<1>2. LinkTypeOK
  <2>1. /\ kind \in [Ids -> Kinds \cup {"none"}]
        /\ call \in [Ids -> {"none", "writing", "waiting", "returned"}]
        /\ fut \in [Ids -> Replies \cup {"none", "open", "cancelled"}]
        /\ told \in [Ids -> Results \cup {"none"}]
        /\ work \in [Ids -> {"none", "running", "done", "stopped"}]
    BY <1>1
  <2>2. /\ nextId \in 0..(MaxIds + 1) /\ resetAt \in 0..nextId
        /\ {cached, running, moved} \subseteq 0..nextId
        /\ {tool, refresh, poll} \subseteq 0..nextId
    BY <1>1
  <2>3. wire \in Seq(1..nextId)
        /\ rx \in Seq([id : 0..nextId, r : Replies, at : -1..nextId])
    BY <1>1
  <2>4. /\ \A i \in Ids : call[i] = "waiting" => fut[i] = "open"
        /\ \A i \in Ids : work[i] = "running" <=> running = i
    BY <1>1
  <2>5. /\ pending \subseteq 1..nextId /\ writers \subseteq 1..nextId
        /\ lost \subseteq 0..nextId
        /\ scheduled \subseteq (1..nextId) \X Replies
    BY <1>1
  <2>6. emergency_stopped \in BOOLEAN /\ {sim, reading, ready, booting} \subseteq BOOLEAN
    BY <1>1
  <2> QED BY <1>1, <2>1, <2>2, <2>3, <2>4, <2>5, <2>6 DEF LinkTypeOK
<1>3. TypeOK
  <2>1. serial_port \in Devices \cup {None}
    BY PortType DEF Init
  <2>2. /\ mode \in {"auto", "sim", "serial", "spent"}
        /\ phase = "off" /\ active = "none" /\ start_error = FALSE
    BY DEF Init
  <2> QED BY <1>2, <2>1, <2>2 DEF TypeOK
<1>4. Reported /\ Once
  BY <1>1 DEF Reported, Plain, Once, InWire, Claimed, Reports, Replies
<1>5. Held /\ Told /\ Blank
  BY <1>1 DEF Held, Told, Blank
<1> QED BY <1>3, <1>4, <1>5 DEF CInv

-----------------------------------------------------------------------------
\* A step of the link alone keeps the facade's types.
LEMMA FacadeTypes ==
  ASSUME TypeOK, LinkTypeOK', UNCHANGED facade
  PROVE  TypeOK'
BY DEF TypeOK, facade

\* The types of the link with one more command.
LEMMA GrownTypes ==
  ASSUME LinkTypeOK, id \in Ids, nextId' = id, wire' = wire, rx' = rx,
         kind' \in [Ids -> Kinds \cup {"none"}],
         call' \in [Ids -> {"none", "writing", "waiting", "returned"}],
         fut' \in [Ids -> Replies \cup {"none", "open", "cancelled"}],
         told' \in [Ids -> Results \cup {"none"}],
         work' \in [Ids -> {"none", "running", "done", "stopped"}],
         pending' \subseteq 1..id, writers' \subseteq 1..id, lost' = lost,
         scheduled' \subseteq (1..id) \X Replies,
         emergency_stopped' \in BOOLEAN, resetAt' = resetAt,
         {cached', running', moved', tool', refresh', poll'} \subseteq 0..id,
         UNCHANGED <<threads, booting>>,
         \A i \in Ids : call'[i] = "waiting" => fut'[i] = "open",
         \A i \in Ids : work'[i] = "running" <=> running' = i
  PROVE  LinkTypeOK'
PROOF
<1>1. nextId \in Nat /\ id = nextId + 1 /\ id \in Nat
      /\ 1..nextId \subseteq 1..id /\ 0..nextId \subseteq 0..id
  <2>1. nextId \in Nat /\ id = nextId + 1
    BY DEF LinkTypeOK, id
  <2> QED BY <2>1
<1>2. wire' \in Seq(1..id)
  BY <1>1, SeqMonotone DEF LinkTypeOK
<1>3. rx' \in Seq([id : 0..id, r : Replies, at : -1..id])
  <2>1. [id : 0..nextId, r : Replies, at : -1..nextId]
          \subseteq [id : 0..id, r : Replies, at : -1..id]
    <3>1. 0..nextId \subseteq 0..id /\ -1..nextId \subseteq -1..id
      BY <1>1
    <3> QED BY <3>1
  <2>2. rx \in Seq([id : 0..nextId, r : Replies, at : -1..nextId])
    BY DEF LinkTypeOK
  <2> QED BY <2>1, <2>2, SeqMonotone
<1>4. lost' \subseteq 0..id /\ resetAt' \in 0..id /\ id \in 0..(MaxIds + 1)
      /\ {sim', reading', ready', booting'} \subseteq BOOLEAN
      /\ port' \in {"closed", "open", "broken"}
  BY <1>1 DEF LinkTypeOK, threads
<1>5. /\ wire' \in Seq(1..nextId')
      /\ rx' \in Seq([id : 0..nextId', r : Replies, at : -1..nextId'])
      /\ nextId' \in 0..(MaxIds + 1) /\ resetAt' \in 0..nextId'
      /\ pending' \subseteq 1..nextId' /\ writers' \subseteq 1..nextId'
      /\ lost' \subseteq 0..nextId' /\ scheduled' \subseteq (1..nextId') \X Replies
  BY <1>2, <1>3, <1>4
<1>6. /\ {cached', running', moved'} \subseteq 0..nextId'
      /\ {tool', refresh', poll'} \subseteq 0..nextId'
  OBVIOUS
<1> HIDE DEF Ids, Kinds, Motions
<1> QED BY <1>4, <1>5, <1>6 DEF LinkTypeOK

\* No line and no result names a command that has not been issued.
LEMMA FreshClaims ==
  ASSUME LinkTypeOK
  PROVE  /\ \A n \in 1..Len(rx) : rx[n].id # id /\ rx[n].r \in Replies
         /\ \A r : <<id, r>> \notin scheduled
PROOF
<1>1. nextId \in Nat /\ id = nextId + 1
  BY DEF LinkTypeOK, id
<1>2. \A n \in 1..Len(rx) : rx[n] \in [id : 0..nextId, r : Replies, at : -1..nextId]
  <2>1. rx \in Seq([id : 0..nextId, r : Replies, at : -1..nextId])
    BY DEF LinkTypeOK
  <2> QED BY <2>1, SeqElement
<1>3. \A n \in 1..Len(rx) : rx[n].id \in 0..nextId /\ rx[n].r \in Replies
  BY <1>2
<1>4. \A r : <<id, r>> \in scheduled => id \in 1..nextId
  BY DEF LinkTypeOK
<1> QED BY <1>1, <1>3, <1>4

\* Results on their way to the loop are the machine's.
LEMMA ScheduledType ==
  ASSUME LinkTypeOK, NEW i, NEW r, <<i, r>> \in scheduled
  PROVE  i \in 1..nextId /\ r \in Replies
BY DEF LinkTypeOK

\* A command goes to the worker threads.  In the same step halt() may answer
\* queries.
LEMMA SendBeginsCInv ==
  ASSUME CInv, IInv, NEW k \in Kinds, SendBegins(k), nextId <= MaxIds, ~sim,
         phase = "up", UNCHANGED <<facade, resetAt>>, emergency_stopped' \in BOOLEAN,
         {tool', refresh', poll'} \subseteq 0..id,
         k # "STATE?" => tool = 0 /\ tool' = id,
         k = "STATE?" => tool' = tool,
         scheduled' \subseteq (1..nextId) \X Replies,
         \A i \in Ids, r \in Replies :
           <<i, r>> \in scheduled' => <<i, r>> \in scheduled \/ ~Plain(i)
  PROVE  CInv'
PROOF
<1>1. id \in Ids /\ id = nextId + 1 /\ nextId \in Nat /\ id \in Nat
      /\ kind[id] = "none" /\ work[id] = "none" /\ call[id] = "none"
      /\ told[id] = "none"
  BY DEF IInv, Types, Fresh, id, CInv, Blank, Told
<1>2. /\ nextId' = id /\ writers' = writers \cup {id} /\ pending' = pending \cup {id}
      /\ kind' = [kind EXCEPT ![id] = k]
      /\ call' = [call EXCEPT ![id] = "writing"]
      /\ fut' = [fut EXCEPT ![id] = "open"]
      /\ UNCHANGED <<told, sim, port, reading, ready, wire, rx, lost, booting,
                     running, work, moved, cached, phase>>
  BY DEF SendBegins, threads, machine, facade
<1>3. LinkTypeOK
  BY DEF CInv, TypeOK
<1>4. /\ kind'[id] = k /\ call'[id] = "writing" /\ fut'[id] = "open"
      /\ \A i \in Ids : i # id => /\ kind'[i] = kind[i] /\ call'[i] = call[i]
                                 /\ fut'[i] = fut[i]
  BY <1>1, <1>2, <1>3 DEF LinkTypeOK
<1>5. TypeOK'
  <2>1. /\ kind' \in [Ids -> Kinds \cup {"none"}]
        /\ call' \in [Ids -> {"none", "writing", "waiting", "returned"}]
        /\ fut' \in [Ids -> Replies \cup {"none", "open", "cancelled"}]
        /\ told' \in [Ids -> Results \cup {"none"}]
        /\ work' \in [Ids -> {"none", "running", "done", "stopped"}]
    BY <1>1, <1>2, <1>3 DEF LinkTypeOK
  <2>2. /\ pending' \subseteq 1..id /\ writers' \subseteq 1..id
        /\ scheduled' \subseteq (1..id) \X Replies
        /\ {cached', running', moved'} \subseteq 0..id
    <3>1. 1..nextId \subseteq 1..id /\ 0..nextId \subseteq 0..id /\ id \in 1..id
      BY <1>1
    <3>2. pending \subseteq 1..nextId /\ writers \subseteq 1..nextId
          /\ {cached, running, moved} \subseteq 0..nextId
      BY <1>3 DEF LinkTypeOK
    <3> QED BY <1>2, <3>1, <3>2
  <2>3. /\ \A i \in Ids : call'[i] = "waiting" => fut'[i] = "open"
        /\ \A i \in Ids : work'[i] = "running" <=> running' = i
    BY <1>2, <1>3, <1>4 DEF LinkTypeOK
  <2>4. LinkTypeOK'
    BY <1>1, <1>2, <1>3, <2>1, <2>2, <2>3, GrownTypes DEF threads
  <2> QED BY <2>4, FacadeTypes DEF CInv
<1>6. \A n \in 1..Len(wire) : wire[n] \in Ids /\ wire[n] # id
  BY <1>1 DEF IInv, Types, Fresh
<1>7. Once'
  BY <1>1, <1>2, <1>4, <1>6 DEF CInv, Once, InWire, IInv, Types
<1>8. Held'
  BY <1>1, <1>2, <1>3, <1>4 DEF CInv, Held, Plain, LinkTypeOK
<1>9. Told'
  BY <1>1, <1>2, <1>4 DEF CInv, Told
<1>10. Blank'
  BY <1>1, <1>2, <1>4 DEF CInv, Blank, IInv, Quiet
<1>11. Reported'
  <2> SUFFICES ASSUME NEW i \in Ids, NEW r \in Reports,
                      Plain(i)', Claimed(i, r)'
               PROVE  Right(i, r)'
    BY DEF Reported
  <2>1. i # id
    <3> SUFFICES ASSUME i = id PROVE FALSE
      OBVIOUS
    <3>1. \A n \in 1..Len(rx) : rx[n].id # id
      BY <1>3, FreshClaims
    <3>2. fut'[id] # r /\ told'[id] # r
      BY <1>1, <1>2, <1>4 DEF Reports, Replies
    <3>3. <<id, r>> \notin scheduled'
      BY <1>1
    <3> QED BY <1>2, <3>1, <3>2, <3>3 DEF Claimed
  <2>2. Plain(i) /\ Claimed(i, r)
    BY <1>2, <1>4, <2>1, ScheduledType DEF Claimed, Plain
  <2>3. Right(i, r)
    BY <2>2 DEF CInv, Reported
  <2> QED BY <1>2, <2>1, <2>3 DEF Right, InWire
<1> QED BY <1>5, <1>7, <1>8, <1>9, <1>10, <1>11 DEF CInv

\* A simulated command.
LEMMA SimSendCInv ==
  ASSUME CInv, IInv, NEW k \in Kinds, SimSend(k), nextId < MaxIds, sim,
         UNCHANGED <<facade, resetAt, tool, refresh, poll>>,
         emergency_stopped' \in BOOLEAN, scheduled' = scheduled, k # "STATE?"
  PROVE  CInv'
PROOF
<1>1. id \in Ids /\ id = nextId + 1 /\ nextId \in Nat /\ id \in Nat
      /\ kind[id] = "none" /\ work[id] = "none" /\ call[id] = "none"
      /\ fut[id] = "none"
  BY DEF IInv, Types, Fresh, id, CInv, Blank
<1>2. /\ nextId' = id
      /\ kind' = [kind EXCEPT ![id] = k]
      /\ call' = [call EXCEPT ![id] = "returned"]
      /\ told' = [told EXCEPT ![id] = "SIM"]
      /\ work' = [work EXCEPT ![id] = "done"]
      /\ moved' \in {id, moved} /\ cached' = moved'
      /\ UNCHANGED <<fut, pending, sim, port, reading, ready, writers, wire, rx,
                     lost, booting, running, phase>>
  BY DEF SimSend, threads, line, facade
<1>3. LinkTypeOK
  BY DEF CInv, TypeOK
<1>4. /\ kind'[id] = k /\ call'[id] = "returned" /\ told'[id] = "SIM"
      /\ work'[id] = "done"
      /\ \A i \in Ids : i # id => /\ kind'[i] = kind[i] /\ call'[i] = call[i]
                                 /\ told'[i] = told[i] /\ work'[i] = work[i]
  BY <1>1, <1>2, <1>3 DEF LinkTypeOK
<1>5. writers = {} /\ wire = <<>> /\ pending = {}
  BY DEF IInv, Quiet, CInv, Blank
<1>6. TypeOK'
  <2>1. /\ kind' \in [Ids -> Kinds \cup {"none"}]
        /\ call' \in [Ids -> {"none", "writing", "waiting", "returned"}]
        /\ fut' \in [Ids -> Replies \cup {"none", "open", "cancelled"}]
        /\ told' \in [Ids -> Results \cup {"none"}]
        /\ work' \in [Ids -> {"none", "running", "done", "stopped"}]
    BY <1>1, <1>2, <1>3 DEF LinkTypeOK, Results
  <2>2. /\ pending' \subseteq 1..id /\ writers' \subseteq 1..id
        /\ scheduled' \subseteq (1..id) \X Replies
        /\ {cached', running', moved', tool', refresh', poll'} \subseteq 0..id
    BY <1>1, <1>2, <1>3 DEF LinkTypeOK
  <2>3. /\ \A i \in Ids : call'[i] = "waiting" => fut'[i] = "open"
        /\ \A i \in Ids : work'[i] = "running" <=> running' = i
    BY <1>1, <1>2, <1>3, <1>4 DEF LinkTypeOK
  <2>4. LinkTypeOK'
    BY <1>1, <1>2, <1>3, <2>1, <2>2, <2>3, GrownTypes DEF threads
  <2> QED BY <2>4, FacadeTypes DEF CInv
<1>7. Once' /\ Held' /\ Told' /\ Blank'
  BY <1>1, <1>2, <1>4, <1>5 DEF CInv, Once, Held, Plain, Told, Blank, InWire
<1>8. Reported'
  <2> SUFFICES ASSUME NEW i \in Ids, NEW r \in Reports,
                      Plain(i)', Claimed(i, r)'
               PROVE  Right(i, r)'
    BY DEF Reported
  <2>1. CASE i = id
    <3>1. r = "SIM"
      BY <1>1, <1>2, <1>3, <1>4, <2>1, FreshClaims DEF Claimed, Reports, Replies
    <3> QED BY <1>2, <1>4, <1>5, <2>1, <3>1 DEF Right, InWire
  <2>2. CASE i # id
    <3>1. Plain(i) /\ Claimed(i, r)
      BY <1>2, <1>4, <2>2 DEF Claimed, Plain
    <3>2. Right(i, r)
      BY <3>1 DEF CInv, Reported
    <3> QED BY <1>2, <1>4, <2>2, <3>2 DEF Right, InWire
  <2> QED BY <2>1, <2>2
<1> QED BY <1>6, <1>7, <1>8 DEF CInv

claims == <<nextId, kind, call, fut, told, pending, scheduled, writers, wire, rx,
            work, tool>>

\* A step that touches none of these variables leaves the types to be shown.
LEMMA IrrelevantCInv ==
  ASSUME CInv, TypeOK', UNCHANGED claims,
         UNCHANGED <<sim, phase>> \/ pending = {}
  PROVE  CInv'
PROOF
<1>1. Reported' /\ Once' /\ Told'
  BY DEF claims, CInv, Reported, Plain, Once, Told, Claimed, Right, InWire
<1>2. Held' /\ Blank'
  BY DEF claims, CInv, Held, Plain, Blank
<1> QED BY <1>1, <1>2 DEF CInv

\* start().
LEMMA StartCInv ==
  ASSUME CInv, StartSim \/ StartOpens \/ StartFails \/ StartEnds
  PROVE  CInv'
PROOF
<1>1. LinkTypeOK /\ sim \in BOOLEAN /\ reading \in BOOLEAN /\ ready \in BOOLEAN
      /\ booting \in BOOLEAN
  BY DEF CInv, TypeOK, LinkTypeOK
<1>2. /\ phase \in {"off", "opening"} /\ phase' \in {"opening", "up", "failed"}
      /\ UNCHANGED <<sends, scheduled, latch, cached, line, running, work, moved,
                     tasks, serial_port>>
      /\ mode' \in {mode, "spent"} /\ port' \in {port, "open"} /\ active' \in {active, "sim", "serial"}
      /\ start_error' \in {start_error, TRUE} /\ sim' \in {sim, TRUE}
      /\ reading' \in {reading, TRUE} /\ booting' \in {booting, TRUE}
      /\ ready' = ready
  <2>1. CASE StartSim
    BY <2>1 DEF StartSim, Simulate, machine
  <2>2. CASE StartOpens
    BY <2>2 DEF StartOpens
  <2>3. CASE StartFails
    BY <2>3 DEF StartFails, Simulate, machine, threads
  <2>4. CASE StartEnds
    BY <2>4 DEF StartEnds, linkVars, machine, threads
  <2> QED BY <2>1, <2>2, <2>3, <2>4
<1>3. LinkTypeOK'
  BY <1>1, <1>2 DEF LinkTypeOK, sends, latch, line, tasks
<1>4. TypeOK'
  BY <1>2, <1>3 DEF CInv, TypeOK
<1> QED BY <1>2, <1>4, IrrelevantCInv DEF CInv, Blank, claims, sends, line, tasks

\* The latch is reset.
LEMMA ResetCInv ==
  ASSUME CInv, reset_emergency, UNCHANGED facade
  PROVE  CInv'
PROOF
<1>1. LinkTypeOK
  BY DEF CInv, TypeOK
<1>2. LinkTypeOK'
  <2>1. emergency_stopped' = FALSE /\ resetAt' = nextId /\ nextId' = nextId
        /\ nextId \in 0..nextId
    BY <1>1 DEF reset_emergency, LinkTypeOK, sends
  <2> QED BY <1>1, <2>1 DEF reset_emergency, LinkTypeOK, sends, threads, line,
                            machine, tasks
<1> QED BY <1>2, FacadeTypes, IrrelevantCInv
        DEF CInv, reset_emergency, claims, sends, threads, line, machine, tasks,
            facade

\* The tools' commands; of the futures that halt() answers none is one that a tool
\* awaits.
LEMMA IssueCInv ==
  ASSUME CInv, IInv, NEW k \in Kinds \ {"STATE?"}, Issue(k),
         UNCHANGED <<facade, resetAt>>, phase = "up", emergency_stopped' \in BOOLEAN,
         scheduled' = scheduled \/
           scheduled' = scheduled \cup
             {<<i, "HALTED">> : i \in {j \in pending : fut[j] = "open"}}
  PROVE  CInv'
PROOF
<1>1. LinkTypeOK /\ nextId \in Nat /\ MaxIds \in Nat /\ nextId < MaxIds /\ tool = 0
      /\ id = nextId + 1
      /\ pending \subseteq 1..nextId /\ scheduled \subseteq (1..nextId) \X Replies
  BY DEF Issue, IInv, Types, CInv, TypeOK, LinkTypeOK, id
<1>2. CASE sim
  <2>1. pending = {}
    BY <1>2 DEF CInv, Blank
  <2> QED BY <1>1, <1>2, <2>1, SimSendCInv DEF Issue
<1>3. CASE ~sim
  <2>1. SendBegins(k) /\ tool' = id /\ UNCHANGED <<refresh, poll>>
    BY <1>3 DEF Issue
  <2>2. {tool', refresh', poll'} \subseteq 0..id
    <3>1. refresh \in 0..nextId /\ poll \in 0..nextId
      BY <1>1 DEF LinkTypeOK
    <3> QED BY <1>1, <2>1, <3>1
  <2>3. scheduled' \subseteq (1..nextId) \X Replies
    BY <1>1 DEF Replies
  <2>4. \A i \in Ids, r \in Replies :
          <<i, r>> \in scheduled' => <<i, r>> \in scheduled \/ ~Plain(i)
    BY <1>1 DEF CInv, Held
  <2> QED BY <1>1, <1>3, <2>1, <2>2, <2>3, <2>4, SendBeginsCInv
<1> QED BY <1>2, <1>3

\* The tools and the poller.
LEMMA AtWorkCInv ==
  ASSUME CInv, IInv, AtWork
  PROVE  CInv'
PROOF
<1>1. phase = "up" /\ UNCHANGED facade
  BY DEF AtWork
<1>2. emergency_stopped \in BOOLEAN
  BY DEF IInv, Types
<1>3. ASSUME NEW k \in Motions \cup {"SERVO"}, Guarded(k)
      PROVE  CInv'
  BY <1>1, <1>2, <1>3, IssueCInv DEF Guarded, latch
<1>4. CASE halt
  BY <1>1, <1>4, IssueCInv DEF halt
<1>5. CASE reset_emergency
  BY <1>1, <1>5, ResetCInv
<1>6. CASE Poll
  <2>1. /\ SendBegins("STATE?") /\ ~sim /\ nextId < MaxIds /\ nextId \in Nat
        /\ id = nextId + 1
        /\ UNCHANGED <<resetAt, emergency_stopped, scheduled, tool, refresh>>
        /\ poll' = id
    BY <1>6 DEF Poll, latch, IInv, Types, id
  <2>2. tool \in 0..nextId /\ refresh \in 0..nextId
        /\ scheduled \subseteq (1..nextId) \X Replies
    BY DEF CInv, TypeOK, LinkTypeOK
  <2>3. {tool', refresh', poll'} \subseteq 0..id
    BY <2>1, <2>2
  <2> QED BY <1>1, <1>2, <2>1, <2>2, <2>3, SendBeginsCInv
<1> QED BY <1>3, <1>4, <1>5, <1>6
        DEF AtWork, Tools, move_axis, lower_claw, raise_claw, home, open_claw,
            close_claw, home_z

-----------------------------------------------------------------------------
\* The event loop, apart from the tools.
LEMMA HomeZRefreshesCInv ==
  ASSUME CInv, IInv, HomeZRefreshes, UNCHANGED facade
  PROVE  CInv'
PROOF
<1>1. /\ tool # 0 /\ refresh = 0 /\ SendBegins("STATE?") /\ refresh' = id
      /\ UNCHANGED <<resetAt, emergency_stopped, scheduled, tool, poll>>
  BY DEF HomeZRefreshes, latch
<1>2. nextId <= MaxIds /\ nextId \in Nat /\ id = nextId + 1
      /\ emergency_stopped' \in BOOLEAN /\ ~sim /\ phase = "up"
  BY <1>1 DEF IInv, Types, Quiet, id
<1>3. tool \in 0..nextId /\ poll \in 0..nextId
      /\ scheduled \subseteq (1..nextId) \X Replies
  BY DEF CInv, TypeOK, LinkTypeOK
<1>4. {tool', refresh', poll'} \subseteq 0..id
  BY <1>1, <1>2, <1>3
<1> QED BY <1>1, <1>2, <1>3, <1>4, SendBeginsCInv

\* The lock is released when the caller has returned: Held has no use for it.
LEMMA ToolReturnsCInv ==
  ASSUME CInv, ToolReturns, UNCHANGED facade
  PROVE  CInv'
PROOF
<1>1. /\ call[tool] = "returned" /\ tool' = 0 /\ refresh' = 0
      /\ UNCHANGED <<sends, scheduled, latch, cached, threads, line, machine, poll>>
  BY DEF ToolReturns
<1>2. LinkTypeOK
  BY DEF CInv, TypeOK
<1>3. LinkTypeOK'
  <2>1. nextId \in Nat /\ 0 \in 0..nextId
    BY <1>2 DEF LinkTypeOK
  <2> QED BY <1>1, <1>2, <2>1
          DEF LinkTypeOK, sends, latch, threads, line, machine
<1>4. TypeOK'
  BY <1>3, FacadeTypes DEF CInv
<1>5. Reported' /\ Once' /\ Told' /\ Blank'
  BY <1>1 DEF CInv, Reported, Plain, Once, Told, Blank, Claimed, Right, InWire, sends,
              threads, line, machine, facade
<1>6. Held'
  BY <1>1 DEF CInv, Held, Plain, sends, facade
<1> QED BY <1>4, <1>5, <1>6 DEF CInv

\* The loop passes a result on: it was claimed already.
LEMMA ResolvesCInv ==
  ASSUME CInv, NEW i \in Ids, NEW r \in Results, Resolves(i, r), UNCHANGED facade
  PROVE  CInv'
PROOF
<1>1. LinkTypeOK
  BY DEF CInv, TypeOK
<1>2. r \in Replies /\ <<i, r>> \in scheduled /\ r \in Reports
  BY <1>1, ScheduledType DEF Resolves, Reports
<1>3. /\ UNCHANGED <<nextId, kind, pending, latch, cached, threads, line, machine,
                     tasks>>
      /\ scheduled' = scheduled \ {<<i, r>>}
      /\ fut' = [fut EXCEPT ![i] = IF @ = "open" THEN r ELSE @]
  BY DEF Resolves
<1>4. /\ \A j \in Ids : j # i => call'[j] = call[j] /\ told'[j] = told[j]
                                 /\ fut'[j] = fut[j]
      /\ fut'[i] = IF fut[i] = "open" THEN r ELSE fut[i]
      /\ \/ /\ fut[i] = "open" /\ call[i] = "waiting"
            /\ call'[i] = "returned" /\ told'[i] = r
         \/ /\ fut[i] # "open" \/ call[i] # "waiting"
            /\ call'[i] = call[i] /\ told'[i] = told[i]
      /\ call' \in [Ids -> {"none", "writing", "waiting", "returned"}]
      /\ fut' \in [Ids -> Replies \cup {"none", "open", "cancelled"}]
      /\ told' \in [Ids -> Results \cup {"none"}]
  <2>1. /\ call \in [Ids -> {"none", "writing", "waiting", "returned"}]
        /\ fut \in [Ids -> Replies \cup {"none", "open", "cancelled"}]
        /\ told \in [Ids -> Results \cup {"none"}]
    BY <1>1 DEF LinkTypeOK
  <2>2. /\ fut' \in [Ids -> Replies \cup {"none", "open", "cancelled"}]
        /\ fut'[i] = IF fut[i] = "open" THEN r ELSE fut[i]
        /\ \A j \in Ids : j # i => fut'[j] = fut[j]
    BY <1>2, <1>3, <2>1
  <2>3. CASE fut[i] = "open" /\ call[i] = "waiting"
    <3>1. /\ call' = [call EXCEPT ![i] = "returned"]
          /\ told' = [told EXCEPT ![i] = r]
      BY <2>3 DEF Resolves
    <3> QED BY <2>1, <2>2, <2>3, <3>1
  <2>4. CASE fut[i] # "open" \/ call[i] # "waiting"
    <3>1. UNCHANGED <<call, told>>
      BY <2>4 DEF Resolves
    <3> QED BY <2>1, <2>2, <2>4, <3>1
  <2> QED BY <2>3, <2>4
<1>5. LinkTypeOK'
  <2>1. \A j \in Ids : call'[j] = "waiting" => fut'[j] = "open"
    BY <1>1, <1>4 DEF LinkTypeOK
  <2>2. scheduled' \subseteq (1..nextId) \X Replies
    BY <1>1, <1>3 DEF LinkTypeOK
  <2> QED BY <1>1, <1>3, <1>4, <2>1, <2>2
          DEF LinkTypeOK, latch, threads, line, machine, tasks
<1>6. TypeOK'
  BY <1>5, FacadeTypes DEF CInv
<1>7. ASSUME NEW j \in Ids, NEW q \in Reports, Claimed(j, q)'
      PROVE  Claimed(j, q)
  <2>1. rx' = rx /\ scheduled' \subseteq scheduled
    BY <1>3 DEF line
  <2>2. /\ fut'[j] = fut[j] \/ (j = i /\ fut'[j] = r)
        /\ told'[j] = told[j] \/ (j = i /\ told'[j] = r)
    BY <1>4
  <2>3. \/ \E n \in 1..Len(rx) : rx[n].id = j /\ rx[n].r = q
        \/ <<j, q>> \in scheduled \/ fut'[j] = q \/ told'[j] = q
    BY <1>7, <2>1 DEF Claimed
  <2> QED BY <1>2, <2>2, <2>3 DEF Claimed
<1>8. Reported'
  <2>1. \A j \in Ids : Plain(j)' => Plain(j)
    BY <1>3, <1>4 DEF Plain, CInv, Told
  <2> QED BY <1>3, <1>7, <2>1 DEF CInv, Reported, Right, InWire, line, machine
<1>9. Once'
  BY <1>3 DEF CInv, Once, InWire, line, machine
<1>10. Held'
  <2>1. pending \subseteq Ids
    BY <1>1, <1>3 DEF LinkTypeOK
  <2> QED BY <1>2, <1>3, <1>4, <2>1 DEF CInv, Held, Plain, Told, tasks, facade, Replies
<1>11. Told'
  BY <1>2, <1>4 DEF CInv, Told, Replies
<1>12. Blank'
  <2>1. \A j \in Ids : j > nextId => j # i
    BY <1>1, <1>2, ScheduledType DEF LinkTypeOK
  <2> QED BY <1>3, <1>4, <2>1 DEF CInv, Blank, threads, facade
<1> QED BY <1>6, <1>8, <1>9, <1>10, <1>11, <1>12 DEF CInv

-----------------------------------------------------------------------------
\* A worker thread writes.
LEMMA WriteLineCInv ==
  ASSUME CInv, NEW i \in Ids, WriteLine(i), UNCHANGED facade
  PROVE  CInv'
PROOF
<1>1. LinkTypeOK
  BY DEF CInv, TypeOK
<1>2. /\ i \in writers /\ writers' = writers \ {i} /\ wire' = Append(wire, i)
      /\ UNCHANGED <<nextId, kind, call, fut, told, pending, scheduled, latch, cached,
                     threads, rx, lost, machine, tasks>>
  BY DEF WriteLine, sends
<1>4. /\ wire \in Seq(Ids) /\ wire' \in Seq(1..nextId)
      /\ Len(wire') = Len(wire) + 1 /\ Len(wire) \in Nat
      /\ wire'[Len(wire) + 1] = i
      /\ \A n \in 1..Len(wire) : wire'[n] = wire[n]
      /\ \A n \in 1..Len(wire') : n = Len(wire) + 1 \/ n \in 1..Len(wire)
  <2>1. wire \in Seq(1..nextId) /\ i \in 1..nextId
    BY <1>1, <1>2 DEF LinkTypeOK
  <2>2. 1..nextId \subseteq Ids
    BY <1>1 DEF LinkTypeOK
  <2>3. wire \in Seq(Ids)
    BY <2>1, <2>2, SeqMonotone
  <2>4. /\ wire' \in Seq(1..nextId) /\ Len(wire') = Len(wire) + 1 /\ Len(wire) \in Nat
        /\ wire'[Len(wire) + 1] = i
        /\ \A n \in 1..Len(wire) : wire'[n] = wire[n]
    BY <1>2, <2>1
  <2>5. \A n \in 1..(Len(wire) + 1) : n = Len(wire) + 1 \/ n \in 1..Len(wire)
    BY <2>4
  <2> QED BY <2>3, <2>4, <2>5
<1>5. LinkTypeOK'
  <2>1. writers' \subseteq 1..nextId
    BY <1>1, <1>2 DEF LinkTypeOK
  <2> QED BY <1>1, <1>2, <1>4, <2>1 DEF LinkTypeOK, latch, threads, machine, tasks
<1>6. TypeOK'
  BY <1>5, FacadeTypes DEF CInv
<1>7. \A j \in Ids, q \in Reports : Claimed(j, q)' => Claimed(j, q)
  BY <1>2 DEF Claimed
<1>8. work[i] = "none" /\ ~InWire(i)
  BY <1>2 DEF CInv, Once
<1>9. \A j : InWire(j)' => InWire(j) \/ j = i
  BY <1>4 DEF InWire
<1>10. Reported'
  <2> SUFFICES ASSUME NEW j \in Ids, NEW q \in Reports, Plain(j)', Claimed(j, q)'
               PROVE  Right(j, q)'
    BY DEF Reported
  <2>1. Right(j, q)
    BY <1>2, <1>7 DEF CInv, Reported, Plain
  <2> QED BY <1>2, <1>9, <2>1 DEF Right, machine
<1>11. Once'
  <2>1. \A j \in writers' : work'[j] = "none" /\ ~InWire(j)'
    BY <1>2, <1>9 DEF CInv, Once, machine
  <2>2. \A n \in 1..Len(wire') : work'[wire'[n]] = "none"
    BY <1>2, <1>4, <1>8 DEF CInv, Once, machine
  <2>3. \A m, n \in 1..Len(wire') : wire'[m] = wire'[n] => m = n
    BY <1>4, <1>8 DEF CInv, Once, InWire
  <2> QED BY <1>2, <2>1, <2>2, <2>3 DEF CInv, Once, machine
<1>12. Held' /\ Told' /\ Blank'
  BY <1>2 DEF CInv, Held, Plain, Told, Blank, threads, tasks, facade
<1> QED BY <1>6, <1>10, <1>11, <1>12 DEF CInv

\* The write raises: the line never reaches the machine.
LEMMA WriteFailsCInv ==
  ASSUME CInv, NEW i \in Ids, WriteFails(i), UNCHANGED facade
  PROVE  CInv'
PROOF
<1>1. LinkTypeOK
  BY DEF CInv, TypeOK
<1>2. /\ i \in writers /\ writers' = writers \ {i} /\ pending' \subseteq pending
      /\ UNCHANGED <<nextId, kind, fut, scheduled, latch, cached, threads, wire, rx,
                     lost, machine, tasks>>
  BY DEF WriteFails
<1>3. /\ \A j \in Ids : j # i => call'[j] = call[j] /\ told'[j] = told[j]
      /\ \/ call'[i] = call[i] /\ told'[i] = told[i]
         \/ /\ call[i] = "writing" /\ i \notin pending'
            /\ call'[i] = "returned" /\ told'[i] = "ERR"
      /\ call' \in [Ids -> {"none", "writing", "waiting", "returned"}]
      /\ told' \in [Ids -> Results \cup {"none"}]
  <2>1. /\ call \in [Ids -> {"none", "writing", "waiting", "returned"}]
        /\ told \in [Ids -> Results \cup {"none"}]
    BY <1>1 DEF LinkTypeOK
  <2>2. CASE call[i] = "writing"
    <3>1. /\ call' = [call EXCEPT ![i] = "returned"]
          /\ told' = [told EXCEPT ![i] = "ERR"] /\ pending' = pending \ {i}
      BY <2>2 DEF WriteFails
    <3> QED BY <2>1, <2>2, <3>1 DEF Results
  <2>3. CASE call[i] # "writing"
    <3>1. UNCHANGED <<call, told>>
      BY <2>3 DEF WriteFails
    <3> QED BY <2>1, <3>1
  <2> QED BY <2>2, <2>3
<1>4. LinkTypeOK'
  <2>1. \A j \in Ids : call'[j] = "waiting" => fut'[j] = "open"
    BY <1>1, <1>2, <1>3 DEF LinkTypeOK
  <2>2. writers' \subseteq 1..nextId /\ pending' \subseteq 1..nextId
    BY <1>1, <1>2 DEF LinkTypeOK
  <2> QED BY <1>1, <1>2, <1>3, <2>1, <2>2
          DEF LinkTypeOK, latch, threads, machine, tasks
<1>5. TypeOK'
  BY <1>4, FacadeTypes DEF CInv
<1>7. Reported'
  <2> SUFFICES ASSUME NEW j \in Ids, NEW q \in Reports, Plain(j)', Claimed(j, q)'
               PROVE  Right(j, q)'
    BY DEF Reported
  <2>1. Plain(j) /\ Claimed(j, q)
    BY <1>2, <1>3 DEF Claimed, Plain, CInv, Told, Reports, Replies
  <2>2. Right(j, q)
    BY <2>1 DEF CInv, Reported
  <2> QED BY <1>2, <2>2 DEF Right, InWire, machine
<1>8. Once'
  BY <1>2 DEF CInv, Once, InWire, machine
<1>9. Held'
  <2>1. pending \subseteq Ids
    BY <1>1 DEF LinkTypeOK
  <2> QED BY <1>2, <1>3, <2>1 DEF CInv, Held, Plain, Told, tasks, facade
<1>10. Told'
  BY <1>2, <1>3 DEF CInv, Told
<1>11. Blank'
  <2>1. \A j \in Ids : j > nextId => j # i
    BY <1>1, <1>2 DEF LinkTypeOK
  <2> QED BY <1>2, <1>3, <2>1 DEF CInv, Blank, threads, facade
<1> QED BY <1>5, <1>7, <1>8, <1>9, <1>10, <1>11 DEF CInv

\* The thread is over: its caller waits, or returns with a result that was claimed
\* already.
LEMMA FlushEndsCInv ==
  ASSUME CInv, NEW i \in Ids, FlushEnds(i), UNCHANGED facade
  PROVE  CInv'
PROOF
<1>1. LinkTypeOK
  BY DEF CInv, TypeOK
<1>2. /\ call[i] = "writing"
      /\ UNCHANGED <<nextId, kind, fut, pending, scheduled, latch, cached, threads,
                     line, machine, tasks>>
  BY DEF FlushEnds, Flushing
<1>3. /\ \A j \in Ids : j # i => call'[j] = call[j] /\ told'[j] = told[j]
      /\ \/ fut[i] \in Replies /\ call'[i] = "returned" /\ told'[i] = fut[i]
         \/ fut[i] = "open" /\ call'[i] = "waiting" /\ told'[i] = told[i]
      /\ call' \in [Ids -> {"none", "writing", "waiting", "returned"}]
      /\ told' \in [Ids -> Results \cup {"none"}]
  <2>1. fut[i] \notin {"none", "cancelled"}
    BY <1>2 DEF CInv, Told
  <2>2. fut[i] \in Replies \cup {"none", "open", "cancelled"}
    BY <1>1 DEF LinkTypeOK
  <2>3. /\ call \in [Ids -> {"none", "writing", "waiting", "returned"}]
        /\ told \in [Ids -> Results \cup {"none"}]
    BY <1>1 DEF LinkTypeOK
  <2>4. CASE fut[i] \in Results
    <3>1. /\ call' = [call EXCEPT ![i] = "returned"]
          /\ told' = [told EXCEPT ![i] = fut[i]]
      BY <2>4 DEF FlushEnds, Written
    <3>2. fut[i] \in Replies
      BY <2>2, <2>4 DEF Results, Replies
    <3> QED BY <2>3, <2>4, <3>1, <3>2
  <2>5. CASE fut[i] \notin Results
    <3>1. call' = [call EXCEPT ![i] = "waiting"] /\ told' = told
      BY <2>5 DEF FlushEnds, Written
    <3>2. fut[i] = "open"
      BY <2>1, <2>2, <2>5 DEF Results
    <3> QED BY <2>3, <3>1, <3>2
  <2> QED BY <2>4, <2>5
<1>4. LinkTypeOK'
  <2>1. \A j \in Ids : call'[j] = "waiting" => fut'[j] = "open"
    BY <1>1, <1>2, <1>3 DEF LinkTypeOK
  <2> QED BY <1>1, <1>2, <1>3, <2>1
          DEF LinkTypeOK, latch, threads, line, machine, tasks
<1>5. TypeOK'
  BY <1>4, FacadeTypes DEF CInv
<1>6. Reported'
  <2>1. \A j \in Ids, q \in Reports : Claimed(j, q)' => Claimed(j, q)
    BY <1>2, <1>3 DEF Claimed, line
  <2>2. \A j \in Ids : Plain(j)' => Plain(j)
    BY <1>2, <1>3 DEF Plain, CInv, Told
  <2> QED BY <1>2, <2>1, <2>2 DEF CInv, Reported, Right, InWire, line, machine
<1>7. Once'
  BY <1>2 DEF CInv, Once, InWire, line, machine
<1>8. Held'
  <2>1. pending \subseteq Ids
    BY <1>1 DEF LinkTypeOK
  <2> QED BY <1>2, <1>3, <2>1 DEF CInv, Held, Plain, Told, tasks, facade, Replies
<1>9. Told'
  BY <1>2, <1>3 DEF CInv, Told, Replies
<1>10. Blank'
  <2>1. \A j \in Ids : j > nextId => j # i
    BY <1>2 DEF CInv, Blank
  <2> QED BY <1>2, <1>3, <2>1 DEF CInv, Blank, threads, facade
<1> QED BY <1>5, <1>6, <1>7, <1>8, <1>9, <1>10 DEF CInv

\* The flush raises: the caller is told nothing of the machine, and if its entry
\* stays, nobody awaits it any more.
LEMMA FlushFailsCInv ==
  ASSUME CInv, NEW i \in Ids, FlushFails(i), UNCHANGED facade
  PROVE  CInv'
PROOF
<1>1. LinkTypeOK
  BY DEF CInv, TypeOK
<1>2. /\ call[i] = "writing" /\ pending' \subseteq pending
      /\ UNCHANGED <<nextId, kind, fut, scheduled, latch, cached, threads, line,
                     machine, tasks>>
  BY DEF FlushFails, Flushing
<1>3. /\ \A j \in Ids : j # i => call'[j] = call[j] /\ told'[j] = told[j]
      /\ call'[i] = "returned"
      /\ told'[i] = "RAISED" \/ (told'[i] = "ERR" /\ i \notin pending')
      /\ call' \in [Ids -> {"none", "writing", "waiting", "returned"}]
      /\ told' \in [Ids -> Results \cup {"none"}]
  <2>1. /\ call \in [Ids -> {"none", "writing", "waiting", "returned"}]
        /\ told \in [Ids -> Results \cup {"none"}]
    BY <1>1 DEF LinkTypeOK
  <2>2. /\ call' = [call EXCEPT ![i] = "returned"]
        /\ \/ told' = [told EXCEPT ![i] = "ERR"] /\ pending' = pending \ {i}
           \/ told' = [told EXCEPT ![i] = "RAISED"]
    BY DEF FlushFails
  <2> QED BY <2>1, <2>2 DEF Results
<1>4. LinkTypeOK'
  <2>1. \A j \in Ids : call'[j] = "waiting" => fut'[j] = "open"
    BY <1>1, <1>2, <1>3 DEF LinkTypeOK
  <2>2. pending' \subseteq 1..nextId
    BY <1>1, <1>2 DEF LinkTypeOK
  <2> QED BY <1>1, <1>2, <1>3, <2>1, <2>2
          DEF LinkTypeOK, latch, threads, line, machine, tasks
<1>5. TypeOK'
  BY <1>4, FacadeTypes DEF CInv
<1>6. Reported'
  <2> SUFFICES ASSUME NEW j \in Ids, NEW q \in Reports, Plain(j)', Claimed(j, q)'
               PROVE  Right(j, q)'
    BY DEF Reported
  <2>1. Plain(j) /\ Claimed(j, q)
    BY <1>2, <1>3 DEF Claimed, Plain, CInv, Told, Reports, Replies, line
  <2>2. Right(j, q)
    BY <2>1 DEF CInv, Reported
  <2> QED BY <1>2, <2>2 DEF Right, InWire, line, machine
<1>7. Once'
  BY <1>2 DEF CInv, Once, InWire, line, machine
<1>8. Held'
  <2>1. pending \subseteq Ids
    BY <1>1 DEF LinkTypeOK
  <2> QED BY <1>2, <1>3, <2>1 DEF CInv, Held, Plain, Told, tasks, facade
<1>9. Told'
  BY <1>2, <1>3 DEF CInv, Told
<1>10. Blank'
  <2>1. \A j \in Ids : j > nextId => j # i
    BY <1>2 DEF CInv, Blank
  <2> QED BY <1>2, <1>3, <2>1 DEF CInv, Blank, threads, facade
<1> QED BY <1>5, <1>6, <1>7, <1>8, <1>9, <1>10 DEF CInv

\* The wait ends without an answer.
LEMMA TimeoutCInv ==
  ASSUME CInv, NEW i \in Ids, Timeout(i), UNCHANGED facade
  PROVE  CInv'
PROOF
<1>1. LinkTypeOK
  BY DEF CInv, TypeOK
<1>2. /\ call[i] = "waiting" /\ pending' = pending \ {i}
      /\ UNCHANGED <<nextId, kind, scheduled, latch, cached, threads, line, machine,
                     tasks>>
  BY DEF Timeout
<1>3. /\ \A j \in Ids : j # i => /\ call'[j] = call[j] /\ told'[j] = told[j]
                                 /\ fut'[j] = fut[j]
      /\ call'[i] = "returned" /\ told'[i] = "TIMEOUT" /\ fut'[i] = "cancelled"
      /\ call' \in [Ids -> {"none", "writing", "waiting", "returned"}]
      /\ told' \in [Ids -> Results \cup {"none"}]
      /\ fut' \in [Ids -> Replies \cup {"none", "open", "cancelled"}]
  BY <1>1 DEF Timeout, LinkTypeOK, Results
<1>4. LinkTypeOK'
  <2>1. \A j \in Ids : call'[j] = "waiting" => fut'[j] = "open"
    BY <1>1, <1>3 DEF LinkTypeOK
  <2>2. pending' \subseteq 1..nextId
    BY <1>1, <1>2 DEF LinkTypeOK
  <2> QED BY <1>1, <1>2, <1>3, <2>1, <2>2
          DEF LinkTypeOK, latch, threads, line, machine, tasks
<1>5. TypeOK'
  BY <1>4, FacadeTypes DEF CInv
<1>6. \A j \in Ids, q \in Reports : Claimed(j, q)' => Claimed(j, q)
  BY <1>2, <1>3 DEF Claimed, Reports, Replies, line
<1>7. Reported' /\ Once'
  <2>1. \A j \in Ids : Plain(j)' => Plain(j)
    BY <1>2, <1>3 DEF Plain, CInv, Told
  <2> QED BY <1>2, <1>6, <2>1 DEF CInv, Reported, Once, Right, InWire, line, machine
<1>8. Held'
  <2>1. pending \subseteq Ids
    BY <1>1 DEF LinkTypeOK
  <2> QED BY <1>2, <1>3, <2>1 DEF CInv, Held, Plain, Told, tasks, facade
<1>9. Told'
  BY <1>3 DEF CInv, Told
<1>10. Blank'
  <2>1. \A j \in Ids : j > nextId => j # i
    BY <1>2 DEF CInv, Blank
  <2> QED BY <1>2, <1>3, <2>1 DEF CInv, Blank, threads, facade
<1> QED BY <1>5, <1>7, <1>8, <1>9, <1>10 DEF CInv

\* The reader thread takes a line: what it claims was claimed by the line.
LEMMA HandleLineCInv ==
  ASSUME CInv, _handle_line, UNCHANGED facade
  PROVE  CInv'
PROOF
<1>1. LinkTypeOK
  BY DEF CInv, TypeOK
<1> DEFINE head == rx[1]
<1>2. /\ rx # <<>> /\ rx' = Tail(rx) /\ pending' \subseteq pending
      /\ ready' = (ready \/ head.id = 0)
      /\ cached' \in {cached, head.at} /\ (head.at = -1 => cached' = cached)
      /\ \/ scheduled' = scheduled
         \/ /\ head.id \in pending
            /\ scheduled' = scheduled \cup {<<head.id, head.r>>}
      /\ UNCHANGED <<nextId, kind, call, fut, told, latch, sim, port, reading,
                     writers, wire, lost, machine, tasks>>
  <2>1. rx # <<>> /\ Head(rx) = rx[1]
    BY <1>1 DEF _handle_line, LinkTypeOK
  <2> QED BY <2>1 DEF _handle_line, _resolve_future
<1>3. /\ rx' \in Seq([id : 0..nextId, r : Replies, at : -1..nextId])
      /\ head \in [id : 0..nextId, r : Replies, at : -1..nextId]
      /\ 1 \in 1..Len(rx)
      /\ \A n \in 1..Len(rx') : n + 1 \in 1..Len(rx) /\ rx'[n] = rx[n + 1]
  <2>1. rx \in Seq([id : 0..nextId, r : Replies, at : -1..nextId])
    BY <1>1 DEF LinkTypeOK
  <2>2. 1 \in 1..Len(rx)
    BY <1>2, <2>1
  <2>3. head \in [id : 0..nextId, r : Replies, at : -1..nextId]
    BY <2>1, <2>2, SeqElement
  <2>4. rx' \in Seq([id : 0..nextId, r : Replies, at : -1..nextId])
        /\ \A n \in 1..Len(rx') : n + 1 \in 1..Len(rx) /\ rx'[n] = rx[n + 1]
    BY <1>2, <2>1
  <2> QED BY <2>2, <2>3, <2>4
<1>4. head.id \in 0..nextId /\ head.r \in Replies /\ head.at \in -1..nextId
  BY <1>3
<1> HIDE DEF head
<1>5. LinkTypeOK'
  <2>1. nextId \in Nat /\ cached \in 0..nextId /\ ready \in BOOLEAN
        /\ pending \subseteq 1..nextId /\ scheduled \subseteq (1..nextId) \X Replies
    BY <1>1 DEF LinkTypeOK
  <2>2. cached' \in 0..nextId
    BY <1>2, <1>4, <2>1
  <2>3. pending' \subseteq 1..nextId /\ scheduled' \subseteq (1..nextId) \X Replies
    BY <1>2, <1>4, <2>1
  <2>4. ready' \in BOOLEAN
    BY <1>2
  <2>5. /\ {sim', reading', ready', booting'} \subseteq BOOLEAN
        /\ {cached', running', moved'} \subseteq 0..nextId
    BY <1>1, <1>2, <2>2, <2>4 DEF LinkTypeOK, machine
  <2>6. /\ \A i \in Ids : call[i] = "waiting" => fut[i] = "open"
        /\ \A i \in Ids : work[i] = "running" <=> running = i
    BY <1>1 DEF LinkTypeOK
  <2> QED BY <1>1, <1>2, <1>3, <2>3, <2>5, <2>6
          DEF LinkTypeOK, latch, machine, tasks
<1>6. TypeOK'
  BY <1>5, FacadeTypes DEF CInv
<1>7. \A j \in Ids, q \in Reports : Claimed(j, q)' => Claimed(j, q)
  <2> SUFFICES ASSUME NEW j \in Ids, NEW q \in Reports, Claimed(j, q)'
               PROVE  Claimed(j, q)
    OBVIOUS
  <2>1. (\E n \in 1..Len(rx') : rx'[n].id = j /\ rx'[n].r = q) => Claimed(j, q)
    BY <1>3 DEF Claimed
  <2>2. <<j, q>> \in scheduled' => Claimed(j, q)
    BY <1>2, <1>3 DEF Claimed, head
  <2> QED BY <1>2, <2>1, <2>2 DEF Claimed
<1>8. Reported' /\ Once'
  BY <1>2, <1>7 DEF CInv, Reported, Plain, Once, Right, InWire, machine
<1>9. Held' /\ Told' /\ Blank'
  BY <1>2 DEF CInv, Held, Plain, Told, Blank, tasks, facade
<1> QED BY <1>6, <1>8, <1>9 DEF CInv

-----------------------------------------------------------------------------
\* What the machine says, as far as anybody reads it.
LEMMA SaysWhat ==
  ASSUME LinkTypeOK,
         NEW lines \in Seq([id : 0..nextId, r : Replies, at : -1..nextId]),
         \/ rx' = rx \o lines /\ lost' = lost
         \/ rx' = rx /\ lost' = lost \cup {lines[n].id : n \in 1..Len(lines)}
  PROVE  /\ rx' \in Seq([id : 0..nextId, r : Replies, at : -1..nextId])
         /\ lost' \subseteq 0..nextId
         /\ \A n \in 1..Len(rx') : \/ \E m \in 1..Len(rx) : rx'[n] = rx[m]
                                   \/ \E m \in 1..Len(lines) : rx'[n] = lines[m]
PROOF
<1> DEFINE R == [id : 0..nextId, r : Replies, at : -1..nextId]
<1>1. rx \in Seq(R) /\ lost \subseteq 0..nextId
  BY DEF LinkTypeOK
<1>2. \A n \in 1..Len(lines) : lines[n].id \in 0..nextId
  <2>1. \A n \in 1..Len(lines) : lines[n] \in R
    BY SeqElement
  <2> QED BY <2>1
<1> HIDE DEF R
<1>3. CASE rx' = rx \o lines /\ lost' = lost
  <2>1. rx' \in Seq(R) /\ Len(rx') = Len(rx) + Len(lines)
        /\ Len(rx) \in Nat /\ Len(lines) \in Nat
        /\ \A n \in 1..Len(rx') : rx'[n] = IF n <= Len(rx) THEN rx[n]
                                            ELSE lines[n - Len(rx)]
    BY <1>1, <1>3 DEF R
  <2>2. \A n \in 1..Len(rx') : n \in 1..Len(rx) \/ n - Len(rx) \in 1..Len(lines)
    BY <2>1
  <2>3. \A n \in 1..Len(rx') : n \in 1..Len(rx) => n <= Len(rx)
    BY <2>1
  <2>4. \A n \in 1..Len(rx') : n - Len(rx) \in 1..Len(lines) => ~(n <= Len(rx))
    BY <2>1
  <2> QED BY <1>1, <1>3, <2>1, <2>2, <2>3, <2>4 DEF R
<1>4. CASE /\ rx' = rx
           /\ lost' = lost \cup {lines[n].id : n \in 1..Len(lines)}
  BY <1>1, <1>2, <1>4 DEF R
<1> QED BY <1>3, <1>4

\* Of what comes back, only these reports are new.
Adds(new) ==
  /\ rx' \in Seq([id : 0..nextId, r : Replies, at : -1..nextId])
  /\ lost' \subseteq 0..nextId
  /\ \A j \in Ids, q \in Reports :
       (\E n \in 1..Len(rx') : rx'[n].id = j /\ rx'[n].r = q) =>
         \/ \E n \in 1..Len(rx) : rx[n].id = j /\ rx[n].r = q
         \/ <<j, q>> \in new

\* A step of the machine touches lines it has taken and the motion underway, of
\* which nothing was claimed so far.
LEMMA MachineCInv ==
  ASSUME CInv, IInv,
         UNCHANGED <<sends, scheduled, latch, cached, threads, writers, tasks,
                     facade>>,
         NEW touched,
         \A j \in touched : work[j] = "running" \/ InWire(j),
         \A j \in Ids : j \notin touched => work'[j] = work[j],
         \A j \in touched : kind[j] # "STATE?",
         wire' \in Seq(1..nextId),
         \A j \in Ids : InWire(j)' => InWire(j) /\ j \notin touched,
         \A m, n \in 1..Len(wire') : wire'[m] = wire'[n] => m = n,
         NEW new, Adds(new),
         \A j \in Ids, r \in Reports :
           <<j, r>> \in new => kind[j] = "STATE?" \/ Right(j, r)',
         work' \in [Ids -> {"none", "running", "done", "stopped"}],
         \A j \in Ids : work'[j] = "running" <=> running' = j,
         running' \in 0..nextId, moved' \in 0..nextId, booting' \in BOOLEAN
  PROVE  CInv'
PROOF
<1>1. LinkTypeOK
  BY DEF CInv, TypeOK
<1>2. TypeOK'
  <2>1. {cached', running', moved'} \subseteq 0..nextId
        /\ {sim', reading', ready', booting'} \subseteq BOOLEAN
    BY <1>1 DEF LinkTypeOK, threads
  <2>2. LinkTypeOK'
    BY <1>1, <2>1 DEF LinkTypeOK, sends, latch, threads, tasks, Adds
  <2> QED BY <2>2, FacadeTypes DEF CInv
<1>3. \A j \in touched \cap Ids : j \notin writers /\ \A r \in Reports : ~Right(j, r)
  <2>1. \A j \in touched \cap Ids : j \notin writers
    BY DEF CInv, Once
  <2> QED BY <2>1 DEF Right, Reports, Replies
<1>4. Reported'
  <2> SUFFICES ASSUME NEW j \in Ids, NEW r \in Reports, Plain(j), Claimed(j, r)'
               PROVE  Right(j, r)'
    BY DEF Reported, Plain, sends
  <2>1. CASE Claimed(j, r)
    <3>1. Right(j, r)
      BY <2>1 DEF CInv, Reported
    <3>2. j \notin touched
      BY <1>3, <3>1
    <3> QED BY <3>1, <3>2 DEF Right
  <2>2. Claimed(j, r) \/ Right(j, r)'
    <3>1. kind[j] # "STATE?" /\ UNCHANGED <<scheduled, fut, told>>
      BY DEF Plain, sends
    <3>2. \/ \E n \in 1..Len(rx') : rx'[n].id = j /\ rx'[n].r = r
          \/ <<j, r>> \in scheduled \/ fut[j] = r \/ told[j] = r
      BY <3>1 DEF Claimed
    <3>3. Adds(new)
      OBVIOUS
    <3>4. (\E n \in 1..Len(rx') : rx'[n].id = j /\ rx'[n].r = r) =>
            \/ \E n \in 1..Len(rx) : rx[n].id = j /\ rx[n].r = r
            \/ <<j, r>> \in new
      BY <3>3 DEF Adds
    <3> QED BY <3>1, <3>2, <3>4 DEF Claimed, Plain
  <2> QED BY <2>1, <2>2
<1>5. Once'
  <2>1. \A j \in writers' : work'[j] = "none" /\ ~InWire(j)'
    BY <1>3 DEF CInv, Once, IInv, Types
  <2>2. \A n \in 1..Len(wire') : wire'[n] \in Ids
    <3>1. \A n \in 1..Len(wire') : wire'[n] \in 1..nextId
      BY SeqElement
    <3>2. 1..nextId \subseteq Ids
      BY DEF IInv, Types
    <3> QED BY <3>1, <3>2
  <2>3. \A n \in 1..Len(wire') : work'[wire'[n]] = "none"
    <3> SUFFICES ASSUME NEW j \in Ids, \E n \in 1..Len(wire') : wire'[n] = j
                 PROVE  work'[j] = "none"
      BY <2>2
    <3>1. InWire(j) /\ j \notin touched
      BY DEF InWire
    <3>2. PICK n \in 1..Len(wire) : wire[n] = j
      BY <3>1 DEF InWire
    <3>3. work[j] = "none"
      BY <3>2 DEF CInv, Once
    <3> QED BY <3>1, <3>3
  <2>4. \A j \in Ids : kind'[j] = "STATE?" => work'[j] = "none"
    BY DEF CInv, Once, sends
  <2> QED BY <2>1, <2>3, <2>4 DEF Once
<1>6. Held' /\ Told' /\ Blank'
  BY DEF CInv, Held, Plain, Told, Blank, sends, tasks, threads, facade
<1> QED BY <1>2, <1>4, <1>5, <1>6 DEF CInv

\* One line back.
LEMMA SaysOne ==
  ASSUME LinkTypeOK, NEW c \in 0..nextId, NEW r \in Replies, NEW at \in -1..nextId,
         Says(<<[id |-> c, r |-> r, at |-> at]>>)
  PROVE  Adds({<<c, r>>})
PROOF
<1> DEFINE line1 == [id |-> c, r |-> r, at |-> at]
<1>1. line1 \in [id : 0..nextId, r : Replies, at : -1..nextId]
  OBVIOUS
<1>2. <<line1>> \in Seq([id : 0..nextId, r : Replies, at : -1..nextId])
      /\ \A m \in 1..Len(<<line1>>) : <<line1>>[m].id = c /\ <<line1>>[m].r = r
  BY <1>1
<1> DEFINE lines == <<line1>>
<1>3. \/ rx' = rx \o lines /\ lost' = lost
      \/ rx' = rx /\ lost' = lost \cup {lines[n].id : n \in 1..Len(lines)}
  BY DEF Says
<1>4. /\ lines \in Seq([id : 0..nextId, r : Replies, at : -1..nextId])
      /\ \A m \in 1..Len(lines) : lines[m].id = c /\ lines[m].r = r
  BY <1>2
<1> HIDE DEF lines
<1>5. /\ rx' \in Seq([id : 0..nextId, r : Replies, at : -1..nextId])
      /\ lost' \subseteq 0..nextId
      /\ \A n \in 1..Len(rx') : \/ \E m \in 1..Len(rx) : rx'[n] = rx[m]
                                \/ \E m \in 1..Len(lines) : rx'[n] = lines[m]
  BY <1>3, <1>4, SaysWhat
<1> QED BY <1>4, <1>5 DEF Adds

\* Two lines back.
LEMMA SaysTwo ==
  ASSUME LinkTypeOK, NEW h \in 0..nextId, NEW c \in 0..nextId,
         Says(<<Reply(h, "HALTED"), Reply(c, "OK")>>)
  PROVE  Adds({<<h, "HALTED">>, <<c, "OK">>})
PROOF
<1>1. nextId \in Nat /\ -1 \in -1..nextId
  BY DEF LinkTypeOK
<1>2. /\ Reply(h, "HALTED") \in [id : 0..nextId, r : Replies, at : -1..nextId]
      /\ Reply(c, "OK") \in [id : 0..nextId, r : Replies, at : -1..nextId]
      /\ Reply(h, "HALTED").id = h /\ Reply(h, "HALTED").r = "HALTED"
      /\ Reply(c, "OK").id = c /\ Reply(c, "OK").r = "OK"
  BY <1>1 DEF Reply, Replies
<1> DEFINE lines == <<Reply(h, "HALTED"), Reply(c, "OK")>>
<1>3. /\ lines \in Seq([id : 0..nextId, r : Replies, at : -1..nextId])
      /\ \A m \in 1..Len(lines) : \/ lines[m].id = h /\ lines[m].r = "HALTED"
                                  \/ lines[m].id = c /\ lines[m].r = "OK"
  BY <1>2
<1>4. \/ rx' = rx \o lines /\ lost' = lost
      \/ rx' = rx /\ lost' = lost \cup {lines[n].id : n \in 1..Len(lines)}
  BY DEF Says
<1> HIDE DEF lines
<1>5. /\ rx' \in Seq([id : 0..nextId, r : Replies, at : -1..nextId])
      /\ lost' \subseteq 0..nextId
      /\ \A n \in 1..Len(rx') : \/ \E m \in 1..Len(rx) : rx'[n] = rx[m]
                                \/ \E m \in 1..Len(lines) : rx'[n] = lines[m]
  BY <1>3, <1>4, SaysWhat
<1>6. ASSUME NEW j \in Ids, NEW q \in Reports,
             NEW n \in 1..Len(rx'), rx'[n].id = j, rx'[n].r = q
      PROVE  \/ \E m \in 1..Len(rx) : rx[m].id = j /\ rx[m].r = q
             \/ <<j, q>> \in {<<h, "HALTED">>, <<c, "OK">>}
  <2>1. CASE \E m \in 1..Len(rx) : rx'[n] = rx[m]
    BY <1>6, <2>1
  <2>2. CASE \E m \in 1..Len(lines) : rx'[n] = lines[m]
    BY <1>3, <1>6, <2>2
  <2> QED BY <1>5, <2>1, <2>2
<1>7. \A j \in Ids, q \in Reports :
        (\E n \in 1..Len(rx') : rx'[n].id = j /\ rx'[n].r = q) =>
          \/ \E n \in 1..Len(rx) : rx[n].id = j /\ rx[n].r = q
          \/ <<j, q>> \in {<<h, "HALTED">>, <<c, "OK">>}
  BY <1>6
<1> QED BY <1>5, <1>7 DEF Adds

\* The board has booted.
LEMMA BootsCInv ==
  ASSUME CInv, IInv, Boots, UNCHANGED facade
  PROVE  CInv'
PROOF
<1>1. LinkTypeOK /\ nextId \in Nat /\ 0 \in 0..nextId /\ -1 \in -1..nextId
      /\ "OK" \in Replies /\ Says(<<[id |-> 0, r |-> "OK", at |-> -1]>>)
  BY DEF CInv, TypeOK, LinkTypeOK, Replies, Boots, Reply
<1>2. /\ UNCHANGED <<sends, scheduled, latch, cached, threads, writers, wire, running,
                     work, moved, tasks>>
      /\ booting' = FALSE
  BY DEF Boots
<1>3. /\ wire \in Seq(1..nextId) /\ running \in 0..nextId /\ moved \in 0..nextId
      /\ work \in [Ids -> {"none", "running", "done", "stopped"}]
      /\ \A j \in Ids : work[j] = "running" <=> running = j
      /\ \A m, n \in 1..Len(wire) : wire[m] = wire[n] => m = n
  BY <1>1 DEF LinkTypeOK, CInv, Once
<1>4. \A j \in Ids : InWire(j)' => InWire(j)
  BY <1>2 DEF InWire
<1>5. Adds({<<0, "OK">>})
  BY <1>1, SaysOne
<1>6. /\ \A m, n \in 1..Len(wire') : wire'[m] = wire'[n] => m = n
      /\ \A j \in Ids : work'[j] = "running" <=> running' = j
      /\ wire' \in Seq(1..nextId) /\ booting' \in BOOLEAN
      /\ running' \in 0..nextId /\ moved' \in 0..nextId
      /\ work' \in [Ids -> {"none", "running", "done", "stopped"}]
  BY <1>2, <1>3
<1> DEFINE touched == {}
<1>8. /\ \A j \in touched : work[j] = "running" \/ InWire(j)
      /\ \A j \in Ids : j \notin touched => work'[j] = work[j]
      /\ \A j \in touched : kind[j] # "STATE?"
      /\ \A j \in Ids : InWire(j)' => InWire(j) /\ j \notin touched
  BY <1>2, <1>4
<1> HIDE DEF touched
<1> DEFINE new == {<<0, "OK">>}
<1>9. Adds(new) /\ \A j \in Ids, q \in Reports : <<j, q>> \notin new
  BY <1>5
<1> HIDE DEF new
<1> QED BY <1>2, <1>6, <1>8, <1>9, MachineCInv

\* The motion underway ends.
LEMMA FinishesCInv ==
  ASSUME CInv, IInv, Finishes, UNCHANGED facade
  PROVE  CInv'
PROOF
<1>1. LinkTypeOK /\ nextId \in Nat /\ -1 \in -1..nextId /\ running \in 0..nextId
      /\ 0 \in 0..nextId /\ moved \in 0..nextId /\ booting \in BOOLEAN
  BY DEF CInv, TypeOK, LinkTypeOK
<1>2. /\ running # 0 /\ running' = 0
      /\ UNCHANGED <<sends, scheduled, latch, cached, threads, writers, wire, booting,
                     tasks>>
  BY DEF Finishes
<1>3. PICK h \in Ids : /\ running = h /\ work[h] = "running" /\ kind[h] # "STATE?"
                       /\ h \in 0..nextId
  BY <1>1, <1>2 DEF IInv, Types, Fresh, LinkTypeOK
<1>4. PICK r \in Replies :
        /\ work' = [work EXCEPT ![h] = IF r = "OK" THEN "done" ELSE "stopped"]
        /\ moved' \in {moved, h} /\ r \in {"OK", "STUCK"}
        /\ Says(<<[id |-> h, r |-> r, at |-> -1]>>)
  BY <1>1, <1>3 DEF Finishes, Replies, Reply
<1>5. h \notin writers /\ ~InWire(h)
  BY <1>3 DEF CInv, Once, InWire
<1>6. /\ wire \in Seq(1..nextId)
      /\ work' \in [Ids -> {"none", "running", "done", "stopped"}]
      /\ \A j \in Ids : j # h => work'[j] = work[j]
      /\ work'[h] = IF r = "OK" THEN "done" ELSE "stopped"
      /\ \A j \in Ids : work[j] = "running" <=> h = j
      /\ \A m, n \in 1..Len(wire) : wire[m] = wire[n] => m = n
  BY <1>1, <1>3, <1>4 DEF LinkTypeOK, CInv, Once
<1>7. /\ \A j \in Ids : InWire(j)' => InWire(j) /\ j # h
      /\ Right(h, r)'
  BY <1>2, <1>4, <1>5, <1>6 DEF InWire, Right
<1>8. \A j \in Ids : work'[j] = "running" <=> running' = j
  BY <1>2, <1>6
<1> DEFINE new == {<<h, r>>}
<1>9. /\ Adds(new)
      /\ \A j \in Ids, q \in Reports :
           <<j, q>> \in new => kind[j] = "STATE?" \/ Right(j, q)'
  <2>1. LinkTypeOK /\ h \in 0..nextId /\ r \in Replies /\ -1 \in -1..nextId
        /\ Says(<<[id |-> h, r |-> r, at |-> -1]>>)
    BY <1>1, <1>3, <1>4
  <2>2. Adds(new)
    BY <2>1, SaysOne
  <2>3. \A j \in Ids, q \in Reports : <<j, q>> \in new => Right(j, q)'
    BY <1>7 DEF Right, InWire
  <2> QED BY <2>2, <2>3
<1> DEFINE touched == {h}
<1>10. /\ \A j \in touched : work[j] = "running" \/ InWire(j)
       /\ \A j \in Ids : j \notin touched => work'[j] = work[j]
       /\ \A j \in touched : kind[j] # "STATE?"
       /\ \A j \in Ids : InWire(j)' => InWire(j) /\ j \notin touched
  BY <1>3, <1>6, <1>7
<1> HIDE DEF touched, new
<1>11. running' \in 0..nextId /\ moved' \in 0..nextId /\ booting' \in BOOLEAN
       /\ wire' \in Seq(1..nextId)
       /\ \A m, n \in 1..Len(wire') : wire'[m] = wire'[n] => m = n
  BY <1>1, <1>2, <1>3, <1>4, <1>6
<1> QED BY <1>2, <1>6, <1>8, <1>9, <1>10, <1>11, MachineCInv

\* The machine takes the line at the head of the wire, once.
LEMMA TakesWire ==
  ASSUME CInv, IInv, NEW i \in Ids, Takes(i)
  PROVE  /\ UNCHANGED <<sends, scheduled, latch, cached, threads, writers, booting,
                        tasks>>
         /\ wire' \in Seq(1..nextId) /\ i \in 0..nextId
         /\ InWire(i) /\ work[i] = "none" /\ i \notin writers /\ ~InWire(i)'
         /\ \A j \in Ids : InWire(j)' => InWire(j) /\ j # i
         /\ \A m, n \in 1..Len(wire') : wire'[m] = wire'[n] => m = n
PROOF
<1>1. /\ wire # <<>> /\ i = Head(wire) /\ wire' = Tail(wire)
      /\ UNCHANGED <<sends, scheduled, latch, cached, threads, writers, booting,
                     tasks>>
  BY DEF Takes
<1>2. wire \in Seq(1..nextId)
  BY DEF CInv, TypeOK, LinkTypeOK
<1>3. /\ wire' \in Seq(1..nextId) /\ 1 \in 1..Len(wire) /\ i = wire[1]
      /\ \A n \in 1..Len(wire') : /\ n + 1 \in 1..Len(wire) /\ n + 1 # 1
                                  /\ wire'[n] = wire[n + 1]
  BY <1>1, <1>2
<1>4. i \in 1..nextId
  BY <1>2, <1>3, SeqElement
<1>5. InWire(i) /\ work[i] = "none" /\ i \notin writers
  BY <1>3 DEF CInv, Once, InWire
<1>6. \A n \in 1..Len(wire') : wire'[n] # i
  BY <1>3 DEF CInv, Once
<1>7. ~InWire(i)' /\ \A j \in Ids : InWire(j)' => InWire(j) /\ j # i
  BY <1>3, <1>6 DEF InWire
<1>8. \A m, n \in 1..Len(wire') : wire'[m] = wire'[n] => m = n
  <2> SUFFICES ASSUME NEW m \in 1..Len(wire'), NEW n \in 1..Len(wire'),
                      wire'[m] = wire'[n]
               PROVE  m = n
    OBVIOUS
  <2>1. m + 1 = n + 1
    BY <1>3 DEF CInv, Once
  <2>2. m \in Int /\ n \in Int
    OBVIOUS
  <2> QED BY <2>1, <2>2
<1>9. i \in 0..nextId
  <2>1. nextId \in Nat
    BY DEF IInv, Types
  <2> QED BY <1>4, <2>1
<1> QED BY <1>1, <1>3, <1>5, <1>7, <1>8, <1>9

\* A line that changes nothing: swallowed, a query, or refused.
LEMMA TakesIdleCInv ==
  ASSUME CInv, IInv, NEW i \in Ids, UNCHANGED facade,
         TakesNothing(i) \/ TakesQuery(i) \/ TakesBusy(i)
  PROVE  CInv'
PROOF
<1>1. Takes(i) /\ UNCHANGED <<running, work, moved>>
  BY DEF TakesNothing, TakesQuery, TakesBusy
<1>2. /\ LinkTypeOK /\ nextId \in Nat /\ -1 \in -1..nextId
      /\ rx \in Seq([id : 0..nextId, r : Replies, at : -1..nextId])
      /\ moved \in 0..nextId /\ running \in 0..nextId /\ booting \in BOOLEAN
      /\ lost \subseteq 0..nextId
      /\ work \in [Ids -> {"none", "running", "done", "stopped"}]
      /\ \A j \in Ids : work[j] = "running" <=> running = j
  <2>1. LinkTypeOK
    BY DEF CInv, TypeOK
  <2>2. nextId \in Nat /\ -1 \in -1..nextId
    BY <2>1 DEF LinkTypeOK
  <2> QED BY <2>1, <2>2 DEF LinkTypeOK
<1>3. i \in 0..nextId
  BY <1>1, TakesWire
<1>4. \E new : /\ Adds(new)
               /\ \A j \in Ids, q \in Reports :
                    <<j, q>> \in new => kind[j] = "STATE?" \/ Right(j, q)'
  <2>1. CASE TakesNothing(i)
    <3>1. Adds({})
      BY <1>2, <1>3, <2>1 DEF TakesNothing, Adds
    <3> QED BY <3>1
  <2>2. CASE TakesQuery(i)
    <3>1. /\ kind[i] = "STATE?"
          /\ \E at \in 0..nextId : Says(<<[id |-> i, r |-> "OK", at |-> at]>>)
      BY <1>2, <2>2 DEF TakesQuery
    <3>2. PICK at \in 0..nextId : Says(<<[id |-> i, r |-> "OK", at |-> at]>>)
      BY <3>1
    <3>3. LinkTypeOK /\ i \in 0..nextId /\ at \in -1..nextId /\ "OK" \in Replies
      BY <1>2, <1>3 DEF Replies
    <3>4. Adds({<<i, "OK">>})
      BY <3>2, <3>3, SaysOne
    <3> QED BY <3>1, <3>4
  <2>3. CASE TakesBusy(i)
    <3>1. /\ Says(<<[id |-> i, r |-> "BUSY", at |-> -1]>>) /\ "BUSY" \in Replies
          /\ LinkTypeOK /\ i \in 0..nextId /\ -1 \in -1..nextId
      BY <1>2, <1>3, <2>3 DEF TakesBusy, Reply, Replies
    <3>2. Adds({<<i, "BUSY">>})
      BY <3>1, SaysOne
    <3>3. /\ i \notin writers' /\ work'[i] = "none" /\ ~InWire(i)'
      BY <1>1, TakesWire
    <3>4. \A j \in Ids, q \in Reports : <<j, q>> \in {<<i, "BUSY">>} => Right(j, q)'
      BY <3>3 DEF Right, InWire
    <3> QED BY <3>2, <3>4
  <2> QED BY <2>1, <2>2, <2>3
<1> DEFINE touched == {}
<1>5. /\ \A j \in touched : work[j] = "running" \/ InWire(j)
      /\ \A j \in Ids : j \notin touched => work'[j] = work[j]
      /\ \A j \in touched : kind[j] # "STATE?"
      /\ \A j \in Ids : InWire(j)' => InWire(j) /\ j \notin touched
      /\ wire' \in Seq(1..nextId)
      /\ \A m, n \in 1..Len(wire') : wire'[m] = wire'[n] => m = n
      /\ UNCHANGED <<sends, scheduled, latch, cached, threads, writers, booting, tasks>>
  BY <1>1, TakesWire
<1>6. /\ \A j \in Ids : work'[j] = "running" <=> running' = j
      /\ running' \in 0..nextId /\ moved' \in 0..nextId /\ booting' \in BOOLEAN
      /\ work' \in [Ids -> {"none", "running", "done", "stopped"}]
  BY <1>1, <1>2, <1>5
<1> HIDE DEF touched
<1> QED BY <1>4, <1>5, <1>6, MachineCInv

\* A HALT: the motion underway is answered as halted, the HALT as done.
LEMMA TakesHaltCInv ==
  ASSUME CInv, IInv, NEW i \in Ids, UNCHANGED facade, TakesHalt(i)
  PROVE  CInv'
PROOF
<1>1. /\ Takes(i) /\ kind[i] = "HALT" /\ running' = 0 /\ moved' = moved
      /\ work' = [j \in Ids |-> IF j = i THEN "done"
                                ELSE IF j = running THEN "stopped" ELSE work[j]]
  BY DEF TakesHalt
<1>2. /\ LinkTypeOK /\ nextId \in Nat /\ -1 \in -1..nextId /\ 0 \in 0..nextId
      /\ moved \in 0..nextId /\ running \in 0..nextId /\ booting \in BOOLEAN
      /\ work \in [Ids -> {"none", "running", "done", "stopped"}]
      /\ \A j \in Ids : work[j] = "running" <=> running = j
  BY DEF CInv, TypeOK, LinkTypeOK
<1>3. /\ i \in 0..nextId /\ InWire(i) /\ work[i] = "none" /\ i \notin writers'
      /\ ~InWire(i)' /\ wire' \in Seq(1..nextId)
      /\ \A j \in Ids : InWire(j)' => InWire(j) /\ j # i
      /\ \A m, n \in 1..Len(wire') : wire'[m] = wire'[n] => m = n
      /\ UNCHANGED <<sends, scheduled, latch, cached, threads, writers, booting, tasks>>
  BY <1>1, TakesWire
<1>4. running \in Ids => /\ running \notin writers' /\ ~InWire(running)
                         /\ running # i /\ kind[running] # "STATE?"
  BY <1>2, <1>3 DEF CInv, Once, InWire, IInv, Fresh
<1>5. /\ work' \in [Ids -> {"none", "running", "done", "stopped"}]
      /\ work'[i] = "done" /\ (running \in Ids => work'[running] = "stopped")
      /\ \A j \in Ids : j # i /\ j # running => work'[j] = work[j]
      /\ \A j \in Ids : work'[j] = "running" <=> running' = j
  BY <1>1, <1>2, <1>3, <1>4
<1>6. \E new : /\ Adds(new)
               /\ \A j \in Ids, q \in Reports :
                    <<j, q>> \in new => kind[j] = "STATE?" \/ Right(j, q)'
  <2>1. CASE running = 0
    <3>1. /\ Says(<<[id |-> i, r |-> "OK", at |-> -1]>>) /\ "OK" \in Replies
          /\ LinkTypeOK /\ i \in 0..nextId /\ -1 \in -1..nextId
      BY <1>2, <1>3, <2>1 DEF TakesHalt, Reply, Replies
    <3>2. Adds({<<i, "OK">>})
      BY <3>1, SaysOne
    <3>3. \A j \in Ids, q \in Reports : <<j, q>> \in {<<i, "OK">>} => Right(j, q)'
      BY <1>3, <1>5 DEF Right, InWire
    <3> QED BY <3>2, <3>3
  <2>2. CASE running # 0
    <3>1. PICK h \in Ids : h = running /\ h \in 0..nextId
      BY <1>2, <2>2 DEF IInv, Fresh
    <3>2. /\ Says(<<Reply(h, "HALTED"), Reply(i, "OK")>>)
          /\ LinkTypeOK /\ i \in 0..nextId /\ h \in 0..nextId
      BY <1>2, <1>3, <2>2, <3>1 DEF TakesHalt
    <3>3. Adds({<<h, "HALTED">>, <<i, "OK">>})
      BY <3>2, SaysTwo
    <3>4. /\ h \notin writers' /\ ~InWire(h)' /\ work'[h] = "stopped"
      BY <1>3, <1>4, <1>5, <3>1
    <3>5. \A j \in Ids, q \in Reports :
            <<j, q>> \in {<<h, "HALTED">>, <<i, "OK">>} => Right(j, q)'
      BY <1>3, <1>5, <3>4 DEF Right, InWire
    <3> QED BY <3>3, <3>5
  <2> QED BY <2>1, <2>2
<1> DEFINE touched == {j \in Ids : j = i \/ j = running}
<1>7. /\ \A j \in touched : work[j] = "running" \/ InWire(j)
      /\ \A j \in Ids : j \notin touched => work'[j] = work[j]
      /\ \A j \in touched : kind[j] # "STATE?"
      /\ \A j \in Ids : InWire(j)' => InWire(j) /\ j \notin touched
  BY <1>1, <1>2, <1>3, <1>4, <1>5
<1>8. running' \in 0..nextId /\ moved' \in 0..nextId /\ booting' \in BOOLEAN
  BY <1>1, <1>2, <1>3
<1> HIDE DEF touched
<1> QED BY <1>3, <1>5, <1>6, <1>7, <1>8, MachineCInv

\* A servo command is done at once, a motion begins.
LEMMA TakesWorkCInv ==
  ASSUME CInv, IInv, NEW i \in Ids, UNCHANGED facade,
         TakesServo(i) \/ TakesMotion(i)
  PROVE  CInv'
PROOF
<1>1. /\ LinkTypeOK /\ nextId \in Nat /\ -1 \in -1..nextId
      /\ moved \in 0..nextId /\ booting \in BOOLEAN
      /\ rx \in Seq([id : 0..nextId, r : Replies, at : -1..nextId])
      /\ lost \subseteq 0..nextId
      /\ work \in [Ids -> {"none", "running", "done", "stopped"}]
      /\ \A j \in Ids : work[j] = "running" <=> running = j
  <2>1. LinkTypeOK
    BY DEF CInv, TypeOK
  <2>2. nextId \in Nat /\ -1 \in -1..nextId
    BY <2>1 DEF LinkTypeOK
  <2> QED BY <2>1, <2>2 DEF LinkTypeOK
<1>2. /\ Takes(i) /\ kind[i] # "STATE?" /\ running = 0 /\ moved' = moved
      /\ running' \in {0, i}
      /\ work' = [work EXCEPT ![i] = IF running' = 0 THEN "done" ELSE "running"]
      /\ 0 \notin Ids
  BY <1>1 DEF TakesServo, TakesMotion
<1>3. /\ i \in 0..nextId /\ InWire(i) /\ work[i] = "none" /\ i \notin writers'
      /\ ~InWire(i)' /\ wire' \in Seq(1..nextId)
      /\ \A j \in Ids : InWire(j)' => InWire(j) /\ j # i
      /\ \A m, n \in 1..Len(wire') : wire'[m] = wire'[n] => m = n
      /\ UNCHANGED <<sends, scheduled, latch, cached, threads, writers, booting, tasks>>
  BY <1>2, TakesWire
<1>4. /\ work' \in [Ids -> {"none", "running", "done", "stopped"}]
      /\ work'[i] = IF running' = 0 THEN "done" ELSE "running"
      /\ \A j \in Ids : j # i => work'[j] = work[j]
      /\ \A j \in Ids : work'[j] = "running" <=> running' = j
  BY <1>1, <1>2
<1>5. \E new : /\ Adds(new)
               /\ \A j \in Ids, q \in Reports :
                    <<j, q>> \in new => kind[j] = "STATE?" \/ Right(j, q)'
  <2>1. CASE TakesServo(i)
    <3>1. /\ Says(<<[id |-> i, r |-> "OK", at |-> -1]>>) /\ "OK" \in Replies
          /\ LinkTypeOK /\ i \in 0..nextId /\ -1 \in -1..nextId
      BY <1>1, <1>3, <2>1 DEF TakesServo, Reply, Replies
    <3>2. Adds({<<i, "OK">>})
      BY <3>1, SaysOne
    <3>3. work'[i] = "done"
      BY <1>2, <1>4, <2>1 DEF TakesServo
    <3>4. \A j \in Ids, q \in Reports : <<j, q>> \in {<<i, "OK">>} => Right(j, q)'
      BY <1>3, <3>3 DEF Right, InWire
    <3> QED BY <3>2, <3>4
  <2>2. CASE TakesMotion(i)
    <3>1. Adds({})
      BY <1>1, <2>2 DEF TakesMotion, Adds
    <3> QED BY <3>1
  <2> QED BY <2>1, <2>2
<1> DEFINE touched == {i}
<1>6. /\ \A j \in touched : work[j] = "running" \/ InWire(j)
      /\ \A j \in Ids : j \notin touched => work'[j] = work[j]
      /\ \A j \in touched : kind[j] # "STATE?"
      /\ \A j \in Ids : InWire(j)' => InWire(j) /\ j \notin touched
  BY <1>2, <1>3, <1>4
<1>7. running' \in 0..nextId /\ moved' \in 0..nextId /\ booting' \in BOOLEAN
  BY <1>1, <1>2, <1>3
<1> HIDE DEF touched
<1> QED BY <1>3, <1>4, <1>5, <1>6, <1>7, MachineCInv

\* The cable is pulled: fewer lines, no new claims.
LEMMA UnpluggedCInv ==
  ASSUME CInv, Unplugged, UNCHANGED facade
  PROVE  CInv'
PROOF
<1>1. LinkTypeOK
  BY DEF CInv, TypeOK
<1>2. /\ port' = "broken" /\ wire' = <<>> /\ rx' = <<>>
      /\ lost' = lost \cup {wire[n] : n \in 1..Len(wire)}
                      \cup {rx[n].id : n \in 1..Len(rx)}
      /\ UNCHANGED <<sends, scheduled, latch, cached, sim, reading, ready, writers,
                     machine, tasks>>
  BY DEF Unplugged
<1>3. LinkTypeOK'
  <2>1. \A n \in 1..Len(rx) : rx[n].id \in 0..nextId
    <3>1. \A n \in 1..Len(rx) : rx[n] \in [id : 0..nextId, r : Replies, at : -1..nextId]
      <4>1. rx \in Seq([id : 0..nextId, r : Replies, at : -1..nextId])
        BY <1>1 DEF LinkTypeOK
      <4> QED BY <4>1, SeqElement
    <3> QED BY <3>1
  <2>2. \A n \in 1..Len(wire) : wire[n] \in 0..nextId
    <3>1. nextId \in Nat /\ wire \in Seq(1..nextId)
      BY <1>1 DEF LinkTypeOK
    <3>2. \A n \in 1..Len(wire) : wire[n] \in 1..nextId
      BY <3>1, SeqElement
    <3> QED BY <3>1, <3>2
  <2>3. lost' \subseteq 0..nextId
    <3>1. lost \subseteq 0..nextId
      BY <1>1 DEF LinkTypeOK
    <3> QED BY <1>2, <2>1, <2>2, <3>1
  <2>4. wire' \in Seq(1..nextId)
        /\ rx' \in Seq([id : 0..nextId, r : Replies, at : -1..nextId])
    BY <1>2
  <2> QED BY <1>1, <1>2, <2>3, <2>4
          DEF LinkTypeOK, sends, latch, machine, tasks
<1>4. TypeOK'
  BY <1>3, FacadeTypes DEF CInv
<1>5. \A j \in Ids, q \in Reports : Claimed(j, q)' => Claimed(j, q)
  BY <1>2 DEF Claimed, sends
<1>6. Reported' /\ Once'
  BY <1>2, <1>5 DEF CInv, Reported, Plain, Once, Right, InWire, sends, machine
<1>7. Held' /\ Told' /\ Blank'
  BY <1>2 DEF CInv, Held, Plain, Told, Blank, sends, tasks, facade
<1> QED BY <1>4, <1>6, <1>7 DEF CInv

\* The service stops: who still waits is cancelled and told nothing.
LEMMA StopCInv ==
  ASSUME CInv, Stop
  PROVE  CInv'
PROOF
<1>1. LinkTypeOK /\ nextId \in Nat
  BY DEF CInv, TypeOK, LinkTypeOK
<1>2. /\ phase' = "stopped" /\ active' = "none" /\ tool' = 0 /\ refresh' = 0
      /\ reading' = FALSE /\ port' = "closed" /\ rx' = <<>>
      /\ lost' = lost \cup {rx[n].id : n \in 1..Len(rx)}
      /\ call' = [i \in Ids |-> IF i \in Waiting THEN "returned" ELSE call[i]]
      /\ told' = [i \in Ids |-> IF i \in Waiting THEN "CANCELLED" ELSE told[i]]
      /\ fut' = [i \in Ids |-> IF i \in Waiting /\ call[i] = "waiting"
                                 THEN "cancelled" ELSE fut[i]]
      /\ UNCHANGED <<nextId, kind, pending, scheduled, latch, cached, sim, ready,
                     writers, wire, machine, poll, mode, serial_port, start_error>>
  BY DEF Stop, CallsCancelled
<1>3. \A i \in Waiting : i <= nextId
  BY <1>1 DEF Waiting, LinkTypeOK
<1>4. LinkTypeOK'
  <2>1. /\ call' \in [Ids -> {"none", "writing", "waiting", "returned"}]
        /\ told' \in [Ids -> Results \cup {"none"}]
        /\ fut' \in [Ids -> Replies \cup {"none", "open", "cancelled"}]
    BY <1>1, <1>2 DEF LinkTypeOK, Results
  <2>2. \A j \in Ids : call'[j] = "waiting" => fut'[j] = "open"
    BY <1>1, <1>2 DEF LinkTypeOK
  <2>3. \A n \in 1..Len(rx) : rx[n].id \in 0..nextId
    <3>1. \A n \in 1..Len(rx) : rx[n] \in [id : 0..nextId, r : Replies, at : -1..nextId]
      <4>1. rx \in Seq([id : 0..nextId, r : Replies, at : -1..nextId])
        BY <1>1 DEF LinkTypeOK
      <4> QED BY <4>1, SeqElement
    <3> QED BY <3>1
  <2>4. lost' \subseteq 0..nextId
        /\ rx' \in Seq([id : 0..nextId, r : Replies, at : -1..nextId])
    <3>1. lost \subseteq 0..nextId
      BY <1>1 DEF LinkTypeOK
    <3>2. lost' \subseteq 0..nextId
      BY <1>2, <2>3, <3>1
    <3> QED BY <1>2, <3>2
  <2>5. {sim', reading', ready', booting'} \subseteq BOOLEAN
    <3>1. {sim, ready, booting} \subseteq BOOLEAN
      BY <1>1 DEF LinkTypeOK
    <3> QED BY <1>2, <3>1 DEF machine
  <2>6. {tool', refresh', poll'} \subseteq 0..nextId
    <3>1. poll \in 0..nextId /\ 0 \in 0..nextId
      BY <1>1 DEF LinkTypeOK
    <3> QED BY <1>2, <3>1
  <2>7. UNCHANGED <<nextId, kind, pending, scheduled, emergency_stopped, resetAt,
                    cached, running, moved, work, writers, wire>>
        /\ port' = "closed"
    BY <1>2 DEF latch, machine
  <2>8. /\ nextId \in 0..(MaxIds + 1) /\ kind \in [Ids -> Kinds \cup {"none"}]
        /\ pending \subseteq 1..nextId /\ scheduled \subseteq (1..nextId) \X Replies
        /\ emergency_stopped \in BOOLEAN /\ resetAt \in 0..nextId
        /\ {cached, running, moved} \subseteq 0..nextId
        /\ writers \subseteq 1..nextId /\ wire \in Seq(1..nextId)
        /\ work \in [Ids -> {"none", "running", "done", "stopped"}]
        /\ \A i \in Ids : work[i] = "running" <=> running = i
    BY <1>1 DEF LinkTypeOK
  <2> QED BY <2>1, <2>2, <2>4, <2>5, <2>6, <2>7, <2>8 DEF LinkTypeOK
<1>5. TypeOK'
  BY <1>2, <1>4 DEF CInv, TypeOK
<1>6. \A j \in Ids, q \in Reports : Claimed(j, q)' => Claimed(j, q)
  BY <1>2 DEF Claimed, Reports, Replies
<1>7. Reported' /\ Once'
  <2>1. \A j \in Ids : Plain(j)' => Plain(j)
    BY <1>2 DEF Plain, Waiting, CInv, Told
  <2> QED BY <1>2, <1>6, <2>1 DEF CInv, Reported, Once, Right, InWire, machine
<1>8. Held'
  BY <1>2 DEF Held
<1>9. Told'
  BY <1>2 DEF CInv, Told
<1>10. Blank'
  BY <1>1, <1>2, <1>3 DEF CInv, Blank
<1> QED BY <1>5, <1>7, <1>8, <1>9, <1>10 DEF CInv

-----------------------------------------------------------------------------
\* The threads, the machine and the cable.
LEMMA EnvironmentCInv ==
  ASSUME CInv, IInv, Environment
  PROVE  CInv'
PROOF
<1>1. UNCHANGED facade
  BY DEF Environment
<1>2. CASE Loop
  BY <1>1, <1>2, HomeZRefreshesCInv, ToolReturnsCInv, ResolvesCInv DEF Loop
<1>3. CASE Machine
  BY <1>1, <1>3, BootsCInv, FinishesCInv, TakesIdleCInv, TakesHaltCInv, TakesWorkCInv
     DEF Machine, MachineTakes
<1>4. ASSUME NEW i \in Ids, Send(i)
      PROVE  CInv'
  BY <1>1, <1>4, WriteLineCInv, WriteFailsCInv, FlushEndsCInv, FlushFailsCInv,
     TimeoutCInv DEF Send
<1> QED BY <1>1, <1>2, <1>3, <1>4, HandleLineCInv, UnpluggedCInv DEF Environment

\* Every step preserves the invariant.
LEMMA NextCInv == CInv /\ IInv /\ [Next]_vars => CInv'
PROOF
<1> SUFFICES ASSUME CInv, IInv, [Next]_vars PROVE CInv'
  OBVIOUS
<1>1. CASE UNCHANGED vars \/ Settled
  <2>1. UNCHANGED vars
    BY <1>1 DEF Settled
  <2>2. TypeOK'
    BY <2>1 DEF CInv, TypeOK, LinkTypeOK, vars, facade, linkVars, sends, latch,
                threads, line, machine, tasks
  <2> QED BY <2>1, <2>2, IrrelevantCInv
          DEF claims, vars, facade, linkVars, sends, threads, line, machine, tasks
<1> QED BY <1>1, StartCInv, AtWorkCInv, EnvironmentCInv, StopCInv DEF Next

\* The invariant holds in every behaviour.
LEMMA InductiveC == Spec => []CInv
BY InitCInv, NextCInv, Inductive, PTL DEF Spec

\* The types of the controller: in particular, whoever waits for an answer has an
\* open future, and no id is issued beyond the refresh of the last home_z.
THEOREM TypeCorrect == Spec => []TypeOK
BY InductiveC, PTL DEF CInv

-----------------------------------------------------------------------------
\* Of a caller on its way through _send: it stays where it is, waits, or returns
\* with the result of its future, an exception or a timeout.
LEMMA SendSteps ==
  ASSUME CInv, NEW i \in Ids, Send(i)
  PROVE  /\ UNCHANGED <<nextId, kind, scheduled, latch, cached, threads, rx, lost,
                        machine, tasks>>
         /\ \A j \in Ids : j # i => /\ call'[j] = call[j] /\ told'[j] = told[j]
                                    /\ fut'[j] = fut[j]
         /\ fut'[i] \in {fut[i], "cancelled"}
         /\ \/ call'[i] = call[i] /\ told'[i] = told[i]
            \/ call[i] = "writing" /\ call'[i] = "waiting" /\ told'[i] = told[i]
            \/ /\ call[i] \in {"writing", "waiting"} /\ call'[i] = "returned"
               /\ \/ told'[i] = fut[i] /\ fut[i] \in Results
                  \/ told'[i] = "TIMEOUT"
                  \/ told'[i] \in {"ERR", "RAISED"} /\ port # "open"
PROOF
<1>1. /\ call \in [Ids -> {"none", "writing", "waiting", "returned"}]
      /\ told \in [Ids -> Results \cup {"none"}]
      /\ fut \in [Ids -> Replies \cup {"none", "open", "cancelled"}]
  BY DEF CInv, TypeOK, LinkTypeOK
<1>2. CASE WriteLine(i)
  BY <1>2 DEF WriteLine, sends
<1>3. CASE WriteFails(i)
  BY <1>1, <1>3 DEF WriteFails
<1>4. CASE FlushEnds(i)
  BY <1>1, <1>4 DEF FlushEnds, Flushing, Written, line
<1>5. CASE FlushFails(i)
  BY <1>1, <1>5 DEF FlushFails, Flushing, line
<1>6. CASE Timeout(i)
  BY <1>1, <1>6 DEF Timeout, line
<1> QED BY <1>2, <1>3, <1>4, <1>5, <1>6 DEF Send

\* Of a command that is about to be issued nothing is known.
LEMMA IdFresh ==
  ASSUME CInv, IInv, id \in Ids
  PROVE  told[id] = "none" /\ work[id] = "none"
PROOF
<1>1. id > nextId
  BY DEF IInv, Types, id
<1> QED BY <1>1 DEF CInv, Blank, Told, IInv, Fresh

\* A command keeps its keyword.
LEMMA KindSteps ==
  ASSUME CInv, IInv, [Next]_vars, NEW c \in Ids
  PROVE  kind'[c] = kind[c] \/ c = id
PROOF
<1>1. ASSUME NEW k \in Kinds, SendBegins(k) \/ SimSend(k)
      PROVE  kind'[c] = kind[c] \/ c = id
  BY <1>1 DEF SendBegins, SimSend, CInv, TypeOK, LinkTypeOK
<1>2. CASE kind' = kind
  BY <1>2
<1>3. CASE AtWork
  <2>1. kind' = kind \/ \E k \in Kinds : SendBegins(k) \/ SimSend(k)
    BY <1>3 DEF AtWork, Tools, move_axis, lower_claw, raise_claw, home, open_claw,
                close_claw, home_z, Guarded, Issue, halt, reset_emergency, Poll, sends
  <2> QED BY <1>1, <1>2, <2>1
<1>4. CASE StartSim \/ StartOpens \/ StartFails \/ StartEnds \/ Stop \/ Settled
           \/ UNCHANGED vars
  BY <1>2, <1>4 DEF StartSim, StartOpens, StartFails, StartEnds, Stop, Settled, vars,
                    linkVars, sends
<1>5. CASE Environment
  <2>1. CASE Loop
    <3>1. kind' = kind \/ SendBegins("STATE?")
      BY <2>1 DEF Loop, HomeZRefreshes, ToolReturns, Resolves, sends
    <3> QED BY <1>1, <3>1
  <2>2. CASE _handle_line \/ Unplugged \/ \E i \in Ids : Send(i)
    BY <2>2 DEF _handle_line, Unplugged, Send, WriteLine, WriteFails, FlushEnds,
                FlushFails, Flushing, Timeout, sends
  <2>3. CASE Machine
    BY <2>3 DEF Machine, Boots, Finishes, MachineTakes, TakesNothing, TakesQuery,
                TakesHalt, TakesBusy, TakesServo, TakesMotion, Takes, sends
  <2> QED BY <1>5, <2>1, <2>2, <2>3 DEF Environment
<1> QED BY <1>3, <1>4, <1>5 DEF Next

\* A caller is told once.
LEMMA ToldSteps ==
  ASSUME CInv, IInv, [Next]_vars, NEW c \in Ids
  PROVE  told'[c] = told[c] \/ told[c] = "none"
PROOF
<1>1. told \in [Ids -> Results \cup {"none"}]
  BY DEF CInv, TypeOK, LinkTypeOK
<1>2. call[c] # "returned" => told[c] = "none"
  BY DEF CInv, Told
<1>3. CASE told' = told
  BY <1>3
<1>4. ASSUME NEW k \in Kinds, nextId <= MaxIds, SimSend(k)
      PROVE  told'[c] = told[c] \/ told[c] = "none"
  <2>1. id \in Ids
    BY <1>4 DEF IInv, Types, id
  <2> QED BY <1>1, <1>4, <2>1, IdFresh DEF SimSend
<1>5. CASE AtWork
  <2>1. told' = told \/ \E k \in Kinds : SimSend(k) /\ nextId < MaxIds
    BY <1>5 DEF AtWork, Tools, move_axis, lower_claw, raise_claw, home, open_claw,
                close_claw, home_z, Guarded, Issue, halt, reset_emergency, Poll, sends,
                SendBegins
  <2> QED BY <1>3, <1>4, <2>1 DEF IInv, Types
<1>6. CASE Stop
  BY <1>1, <1>2, <1>6 DEF Stop, CallsCancelled, Waiting
<1>7. CASE Environment
  <2>1. ASSUME NEW i \in Ids, Send(i)
        PROVE  told'[c] = told[c] \/ told[c] = "none"
    BY <1>2, <2>1, SendSteps
  <2>2. ASSUME NEW i \in Ids, NEW r \in Results, Resolves(i, r)
        PROVE  told'[c] = told[c] \/ told[c] = "none"
    BY <1>1, <1>2, <2>2 DEF Resolves
  <2>3. CASE HomeZRefreshes \/ ToolReturns \/ _handle_line \/ Unplugged
    BY <2>3 DEF HomeZRefreshes, SendBegins, ToolReturns, _handle_line, Unplugged,
                sends
  <2>4. CASE Machine
    BY <2>4 DEF Machine, Boots, Finishes, MachineTakes, TakesNothing, TakesQuery,
                TakesHalt, TakesBusy, TakesServo, TakesMotion, Takes, sends
  <2> QED BY <1>7, <2>1, <2>2, <2>3, <2>4 DEF Environment, Loop
<1>8. CASE StartSim \/ StartOpens \/ StartFails \/ StartEnds \/ Settled
           \/ UNCHANGED vars
  BY <1>8 DEF StartSim, StartOpens, StartFails, StartEnds, Settled, vars, linkVars,
              sends
<1> QED BY <1>5, <1>6, <1>7, <1>8 DEF Next

\* What is said without knowing the end.
GaveUp == {"none", "TIMEOUT", "CANCELLED", "ERR", "RAISED"}

\* Nothing is claimed of a line on the wire, unless by an exception of the port.
LEMMA WireUnclaimed ==
  ASSUME CInv, NEW i \in Ids, InWire(i), kind[i] # "STATE?"
  PROVE  told[i] \in GaveUp
PROOF
<1>1. told[i] \notin Reports
  BY DEF CInv, Reported, Plain, Claimed, Right, Reports, Replies
<1>2. told[i] \in Results \cup {"none"}
  BY DEF CInv, TypeOK, LinkTypeOK
<1> QED BY <1>1, <1>2 DEF Results, Reports, GaveUp

\* The machine begins a command once, and not after its caller heard the end of it.
LEMMA WorkSteps ==
  ASSUME CInv, IInv, [Next]_vars, NEW c \in Ids
  PROVE  \/ work'[c] = work[c]
         \/ /\ work[c] = "none" /\ work'[c] \in {"running", "done"}
            /\ told[c] \in GaveUp
         \/ work[c] = "running" /\ work'[c] \in {"done", "stopped"}
PROOF
<1> DEFINE Goal == \/ work'[c] = work[c]
                   \/ /\ work[c] = "none" /\ work'[c] \in {"running", "done"}
                      /\ told[c] \in GaveUp
                   \/ work[c] = "running" /\ work'[c] \in {"done", "stopped"}
<1>1. /\ work \in [Ids -> {"none", "running", "done", "stopped"}]
      /\ \A j \in Ids : work[j] = "running" <=> running = j
  BY DEF CInv, TypeOK, LinkTypeOK
<1>2. CASE work' = work
  BY <1>2
<1>3. ASSUME NEW k \in Kinds, nextId < MaxIds, SimSend(k)
      PROVE  Goal
  <2>1. id \in Ids
    BY <1>3 DEF IInv, Types, id
  <2> QED BY <1>1, <1>3, <2>1, IdFresh DEF SimSend, GaveUp
<1>4. CASE AtWork
  <2>1. work' = work \/ \E k \in Kinds : SimSend(k) /\ nextId < MaxIds
    BY <1>4 DEF AtWork, Tools, move_axis, lower_claw, raise_claw, home, open_claw,
                close_claw, home_z, Guarded, Issue, halt, reset_emergency, Poll,
                machine, SendBegins
  <2> QED BY <1>2, <1>3, <2>1
<1>5. CASE Machine
  <2>1. CASE Boots
    BY <1>2, <2>1 DEF Boots
  <2>2. CASE Finishes
    <3>1. \/ work' = [work EXCEPT ![running] = "done"]
          \/ work' = [work EXCEPT ![running] = "stopped"]
      BY <2>2 DEF Finishes
    <3> QED BY <1>1, <3>1
  <2>3. ASSUME NEW i \in Ids, MachineTakes(i)
        PROVE  Goal
    <3>1. CASE TakesNothing(i) \/ TakesQuery(i) \/ TakesBusy(i)
      BY <1>2, <3>1 DEF TakesNothing, TakesQuery, TakesBusy
    <3>2. CASE TakesHalt(i) \/ TakesServo(i) \/ TakesMotion(i)
      <4>1. Takes(i) /\ kind[i] # "STATE?"
        BY <3>2 DEF TakesHalt, TakesServo, TakesMotion
      <4>2. InWire(i) /\ work[i] = "none"
        BY <4>1, TakesWire
      <4>3. told[i] \in GaveUp
        BY <4>1, <4>2, WireUnclaimed
      <4>4. \/ work'[c] = work[c]
            \/ c = i /\ work'[c] \in {"running", "done"}
            \/ c = running /\ c # i /\ work'[c] = "stopped"
        BY <1>1, <3>2 DEF TakesHalt, TakesServo, TakesMotion
      <4> QED BY <1>1, <4>2, <4>3, <4>4
    <3> QED BY <2>3, <3>1, <3>2 DEF MachineTakes
  <2> QED BY <1>5, <2>1, <2>2, <2>3 DEF Machine
<1>6. CASE Environment
  <2>1. CASE Loop \/ _handle_line \/ Unplugged \/ \E i \in Ids : Send(i)
    BY <1>2, <2>1 DEF Loop, HomeZRefreshes, SendBegins, ToolReturns, Resolves,
                      _handle_line, Unplugged, Send, WriteLine, WriteFails, FlushEnds,
                      FlushFails, Flushing, Timeout,
                      machine
  <2> QED BY <1>5, <1>6, <2>1 DEF Environment
<1>7. CASE StartSim \/ StartOpens \/ StartFails \/ StartEnds \/ Stop \/ Settled
           \/ UNCHANGED vars
  BY <1>2, <1>7 DEF StartSim, StartOpens, StartFails, StartEnds, Stop, Settled, vars,
                    linkVars, machine
<1> QED BY <1>4, <1>6, <1>7 DEF Next

\* A step as the caller of c sees it: the contract's Works1 and Tells1.
LEMMA CommandSteps ==
  ASSUME CInv, CInv', IInv, [Next]_vars, NEW c \in Ids
  PROVE  LET w == IF kind[c] = "STATE?" THEN "none" ELSE work[c]
             v == IF kind'[c] = "STATE?" THEN "none" ELSE work'[c]
         IN  /\ \/ v = w
                \/ /\ w = "none" /\ v \in {"running", "done"}
                   /\ Said(c) \in {"none", "unknown"}
                \/ w = "running" /\ v \in {"done", "stopped"}
             /\ \/ Said(c)' = Said(c)
                \/ /\ Said(c) = "none"
                   /\ \/ Said(c)' = "ok" /\ v = "done"
                      \/ Said(c)' = "failed" /\ v \in {"none", "stopped"}
                      \/ Said(c)' = "unknown"
PROOF
<1> DEFINE w == IF kind[c] = "STATE?" THEN "none" ELSE work[c]
           v == IF kind'[c] = "STATE?" THEN "none" ELSE work'[c]
<1>1. /\ kind'[c] = kind[c] \/ (told[c] = "none" /\ work[c] = "none")
      /\ told'[c] = told[c] \/ told[c] = "none"
  BY KindSteps, ToldSteps, IdFresh
<1>2. /\ kind[c] = "STATE?" => work[c] = "none"
      /\ kind'[c] = "STATE?" => work'[c] = "none"
  BY DEF CInv, Once
<1>3. w = work[c] /\ v = work'[c]
  BY <1>2
<1>4. told[c] \in Results \cup {"none"} /\ told'[c] \in Results \cup {"none"}
  BY DEF CInv, TypeOK, LinkTypeOK
<1>5. told[c] \in GaveUp => Said(c) \in {"none", "unknown"}
  BY DEF Said, GaveUp
<1>6. \/ v = w
      \/ w = "none" /\ v \in {"running", "done"} /\ Said(c) \in {"none", "unknown"}
      \/ w = "running" /\ v \in {"done", "stopped"}
  BY <1>3, <1>5, WorkSteps
<1>7. ASSUME told'[c] = told[c], told[c] # "none"
      PROVE  Said(c)' = Said(c)
  BY <1>1, <1>7 DEF Said
<1>8. ASSUME told[c] = "none"
      PROVE  Said(c) = "none"
  BY <1>8 DEF Said
<1>9. \/ Said(c)' = "none"
      \/ Said(c)' = "ok" /\ v = "done"
      \/ Said(c)' = "failed" /\ v \in {"none", "stopped"}
      \/ Said(c)' = "unknown"
  <2>1. CASE kind'[c] = "STATE?" \/ told'[c] \in GaveUp
    BY <2>1 DEF Said, GaveUp
  <2>2. CASE kind'[c] # "STATE?" /\ told'[c] \in Reports
    <3>1. /\ told'[c] \in {"OK", "SIM"} => work'[c] = "done"
          /\ told'[c] \in {"STUCK", "HALTED"} => work'[c] = "stopped"
          /\ told'[c] = "BUSY" => work'[c] = "none"
      BY <2>2 DEF CInv, Reported, Plain, Claimed, Right, Reports, Replies
    <3> QED BY <1>3, <2>2, <3>1 DEF Said, Reports, Replies
  <2> QED BY <1>4, <2>1, <2>2 DEF Results, Reports, GaveUp
<1> HIDE DEF w, v
<1>10. \/ Said(c)' = Said(c)
       \/ /\ Said(c) = "none"
          /\ \/ Said(c)' = "ok" /\ v = "done"
             \/ Said(c)' = "failed" /\ v \in {"none", "stopped"}
             \/ Said(c)' = "unknown"
  BY <1>1, <1>7, <1>8, <1>9
<1> QED BY <1>6, <1>10 DEF w, v

\* Every step of the controller is a step of the contract.
LEMMA StepSimulation ==
  ASSUME CInv, CInv', IInv, [Next]_vars
  PROVE  Channel!Step
PROOF
<1>1. \A c \in Ids : Said(c)' \in {"none", "ok", "failed", "unknown"}
  BY DEF Said
<1>2. work' \in [Ids -> {"none", "running", "done", "stopped"}]
      /\ \A j \in Ids : work'[j] = "running" <=> running' = j
  BY DEF CInv, TypeOK, LinkTypeOK
<1>3. /\ [i \in Ids |-> IF kind[i] = "STATE?" THEN "none" ELSE work[i]]'
           \in [Ids -> Channel!Works]
      /\ [i \in Ids |-> Said(i)]' \in [Ids -> Channel!Answers]
  BY <1>1, <1>2 DEF Channel!Works, Channel!Answers
<1>4. ASSUME NEW c \in Ids
      PROVE  Channel!Works1(c) /\ Channel!Tells1(c)
  BY <1>4, CommandSteps DEF Channel!Works1, Channel!Tells1
<1> QED BY <1>2, <1>3, <1>4 DEF Channel!Step

\* Before the start the machine has done nothing and nobody was told anything.
LEMMA InitSimulation == Init => Channel!Init
BY DEF Init, LinkInit, Said, Channel!Init

\* The controller implements CommandChannel: what a tool is told about its command
\* is what the machine did, for any number of commands.
THEOREM Implements == Spec => TruthfulResults
PROOF
<1>1. CInv /\ CInv' /\ IInv /\ [Next]_vars
        => [Channel!Step]_<<[i \in Ids |-> IF kind[i] = "STATE?" THEN "none"
                                           ELSE work[i]],
                           [i \in Ids |-> Said(i)]>>
  BY StepSimulation
<1> QED
  BY <1>1, InitSimulation, InductiveC, Inductive, PTL
  DEF Spec, TruthfulResults, Channel!Spec

-----------------------------------------------------------------------------
\* BUSY, and the simulation

\* A command, other than a query, whose caller has not returned.
Active(i) == call[i] \in {"writing", "waiting"} /\ kind[i] # "STATE?"

Own == \A i \in Ids : Active(i) => tool = i

Newest == tool # 0 => \A i \in Ids : i > tool => kind[i] \in {"none", "STATE?"}

\* home_z refreshes when its own answer has come.
Refreshing == refresh # 0 => tool # 0 /\ call[tool] = "returned"

Issued == \A i \in Ids : i <= nextId => call[i] # "none"

GivenUp(j) == kind[j] \in Motions /\ told[j] \in {"TIMEOUT", "CANCELLED"}

\* Wherever a BUSY is on its way to a caller who waits for it, there is a reason.
Excused ==
  \A i \in Ids : Claimed(i, "BUSY") /\ told[i] \in {"none", "BUSY"} =>
    \E j \in 1..(i - 1) : GivenUp(j)

LockInv == Own /\ Newest /\ Refreshing /\ Issued

-----------------------------------------------------------------------------
\* A command goes to the worker threads: a query at any time, anything else under
\* the tools' lock.
LEMMA SendBeginsLock ==
  ASSUME LockInv, CInv, IInv, NEW k \in Kinds, SendBegins(k), nextId <= MaxIds,
         \/ /\ k = "STATE?" /\ tool' = tool
            /\ \/ refresh' = refresh
               \/ refresh' = id /\ tool # 0 /\ call[tool] = "returned"
         \/ k # "STATE?" /\ tool = 0 /\ tool' = id /\ refresh' = refresh
  PROVE  LockInv'
PROOF
<1>1. id \in Ids /\ id = nextId + 1 /\ nextId \in Nat /\ tool \in 0..nextId
      /\ nextId' = id
  BY DEF IInv, Types, id, CInv, TypeOK, LinkTypeOK, SendBegins
<1>2. /\ kind'[id] = k /\ call'[id] = "writing"
      /\ \A i \in Ids : i # id => kind'[i] = kind[i] /\ call'[i] = call[i]
  BY <1>1 DEF SendBegins, CInv, TypeOK, LinkTypeOK
<1>3. \A i \in Ids : i > nextId => kind[i] = "none"
  BY DEF IInv, Fresh
<1>4. refresh # 0 => tool # 0
  BY DEF LockInv, Refreshing
<1>5. Own'
  <2> SUFFICES ASSUME NEW i \in Ids, call'[i] \in {"writing", "waiting"},
                      kind'[i] # "STATE?"
               PROVE  tool' = i
    BY DEF Own, Active
  <2>1. CASE i = id
    BY <1>2, <2>1
  <2>2. CASE i # id
    <3>1. tool = i
      BY <1>2, <2>2 DEF LockInv, Own, Active
    <3>2. i # 0
      OBVIOUS
    <3> QED BY <3>1, <3>2
  <2> QED BY <2>1, <2>2
<1>6. Newest'
  <2> SUFFICES ASSUME tool' # 0, NEW i \in Ids, i > tool'
               PROVE  kind'[i] \in {"none", "STATE?"}
    BY DEF Newest
  <2>1. CASE tool' = id
    BY <1>1, <1>2, <1>3, <2>1
  <2>2. CASE tool' = tool /\ k = "STATE?"
    BY <1>2, <2>2 DEF LockInv, Newest
  <2> QED BY <2>1, <2>2
<1>7. Refreshing'
  <2>1. tool # 0 => tool \in Ids /\ tool # id
    BY <1>1
  <2> QED BY <1>1, <1>2, <1>4, <2>1 DEF LockInv, Refreshing
<1>8. Issued'
  <2> SUFFICES ASSUME NEW i \in Ids, i <= id PROVE call'[i] # "none"
    BY <1>1 DEF Issued
  <2>1. i = id \/ i <= nextId
    BY <1>1
  <2> QED BY <1>2, <2>1 DEF LockInv, Issued
<1> QED BY <1>5, <1>6, <1>7, <1>8 DEF LockInv

\* A simulated command is over at once.
LEMMA SimSendLock ==
  ASSUME LockInv, CInv, IInv, NEW k \in Kinds, SimSend(k), nextId < MaxIds, sim,
         UNCHANGED <<tool, refresh>>
  PROVE  LockInv'
PROOF
<1>1. id \in Ids /\ id = nextId + 1 /\ nextId \in Nat /\ tool = 0 /\ nextId' = id
  BY DEF IInv, Types, id, Quiet, SimSend
<1>2. /\ call'[id] = "returned"
      /\ \A i \in Ids : i # id => kind'[i] = kind[i] /\ call'[i] = call[i]
  BY <1>1 DEF SimSend, CInv, TypeOK, LinkTypeOK
<1>3. Own'
  BY <1>1, <1>2 DEF LockInv, Own, Active
<1>4. Newest' /\ Refreshing'
  BY <1>1 DEF LockInv, Newest, Refreshing
<1>5. Issued'
  <2> SUFFICES ASSUME NEW i \in Ids, i <= id PROVE call'[i] # "none"
    BY <1>1 DEF Issued
  <2>1. i = id \/ i <= nextId
    BY <1>1
  <2> QED BY <1>2, <2>1 DEF LockInv, Issued
<1> QED BY <1>3, <1>4, <1>5 DEF LockInv

\* Calls move on.
LEMMA MovesLock ==
  ASSUME LockInv, CInv, UNCHANGED <<nextId, kind, tool, refresh>>,
         \A i \in Ids : \/ call'[i] = call[i]
                        \/ /\ call[i] \in {"writing", "waiting"}
                           /\ call'[i] \in {"waiting", "returned"}
  PROVE  LockInv'
PROOF
<1>1. tool # 0 => tool \in Ids
  BY DEF CInv, TypeOK, LinkTypeOK
<1>2. Own'
  BY DEF LockInv, Own, Active
<1>3. Newest' /\ Issued'
  BY DEF LockInv, Newest, Issued
<1>4. Refreshing'
  BY <1>1 DEF LockInv, Refreshing
<1> QED BY <1>2, <1>3, <1>4 DEF LockInv

\* The lock is given up by whoever has its answer; at the shutdown everybody who
\* waits is cancelled.
LEMMA EndsLock ==
  ASSUME LockInv, CInv, UNCHANGED <<nextId, kind>>, tool' = 0, refresh' = 0,
         \A i \in Ids : \/ call'[i] = call[i] \/ call'[i] = "returned",
         tool # 0 => call'[tool] = "returned"
  PROVE  LockInv'
PROOF
<1>1. Own'
  BY DEF LockInv, Own, Active
<1>2. Newest' /\ Refreshing' /\ Issued'
  BY DEF LockInv, Newest, Refreshing, Issued
<1> QED BY <1>1, <1>2 DEF LockInv

\* Every step preserves it.
LEMMA NextLock == LockInv /\ CInv /\ IInv /\ [Next]_vars => LockInv'
PROOF
<1> SUFFICES ASSUME LockInv, CInv, IInv, [Next]_vars PROVE LockInv'
  OBVIOUS
<1>1. /\ call \in [Ids -> {"none", "writing", "waiting", "returned"}]
      /\ nextId \in 0..(MaxIds + 1) /\ {tool, refresh} \subseteq 0..nextId
  BY DEF CInv, TypeOK, LinkTypeOK
<1>2. CASE UNCHANGED <<nextId, kind, call, tool, refresh>>
  BY <1>2, MovesLock
<1>3. ASSUME NEW k \in Kinds \ {"STATE?"}, Issue(k)
      PROVE  LockInv'
  <2>1. CASE sim
    BY <1>3, <2>1, SimSendLock DEF Issue
  <2>2. CASE ~sim
    BY <1>1, <1>3, <2>2, SendBeginsLock DEF Issue
  <2> QED BY <2>1, <2>2
<1>4. CASE AtWork
  <2>1. CASE reset_emergency
    BY <1>2, <2>1 DEF reset_emergency, sends, tasks
  <2>2. CASE Poll
    BY <1>1, <2>2, SendBeginsLock DEF Poll
  <2> QED BY <1>3, <1>4, <2>1, <2>2
          DEF AtWork, Tools, move_axis, lower_claw, raise_claw, home, open_claw,
              close_claw, home_z, halt, Guarded
<1>5. CASE StartSim \/ StartOpens \/ StartFails \/ StartEnds \/ Settled
           \/ UNCHANGED vars
  BY <1>2, <1>5 DEF StartSim, StartOpens, StartFails, StartEnds, Settled, vars,
                    linkVars, sends, tasks
<1>6. CASE Stop
  <2>1. \A i \in Ids : call'[i] = call[i] \/ call'[i] = "returned"
    BY <1>1, <1>6 DEF Stop, CallsCancelled
  <2>2. ASSUME tool # 0
        PROVE  call'[tool] = "returned"
    <3>1. tool \in Ids
      BY <1>1, <2>2
    <3>2. CASE call[tool] = "returned"
      BY <2>1, <3>1, <3>2
    <3>3. CASE call[tool] # "returned"
      <4>1. refresh = 0
        BY <3>3 DEF LockInv, Refreshing
      <4>2. tool \in Waiting
        BY <2>2, <3>3, <4>1 DEF Waiting
      <4> QED BY <1>6, <3>1, <4>2 DEF Stop, CallsCancelled
    <3> QED BY <3>2, <3>3
  <2> QED BY <1>6, <2>1, <2>2, EndsLock DEF Stop
<1>7. CASE Environment
  <2>1. CASE HomeZRefreshes
    <3>1. tool \in Ids /\ call[tool] = "returned" /\ nextId <= MaxIds
      <4>1. tool \in Ids /\ told[tool] = "OK"
        BY <1>1, <2>1 DEF HomeZRefreshes
      <4>2. nextId # MaxIds + 1
        BY <1>1, <2>1 DEF HomeZRefreshes, IInv, Types
      <4>3. nextId <= MaxIds
        BY <1>1, <4>2
      <4> QED BY <4>1, <4>3 DEF CInv, Told
    <3> QED BY <2>1, <3>1, SendBeginsLock DEF HomeZRefreshes
  <2>2. CASE ToolReturns
    BY <2>2, EndsLock DEF ToolReturns, sends
  <2>3. ASSUME NEW i \in Ids, Send(i)
        PROVE  LockInv'
    <3>1. \A j \in Ids : \/ call'[j] = call[j]
                         \/ /\ call[j] \in {"writing", "waiting"}
                            /\ call'[j] \in {"waiting", "returned"}
      BY <2>3, SendSteps
    <3> QED BY <2>3, <3>1, SendSteps, MovesLock DEF tasks
  <2>4. ASSUME NEW i \in Ids, NEW r \in Results, Resolves(i, r)
        PROVE  LockInv'
    <3>1. \A j \in Ids : \/ call'[j] = call[j]
                         \/ /\ call[j] \in {"writing", "waiting"}
                            /\ call'[j] \in {"waiting", "returned"}
      BY <1>1, <2>4 DEF Resolves
    <3> QED BY <2>4, <3>1, MovesLock DEF Resolves, tasks
  <2>5. CASE _handle_line \/ Unplugged
    BY <1>2, <2>5 DEF _handle_line, Unplugged, sends, tasks
  <2>6. CASE Machine
    BY <1>2, <2>6 DEF Machine, Boots, Finishes, MachineTakes, TakesNothing,
                      TakesQuery, TakesHalt, TakesBusy, TakesServo, TakesMotion,
                      Takes, sends, tasks
  <2> QED BY <1>7, <2>1, <2>2, <2>3, <2>4, <2>5, <2>6 DEF Environment, Loop
<1> QED BY <1>4, <1>5, <1>6, <1>7 DEF Next

-----------------------------------------------------------------------------
\* A BUSY is where it was before, or the machine has just said it to whoever has the
\* port open.
LEMMA ClaimSteps ==
  ASSUME CInv, IInv, [Next]_vars, NEW i \in Ids, Claimed(i, "BUSY")'
  PROVE  Claimed(i, "BUSY") \/ (TakesBusy(i) /\ port = "open")
PROOF
<1>1. /\ fut \in [Ids -> Replies \cup {"none", "open", "cancelled"}]
      /\ told \in [Ids -> Results \cup {"none"}]
      /\ call \in [Ids -> {"none", "writing", "waiting", "returned"}]
      /\ LinkTypeOK
  BY DEF CInv, TypeOK, LinkTypeOK
<1>2. \/ \E n \in 1..Len(rx') : rx'[n].id = i /\ rx'[n].r = "BUSY"
      \/ <<i, "BUSY">> \in scheduled'
      \/ fut'[i] = "BUSY" \/ told'[i] = "BUSY"
  BY DEF Claimed
<1>3. CASE UNCHANGED <<rx, scheduled, fut, told>>
  BY <1>2, <1>3 DEF Claimed
<1>4. CASE AtWork
  <2>1. rx' = rx
    BY <1>4 DEF AtWork, Tools, move_axis, lower_claw, raise_claw, home, open_claw,
                close_claw, home_z, Guarded, Issue, halt, reset_emergency, Poll,
                SendBegins, SimSend, line
  <2>2. <<i, "BUSY">> \in scheduled' => <<i, "BUSY">> \in scheduled
    BY <1>4 DEF AtWork, Tools, move_axis, lower_claw, raise_claw, home, open_claw,
                close_claw, home_z, Guarded, halt, reset_emergency, Poll
  <2>3. \/ UNCHANGED <<fut, told>>
        \/ \E k \in Kinds : SendBegins(k) \/ SimSend(k)
    BY <1>4 DEF AtWork, Tools, move_axis, lower_claw, raise_claw, home, open_claw,
                close_claw, home_z, Guarded, Issue, halt, reset_emergency, Poll, sends
  <2>4. fut'[i] # "BUSY" \/ fut[i] = "BUSY"
    BY <1>1, <2>3 DEF SendBegins, SimSend
  <2>5. told'[i] # "BUSY" \/ told[i] = "BUSY"
    BY <1>1, <2>3 DEF SendBegins, SimSend
  <2> QED BY <1>2, <2>1, <2>2, <2>4, <2>5 DEF Claimed
<1>5. CASE Stop
  <2>1. rx' = <<>> /\ scheduled' = scheduled
    BY <1>5 DEF Stop
  <2>2. fut'[i] \in {fut[i], "cancelled"} /\ told'[i] \in {told[i], "CANCELLED"}
    BY <1>5 DEF Stop, CallsCancelled
  <2> QED BY <1>2, <2>1, <2>2 DEF Claimed
<1>6. CASE Environment
  <2>1. CASE HomeZRefreshes
    <3>1. UNCHANGED <<rx, told, scheduled>> /\ fut'[i] \in {fut[i], "open"}
      BY <1>1, <2>1 DEF HomeZRefreshes, SendBegins
    <3> QED BY <1>2, <3>1 DEF Claimed
  <2>2. ASSUME NEW c \in Ids, Send(c)
        PROVE  Claimed(i, "BUSY")
    <3>1. /\ UNCHANGED <<rx, scheduled>>
          /\ fut'[i] \in {fut[i], "cancelled"}
          /\ told'[i] \in {told[i], fut[i], "ERR", "RAISED", "TIMEOUT"}
      BY <2>2, SendSteps
    <3> QED BY <1>2, <3>1 DEF Claimed
  <2>3. ASSUME NEW c \in Ids, NEW r \in Results, Resolves(c, r)
        PROVE  Claimed(i, "BUSY")
    <3>1. /\ rx' = rx /\ scheduled' \subseteq scheduled /\ <<c, r>> \in scheduled
          /\ fut'[i] = fut[i] \/ (c = i /\ fut'[i] = r)
          /\ told'[i] = told[i] \/ (c = i /\ told'[i] = r)
      BY <1>1, <2>3 DEF Resolves, line
    <3> QED BY <1>2, <3>1 DEF Claimed
  <2>4. CASE _handle_line
    <3>1. UNCHANGED <<fut, told>> /\ rx # <<>> /\ rx' = Tail(rx)
          /\ scheduled' \in {scheduled, scheduled \cup {<<Head(rx).id, Head(rx).r>>}}
      BY <2>4 DEF _handle_line, _resolve_future
    <3>2. rx \in Seq([id : 0..nextId, r : Replies, at : -1..nextId])
      BY <1>1 DEF LinkTypeOK
    <3>3. /\ Len(rx) \in Nat \ {0} /\ Head(rx) = rx[1] /\ 1 \in 1..Len(rx)
          /\ Len(Tail(rx)) = Len(rx) - 1
          /\ \A n \in 1..(Len(rx) - 1) : Tail(rx)[n] = rx[n + 1]
      BY <3>1, <3>2
    <3>4. ASSUME NEW n \in 1..Len(rx'), rx'[n].id = i, rx'[n].r = "BUSY"
          PROVE  \E m \in 1..Len(rx) : rx[m].id = i /\ rx[m].r = "BUSY"
      <4>1. n + 1 \in 1..Len(rx) /\ rx'[n] = rx[n + 1]
        BY <3>1, <3>3, <3>4
      <4> QED BY <3>4, <4>1
    <3>5. <<i, "BUSY">> \in scheduled' =>
            <<i, "BUSY">> \in scheduled \/ (rx[1].id = i /\ rx[1].r = "BUSY")
      BY <3>1, <3>3
    <3> QED BY <1>2, <3>1, <3>3, <3>4, <3>5 DEF Claimed
  <2>5. CASE Machine
    <3>1. UNCHANGED <<scheduled, fut, told>>
      BY <2>5 DEF Machine, Boots, Finishes, MachineTakes, TakesNothing, TakesQuery,
                  TakesHalt, TakesBusy, TakesServo, TakesMotion, Takes, sends
    <3>2. ASSUME NEW new, Adds(new), <<i, "BUSY">> \notin new
          PROVE  Claimed(i, "BUSY")
      BY <1>2, <3>1, <3>2 DEF Adds, Claimed, Reports, Replies
    <3>3. /\ nextId \in Nat /\ 0 \in 0..nextId /\ -1 \in -1..nextId
          /\ running \in 0..nextId /\ moved \in 0..nextId /\ moved \in -1..nextId
      BY <1>1 DEF LinkTypeOK
    <3>4. CASE Boots
      BY <1>1, <3>2, <3>3, <3>4, SaysOne DEF Boots, Reply, Replies
    <3>5. CASE Finishes
      BY <1>1, <3>2, <3>3, <3>5, SaysOne DEF Finishes, Reply, Replies
    <3>6. ASSUME NEW c \in Ids, MachineTakes(c), ~TakesBusy(c)
          PROVE  Claimed(i, "BUSY")
      <4>1. CASE TakesNothing(c) \/ TakesMotion(c)
        <5>1. rx' = rx
          BY <4>1 DEF TakesNothing, TakesMotion
        <5> QED BY <1>2, <3>1, <5>1 DEF Claimed
      <4>2. Takes(c) /\ c \in 0..nextId
        <5>1. Takes(c)
          BY <3>6 DEF MachineTakes, TakesNothing, TakesQuery, TakesHalt, TakesServo,
                      TakesMotion
        <5>2. c = wire[1] /\ 1 \in 1..Len(wire)
          BY <1>1, <5>1 DEF Takes, LinkTypeOK
        <5> QED BY <3>3, <5>1, <5>2 DEF IInv, Fresh
      <4>3. CASE TakesQuery(c)
        BY <1>1, <3>2, <3>3, <4>2, <4>3, SaysOne DEF TakesQuery, Replies
      <4>4. CASE TakesServo(c)
        BY <1>1, <3>2, <3>3, <4>2, <4>4, SaysOne DEF TakesServo, Reply, Replies
      <4>5. CASE TakesHalt(c)
        <5>1. CASE running = 0
          BY <1>1, <3>2, <3>3, <4>2, <4>5, <5>1, SaysOne
             DEF TakesHalt, Reply, Replies
        <5>2. CASE running # 0
          BY <1>1, <3>2, <3>3, <4>2, <4>5, <5>2, SaysTwo DEF TakesHalt, Replies
        <5> QED BY <5>1, <5>2
      <4> QED BY <3>6, <4>1, <4>3, <4>4, <4>5 DEF MachineTakes
    <3>7. ASSUME NEW c \in Ids, TakesBusy(c), c # i
          PROVE  Claimed(i, "BUSY")
      <4>1. c \in 0..nextId
        <5>1. c = wire[1] /\ 1 \in 1..Len(wire)
          BY <1>1, <3>7 DEF TakesBusy, Takes, LinkTypeOK
        <5> QED BY <3>3, <5>1 DEF IInv, Fresh
      <4> QED BY <1>1, <3>2, <3>3, <3>7, <4>1, SaysOne DEF TakesBusy, Reply, Replies
    <3>8. ASSUME TakesBusy(i), port # "open"
          PROVE  Claimed(i, "BUSY")
      <4>1. rx' = rx
        BY <3>8 DEF TakesBusy, Says
      <4> QED BY <1>2, <3>1, <4>1 DEF Claimed
    <3> QED BY <2>5, <3>4, <3>5, <3>6, <3>7, <3>8 DEF Machine, MachineTakes
  <2>6. CASE ToolReturns \/ Unplugged
    <3>1. UNCHANGED <<scheduled, fut, told>> /\ (rx' = rx \/ rx' = <<>>)
      BY <2>6 DEF ToolReturns, Unplugged, sends, line
    <3> QED BY <1>2, <3>1 DEF Claimed
  <2> QED BY <1>6, <2>1, <2>2, <2>3, <2>4, <2>5, <2>6 DEF Environment, Loop
<1>7. CASE StartSim \/ StartOpens \/ StartFails \/ StartEnds \/ Settled
           \/ UNCHANGED vars
  BY <1>3, <1>7 DEF StartSim, StartOpens, StartFails, StartEnds, Settled, vars,
                    linkVars, sends, line
<1> QED BY <1>4, <1>5, <1>6, <1>7 DEF Next

\* Nobody is on his way through _send before the service works, and whoever has got
\* an exception of the port knows that it is open no more.
Severed ==
  /\ phase \in {"off", "opening"} => \A i \in Ids : call[i] = "none"
  /\ \A i \in Ids : told[i] \in {"ERR", "RAISED"} => port # "open"

\* Every step preserves it: a port is opened once.
LEMMA NextSevered ==
  ASSUME Severed, CInv, IInv, [Next]_vars
  PROVE  Severed'
PROOF
<1>1. /\ told \in [Ids -> Results \cup {"none"}]
      /\ fut \in [Ids -> Replies \cup {"none", "open", "cancelled"}]
      /\ \A i \in Ids : told[i] # "none" <=> call[i] = "returned"
  BY DEF CInv, TypeOK, LinkTypeOK, Told
<1>2. CASE UNCHANGED <<call, told, port, phase>>
  BY <1>2 DEF Severed
<1>3. CASE AtWork
  <2>1. UNCHANGED <<port, phase>> /\ phase = "up"
    BY <1>3 DEF AtWork, facade, Tools, move_axis, lower_claw, raise_claw, home,
                open_claw, close_claw, home_z, Guarded, Issue, halt, reset_emergency,
                Poll, SendBegins, SimSend, threads
  <2>2. told' = told \/ \E k \in Kinds : SimSend(k)
    BY <1>3 DEF AtWork, Tools, move_axis, lower_claw, raise_claw, home, open_claw,
                close_claw, home_z, Guarded, Issue, halt, reset_emergency, Poll,
                SendBegins, sends
  <2>3. \A i \in Ids : told'[i] \in {told[i], "SIM"}
    BY <1>1, <2>2 DEF SimSend
  <2> QED BY <2>1, <2>3 DEF Severed
<1>4. CASE StartSim \/ StartOpens \/ StartFails \/ StartEnds
  <2>1. UNCHANGED <<call, told>> /\ phase \in {"off", "opening"}
    BY <1>4 DEF StartSim, StartOpens, StartFails, StartEnds, linkVars, sends
  <2> QED BY <1>1, <2>1 DEF Severed
<1>5. CASE Stop
  BY <1>1, <1>5 DEF Stop, CallsCancelled, Severed
<1>6. CASE Settled \/ UNCHANGED vars
  BY <1>2, <1>6 DEF Settled, vars, linkVars, sends, threads, facade
<1>7. CASE Environment
  <2>1. phase' = phase
    BY <1>7 DEF Environment, facade
  <2>2. ASSUME NEW c \in Ids, Send(c)
        PROVE  Severed'
    <3>1. port' = port
      BY <2>2, SendSteps DEF threads
    <3>2. phase \in {"off", "opening"} => \A i \in Ids : call'[i] = "none"
      BY <2>2, SendSteps DEF Severed
    <3>3. \A i \in Ids : told'[i] \in {"ERR", "RAISED"} =>
                        told[i] = told'[i] \/ port # "open"
      BY <1>1, <2>2, SendSteps DEF Replies
    <3> QED BY <2>1, <3>1, <3>2, <3>3 DEF Severed
  <2>3. ASSUME NEW c \in Ids, NEW r \in Results, Resolves(c, r)
        PROVE  Severed'
    <3>1. r \in Replies
      BY <2>3, ScheduledType DEF Resolves, CInv, TypeOK
    <3>2. /\ port' = port
          /\ \A i \in Ids : told'[i] \in {told[i], r}
          /\ \A i \in Ids : call[i] = "none" => call'[i] = "none"
      BY <1>1, <2>3 DEF Resolves, threads, CInv, TypeOK, LinkTypeOK
    <3> QED BY <2>1, <3>1, <3>2 DEF Severed, Replies
  <2>4. CASE HomeZRefreshes
    <3>1. phase = "up" /\ UNCHANGED <<told, port>>
      BY <2>4 DEF HomeZRefreshes, SendBegins, threads, IInv, Quiet
    <3> QED BY <2>1, <3>1 DEF Severed
  <2>5. CASE ToolReturns \/ _handle_line
    BY <1>2, <2>1, <2>5 DEF ToolReturns, _handle_line, sends, threads
  <2>6. CASE Unplugged
    BY <2>1, <2>6 DEF Unplugged, Severed, sends
  <2>7. CASE Machine
    BY <1>2, <2>1, <2>7 DEF Machine, Boots, Finishes, MachineTakes, TakesNothing,
                            TakesQuery, TakesHalt, TakesBusy, TakesServo, TakesMotion,
                            Takes, sends, threads
  <2> QED BY <1>7, <2>2, <2>3, <2>4, <2>5, <2>6, <2>7 DEF Environment, Loop
<1> QED BY <1>3, <1>4, <1>5, <1>6, <1>7 DEF Next

\* When the machine refuses the command that is waited for, the motion underway has
\* been given up: its caller would have the lock, or the port would be gone.
LEMMA BusyHasReason ==
  ASSUME CInv, IInv, LockInv, Severed, port = "open", NEW i \in Ids, TakesBusy(i),
         told[i] = "none"
  PROVE  \E j \in 1..(i - 1) : GivenUp(j)
PROOF
<1>1. i = wire[1] /\ 1 \in 1..Len(wire) /\ i <= nextId /\ work[i] = "none"
      /\ InWire(i) /\ kind[i] \in Motions \cup {"SERVO"} /\ running # 0
  BY DEF TakesBusy, Takes, CInv, TypeOK, LinkTypeOK, IInv, Fresh, Once, InWire
<1>2. tool = i
  <2>1. call[i] \notin {"none", "returned"}
    BY <1>1 DEF CInv, Told, LockInv, Issued
  <2>2. call[i] \in {"writing", "waiting"}
    BY <2>1 DEF CInv, TypeOK, LinkTypeOK
  <2> QED BY <1>1, <2>2 DEF LockInv, Own, Active
<1>3. running \in Ids /\ kind[running] \in Motions /\ work[running] = "running"
      /\ running # i /\ running <= nextId
  BY <1>1 DEF IInv, Fresh, CInv, TypeOK, LinkTypeOK
<1>4. running < i
  BY <1>2, <1>3 DEF LockInv, Newest
<1>5. told[running] \in {"TIMEOUT", "CANCELLED"}
  <2>1. told[running] \notin Reports
    BY <1>3 DEF CInv, Reported, Plain, Claimed, Right, Reports, Replies
  <2>2. told[running] # "none"
    <3>1. ~Active(running)
      BY <1>2, <1>3 DEF LockInv, Own
    <3>2. call[running] \in {"none", "returned"}
      BY <1>3, <3>1 DEF Active, CInv, TypeOK, LinkTypeOK
    <3>3. call[running] = "returned"
      BY <1>3, <3>2 DEF LockInv, Issued
    <3> QED BY <1>3, <3>3 DEF CInv, Told
  <2>3. told[running] \in Results \cup {"none"}
    BY <1>3 DEF CInv, TypeOK, LinkTypeOK
  <2>4. told[running] \notin {"ERR", "RAISED"}
    BY <1>3 DEF Severed
  <2> QED BY <2>1, <2>2, <2>3, <2>4 DEF Results, Reports
<1> QED BY <1>3, <1>4, <1>5 DEF GivenUp

\* Every step preserves that a BUSY has its reason.
LEMMA NextExcused ==
  ASSUME Excused, Severed, LockInv, CInv, CInv', IInv, [Next]_vars
  PROVE  Excused'
PROOF
<1> SUFFICES ASSUME NEW i \in Ids, Claimed(i, "BUSY")', told'[i] \in {"none", "BUSY"}
             PROVE  \E j \in 1..(i - 1) : GivenUp(j)'
  BY DEF Excused
<1>1. told[i] \in {"none", "BUSY"}
  BY ToldSteps
<1>2. \E j \in 1..(i - 1) : GivenUp(j)
  <2>1. CASE Claimed(i, "BUSY")
    BY <1>1, <2>1 DEF Excused
  <2>2. CASE TakesBusy(i) /\ port = "open"
    <3>1. InWire(i) /\ kind[i] # "STATE?"
      <4>1. Takes(i) /\ kind[i] # "STATE?"
        BY <2>2 DEF TakesBusy
      <4> QED BY <4>1, TakesWire
    <3>2. told[i] \in GaveUp
      BY <3>1, WireUnclaimed
    <3> QED BY <1>1, <2>2, <3>2, BusyHasReason DEF GaveUp
  <2> QED BY <2>1, <2>2, ClaimSteps
<1>3. PICK j \in 1..(i - 1) : GivenUp(j)
  BY <1>2
<1>4. j \in Ids
  OBVIOUS
<1>5. told'[j] = told[j] /\ kind'[j] = kind[j]
  BY <1>3, <1>4, ToldSteps, KindSteps, IdFresh DEF GivenUp
<1> QED BY <1>3, <1>5 DEF GivenUp

\* The machine refuses a command as BUSY only if a caller before it gave up on a
\* motion (claw_tools.py, the lock of the tools; claw_machine_V4_agent.ino, the
\* BUSY reply).
THEOREM BusyExplained == Spec => []BusyOnlyAfterGivingUp
PROOF
<1>1. Init => LockInv /\ Excused /\ Severed
  BY DEF Init, LinkInit, LockInv, Own, Active, Newest, Refreshing, Issued, Excused,
         Claimed, Severed
<1>2. LockInv /\ Excused /\ Severed /\ CInv /\ CInv' /\ IInv /\ [Next]_vars
        => (LockInv /\ Excused /\ Severed)'
  BY NextLock, NextExcused, NextSevered
<1>3. Excused => BusyOnlyAfterGivingUp
  BY DEF Excused, BusyOnlyAfterGivingUp, Claimed, GivenUp
<1> QED BY <1>1, <1>2, <1>3, InductiveC, Inductive, PTL DEF Spec

-----------------------------------------------------------------------------
\* Simulation is entered once, at the start, and the results say so.
Simulated ==
  /\ \A i \in Ids : told[i] = "SIM" => sim
  /\ sim => /\ active # "serial" /\ phase \notin {"off", "opening"}
            /\ mode = "sim" \/ (mode = "auto" /\ start_error)

\* Every step preserves it.
LEMMA NextSimulated ==
  ASSUME Simulated, CInv, [Next]_vars
  PROVE  Simulated'
PROOF
<1>1. told \in [Ids -> Results \cup {"none"}]
      /\ fut \in [Ids -> Replies \cup {"none", "open", "cancelled"}]
      /\ LinkTypeOK
  BY DEF CInv, TypeOK, LinkTypeOK
<1>2. CASE UNCHANGED <<told, sim, facade>>
  BY <1>2 DEF Simulated, facade
<1>3. CASE AtWork
  <2>1. UNCHANGED <<sim, facade>>
    BY <1>3 DEF AtWork, Tools, move_axis, lower_claw, raise_claw, home, open_claw,
                close_claw, home_z, Guarded, Issue, halt, reset_emergency, Poll,
                SendBegins, SimSend, threads
  <2>2. told' = told \/ sim
    BY <1>3 DEF AtWork, Tools, move_axis, lower_claw, raise_claw, home, open_claw,
                close_claw, home_z, Guarded, Issue, halt, reset_emergency, Poll,
                SendBegins, sends
  <2> QED BY <2>1, <2>2 DEF Simulated, facade
<1>4. CASE Environment
  <2>1. UNCHANGED <<sim, facade>>
    BY <1>4 DEF Environment, Loop, HomeZRefreshes, SendBegins, ToolReturns, Resolves,
                _handle_line, Unplugged, Send, WriteLine, WriteFails, FlushEnds,
                FlushFails, Flushing, Timeout, Machine,
                Boots, Finishes, MachineTakes, TakesNothing, TakesQuery, TakesHalt,
                TakesBusy, TakesServo, TakesMotion, Takes, threads
  <2>2. \A i \in Ids : told'[i] = "SIM" => told[i] = "SIM"
    <3>1. ASSUME NEW c \in Ids, Send(c)
          PROVE  \A i \in Ids : told'[i] = "SIM" => told[i] = "SIM"
      BY <1>1, <3>1, SendSteps DEF Replies
    <3>2. ASSUME NEW c \in Ids, NEW r \in Results, Resolves(c, r)
          PROVE  \A i \in Ids : told'[i] = "SIM" => told[i] = "SIM"
      <4>1. r \in Replies
        BY <1>1, <3>2, ScheduledType DEF Resolves
      <4> QED BY <1>1, <3>2, <4>1 DEF Resolves, Replies
    <3>3. CASE HomeZRefreshes \/ ToolReturns \/ _handle_line \/ Unplugged \/ Machine
      BY <3>3 DEF HomeZRefreshes, SendBegins, ToolReturns, _handle_line, Unplugged,
                  Machine, Boots, Finishes, MachineTakes, TakesNothing, TakesQuery,
                  TakesHalt, TakesBusy, TakesServo, TakesMotion, Takes, sends
    <3> QED BY <1>4, <3>1, <3>2, <3>3 DEF Environment, Loop
  <2> QED BY <2>1, <2>2 DEF Simulated, facade
<1>5. CASE StartSim \/ StartFails
  BY <1>5 DEF StartSim, StartFails, Simulate, Simulated, sends, threads
<1>6. CASE StartOpens \/ StartEnds
  BY <1>6 DEF StartOpens, StartEnds, Simulated, linkVars, sends, threads
<1>7. CASE Stop
  BY <1>1, <1>7 DEF Stop, CallsCancelled, Simulated
<1>8. CASE Settled \/ UNCHANGED vars
  BY <1>2, <1>8 DEF Settled, vars, linkVars, sends, threads
<1> QED BY <1>3, <1>4, <1>5, <1>6, <1>7, <1>8 DEF Next

\* A command is answered by a simulation only where the configuration allows it
\* (controller.py, start(): in serial mode never, in auto mode after a start error).
THEOREM SimulationAllowed == Spec => []NoSilentSimulation
PROOF
<1>1. Init => Simulated
  BY DEF Init, LinkInit, Simulated
<1>2. Simulated => NoSilentSimulation
  BY DEF Simulated, NoSilentSimulation
<1> QED BY <1>1, <1>2, NextSimulated, InductiveC, PTL DEF Spec

-----------------------------------------------------------------------------
\* The books of _pending

\* A line is read or lost.
Answered(i) == i \in lost \/ \E n \in 1..Len(rx) : rx[n].id = i

Traced(i) == i \in writers \/ InWire(i) \/ running = i \/ Answered(i)

\* As long as the service works, the line of a command in _pending is somewhere,
\* nobody but halt() has answered for it, and whoever has left it got an exception.
Accounted ==
  phase = "up" =>
    \A i \in pending :
      /\ Traced(i)
      /\ fut[i] \in {"open", "HALTED"} /\ told[i] \in {"none", "HALTED", "RAISED"}
      /\ \A r \in Replies : <<i, r>> \in scheduled => r = "HALTED"

\* Before the service works, and in a simulation, nothing is pending.
LEMMA NothingPending ==
  ASSUME CInv, sim \/ phase \in {"off", "opening"}, pending' = pending
  PROVE  Accounted'
BY DEF CInv, Blank, Accounted

\* The lines back are added to, or lost.
LEMMA SaysReaches ==
  ASSUME LinkTypeOK, NEW j,
         NEW lines \in Seq([id : 0..nextId, r : Replies, at : -1..nextId]),
         Says(lines),
         Answered(j) \/ \E m \in 1..Len(lines) : lines[m].id = j
  PROVE  Answered(j)'
PROOF
<1> DEFINE R == [id : 0..nextId, r : Replies, at : -1..nextId]
<1>1. rx \in Seq(R) /\ lines \in Seq(R)
  BY DEF LinkTypeOK
<1> HIDE DEF R
<1>2. CASE rx' = rx \o lines /\ lost' = lost
  <2>1. /\ Len(rx') = Len(rx) + Len(lines) /\ Len(rx) \in Nat /\ Len(lines) \in Nat
        /\ \A n \in 1..Len(rx) : n \in 1..Len(rx') /\ rx'[n] = rx[n]
        /\ \A m \in 1..Len(lines) : /\ Len(rx) + m \in 1..Len(rx')
                                    /\ rx'[Len(rx) + m] = lines[m]
    BY <1>1, <1>2
  <2> QED BY <1>2, <2>1 DEF Answered
<1>3. CASE /\ rx' = rx
           /\ lost' = lost \cup {lines[n].id : n \in 1..Len(lines)}
  BY <1>3 DEF Answered
<1> QED BY <1>2, <1>3 DEF Says

\* The machine does not make a command disappear.
LEMMA MachineTraces ==
  ASSUME CInv, IInv, Machine, NEW j \in Ids, Traced(j)
  PROVE  Traced(j)'
PROOF
<1>1. /\ LinkTypeOK /\ nextId \in Nat /\ -1 \in -1..nextId /\ 0 \in 0..nextId
      /\ running \in 0..nextId /\ moved \in -1..nextId
  BY DEF CInv, TypeOK, LinkTypeOK
<1> DEFINE R == [id : 0..nextId, r : Replies, at : -1..nextId]
<1>2. ASSUME NEW c \in 0..nextId, NEW r \in Replies, NEW at \in -1..nextId,
             Says(<<[id |-> c, r |-> r, at |-> at]>>), Answered(j) \/ j = c
      PROVE  Answered(j)'
  <2> DEFINE lines == <<[id |-> c, r |-> r, at |-> at]>>
  <2>1. lines \in Seq(R) /\ 1 \in 1..Len(lines) /\ lines[1].id = c
    OBVIOUS
  <2>2. Says(lines)
    BY <1>2
  <2> HIDE DEF lines
  <2> QED BY <1>1, <1>2, <2>1, <2>2, SaysReaches
<1>3. ASSUME NEW c \in 0..nextId, NEW h \in 0..nextId,
             Says(<<Reply(h, "HALTED"), Reply(c, "OK")>>),
             Answered(j) \/ j \in {c, h}
      PROVE  Answered(j)'
  <2> DEFINE lines == <<Reply(h, "HALTED"), Reply(c, "OK")>>
  <2>1. /\ lines \in Seq(R) /\ 1 \in 1..Len(lines) /\ 2 \in 1..Len(lines)
        /\ lines[1].id = h /\ lines[2].id = c
    BY <1>1 DEF Reply, Replies
  <2>2. Says(lines)
    BY <1>3
  <2> HIDE DEF lines
  <2> QED BY <1>1, <1>3, <2>1, <2>2, SaysReaches
<1>4. CASE Boots
  <2>1. /\ Says(<<[id |-> 0, r |-> "OK", at |-> -1]>>) /\ "OK" \in Replies
        /\ UNCHANGED <<writers, wire, running>>
    BY <1>4 DEF Boots, Reply, Replies
  <2> QED BY <1>1, <1>2, <2>1 DEF Traced, InWire
<1>5. CASE Finishes
  <2>1. /\ UNCHANGED <<writers, wire>>
        /\ \E r \in Replies : Says(<<[id |-> running, r |-> r, at |-> -1]>>)
    BY <1>5 DEF Finishes, Reply, Replies
  <2> QED BY <1>1, <1>2, <2>1 DEF Traced, InWire
<1>6. ASSUME NEW i \in Ids, MachineTakes(i)
      PROVE  Traced(j)'
  <2>1. Takes(i) /\ i \in 0..nextId /\ writers' = writers
    <3>1. Takes(i)
      BY <1>6 DEF MachineTakes, TakesNothing, TakesQuery, TakesHalt, TakesBusy,
                  TakesServo, TakesMotion
    <3> QED BY <3>1, TakesWire
  <2>2. InWire(j) /\ j # i => InWire(j)'
    <3>1. /\ wire' = Tail(wire) /\ wire # <<>> /\ wire[1] = i
          /\ wire \in Seq(1..nextId)
      BY <1>1, <2>1 DEF Takes, LinkTypeOK
    <3>2. ASSUME NEW n \in 1..Len(wire), wire[n] = j, j # i
          PROVE  InWire(j)'
      <4>1. n - 1 \in 1..Len(wire') /\ wire'[n - 1] = wire[n]
        BY <3>1, <3>2
      <4> QED BY <3>2, <4>1 DEF InWire
    <3> QED BY <3>2 DEF InWire
  <2>3. CASE TakesNothing(i)
    BY <2>1, <2>2, <2>3 DEF TakesNothing, Traced, Answered
  <2>4. CASE TakesQuery(i)
    <3>1. Says(<<[id |-> i, r |-> "OK", at |-> moved]>>) /\ running' = running
          /\ "OK" \in Replies
      BY <2>4 DEF TakesQuery, Replies
    <3> QED BY <1>1, <1>2, <2>1, <2>2, <3>1 DEF Traced
  <2>5. CASE TakesHalt(i)
    <3>1. CASE running = 0
      <4>1. Says(<<[id |-> i, r |-> "OK", at |-> -1]>>) /\ running' = 0
            /\ "OK" \in Replies
        BY <2>5, <3>1 DEF TakesHalt, Reply, Replies
      <4> QED BY <1>1, <1>2, <2>1, <2>2, <3>1, <4>1 DEF Traced
    <3>2. CASE running # 0
      <4>1. Says(<<Reply(running, "HALTED"), Reply(i, "OK")>>)
        BY <2>5, <3>2 DEF TakesHalt
      <4> QED BY <1>1, <1>3, <2>1, <2>2, <4>1 DEF Traced
    <3> QED BY <3>1, <3>2
  <2>6. CASE TakesBusy(i) \/ TakesServo(i)
    <3>1. /\ running' = running
          /\ \E r \in Replies : Says(<<[id |-> i, r |-> r, at |-> -1]>>)
      BY <2>6 DEF TakesBusy, TakesServo, Reply, Replies
    <3> QED BY <1>1, <1>2, <2>1, <2>2, <3>1 DEF Traced
  <2>7. CASE TakesMotion(i)
    <3>1. running = 0 /\ running' = i /\ UNCHANGED <<rx, lost>> /\ j # 0
      BY <2>7 DEF TakesMotion
    <3>2. Answered(j) => Answered(j)'
      BY <3>1 DEF Answered
    <3> QED BY <2>1, <2>2, <3>1, <3>2 DEF Traced
  <2> QED BY <1>6, <2>3, <2>4, <2>5, <2>6, <2>7 DEF MachineTakes
<1> QED BY <1>4, <1>5, <1>6 DEF Machine

\* A command goes to the worker threads.  In the same step halt() may answer
\* those who wait.
LEMMA SendBeginsAccounted ==
  ASSUME Accounted, CInv, IInv, NEW k \in Kinds, SendBegins(k), nextId <= MaxIds,
         phase' = phase,
         scheduled' \subseteq scheduled \cup
                      {<<i, "HALTED">> : i \in {j \in pending : fut[j] = "open"}}
  PROVE  Accounted'
PROOF
<1>1. LinkTypeOK /\ id \in Ids
  BY DEF IInv, Types, id, CInv, TypeOK
<1> PICK n \in Ids : n = id
  BY <1>1
<1>2. /\ fut'[n] = "open" /\ told'[n] = "none" /\ told' = told
      /\ \A i \in Ids : i # n => fut'[i] = fut[i]
      /\ pending' = pending \cup {n} /\ writers' = writers \cup {n}
      /\ UNCHANGED <<wire, rx, lost, running>>
  BY <1>1, IdFresh DEF SendBegins, LinkTypeOK, machine
<1>3. \A i : Traced(i) => Traced(i)'
  BY <1>2 DEF Traced, InWire, Answered
<1>4. \A r \in Replies : <<n, r>> \notin scheduled
  BY <1>1, FreshClaims
<1>5. \A i, r : <<i, r>> \in scheduled' => <<i, r>> \in scheduled \/ r = "HALTED"
  OBVIOUS
<1>6. Traced(n)'
  BY <1>2 DEF Traced
<1>7. \A i \in pending : i \in Ids /\ i # n
  BY <1>1 DEF LinkTypeOK, id
<1> QED BY <1>2, <1>3, <1>4, <1>5, <1>6, <1>7 DEF Accounted

\* Every step preserves it.
LEMMA NextAccounted ==
  ASSUME Accounted, CInv, IInv, [Next]_vars
  PROVE  Accounted'
PROOF
<1>1. /\ LinkTypeOK /\ nextId \in Nat
      /\ fut \in [Ids -> Replies \cup {"none", "open", "cancelled"}]
      /\ told \in [Ids -> Results \cup {"none"}]
      /\ pending \subseteq Ids
  <2>1. LinkTypeOK
    BY DEF CInv, TypeOK
  <2>2. pending \subseteq 1..nextId /\ nextId \in 0..(MaxIds + 1)
    BY <2>1 DEF LinkTypeOK
  <2> QED BY <2>1, <2>2 DEF LinkTypeOK
<1>2. CASE UNCHANGED <<pending, fut, told, scheduled, writers, wire, rx, lost, running,
                       phase>>
  BY <1>2 DEF Accounted, Traced, InWire, Answered
<1>3. CASE AtWork
  <2>1. UNCHANGED facade /\ phase' = phase
    BY <1>3 DEF AtWork, facade
  <2>2. ASSUME NEW k \in Kinds, SimSend(k), sim
        PROVE  Accounted'
    BY <2>2, NothingPending DEF SimSend
  <2>3. CASE reset_emergency
    BY <1>2, <2>1, <2>3 DEF reset_emergency, sends, line, machine
  <2>4. CASE Poll
    BY <2>1, <2>4, SendBeginsAccounted DEF Poll, IInv, Types
  <2>5. ASSUME NEW k \in Kinds, Issue(k),
               scheduled' \subseteq scheduled \cup
                 {<<i, "HALTED">> : i \in {j \in pending : fut[j] = "open"}}
        PROVE  Accounted'
    BY <2>1, <2>2, <2>5, SendBeginsAccounted DEF Issue, IInv, Types
  <2>6. CASE halt
    BY <2>5, <2>6 DEF halt
  <2>7. ASSUME NEW k \in {"MOVE", "ZHOME", "SERVO"}, Guarded(k)
        PROVE  Accounted'
    BY <2>5, <2>7 DEF Guarded
  <2> QED BY <1>3, <2>3, <2>4, <2>6, <2>7
          DEF AtWork, Tools, move_axis, lower_claw, raise_claw, home, open_claw,
              close_claw, home_z
<1>4. CASE StartSim \/ StartFails \/ StartEnds \/ StartOpens
  <2>1. phase \in {"off", "opening"} /\ pending' = pending
    BY <1>4 DEF StartSim, StartOpens, StartFails, StartEnds, linkVars, sends
  <2> QED BY <2>1, NothingPending
<1>5. CASE Stop
  BY <1>5 DEF Stop, Accounted
<1>6. CASE Settled \/ UNCHANGED vars
  BY <1>2, <1>6 DEF Settled, vars, linkVars, sends, line, machine, facade
<1>7. CASE Environment
  <2>1. phase' = phase
    BY <1>7 DEF Environment, facade
  <2> SUFFICES ASSUME phase = "up" PROVE Accounted'
    BY <2>1 DEF Accounted
  <2>2. \A i \in pending :
          /\ i \in Ids /\ Traced(i)
          /\ fut[i] \in {"open", "HALTED"} /\ told[i] \in {"none", "HALTED", "RAISED"}
          /\ \A r \in Replies : <<i, r>> \in scheduled => r = "HALTED"
    BY <1>1 DEF Accounted
  <2>3. CASE HomeZRefreshes
    <3>1. nextId # MaxIds + 1
      BY <2>3 DEF HomeZRefreshes, IInv, Types
    <3>2. nextId <= MaxIds
      BY <3>1 DEF IInv, Types
    <3> QED BY <2>1, <2>3, <3>2, SendBeginsAccounted DEF HomeZRefreshes
  <2>4. CASE ToolReturns
    BY <1>2, <2>1, <2>4 DEF ToolReturns, sends, line, machine
  <2>5. ASSUME NEW c \in Ids, NEW r \in Results, Resolves(c, r)
        PROVE  Accounted'
    <3>1. /\ r \in Replies /\ <<c, r>> \in scheduled /\ scheduled' \subseteq scheduled
          /\ UNCHANGED <<pending, writers, wire, rx, lost, running>>
      BY <1>1, <2>5, ScheduledType DEF Resolves, line, machine
    <3>2. \A i \in Ids : /\ fut'[i] \in {fut[i], r} /\ told'[i] \in {told[i], r}
                         /\ i # c => fut'[i] = fut[i] /\ told'[i] = told[i]
      BY <1>1, <2>5 DEF Resolves
    <3>3. \A i : Traced(i) => Traced(i)'
      BY <3>1 DEF Traced, InWire, Answered
    <3> QED BY <2>2, <3>1, <3>2, <3>3 DEF Accounted
  <2>6. ASSUME NEW c \in Ids, WriteLine(c)
        PROVE  Accounted'
    <3>1. /\ writers' = writers \ {c} /\ wire' = Append(wire, c)
          /\ UNCHANGED <<pending, fut, told, scheduled, rx, lost, running>>
          /\ wire \in Seq(1..nextId)
      BY <1>1, <2>6 DEF WriteLine, LinkTypeOK, sends, machine
    <3>3. /\ Len(wire') = Len(wire) + 1 /\ Len(wire) \in Nat /\ wire'[Len(wire)+1] = c
          /\ \A n \in 1..Len(wire) : n \in 1..Len(wire') /\ wire'[n] = wire[n]
      BY <3>1
    <3>4. InWire(c)' /\ \A i : InWire(i) => InWire(i)'
      BY <3>3 DEF InWire
    <3>5. \A i : Traced(i) => Traced(i)'
      BY <3>1, <3>4 DEF Traced, Answered
    <3> QED BY <2>2, <3>1, <3>5 DEF Accounted
  <2>7. ASSUME NEW c \in Ids, WriteFails(c)
        PROVE  Accounted'
    <3>1. c \in writers /\ call[c] = "writing"
      BY <2>7 DEF WriteFails, IInv, Locked
    <3>2. /\ writers' = writers \ {c} /\ pending' = pending \ {c}
          /\ told' = [told EXCEPT ![c] = "ERR"]
          /\ UNCHANGED <<fut, scheduled, wire, rx, lost, running>>
      BY <2>7, <3>1 DEF WriteFails, machine
    <3>3. \A i : i # c /\ Traced(i) => Traced(i)'
      BY <3>2 DEF Traced, InWire, Answered
    <3>4. \A i \in Ids : i # c => told'[i] = told[i]
      BY <1>1, <3>2
    <3> QED BY <2>2, <3>2, <3>3, <3>4 DEF Accounted
  <2>8. ASSUME NEW c \in Ids, Timeout(c)
        PROVE  Accounted'
    <3>1. /\ pending' = pending \ {c}
          /\ told' = [told EXCEPT ![c] = "TIMEOUT"]
          /\ fut' = [fut EXCEPT ![c] = "cancelled"]
          /\ UNCHANGED <<scheduled, writers, wire, rx, lost, running>>
      BY <2>8 DEF Timeout, line, machine
    <3>2. \A i : Traced(i) => Traced(i)'
      BY <3>1 DEF Traced, InWire, Answered
    <3>3. \A i \in Ids : i # c => told'[i] = told[i] /\ fut'[i] = fut[i]
      BY <1>1, <3>1
    <3> QED BY <2>2, <3>1, <3>2, <3>3 DEF Accounted
  <2>9. CASE _handle_line
    <3>1. /\ rx # <<>> /\ Head(rx) = rx[1] /\ rx' = Tail(rx)
          /\ rx \in Seq([id : 0..nextId, r : Replies, at : -1..nextId])
          /\ pending' = pending \ {rx[1].id}
          /\ \A i, r : <<i, r>> \in scheduled' => <<i, r>> \in scheduled \/ i = rx[1].id
          /\ UNCHANGED <<fut, told, writers, wire, lost, running>>
      BY <1>1, <2>9 DEF _handle_line, _resolve_future, LinkTypeOK, machine
    <3>2. \A n \in 1..Len(rx) : n = 1 \/ (n - 1 \in 1..Len(rx') /\ rx'[n - 1] = rx[n])
      BY <3>1
    <3>3. \A i : i # rx[1].id /\ Answered(i) => Answered(i)'
      BY <3>1, <3>2 DEF Answered
    <3>4. \A i : i # rx[1].id /\ Traced(i) => Traced(i)'
      BY <3>1, <3>3 DEF Traced, InWire
    <3> QED BY <2>2, <3>1, <3>4 DEF Accounted
  <2>10. CASE Machine
    <3>1. UNCHANGED <<pending, fut, told, scheduled>>
      BY <2>10 DEF Machine, Boots, Finishes, MachineTakes, TakesNothing, TakesQuery,
                   TakesHalt, TakesBusy, TakesServo, TakesMotion, Takes, sends
    <3>2. \A i \in pending : Traced(i)'
      BY <2>2, <2>10, MachineTraces
    <3> QED BY <2>2, <3>1, <3>2 DEF Accounted
  <2>11. CASE Unplugged
    <3>1. /\ wire' = <<>> /\ rx' = <<>>
          /\ lost' = lost \cup {wire[n] : n \in 1..Len(wire)}
                          \cup {rx[n].id : n \in 1..Len(rx)}
          /\ UNCHANGED <<pending, fut, told, scheduled, writers, running>>
      BY <2>11 DEF Unplugged, sends, machine
    <3>2. \A i : Traced(i) => Traced(i)'
      BY <3>1 DEF Traced, InWire, Answered
    <3> QED BY <2>2, <3>1, <3>2 DEF Accounted
  <2>12. ASSUME NEW c \in Ids, FlushEnds(c)
         PROVE  Accounted'
    <3>1. UNCHANGED <<pending, fut, scheduled, writers, wire, rx, lost, running>>
      BY <2>12 DEF FlushEnds, line, machine
    <3>2. \A i \in Ids : told'[i] = told[i] \/ (told'[i] = fut[i] /\ fut[i] \in Results)
      BY <1>1, <2>12 DEF FlushEnds, Written
    <3>3. \A i : Traced(i) => Traced(i)'
      BY <3>1 DEF Traced, InWire, Answered
    <3>4. "open" \notin Results
      BY DEF Results, Replies
    <3> QED BY <2>2, <3>1, <3>2, <3>3, <3>4 DEF Accounted
  <2>13. ASSUME NEW c \in Ids, FlushFails(c)
         PROVE  Accounted'
    <3>1. /\ UNCHANGED <<fut, scheduled, writers, wire, rx, lost, running>>
          /\ \/ pending' = pending \ {c} /\ told' = [told EXCEPT ![c] = "ERR"]
             \/ pending' = pending /\ told' = [told EXCEPT ![c] = "RAISED"]
      BY <2>13 DEF FlushFails, line, machine
    <3>2. \A i : Traced(i) => Traced(i)'
      BY <3>1 DEF Traced, InWire, Answered
    <3>3. \A i \in pending' : /\ i \in pending
                             /\ told'[i] \in {told[i], "RAISED"}
      BY <1>1, <2>2, <3>1
    <3> QED BY <2>2, <3>1, <3>2, <3>3 DEF Accounted
  <2> QED BY <1>7, <2>3, <2>4, <2>5, <2>6, <2>7, <2>8, <2>9, <2>10, <2>11, <2>12, <2>13
          DEF Environment, Loop, Send
<1> QED BY <1>3, <1>4, <1>5, <1>6, <1>7 DEF Next

\* While the service works no future is left behind, except those of callers whom
\* halt() answered, or to whom a flush raised what _send does not catch, and whose
\* line or answer was lost (legacy_controller.py, _send and _resolve_future).
THEOREM NothingForgotten == Spec => []BooksEmpty
PROOF
<1>1. Init => Accounted
  BY DEF Init, Accounted
<1>2. Accounted /\ CInv => BooksEmpty
  <2> SUFFICES ASSUME Accounted, CInv, phase = "up", writers = {}, wire = <<>>, rx = <<>>,
                      running = 0, NEW i \in pending, call[i] = "returned"
               PROVE  i \in lost /\ told[i] \in {"HALTED", "RAISED"}
    BY DEF BooksEmpty
  <2>1. i \in Ids
    <3>1. pending \subseteq 1..nextId /\ nextId \in 0..(MaxIds + 1)
      BY DEF CInv, TypeOK, LinkTypeOK
    <3> QED BY <3>1
  <2>2. Traced(i) /\ told[i] \in {"none", "HALTED", "RAISED"} /\ i # 0
    BY <2>1 DEF Accounted
  <2>3. told[i] # "none"
    BY <2>1 DEF CInv, Told
  <2>4. Len(wire) = 0 /\ Len(rx) = 0
    OBVIOUS
  <2>5. ~InWire(i) /\ ~\E n \in 1..Len(rx) : rx[n].id = i
    BY <2>4 DEF InWire
  <2> QED BY <2>2, <2>3, <2>5 DEF Traced, Answered
<1> QED BY <1>1, <1>2, NextAccounted, InductiveC, Inductive, PTL DEF Spec
-----------------------------------------------------------------------------
\* The state the tools show after home_z

\* The port is open while the service starts and works; what came back is gone
\* when it closes; and no motion is underway before the service works, or in a
\* simulation.
Ports ==
  /\ port = "open" => ~sim /\ phase \in {"opening", "up"}
  /\ port # "open" => rx = <<>>
  /\ sim \/ phase \in {"off", "opening"} => running = 0

\* Nothing comes back through a port that is not open.
LEMMA SaysThroughPort ==
  ASSUME NEW lines, Says(lines), Ports, UNCHANGED port
  PROVE  port' # "open" => rx' = <<>>
BY DEF Says, Ports

\* Every step preserves it.
LEMMA NextPorts ==
  ASSUME Ports, Simulated, CInv, IInv, [Next]_vars
  PROVE  Ports'
PROOF
<1>1. LinkTypeOK
  BY DEF CInv, TypeOK
<1>2. CASE UNCHANGED <<port, sim, phase, rx, running>>
  BY <1>2 DEF Ports
<1>3. CASE AtWork
  BY <1>2, <1>3 DEF AtWork, Tools, move_axis, lower_claw, raise_claw, home, open_claw,
                    close_claw, home_z, Guarded, Issue, halt, reset_emergency, Poll,
                    SendBegins, SimSend, threads, line, machine, facade
<1>4. CASE StartSim \/ StartFails
  BY <1>4 DEF StartSim, StartFails, Simulate, Ports, threads, line, machine
<1>5. CASE StartOpens \/ StartEnds
  BY <1>5 DEF StartOpens, StartEnds, Ports, Simulated, linkVars, threads, line, machine
<1>6. CASE Stop
  BY <1>6 DEF Stop, Ports, machine
<1>7. CASE Settled \/ UNCHANGED vars
  BY <1>2, <1>7 DEF Settled, vars, linkVars, threads, line, machine, facade
<1>8. CASE Environment
  <2>1. phase' = phase
    BY <1>8 DEF Environment, facade
  <2>2. CASE HomeZRefreshes \/ ToolReturns
    BY <1>2, <2>1, <2>2 DEF HomeZRefreshes, SendBegins, ToolReturns, threads, line,
                            machine
  <2>3. ASSUME NEW c \in Ids, NEW r \in Results, Resolves(c, r)
        PROVE  Ports'
    BY <1>2, <2>1, <2>3 DEF Resolves, threads, line, machine
  <2>4. ASSUME NEW c \in Ids, Send(c)
        PROVE  Ports'
    BY <1>2, <2>1, <2>4 DEF Send, WriteLine, WriteFails, FlushEnds,
                            FlushFails, Flushing, Timeout, threads, line, machine
  <2>5. CASE _handle_line
    BY <2>1, <2>5 DEF _handle_line, Ports, machine
  <2>6. CASE Unplugged
    BY <2>1, <2>6 DEF Unplugged, Ports, machine
  <2>7. CASE Machine
    <3>1. UNCHANGED <<port, sim, phase>>
      BY <2>1, <2>7 DEF Machine, Boots, Finishes, MachineTakes, TakesNothing, TakesQuery,
                        TakesHalt, TakesBusy, TakesServo, TakesMotion, Takes, threads
    <3>2. rx' = rx \/ \E lines : Says(lines)
      BY <2>7 DEF Machine, Boots, Finishes, MachineTakes, TakesNothing, TakesQuery,
                  TakesHalt, TakesBusy, TakesServo, TakesMotion
    <3>3. port # "open" => rx' = <<>>
      BY <3>1, <3>2, SaysThroughPort DEF Ports
    <3>4. running' \in {running, 0} \/ wire # <<>>
      BY <2>7 DEF Machine, Boots, Finishes, MachineTakes, TakesNothing, TakesQuery,
                  TakesHalt, TakesBusy, TakesServo, TakesMotion, Takes
    <3> QED BY <3>1, <3>3, <3>4 DEF Ports, IInv, Quiet
  <2> QED BY <1>8, <2>2, <2>3, <2>4, <2>5, <2>6, <2>7 DEF Environment, Loop
<1> QED BY <1>3, <1>4, <1>5, <1>6, <1>7, <1>8 DEF Next

\* The motions come to the machine in the order of their ids: those on the wire
\* after the one underway, and that after the last one it completed.
Row ==
  /\ \A a, b \in 1..Len(wire) :
       a < b /\ kind[wire[a]] \in Motions /\ kind[wire[b]] \in Motions
         => wire[a] < wire[b]
  /\ \A n \in 1..Len(wire) :
       kind[wire[n]] \in Motions => moved < wire[n] /\ running < wire[n]
  /\ running # 0 => moved < running
  /\ moved # 0 => moved \in Ids /\ kind[moved] \in Motions /\ work[moved] = "done"
  /\ \A z \in Ids : kind[z] \in Motions /\ work[z] = "done" => z <= moved

\* A step that leaves the machine and its line alone.
LEMMA IrrelevantRow ==
  ASSUME Row, UNCHANGED <<kind, wire, running, moved, work>>
  PROVE  Row'
BY DEF Row

\* A line is taken or the wire is empty.
LEMMA ShorterRow ==
  ASSUME Row, CInv, UNCHANGED <<kind, running, moved, work>>,
         wire' = <<>> \/ (wire # <<>> /\ wire' = Tail(wire))
  PROVE  Row'
PROOF
<1>1. wire \in Seq(1..nextId)
  BY DEF CInv, TypeOK, LinkTypeOK
<1>2. \A n \in 1..Len(wire') : n + 1 \in 1..Len(wire) /\ wire'[n] = wire[n + 1]
  BY <1>1
<1>3. ASSUME NEW a \in 1..Len(wire'), NEW b \in 1..Len(wire'), a < b,
             kind'[wire'[a]] \in Motions, kind'[wire'[b]] \in Motions
      PROVE  wire'[a] < wire'[b]
  <2>1. a + 1 < b + 1
    BY <1>3
  <2> QED BY <1>2, <1>3, <2>1 DEF Row
<1>4. \A n \in 1..Len(wire') :
        kind'[wire'[n]] \in Motions => moved' < wire'[n] /\ running' < wire'[n]
  BY <1>2 DEF Row
<1> QED BY <1>3, <1>4 DEF Row

\* A new command is none of those.
LEMMA GrownRow ==
  ASSUME Row, CInv, IInv, NEW k \in Kinds, SendBegins(k), nextId <= MaxIds
  PROVE  Row'
PROOF
<1>1. LinkTypeOK /\ id \in Ids /\ id = nextId + 1 /\ nextId \in Nat
  BY DEF IInv, Types, id, CInv, TypeOK
<1> PICK m \in Ids : m = id
  BY <1>1
<1>2. /\ \A i \in Ids : i # m => kind'[i] = kind[i]
      /\ UNCHANGED <<wire, running, moved, work>>
  BY <1>1 DEF SendBegins, LinkTypeOK, machine
<1>3. \A n \in 1..Len(wire) : wire[n] \in Ids /\ wire[n] # m
  BY <1>1 DEF IInv, Fresh, Types
<1>4. moved # m /\ work[m] = "none"
  BY <1>1 DEF IInv, Fresh, LinkTypeOK
<1> QED BY <1>2, <1>3, <1>4 DEF Row

\* A simulated command is done at once, after all others.
LEMMA SimRow ==
  ASSUME Row, Ports, CInv, IInv, NEW k \in Kinds, SimSend(k), nextId < MaxIds, sim
  PROVE  Row'
PROOF
<1>1. LinkTypeOK /\ id \in Ids /\ id = nextId + 1 /\ nextId \in Nat
  BY DEF IInv, Types, id, CInv, TypeOK
<1> PICK m \in Ids : m = id
  BY <1>1
<1>2. /\ kind'[m] = k /\ work'[m] = "done"
      /\ \A i \in Ids : i # m => kind'[i] = kind[i] /\ work'[i] = work[i]
      /\ moved' = IF k \in Motions THEN m ELSE moved
      /\ UNCHANGED <<wire, running>>
  BY <1>1 DEF SimSend, LinkTypeOK, line
<1>3. wire = <<>> /\ running = 0 /\ Len(wire) = 0
  BY DEF Ports, IInv, Quiet
<1>4. moved \in 0..nextId /\ moved # m
  BY <1>1 DEF LinkTypeOK
<1>5. \A z \in Ids : z <= nextId => z <= m
  BY <1>1
<1>6. \A z \in Ids : kind[z] \in Motions => z <= nextId
  BY <1>1 DEF IInv, Fresh
<1> QED BY <1>2, <1>3, <1>4, <1>5, <1>6 DEF Row

\* The motion that is written has the tools' lock, and so is the newest.
LEMMA WrittenRow ==
  ASSUME Row, Ports, LockInv, CInv, IInv, NEW i \in Ids, WriteLine(i)
  PROVE  Row'
PROOF
<1>1. /\ i \in writers /\ port = "open" /\ wire' = Append(wire, i)
      /\ UNCHANGED <<kind, running, moved, work>>
  BY DEF WriteLine, machine, sends
<1>2. /\ wire \in Seq(1..nextId) /\ nextId \in Nat /\ running \in 0..nextId
      /\ moved \in 0..nextId
      /\ \A j \in Ids : work[j] = "running" <=> running = j
  BY DEF CInv, TypeOK, LinkTypeOK
<1>3. /\ Len(wire') = Len(wire) + 1 /\ Len(wire) \in Nat /\ wire'[Len(wire) + 1] = i
      /\ \A n \in 1..Len(wire) : wire'[n] = wire[n]
  BY <1>1, <1>2
<1>4. phase = "up"
  BY <1>1 DEF Ports, IInv, Quiet
<1>5. ASSUME kind[i] \in Motions
      PROVE  \A j \in Ids : kind[j] \in Motions /\ j # i => j < i
  <2>1. tool = i /\ i # 0
    BY <1>1, <1>4, <1>5 DEF IInv, Locked
  <2> QED BY <2>1 DEF LockInv, Newest
<1>6. work[i] = "none" /\ \A n \in 1..Len(wire) : wire[n] \in Ids /\ wire[n] # i
  BY <1>1 DEF CInv, Once, InWire, IInv, Types
<1>7. ASSUME kind[i] \in Motions
      PROVE  moved < i /\ running < i
  <2>1. moved # 0 => moved < i
    BY <1>5, <1>6, <1>7 DEF Row
  <2>2. running # 0 => running \in Ids /\ kind[running] \in Motions /\ running # i
    BY <1>2, <1>6 DEF IInv, Fresh
  <2> QED BY <1>5, <1>7, <2>1, <2>2
<1>8. ASSUME NEW a \in 1..Len(wire'), NEW b \in 1..Len(wire'), a < b,
             kind[wire'[a]] \in Motions, kind[wire'[b]] \in Motions
      PROVE  wire'[a] < wire'[b]
  <2>1. a \in 1..Len(wire)
    BY <1>3, <1>8
  <2>2. CASE b \in 1..Len(wire)
    BY <1>3, <1>8, <2>1, <2>2 DEF Row
  <2>3. CASE b = Len(wire) + 1
    BY <1>3, <1>5, <1>6, <1>8, <2>1, <2>3
  <2> QED BY <1>3, <2>2, <2>3
<1>9. ASSUME NEW n \in 1..Len(wire'), kind[wire'[n]] \in Motions
      PROVE  moved < wire'[n] /\ running < wire'[n]
  <2>1. CASE n \in 1..Len(wire)
    BY <1>3, <1>9, <2>1 DEF Row
  <2>2. CASE n = Len(wire) + 1
    BY <1>3, <1>7, <1>9, <2>2
  <2> QED BY <1>3, <2>1, <2>2
<1> QED BY <1>1, <1>8, <1>9 DEF Row

\* The machine takes the motions in their order, one after the other.
LEMMA MachineRow ==
  ASSUME Row, CInv, IInv, Machine
  PROVE  Row'
PROOF
<1>1. /\ wire \in Seq(1..nextId) /\ nextId \in Nat /\ running \in 0..nextId
      /\ moved \in 0..nextId
      /\ work \in [Ids -> {"none", "running", "done", "stopped"}]
      /\ \A j \in Ids : work[j] = "running" <=> running = j
  BY DEF CInv, TypeOK, LinkTypeOK
<1>2. kind' = kind
  BY DEF Machine, Boots, Finishes, MachineTakes, TakesNothing, TakesQuery, TakesHalt,
         TakesBusy, TakesServo, TakesMotion, Takes, sends
<1>3. \A n \in 1..Len(wire) : wire[n] \in 1..nextId /\ wire[n] > 0
  BY <1>1, SeqElement
<1>4. CASE Boots
  BY <1>4, IrrelevantRow DEF Boots, sends
<1>5. CASE Finishes
  <2>1. PICK h \in Ids : running = h /\ kind[h] \in Motions /\ moved < h
    BY <1>5 DEF Finishes, IInv, Fresh, Row
  <2>2. /\ running' = 0 /\ wire' = wire
        /\ \/ work' = [work EXCEPT ![h] = "done"] /\ moved' = h
           \/ work' = [work EXCEPT ![h] = "stopped"] /\ moved' = moved
    BY <1>5, <2>1 DEF Finishes
  <2>3. \A z \in Ids : z # h => work'[z] = work[z]
    BY <1>1, <2>2
  <2>4. \/ work'[h] = "done" /\ moved' = h
        \/ work'[h] = "stopped" /\ moved' = moved
    <3>1. CASE work' = [work EXCEPT ![h] = "done"] /\ moved' = h
      BY <1>1, <3>1
    <3>2. CASE work' = [work EXCEPT ![h] = "stopped"] /\ moved' = moved
      BY <1>1, <3>2
    <3> QED BY <2>2, <3>1, <3>2
  <2>5. \A n \in 1..Len(wire) : kind[wire[n]] \in Motions => moved' < wire[n] /\ 0 < wire[n]
    BY <1>3, <2>1, <2>4 DEF Row
  <2>6. moved' # 0 => moved' \in Ids /\ kind[moved'] \in Motions /\ work'[moved'] = "done"
    BY <2>1, <2>3, <2>4 DEF Row
  <2>7. \A z \in Ids : kind[z] \in Motions /\ work'[z] = "done" => z <= moved'
    <3> SUFFICES ASSUME NEW z \in Ids, kind[z] \in Motions, work'[z] = "done"
                 PROVE  z <= moved'
      OBVIOUS
    <3>1. CASE z = h
      BY <2>4, <3>1
    <3>2. CASE z # h
      BY <1>1, <2>1, <2>3, <2>4, <3>2 DEF Row
    <3> QED BY <3>1, <3>2
  <2> QED BY <1>2, <2>2, <2>5, <2>6, <2>7 DEF Row
<1>6. ASSUME NEW i \in Ids, MachineTakes(i)
      PROVE  Row'
  <2>1. Takes(i)
    BY <1>6 DEF MachineTakes, TakesNothing, TakesQuery, TakesHalt, TakesBusy,
                TakesServo, TakesMotion
  <2>2. wire # <<>> /\ wire' = Tail(wire) /\ i = wire[1] /\ 1 \in 1..Len(wire)
    BY <1>1, <2>1 DEF Takes
  <2>3. CASE TakesNothing(i) \/ TakesQuery(i) \/ TakesBusy(i)
    BY <1>2, <2>2, <2>3, ShorterRow DEF TakesNothing, TakesQuery, TakesBusy
  <2>4. /\ work[i] = "none"
        /\ \A n \in 1..Len(wire') : /\ n + 1 \in 1..Len(wire) /\ wire'[n] = wire[n + 1]
                                    /\ 1 < n + 1
    BY <1>1, <2>2 DEF CInv, Once
  <2>5. \A a, b \in 1..Len(wire') :
          a < b /\ kind[wire'[a]] \in Motions /\ kind[wire'[b]] \in Motions
            => wire'[a] < wire'[b]
    <3> SUFFICES ASSUME NEW a \in 1..Len(wire'), NEW b \in 1..Len(wire'), a < b,
                        kind[wire'[a]] \in Motions, kind[wire'[b]] \in Motions
                 PROVE  wire'[a] < wire'[b]
      OBVIOUS
    <3>1. a + 1 < b + 1
      OBVIOUS
    <3> QED BY <2>4, <3>1 DEF Row
  <2>6. CASE TakesServo(i) \/ TakesHalt(i)
    <3>1. /\ kind[i] \notin Motions /\ moved' = moved /\ running' \in {running, 0}
          /\ \A z \in Ids : z # i => work'[z] = work[z] \/ (z = running /\ work'[z] = "stopped")
      BY <1>1, <2>6 DEF TakesServo, TakesHalt
    <3>2. \A n \in 1..Len(wire') :
            kind[wire'[n]] \in Motions => moved' < wire'[n] /\ running' < wire'[n]
      BY <1>3, <2>4, <3>1 DEF Row
    <3>3. moved # 0 => moved # i /\ moved # running
      BY <1>1, <3>1 DEF Row
    <3>4. moved' # 0 => moved' \in Ids /\ kind[moved'] \in Motions /\ work'[moved'] = "done"
      BY <3>1, <3>3 DEF Row
    <3>5. \A z \in Ids : kind[z] \in Motions /\ work'[z] = "done" => z <= moved'
      BY <3>1 DEF Row
    <3> QED BY <1>2, <2>5, <3>1, <3>2, <3>4, <3>5 DEF Row
  <2>7. CASE TakesMotion(i)
    <3>1. /\ kind[i] \in Motions /\ running' = i /\ moved' = moved
          /\ work' = [work EXCEPT ![i] = "running"]
      BY <2>7 DEF TakesMotion
    <3>2. moved < i /\ \A n \in 1..Len(wire') : kind[wire'[n]] \in Motions => i < wire'[n]
      BY <2>2, <2>4, <3>1 DEF Row
    <3>3. \A n \in 1..Len(wire') :
            kind[wire'[n]] \in Motions => moved' < wire'[n] /\ running' < wire'[n]
      BY <2>4, <3>1, <3>2 DEF Row
    <3>4. work'[i] = "running" /\ \A z \in Ids : z # i => work'[z] = work[z]
      BY <1>1, <3>1
    <3>5. moved' # 0 => moved' \in Ids /\ kind[moved'] \in Motions /\ work'[moved'] = "done"
      BY <2>4, <3>1, <3>4 DEF Row
    <3>6. \A z \in Ids : kind[z] \in Motions /\ work'[z] = "done" => z <= moved'
      BY <3>1, <3>4 DEF Row
    <3> QED BY <1>2, <2>5, <3>1, <3>2, <3>3, <3>5, <3>6 DEF Row
  <2> QED BY <1>6, <2>3, <2>6, <2>7 DEF MachineTakes
<1> QED BY <1>4, <1>5, <1>6 DEF Machine

\* Every step preserves it.
LEMMA NextRow ==
  ASSUME Row, Ports, LockInv, CInv, IInv, [Next]_vars
  PROVE  Row'
PROOF
<1>1. CASE UNCHANGED <<kind, wire, running, moved, work>>
  BY <1>1, IrrelevantRow
<1>2. CASE AtWork
  <2>1. ASSUME NEW k \in Kinds, Issue(k)
        PROVE  Row'
    BY <2>1, SimRow, GrownRow DEF Issue, IInv, Types
  <2>2. CASE Poll
    BY <2>2, GrownRow DEF Poll, IInv, Types
  <2>3. CASE reset_emergency
    BY <1>1, <2>3 DEF reset_emergency, sends, line, machine
  <2> QED BY <1>2, <2>1, <2>2, <2>3
          DEF AtWork, Tools, move_axis, lower_claw, raise_claw, home, open_claw,
              close_claw, home_z, halt, Guarded
<1>3. CASE StartSim \/ StartOpens \/ StartFails \/ StartEnds \/ Settled
           \/ UNCHANGED vars
  BY <1>1, <1>3 DEF StartSim, StartOpens, StartFails, StartEnds, Settled, vars,
                    linkVars, sends, line, machine
<1>4. CASE Stop
  BY <1>1, <1>4 DEF Stop, machine
<1>5. CASE Environment
  <2>1. CASE HomeZRefreshes
    <3>1. nextId # MaxIds + 1
      BY <2>1 DEF HomeZRefreshes, IInv, Types
    <3>2. nextId <= MaxIds
      BY <3>1 DEF IInv, Types
    <3> QED BY <2>1, <3>2, GrownRow DEF HomeZRefreshes
  <2>2. CASE ToolReturns \/ _handle_line
    BY <1>1, <2>2 DEF ToolReturns, _handle_line, sends, line, machine
  <2>3. ASSUME NEW i \in Ids, NEW r \in Results, Resolves(i, r)
        PROVE  Row'
    BY <1>1, <2>3 DEF Resolves, line, machine
  <2>4. ASSUME NEW i \in Ids, \/ WriteFails(i) \/ Timeout(i)
                              \/ FlushEnds(i) \/ FlushFails(i)
        PROVE  Row'
    BY <1>1, <2>4 DEF WriteFails, FlushEnds, FlushFails, Timeout, line, machine
  <2>5. CASE Unplugged
    BY <2>5, ShorterRow DEF Unplugged, sends, machine
  <2> QED BY <1>5, <2>1, <2>2, <2>3, <2>4, <2>5, WrittenRow, MachineRow
          DEF Environment, Loop, Send
<1> QED BY <1>2, <1>3, <1>4, <1>5 DEF Next

\* A STATE line says how far the machine was when it wrote it.  Those on their way
\* back are in order, and the cached state is older than they are.
Views ==
  /\ cached <= moved
  /\ \A n \in 1..Len(rx) : rx[n].at = -1 \/ (cached <= rx[n].at /\ rx[n].at <= moved)
  /\ \A a, b \in 1..Len(rx) :
       a < b /\ rx[a].at # -1 /\ rx[b].at # -1 => rx[a].at <= rx[b].at

\* A line of the machine tells the state as it is now, or none; and the answer to
\* a query tells it.
Tells(lines) ==
  /\ lines \in Seq([id : 0..nextId, r : Replies, at : -1..nextId])
  /\ \A m \in 1..Len(lines) :
       /\ lines[m].at \in {-1, moved'}
       /\ lines[m].id \in Ids /\ kind[lines[m].id] = "STATE?" =>
            lines[m].r = "OK" /\ lines[m].at = moved

\* What the machine says.
LEMMA MachineSays ==
  ASSUME Row, CInv, IInv, Machine
  PROVE  /\ moved' \in Nat /\ moved <= moved' /\ cached' = cached
         /\ \/ rx' = rx
            \/ \E lines : Tells(lines) /\ rx' = rx \o lines
PROOF
<1>1. /\ nextId \in Nat /\ -1 \in -1..nextId /\ 0 \in 0..nextId /\ 0 \notin Ids
      /\ running \in 0..nextId /\ moved \in 0..nextId /\ moved \in -1..nextId
      /\ LinkTypeOK
  BY DEF CInv, TypeOK, LinkTypeOK
<1>2. moved' \in Nat /\ moved <= moved' /\ cached' = cached
  <2>1. cached' = cached
    BY DEF Machine, Boots, Finishes, MachineTakes, TakesNothing, TakesQuery, TakesHalt,
           TakesBusy, TakesServo, TakesMotion, Takes
  <2>2. moved' = moved \/ (running # 0 /\ moved' = running)
    BY DEF Machine, Boots, Finishes, MachineTakes, TakesNothing, TakesQuery, TakesHalt,
           TakesBusy, TakesServo, TakesMotion
  <2>3. running # 0 => moved < running
    BY DEF Row
  <2> QED BY <1>1, <2>1, <2>2, <2>3
<1> DEFINE R == [id : 0..nextId, r : Replies, at : -1..nextId]
           Goal == rx' = rx \/ \E lines : Tells(lines) /\ rx' = rx \o lines
<1>3. ASSUME NEW c \in 0..nextId, NEW r \in Replies, NEW at \in -1..nextId,
             Says(<<[id |-> c, r |-> r, at |-> at]>>), at \in {-1, moved'},
             c \in Ids /\ kind[c] = "STATE?" => r = "OK" /\ at = moved
      PROVE  Goal
  <2> DEFINE lines == <<[id |-> c, r |-> r, at |-> at]>>
  <2>1. lines \in Seq(R) /\ \A m \in 1..Len(lines) : /\ lines[m].id = c /\ lines[m].r = r
                                                    /\ lines[m].at = at
    OBVIOUS
  <2>2. Says(lines)
    BY <1>3
  <2> HIDE DEF lines
  <2>3. Tells(lines)
    BY <1>3, <2>1 DEF Tells
  <2> QED BY <2>2, <2>3 DEF Says
<1>4. ASSUME NEW h \in 0..nextId, NEW c \in 0..nextId,
             Says(<<Reply(h, "HALTED"), Reply(c, "OK")>>),
             h \in Ids => kind[h] # "STATE?", c \in Ids => kind[c] # "STATE?"
      PROVE  Goal
  <2> DEFINE lines == <<Reply(h, "HALTED"), Reply(c, "OK")>>
  <2>1. lines \in Seq(R) /\ \A m \in 1..Len(lines) : /\ lines[m].id \in {h, c}
                                                    /\ lines[m].at = -1
    <3>1. /\ Reply(h, "HALTED") \in R /\ Reply(c, "OK") \in R
          /\ Reply(h, "HALTED").id = h /\ Reply(h, "HALTED").at = -1
          /\ Reply(c, "OK").id = c /\ Reply(c, "OK").at = -1
      BY <1>1 DEF Reply, Replies
    <3> QED BY <3>1
  <2>2. Says(lines)
    BY <1>4
  <2> HIDE DEF lines
  <2>3. Tells(lines)
    BY <1>4, <2>1 DEF Tells
  <2> QED BY <2>2, <2>3 DEF Says
<1>5. "OK" \in Replies /\ "BUSY" \in Replies /\ "STUCK" \in Replies
  BY DEF Replies
<1>6. CASE Boots
  <2>1. Says(<<[id |-> 0, r |-> "OK", at |-> -1]>>)
    BY <1>6 DEF Boots, Reply
  <2> QED BY <1>1, <1>2, <1>3, <1>5, <2>1
<1>7. running # 0 => running \in Ids /\ kind[running] # "STATE?"
  BY DEF IInv, Fresh
<1>8. CASE Finishes
  <2>1. \E r \in Replies : Says(<<[id |-> running, r |-> r, at |-> -1]>>)
    BY <1>5, <1>8 DEF Finishes, Reply
  <2>2. kind[running] # "STATE?"
    BY <1>7, <1>8 DEF Finishes
  <2> QED BY <1>1, <1>2, <1>3, <2>1, <2>2
<1>9. ASSUME NEW i \in Ids, MachineTakes(i)
      PROVE  Goal
  <2>1. i \in 0..nextId
    <3>1. Takes(i)
      BY <1>9 DEF MachineTakes, TakesNothing, TakesQuery, TakesHalt, TakesBusy,
                  TakesServo, TakesMotion
    <3> QED BY <3>1, TakesWire
  <2>2. CASE TakesNothing(i) \/ TakesMotion(i)
    BY <2>2 DEF TakesNothing, TakesMotion
  <2>3. CASE TakesQuery(i)
    <3>1. Says(<<[id |-> i, r |-> "OK", at |-> moved]>>) /\ moved' = moved
      BY <2>3 DEF TakesQuery
    <3> QED BY <1>1, <1>3, <1>5, <2>1, <3>1
  <2>4. CASE TakesBusy(i) \/ TakesServo(i)
    <3>1. /\ kind[i] # "STATE?"
          /\ \E r \in Replies : Says(<<[id |-> i, r |-> r, at |-> -1]>>)
      BY <1>5, <2>4 DEF TakesBusy, TakesServo, Reply
    <3> QED BY <1>1, <1>3, <2>1, <3>1
  <2>5. CASE TakesHalt(i)
    <3>1. kind[i] # "STATE?"
      BY <2>5 DEF TakesHalt
    <3>2. CASE running = 0
      <4>1. Says(<<[id |-> i, r |-> "OK", at |-> -1]>>)
        BY <2>5, <3>2 DEF TakesHalt, Reply
      <4> QED BY <1>1, <1>3, <1>5, <2>1, <3>1, <4>1
    <3>3. CASE running # 0
      <4>1. Says(<<Reply(running, "HALTED"), Reply(i, "OK")>>)
        BY <2>5, <3>3 DEF TakesHalt
      <4> QED BY <1>1, <1>4, <1>7, <2>1, <3>1, <3>3, <4>1
    <3> QED BY <3>2, <3>3
  <2> QED BY <1>9, <2>2, <2>3, <2>4, <2>5 DEF MachineTakes
<1> QED BY <1>2, <1>6, <1>8, <1>9 DEF Machine

\* What is read, and what is left to read.
LEMMA ReadsLine ==
  ASSUME CInv, _handle_line
  PROVE  /\ 1 \in 1..Len(rx) /\ rx[1].at \in Int /\ rx[1].r \in Replies
         /\ cached' = IF rx[1].at = -1 THEN cached ELSE rx[1].at
         /\ \A n \in 1..Len(rx') : n + 1 \in 1..Len(rx) /\ rx'[n] = rx[n + 1]
         /\ \A i, r : <<i, r>> \in scheduled' =>
              <<i, r>> \in scheduled \/ (rx[1].id = i /\ rx[1].r = r)
         /\ UNCHANGED <<fut, told, kind, tool, refresh, moved>>
PROOF
<1>1. rx \in Seq([id : 0..nextId, r : Replies, at : -1..nextId]) /\ nextId \in Nat
  BY DEF CInv, TypeOK, LinkTypeOK
<1>2. rx # <<>> /\ Head(rx) = rx[1] /\ rx' = Tail(rx) /\ 1 \in 1..Len(rx)
  BY <1>1 DEF _handle_line
<1>3. rx[1] \in [id : 0..nextId, r : Replies, at : -1..nextId]
  BY <1>1, <1>2, SeqElement
<1>4. /\ rx[1].at \in Int /\ rx[1].r \in Replies
      /\ cached' = IF rx[1].at = -1 THEN cached ELSE rx[1].at
      /\ UNCHANGED <<fut, told, kind, tool, refresh, moved>>
  BY <1>1, <1>2, <1>3 DEF _handle_line, tasks, machine
<1>5. \A i, r : <<i, r>> \in scheduled' =>
        <<i, r>> \in scheduled \/ (rx[1].id = i /\ rx[1].r = r)
  BY <1>2 DEF _handle_line, _resolve_future
<1>6. \A n \in 1..Len(rx') : n + 1 \in 1..Len(rx) /\ rx'[n] = rx[n + 1]
  BY <1>1, <1>2
<1> QED BY <1>2, <1>4, <1>5, <1>6

\* Every step preserves the order of the views, and the cached state does not go
\* back.
LEMMA NextViews ==
  ASSUME Views, Row, Ports, CInv, IInv, [Next]_vars
  PROVE  Views' /\ cached <= cached'
PROOF
<1>1. /\ rx \in Seq([id : 0..nextId, r : Replies, at : -1..nextId])
      /\ cached \in 0..nextId /\ moved \in 0..nextId /\ nextId \in Nat
  BY DEF CInv, TypeOK, LinkTypeOK
<1>2. \A n \in 1..Len(rx) : rx[n].at \in Int
  <2>1. \A n \in 1..Len(rx) : rx[n] \in [id : 0..nextId, r : Replies, at : -1..nextId]
    BY <1>1, SeqElement
  <2> QED BY <2>1
<1>3. CASE UNCHANGED <<rx, cached, moved>>
  BY <1>1, <1>3 DEF Views
<1>4. CASE rx' = <<>> /\ UNCHANGED <<cached, moved>>
  <2>1. Len(rx') = 0
    BY <1>4
  <2> QED BY <1>1, <1>4, <2>1 DEF Views
<1>5. CASE AtWork
  <2>1. ASSUME NEW k \in Kinds, SimSend(k), sim
        PROVE  Views' /\ cached <= cached'
    <3>1. rx' = <<>> /\ cached' = moved' /\ moved' \in {moved, id} /\ id = nextId + 1
      BY <2>1 DEF SimSend, Ports, line, id
    <3>2. Len(rx') = 0
      BY <3>1
    <3> QED BY <1>1, <3>1, <3>2 DEF Views
  <2>2. ASSUME NEW k \in Kinds, Issue(k)
        PROVE  Views' /\ cached <= cached'
    BY <1>3, <2>1, <2>2 DEF Issue, SendBegins, machine
  <2>3. CASE Poll \/ reset_emergency
    BY <1>3, <2>3 DEF Poll, SendBegins, reset_emergency, line, machine
  <2> QED BY <1>5, <2>2, <2>3
          DEF AtWork, Tools, move_axis, lower_claw, raise_claw, home, open_claw,
              close_claw, home_z, halt, Guarded
<1>6. CASE StartSim \/ StartOpens \/ StartFails \/ StartEnds \/ Settled
           \/ UNCHANGED vars
  BY <1>3, <1>6 DEF StartSim, StartOpens, StartFails, StartEnds, Settled, vars,
                    linkVars, line, machine
<1>7. CASE Stop
  BY <1>4, <1>7 DEF Stop, machine
<1>8. CASE Environment
  <2>1. CASE HomeZRefreshes \/ ToolReturns
    BY <1>3, <2>1 DEF HomeZRefreshes, SendBegins, ToolReturns, line, machine
  <2>2. ASSUME NEW i \in Ids, NEW r \in Results, Resolves(i, r)
        PROVE  Views' /\ cached <= cached'
    BY <1>3, <2>2 DEF Resolves, line, machine
  <2>3. ASSUME NEW i \in Ids, Send(i)
        PROVE  Views' /\ cached <= cached'
    BY <1>3, <2>3 DEF Send, WriteLine, WriteFails, FlushEnds,
                      FlushFails, Flushing, Timeout, line, machine
  <2>4. CASE Unplugged
    BY <1>4, <2>4 DEF Unplugged, machine
  <2>5. CASE _handle_line
    <3>1. cached' = IF rx[1].at = -1 THEN cached ELSE rx[1].at
      BY <2>5, ReadsLine
    <3>2. /\ 1 \in 1..Len(rx) /\ moved' = moved
          /\ \A n \in 1..Len(rx') : /\ n + 1 \in 1..Len(rx) /\ rx'[n] = rx[n + 1]
                                    /\ 1 < n + 1
      BY <2>5, ReadsLine
    <3>3. cached <= cached' /\ cached' <= moved
      BY <1>1, <1>2, <3>1, <3>2 DEF Views
    <3>4. ASSUME NEW n \in 1..Len(rx'), rx'[n].at # -1
          PROVE  cached' <= rx'[n].at /\ rx'[n].at <= moved
      BY <3>1, <3>2, <3>4 DEF Views
    <3>5. ASSUME NEW a \in 1..Len(rx'), NEW b \in 1..Len(rx'), a < b,
                 rx'[a].at # -1, rx'[b].at # -1
          PROVE  rx'[a].at <= rx'[b].at
      <4>1. a + 1 < b + 1
        BY <3>5
      <4> QED BY <3>2, <3>5, <4>1 DEF Views
    <3> QED BY <3>2, <3>3, <3>4, <3>5 DEF Views
  <2>6. CASE Machine
    <3>1. moved' \in Nat /\ moved <= moved' /\ cached' = cached
      BY <2>6, MachineSays
    <3>2. CASE rx' = rx
      BY <1>1, <1>2, <3>1, <3>2 DEF Views
    <3>3. ASSUME NEW lines, Tells(lines), rx' = rx \o lines
          PROVE  Views' /\ cached <= cached'
      <4>1. lines \in Seq([id : 0..nextId, r : Replies, at : -1..nextId])
            /\ \A m \in 1..Len(lines) : lines[m].at \in {-1, moved'}
        BY <3>3 DEF Tells
      <4>2. /\ Len(rx') = Len(rx) + Len(lines) /\ Len(rx) \in Nat /\ Len(lines) \in Nat
            /\ \A n \in 1..Len(rx') : \/ n \in 1..Len(rx) /\ rx'[n] = rx[n]
                                      \/ /\ n > Len(rx) /\ n - Len(rx) \in 1..Len(lines)
                                         /\ rx'[n] = lines[n - Len(rx)]
        BY <1>1, <3>3, <4>1
      <4>3. \A n \in 1..Len(rx') : \/ /\ n \in 1..Len(rx) /\ rx'[n] = rx[n]
                                   \/ n > Len(rx) /\ rx'[n].at \in {-1, moved'}
        BY <4>1, <4>2
      <4>4. ASSUME NEW n \in 1..Len(rx'), rx'[n].at # -1
            PROVE  cached' <= rx'[n].at /\ rx'[n].at <= moved'
        BY <1>1, <1>2, <3>1, <4>3, <4>4 DEF Views
      <4>5. ASSUME NEW a \in 1..Len(rx'), NEW b \in 1..Len(rx'), a < b,
                   rx'[a].at # -1, rx'[b].at # -1
            PROVE  rx'[a].at <= rx'[b].at
        <5>1. CASE b \in 1..Len(rx) /\ rx'[b] = rx[b]
          <6>1. a \in 1..Len(rx) /\ rx'[a] = rx[a]
            BY <4>2, <4>3, <4>5, <5>1
          <6> QED BY <4>5, <5>1, <6>1 DEF Views
        <5>2. CASE rx'[b].at = moved'
          BY <4>4, <4>5, <5>2
        <5> QED BY <4>3, <4>5, <5>1, <5>2
      <4> QED BY <1>1, <3>1, <4>4, <4>5 DEF Views
    <3> QED BY <2>6, <3>2, <3>3, MachineSays
  <2> QED BY <1>8, <2>1, <2>2, <2>3, <2>4, <2>5, <2>6 DEF Environment, Loop
<1> QED BY <1>5, <1>6, <1>7, <1>8 DEF Next

\* The answer to q is known to this side.
Heard(q, r) == <<q, r>> \in scheduled \/ fut[q] = r \/ told[q] = r

\* The query by which home_z refreshes the state is answered with a state that
\* shows the homing.
Homing ==
  refresh # 0 =>
    /\ tool # 0 /\ refresh > tool
    /\ kind[refresh] = "STATE?" /\ kind[tool] = "ZHOME" /\ told[tool] = "OK"
    /\ \A n \in 1..Len(rx) : rx[n].id = refresh => rx[n].r = "OK" /\ rx[n].at >= tool
    /\ \A r \in Replies : Heard(refresh, r) => r = "OK" /\ cached >= tool

\* Before the service stops: what HomedShown says.
Shown ==
  phase # "stopped" =>
  \A z \in Ids : kind[z] = "ZHOME" /\ told[z] = "OK" /\ tool # z =>
    \/ cached >= z
    \/ \E q \in Ids : q > z /\ kind[q] = "STATE?"
                       /\ told[q] \in {"TIMEOUT", "CANCELLED", "ERR", "RAISED"}

\* Lines come back from the machine only.
LEMMA RxSteps ==
  ASSUME CInv, IInv, Row, [Next]_vars, NEW n \in 1..Len(rx')
  PROVE  \/ \E m \in 1..Len(rx) : rx'[n] = rx[m]
         \/ rx'[n].id \in Ids /\ kind[rx'[n].id] = "STATE?" =>
              rx'[n].r = "OK" /\ rx'[n].at = moved
PROOF
<1> DEFINE Goal == \/ \E m \in 1..Len(rx) : rx'[n] = rx[m]
                   \/ rx'[n].id \in Ids /\ kind[rx'[n].id] = "STATE?" =>
                        rx'[n].r = "OK" /\ rx'[n].at = moved
<1>1. CASE rx' = rx
  BY <1>1
<1>2. CASE rx' = <<>>
  BY <1>2
<1>3. CASE AtWork \/ StartSim \/ StartOpens \/ StartFails \/ StartEnds \/ Stop \/ Settled
           \/ UNCHANGED vars
  BY <1>1, <1>2, <1>3
     DEF AtWork, Tools, move_axis, lower_claw, raise_claw, home, open_claw, close_claw,
         home_z, Guarded, Issue, halt, reset_emergency, Poll, SendBegins, SimSend,
         StartSim, StartOpens, StartFails, StartEnds, Stop, Settled, vars, linkVars, line
<1>4. CASE Environment
  <2>1. CASE Loop
    BY <1>1, <2>1 DEF Loop, HomeZRefreshes, SendBegins, ToolReturns, Resolves, line
  <2>2. ASSUME NEW i \in Ids, Send(i)
        PROVE  Goal
    BY <1>1, <2>2 DEF Send, WriteLine, WriteFails, FlushEnds,
                      FlushFails, Flushing, Timeout, line
  <2>3. CASE Unplugged
    BY <1>2, <2>3 DEF Unplugged
  <2>4. CASE _handle_line
    BY <2>4, ReadsLine
  <2>5. CASE Machine
    <3>1. ASSUME NEW lines, Tells(lines), rx' = rx \o lines
          PROVE  Goal
      <4>1. /\ lines \in Seq([id : 0..nextId, r : Replies, at : -1..nextId])
            /\ rx \in Seq([id : 0..nextId, r : Replies, at : -1..nextId])
        BY <3>1 DEF Tells, CInv, TypeOK, LinkTypeOK
      <4>2. \/ n \in 1..Len(rx) /\ rx'[n] = rx[n]
            \/ n - Len(rx) \in 1..Len(lines) /\ rx'[n] = lines[n - Len(rx)]
        BY <3>1, <4>1
      <4> QED BY <3>1, <4>2 DEF Tells
    <3> QED BY <1>1, <2>5, <3>1, MachineSays
  <2> QED BY <1>4, <2>1, <2>2, <2>3, <2>4, <2>5 DEF Environment
<1> QED BY <1>3, <1>4 DEF Next

\* An answer is heard after its line was read, or from halt(), which has the lock.
LEMMA HeardSteps ==
  ASSUME CInv, IInv, [Next]_vars, NEW q \in Ids, NEW r \in Replies, Heard(q, r)'
  PROVE  \/ Heard(q, r)
         \/ _handle_line /\ rx[1].id = q /\ rx[1].r = r
         \/ tool = 0
PROOF
<1> SUFFICES ASSUME tool # 0
             PROVE  Heard(q, r) \/ (_handle_line /\ rx[1].id = q /\ rx[1].r = r)
  OBVIOUS
<1>1. /\ fut \in [Ids -> Replies \cup {"none", "open", "cancelled"}]
      /\ told \in [Ids -> Results \cup {"none"}] /\ LinkTypeOK
      /\ r \notin {"none", "open", "cancelled", "SIM", "ERR", "RAISED", "TIMEOUT",
                   "CANCELLED"}
  BY DEF CInv, TypeOK, LinkTypeOK, Replies
<1>2. <<q, r>> \in scheduled' \/ fut'[q] = r \/ told'[q] = r
  BY DEF Heard
<1>3. CASE UNCHANGED <<scheduled, fut, told>>
  BY <1>2, <1>3 DEF Heard
<1>4. ASSUME NEW k \in Kinds, SendBegins(k), scheduled' = scheduled
      PROVE  Heard(q, r)
  <2>1. told' = told /\ fut'[q] \in {fut[q], "open"}
    BY <1>1, <1>4 DEF SendBegins
  <2> QED BY <1>1, <1>2, <1>4, <2>1 DEF Heard
<1>5. CASE AtWork
  <2>1. reset_emergency \/ Poll
    BY <1>5 DEF AtWork, Tools, move_axis, lower_claw, raise_claw, home, open_claw,
                close_claw, home_z, Guarded, Issue, halt
  <2> QED BY <1>3, <1>4, <2>1 DEF reset_emergency, Poll, sends
<1>6. CASE Stop
  <2>1. /\ scheduled' = scheduled
        /\ fut'[q] \in {fut[q], "cancelled"} /\ told'[q] \in {told[q], "CANCELLED"}
    BY <1>6 DEF Stop, CallsCancelled
  <2> QED BY <1>1, <1>2, <2>1 DEF Heard
<1>7. CASE Environment
  <2>1. CASE HomeZRefreshes
    BY <1>4, <2>1 DEF HomeZRefreshes
  <2>2. ASSUME NEW c \in Ids, Send(c)
        PROVE  Heard(q, r)
    <3>1. /\ scheduled' = scheduled
          /\ fut'[q] \in {fut[q], "cancelled"}
          /\ told'[q] \in {told[q], fut[q], "ERR", "RAISED", "TIMEOUT"}
      BY <2>2, SendSteps
    <3> QED BY <1>1, <1>2, <3>1 DEF Heard
  <2>3. ASSUME NEW c \in Ids, NEW s \in Results, Resolves(c, s)
        PROVE  Heard(q, r)
    <3>1. /\ scheduled' \subseteq scheduled /\ <<c, s>> \in scheduled
          /\ fut'[q] = fut[q] \/ (c = q /\ fut'[q] = s)
          /\ told'[q] = told[q] \/ (c = q /\ told'[q] = s)
      BY <1>1, <2>3 DEF Resolves
    <3> QED BY <1>2, <3>1 DEF Heard
  <2>4. CASE _handle_line
    BY <1>2, <2>4, ReadsLine DEF Heard
  <2>5. CASE Machine \/ ToolReturns \/ Unplugged
    BY <1>3, <2>5
       DEF Machine, Boots, Finishes, MachineTakes, TakesNothing, TakesQuery, TakesHalt,
           TakesBusy, TakesServo, TakesMotion, Takes, ToolReturns, Unplugged, sends
  <2> QED BY <1>7, <2>1, <2>2, <2>3, <2>4, <2>5 DEF Environment, Loop
<1>8. CASE StartSim \/ StartOpens \/ StartFails \/ StartEnds \/ Settled
           \/ UNCHANGED vars
  BY <1>3, <1>8 DEF StartSim, StartOpens, StartFails, StartEnds, Settled, vars,
                    linkVars, sends
<1> QED BY <1>5, <1>6, <1>7, <1>8 DEF Next

\* Who has the lock, and which query refreshes.
LEMMA LockSteps ==
  ASSUME [Next]_vars, tool # 0
  PROVE  \/ UNCHANGED <<tool, refresh>>
         \/ HomeZRefreshes
         \/ ToolReturns
         \/ Stop
PROOF
<1>1. CASE AtWork
  <2>1. reset_emergency \/ Poll
    BY <1>1 DEF AtWork, Tools, move_axis, lower_claw, raise_claw, home, open_claw,
                close_claw, home_z, Guarded, Issue, halt
  <2> QED BY <2>1 DEF reset_emergency, Poll, tasks
<1>2. CASE StartSim \/ StartOpens \/ StartFails \/ StartEnds \/ Settled
           \/ UNCHANGED vars
  BY <1>2 DEF StartSim, StartOpens, StartFails, StartEnds, Settled, vars, linkVars, tasks
<1>3. CASE Environment
  BY <1>3 DEF Environment, Loop, Resolves, Send, WriteLine, WriteFails, FlushEnds,
              FlushFails, Flushing, Timeout,
              _handle_line, Unplugged, Machine, Boots, Finishes, MachineTakes,
              TakesNothing, TakesQuery, TakesHalt, TakesBusy, TakesServo, TakesMotion,
              Takes, tasks
<1> QED BY <1>1, <1>2, <1>3 DEF Next

\* A homing that was answered as done is among the motions completed.
LEMMA HomingMoved ==
  ASSUME CInv, Row, NEW z \in Ids, kind[z] = "ZHOME", told[z] = "OK"
  PROVE  z <= moved
PROOF
<1>1. Claimed(z, "OK") /\ "OK" \in Reports
  BY DEF Claimed, Reports, Replies
<1>2. Right(z, "OK")
  BY <1>1 DEF CInv, Reported, Plain
<1> QED BY <1>2 DEF Right, Row

\* Every step preserves what is known of the refresh.
LEMMA NextHoming ==
  ASSUME Homing, LockInv, Row, Views, Ports, CInv, IInv, [Next]_vars
  PROVE  Homing'
PROOF
<1> SUFFICES ASSUME refresh' # 0 PROVE Homing'
  BY DEF Homing
<1>1. /\ LinkTypeOK /\ nextId \in Nat /\ nextId <= MaxIds + 1
      /\ {tool, refresh} \subseteq 0..nextId /\ cached \in Nat /\ moved \in Nat
      /\ told \in [Ids -> Results \cup {"none"}]
  <2>1. LinkTypeOK
    BY DEF CInv, TypeOK
  <2>2. /\ nextId \in 0..(MaxIds + 1) /\ {tool, refresh} \subseteq 0..nextId
        /\ {cached, moved} \subseteq 0..nextId /\ told \in [Ids -> Results \cup {"none"}]
    BY <2>1 DEF LinkTypeOK
  <2> QED BY <2>1, <2>2
<1>2. CASE HomeZRefreshes
  <2>1. /\ refresh' = id /\ tool' = tool /\ tool # 0 /\ kind[tool] = "ZHOME"
        /\ told[tool] = "OK" /\ SendBegins("STATE?") /\ UNCHANGED scheduled
    BY <1>2 DEF HomeZRefreshes
  <2>2. nextId # MaxIds + 1
    BY <1>2 DEF HomeZRefreshes, IInv, Types
  <2>3. id \in Ids /\ id = nextId + 1 /\ tool \in Ids /\ tool < id
    BY <1>1, <2>1, <2>2 DEF id
  <2> PICK q \in Ids : q = id
    BY <2>3
  <2> PICK t \in Ids : t = tool
    BY <2>3
  <2>4. /\ kind'[q] = "STATE?" /\ kind'[t] = "ZHOME" /\ told' = told /\ rx' = rx
        /\ fut'[q] = "open"
    BY <1>1, <2>1, <2>3 DEF SendBegins, LinkTypeOK
  <2>5. told[q] = "none"
    BY <2>3, IdFresh
  <2>6. \A n \in 1..Len(rx') : rx'[n].id # q
    BY <1>1, <2>4, FreshClaims
  <2>7. \A r \in Replies : ~Heard(q, r)'
    BY <1>1, <2>1, <2>4, <2>5, FreshClaims DEF Heard, Replies
  <2> QED BY <2>1, <2>3, <2>4, <2>6, <2>7 DEF Homing
<1>3. CASE UNCHANGED <<tool, refresh>>
  <2>1. /\ tool # 0 /\ refresh > tool /\ kind[refresh] = "STATE?"
        /\ kind[tool] = "ZHOME" /\ told[tool] = "OK" /\ refresh # 0
    BY <1>3 DEF Homing
  <2>2. tool \in Ids /\ refresh \in Ids /\ refresh <= nextId
    BY <1>1, <2>1
  <2> PICK q \in Ids : q = refresh
    BY <2>2
  <2> PICK t \in Ids : t = tool
    BY <2>2
  <2>3. /\ \A n \in 1..Len(rx) : rx[n].id = q => rx[n].r = "OK" /\ rx[n].at >= t
        /\ \A r \in Replies : Heard(q, r) => r = "OK" /\ cached >= t
    BY <2>1 DEF Homing
  <2>4. q # id /\ t # id
    BY <1>1, <2>1, <2>2 DEF id
  <2>5. /\ kind'[q] = "STATE?" /\ kind'[t] = "ZHOME" /\ told'[t] = "OK"
        /\ tool' = t /\ refresh' = q /\ t # 0 /\ q > t
    BY <1>3, <2>1, <2>4, KindSteps, ToldSteps
  <2>6. t <= moved
    BY <2>1, HomingMoved
  <2>7. ASSUME NEW n \in 1..Len(rx'), rx'[n].id = q
        PROVE  rx'[n].r = "OK" /\ rx'[n].at >= t
    <3>1. CASE \E m \in 1..Len(rx) : rx'[n] = rx[m]
      BY <2>3, <2>7, <3>1
    <3>2. CASE rx'[n].r = "OK" /\ rx'[n].at = moved
      BY <1>1, <2>6, <3>2
    <3> QED BY <2>1, <2>7, <3>1, <3>2, RxSteps
  <2>8. cached <= cached' /\ cached' \in Int
    <3>1. Views' /\ cached <= cached'
      BY NextViews
    <3>2. UNCHANGED cached \/ cached' \in Int
      <4>1. CASE _handle_line
        BY <1>1, <4>1, ReadsLine
      <4>2. CASE UNCHANGED vars \/ Settled
        BY <4>2 DEF Settled, vars, linkVars
      <4>3. CASE AtWork
        <5>1. reset_emergency \/ Poll
          BY <2>1, <4>3 DEF AtWork, Tools, move_axis, lower_claw, raise_claw, home,
                            open_claw, close_claw, home_z, Guarded, Issue, halt
        <5> QED BY <5>1 DEF reset_emergency, Poll, SendBegins
      <4>4. CASE StartSim \/ StartOpens \/ StartFails \/ StartEnds \/ Stop
        BY <4>4 DEF StartSim, StartOpens, StartFails, StartEnds, Stop, linkVars
      <4>5. CASE Loop \/ Unplugged \/ \E i \in Ids : Send(i)
        BY <4>5 DEF Loop, HomeZRefreshes, SendBegins, ToolReturns, Resolves, Unplugged,
                    Send, WriteLine, WriteFails, FlushEnds,
                    FlushFails, Flushing, Timeout
      <4>6. CASE Machine
        BY <4>6, MachineSays
      <4> QED BY <4>1, <4>2, <4>3, <4>4, <4>5, <4>6 DEF Next, Environment
    <3> QED BY <1>1, <3>1, <3>2
  <2>9. ASSUME NEW r \in Replies, Heard(q, r)'
        PROVE  r = "OK" /\ cached' >= t
    <3>1. CASE Heard(q, r)
      BY <1>1, <2>3, <2>8, <3>1
    <3>2. CASE _handle_line /\ rx[1].id = q /\ rx[1].r = r
      <4>1. 1 \in 1..Len(rx) /\ cached' = IF rx[1].at = -1 THEN cached ELSE rx[1].at
        BY <3>2, ReadsLine
      <4>2. rx[1].r = "OK" /\ rx[1].at >= t
        BY <2>3, <3>2, <4>1
      <4>3. rx[1].at # -1
        BY <4>2
      <4> QED BY <3>2, <4>1, <4>2, <4>3
    <3> QED BY <2>1, <2>9, <3>1, <3>2, HeardSteps
  <2> QED BY <2>5, <2>7, <2>9 DEF Homing
<1>4. CASE tool = 0
  <2>1. refresh = 0
    BY <1>4 DEF LockInv, Refreshing
  <2>2. ASSUME NEW k \in Kinds, Issue(k)
        PROVE  refresh' = 0
    BY <2>1, <2>2 DEF Issue
  <2>3. AtWork => refresh' = 0
    BY <2>1, <2>2 DEF AtWork, Tools, move_axis, lower_claw, raise_claw, home, open_claw,
                      close_claw, home_z, Guarded, halt, reset_emergency, Poll, tasks
  <2>4. Environment => refresh' = 0
    BY <1>4, <2>1
       DEF Environment, Loop, HomeZRefreshes, ToolReturns, Resolves, Send, WriteLine,
           WriteFails, FlushEnds, FlushFails, Timeout, _handle_line, Unplugged,
           Machine, Boots, Finishes,
           MachineTakes, TakesNothing, TakesQuery, TakesHalt, TakesBusy, TakesServo,
           TakesMotion, Takes, tasks
  <2>5. refresh' = 0
    BY <2>1, <2>3, <2>4 DEF Next, StartSim, StartOpens, StartFails, StartEnds, Stop,
                            Settled, vars, linkVars, tasks
  <2> QED BY <2>5
<1>5. CASE tool # 0 /\ (ToolReturns \/ Stop)
  BY <1>5 DEF ToolReturns, Stop
<1> QED BY <1>2, <1>3, <1>4, <1>5, LockSteps

\* A success comes to the command that has the lock.
LEMMA SuccessSteps ==
  ASSUME LockInv, CInv, IInv, [Next]_vars, NEW z \in Ids, kind'[z] = "ZHOME",
         told[z] # "OK", told'[z] = "OK"
  PROVE  tool' = z
PROOF
<1>1. told \in [Ids -> Results \cup {"none"}]
  BY DEF CInv, TypeOK, LinkTypeOK
<1>2. told' # told
  OBVIOUS
<1>3. ASSUME UNCHANGED <<kind, tool>>, call[z] \in {"writing", "waiting"}
      PROVE  tool' = z
  BY <1>3 DEF LockInv, Own, Active
<1>4. CASE AtWork
  <2>1. \E k \in Kinds : SimSend(k) /\ nextId < MaxIds
    BY <1>2, <1>4 DEF AtWork, Tools, move_axis, lower_claw, raise_claw, home, open_claw,
                      close_claw, home_z, Guarded, Issue, halt, reset_emergency, Poll,
                      sends, SendBegins
  <2> QED BY <1>1, <2>1 DEF SimSend
<1>5. CASE Stop
  BY <1>5 DEF Stop, CallsCancelled
<1>6. CASE Environment
  <2>1. ASSUME NEW i \in Ids, Send(i)
        PROVE  tool' = z
    <3>1. UNCHANGED <<kind, tool>>
      BY <2>1, SendSteps DEF tasks
    <3>2. i = z /\ call[i] \in {"writing", "waiting"}
      BY <2>1, SendSteps
    <3> QED BY <1>3, <3>1, <3>2
  <2>2. ASSUME NEW i \in Ids, NEW r \in Results, Resolves(i, r)
        PROVE  tool' = z
    <3>1. UNCHANGED <<kind, tool>>
      BY <2>2 DEF Resolves, tasks
    <3>2. i = z /\ call[i] = "waiting"
      BY <1>1, <2>2 DEF Resolves
    <3> QED BY <1>3, <3>1, <3>2
  <2> QED BY <1>2, <1>6, <2>1, <2>2
          DEF Environment, Loop, HomeZRefreshes, SendBegins, ToolReturns, _handle_line,
              Unplugged, Machine, Boots, Finishes, MachineTakes, TakesNothing,
              TakesQuery, TakesHalt, TakesBusy, TakesServo, TakesMotion, Takes, sends
<1> QED BY <1>2, <1>4, <1>5, <1>6
        DEF Next, StartSim, StartOpens, StartFails, StartEnds, Settled, vars, linkVars,
            sends

\* Every step preserves what the tools show.
LEMMA NextShown ==
  ASSUME Shown, Homing, LockInv, Simulated, Row, Views, Ports, CInv, CInv', IInv,
         [Next]_vars
  PROVE  Shown'
PROOF
<1> DEFINE Excuses == {"TIMEOUT", "CANCELLED", "ERR", "RAISED"}
<1> SUFFICES ASSUME phase' # "stopped", NEW z \in Ids, kind'[z] = "ZHOME",
                    told'[z] = "OK", tool' # z
             PROVE  \/ cached' >= z
                    \/ \E q \in Ids : q > z /\ kind'[q] = "STATE?"
                                       /\ told'[q] \in Excuses
  BY DEF Shown
<1>1. /\ nextId \in Nat /\ nextId <= MaxIds + 1
      /\ {cached, refresh} \subseteq 0..nextId /\ cached \in Nat
      /\ told \in [Ids -> Results \cup {"none"}]
  BY DEF CInv, TypeOK, LinkTypeOK
<1>2. cached' \in Nat
  <2>1. {cached', running', moved'} \subseteq 0..nextId' /\ nextId' \in 0..(MaxIds + 1)
    BY DEF CInv, TypeOK, LinkTypeOK
  <2> QED BY <2>1
<1>3. phase # "stopped" /\ ~Stop
  BY DEF Next, StartSim, StartOpens, StartFails, StartEnds, Simulate, AtWork,
         Environment, Stop, Settled, facade, vars
<1>4. told[z] = "OK"
  BY SuccessSteps
<1>5. kind[z] = "ZHOME"
  BY <1>4, IdFresh, KindSteps
<1>6. cached <= cached'
  BY NextViews
<1>7. CASE tool # z
  <2>1. CASE cached >= z
    BY <1>1, <1>2, <1>6, <2>1
  <2>2. CASE \E q \in Ids : q > z /\ kind[q] = "STATE?" /\ told[q] \in Excuses
    <3> PICK q \in Ids : q > z /\ kind[q] = "STATE?" /\ told[q] \in Excuses
      BY <2>2
    <3>1. told'[q] = told[q]
      BY ToldSteps
    <3>2. kind'[q] = kind[q]
      BY IdFresh, KindSteps
    <3> QED BY <3>1, <3>2
  <2> QED BY <1>3, <1>4, <1>5, <1>7, <2>1, <2>2 DEF Shown
<1>8. CASE tool = z
  <2>1. ToolReturns
    <3>1. tool # 0
      BY <1>8
    <3>2. HomeZRefreshes => tool' = tool
      BY DEF HomeZRefreshes
    <3> QED BY <1>3, <1>8, <3>1, <3>2, LockSteps
  <2>2. refresh # 0 /\ call[refresh] = "returned"
    BY <1>4, <1>5, <1>8, <2>1 DEF ToolReturns
  <2>3. refresh \in Ids /\ refresh > z /\ kind[refresh] = "STATE?"
    BY <1>1, <1>8, <2>2 DEF Homing
  <2> PICK q \in Ids : q = refresh
    BY <2>3
  <2>4. told[q] \in Results
    BY <1>1, <2>2 DEF CInv, Told
  <2>5. told[q] # "SIM"
    BY <1>8 DEF Simulated, IInv, Quiet
  <2>6. UNCHANGED <<told, kind>>
    BY <2>1 DEF ToolReturns, sends
  <2>7. CASE told[q] \in Replies
    <3>1. Heard(q, told[q])
      BY DEF Heard
    <3>2. cached >= z
      BY <1>8, <2>2, <2>7, <3>1 DEF Homing
    <3> QED BY <1>1, <1>2, <1>6, <3>2
  <2>8. CASE told[q] \in Excuses
    BY <2>3, <2>6, <2>8
  <2> QED BY <2>4, <2>5, <2>7, <2>8 DEF Results
<1> QED BY <1>7, <1>8

\* After home_z has returned a success the cached state is no older than the
\* homing, unless a query went unanswered (legacy_controller.py, home_z and
\* _handle_line).
THEOREM HomingShown == Spec => []HomedShown
PROOF
<1> DEFINE Inv == /\ LockInv /\ Simulated /\ Ports /\ Row /\ Views /\ Homing /\ Shown
<1>1. Init => Inv
  <2> SUFFICES ASSUME Init PROVE Inv
    OBVIOUS
  <2>1. LockInv /\ Simulated
    BY DEF Init, LinkInit, LockInv, Own, Active, Newest, Refreshing, Issued, Simulated
  <2>2. Len(wire) = 0 /\ Len(rx) = 0 /\ moved = 0 /\ cached = 0
    BY DEF Init, LinkInit
  <2>3. Ports /\ Homing /\ Shown
    BY DEF Init, LinkInit, Ports, Homing, Shown
  <2>4. Row
    BY <2>2 DEF Init, LinkInit, Row
  <2>5. Views
    BY <2>2 DEF Views
  <2> QED BY <2>1, <2>3, <2>4, <2>5
<1>2. Inv /\ CInv /\ CInv' /\ IInv /\ [Next]_vars => Inv'
  <2> SUFFICES ASSUME Inv, CInv, CInv', IInv, [Next]_vars PROVE Inv'
    OBVIOUS
  <2>1. LockInv' /\ Simulated'
    BY NextLock, NextSimulated
  <2>2. Ports' /\ Row'
    BY NextPorts, NextRow
  <2>3. Views' /\ Homing' /\ Shown'
    BY NextViews, NextHoming, NextShown
  <2> QED BY <2>1, <2>2, <2>3
<1>3. Inv => HomedShown
  BY DEF Shown, HomedShown
<1> QED BY <1>1, <1>2, <1>3, InductiveC, Inductive, PTL DEF Spec
=============================================================================
