---------------------------- MODULE RoutesMonitor ----------------------------
(***************************************************************************)
(* The three threads of a cell's agent: the main thread, which waits for   *)
(* conditions and runs the event handlers (agent/agent.py, with the        *)
(* waitset of connext_participant.py), the thread of the reachability      *)
(* tester (Triggerable), and the thread that reads the output of           *)
(* `ip monitor route` (agent/routes_monitor.py).                           *)
(*                                                                         *)
(* The monitor's thread only sets a condition.  The main thread resets it, *)
(* lists the kernel's routes, compares them with those in the file of the  *)
(* last report, and on a difference triggers the tester and asks the web   *)
(* interface for a new page.  Lines of output that wait to be read are one *)
(* flag: a line is a reason to look, its content is not used.              *)
(***************************************************************************)
EXTENDS Triggerable

CONSTANT Routes     \* routes that may appear in the kernel's table

VARIABLES
    loop,       \* where the main thread is, outside of Triggerable's calls
    kernel,     \* the kernel's routes
    listed,     \* current_routes, a local of poll_routes
    file,       \* routes_file, the routes of the last report
    monitor,    \* the `ip monitor` process
    pending,    \* it has written lines that nobody has read
    monitoring, \* _monitor_thread_active
    reader,     \* where the monitor's thread is
    condition,  \* updated_condition.trigger_value
    woken,      \* the condition is one of _wait's active_user
    ui,         \* WebUi._update_ui
    unseen      \* a change that `ip monitor` saw was not followed by a listing

mvars == <<loop, kernel, listed, file, monitor, pending, monitoring, reader, condition,
           woken, ui, unseen>>
avars == <<vars, mvars>>

Running == {"wait", "events", "handled", "list", "compare", "notify", "notified", "services"}

AgentInit ==
    /\ Init
    /\ loop = "start"
    /\ kernel \in SUBSET Routes
    /\ listed = {}
    /\ file \in SUBSET Routes       \* left by an earlier agent
    /\ monitor = "none"
    /\ pending = FALSE
    /\ monitoring = FALSE
    /\ reader = "new"
    /\ condition = FALSE
    /\ woken = FALSE
    /\ ui = TRUE
    /\ unseen = FALSE

-----------------------------------------------------------------------------
(* The host.                                                               *)

\* A route is added or removed, and reported by a monitor that listens.
RouteChanges ==
    /\ \E r \in Routes : kernel' = IF r \in kernel THEN kernel \ {r} ELSE kernel \cup {r}
    /\ pending' = (pending \/ monitor = "listening")
    /\ unseen' = (unseen \/ monitor = "listening")
    /\ UNCHANGED <<vars, loop, listed, file, monitor, monitoring, reader, condition,
                   woken, ui>>

Listen ==
    /\ monitor = "exec"
    /\ monitor' = "listening"
    /\ UNCHANGED <<vars, loop, kernel, listed, file, pending, monitoring, reader, condition,
                   woken, ui, unseen>>

\* Someone else ends the process. Nobody starts another one.
MonitorDies ==
    /\ monitor \in {"exec", "listening"}
    /\ monitor' = "dead"
    /\ UNCHANGED <<vars, loop, kernel, listed, file, pending, monitoring, reader, condition,
                   woken, ui, unseen>>

-----------------------------------------------------------------------------
(* The monitor's thread.                                                   *)

\* Mutation of ReadLine: a line is only read while the process lives.
ReadLineOfLiving ==
    /\ reader = "readline"
    /\ pending /\ monitor = "listening"
    /\ pending' = FALSE
    /\ reader' = "set"
    /\ UNCHANGED <<vars, loop, kernel, listed, file, monitor, monitoring, condition, woken,
                   ui, unseen>>

\* At the end of the output readline() returns an empty line, at once and
\* every time.
ReadLine ==
    /\ reader = "readline"
    /\ pending \/ monitor = "dead"
    /\ pending' = FALSE
    /\ reader' = "set"
    /\ UNCHANGED <<vars, loop, kernel, listed, file, monitor, monitoring, condition, woken,
                   ui, unseen>>

SetCondition ==
    /\ reader = "set"
    /\ condition' = TRUE
    /\ reader' = IF monitoring THEN "readline" ELSE "exited"
    /\ UNCHANGED <<vars, loop, kernel, listed, file, monitor, pending, monitoring, woken, ui,
                   unseen>>

-----------------------------------------------------------------------------
(* The main thread: the start of the services.                             *)

\* _start: poll_routes, whose result is dropped.
FirstList ==
    /\ loop = "start"
    /\ listed' = kernel
    /\ loop' = "first_poll"
    /\ UNCHANGED <<vars, kernel, file, monitor, pending, monitoring, reader, condition, woken,
                   ui, unseen>>

FirstPoll ==
    /\ loop = "first_poll"
    /\ file' = listed
    /\ loop' = "popen"
    /\ UNCHANGED <<vars, kernel, listed, monitor, pending, monitoring, reader, condition, woken,
                   ui, unseen>>

Popen ==
    /\ loop = "popen"
    /\ monitor' = "exec"
    /\ loop' = "thread"
    /\ UNCHANGED <<vars, kernel, listed, file, pending, monitoring, reader, condition, woken,
                   ui, unseen>>

StartThread ==
    /\ loop = "thread"
    /\ monitoring' = TRUE
    /\ reader' = "readline"
    /\ loop' = "tester"
    /\ UNCHANGED <<vars, kernel, listed, file, monitor, pending, condition, woken,
                   ui, unseen>>

StartTester ==
    /\ loop = "tester"
    /\ Start
    /\ loop' = "wait"
    /\ UNCHANGED <<kernel, listed, file, monitor, pending, monitoring, reader, condition, woken,
                   ui, unseen>>

-----------------------------------------------------------------------------
(* The main thread: one round of _spin.                                    *)

\* Participant._wait: a condition is reset before its handler runs.
Wait ==
    /\ loop = "wait"
    /\ woken' = condition
    /\ condition' = FALSE
    /\ loop' = "events"
    /\ UNCHANGED <<vars, kernel, listed, file, monitor, pending, monitoring, reader, ui,
                   unseen>>

\* An event of the middleware that its handler answers with a trigger and a
\* new page: cells came online, the local reachability changed.
OtherEvent ==
    /\ loop = "events"
    /\ Trigger
    /\ ui' = TRUE
    /\ loop' = "handled"
    /\ UNCHANGED <<kernel, listed, file, monitor, pending, monitoring, reader, condition,
                   woken, unseen>>

\* Participant.spin calls on_condition_active after the other events.
OnConditionActive ==
    /\ loop \in {"events", "handled"} /\ main = "idle"
    /\ loop' = IF woken THEN "list" ELSE "services"
    /\ UNCHANGED <<vars, kernel, listed, file, monitor, pending, monitoring, reader, condition,
                   woken, ui, unseen>>

\* poll_routes: `ip route`, the comparison with the file, the new file.
List ==
    /\ loop = "list"
    /\ listed' = kernel
    /\ unseen' = FALSE
    /\ loop' = "compare"
    /\ UNCHANGED <<vars, kernel, file, monitor, pending, monitoring, reader, condition,
                   woken, ui>>

\* Mutation of Compare: the condition is reset once its handler is through.
CompareResets ==
    /\ loop = "compare"
    /\ loop' = IF listed = file THEN "services" ELSE "notify"
    /\ file' = listed
    /\ condition' = FALSE
    /\ UNCHANGED <<vars, kernel, listed, monitor, pending, monitoring, reader, woken, ui,
                   unseen>>

Compare ==
    /\ loop = "compare"
    /\ loop' = IF listed = file THEN "services" ELSE "notify"
    /\ file' = listed
    /\ UNCHANGED <<vars, kernel, listed, monitor, pending, monitoring, reader, condition, woken, ui,
                   unseen>>

\* on_event_local_routes
Notify ==
    /\ loop = "notify"
    /\ Trigger
    /\ loop' = "notified"
    /\ UNCHANGED <<kernel, listed, file, monitor, pending, monitoring, reader, condition, woken, ui,
                   unseen>>

RequestUpdate ==
    /\ loop = "notified" /\ main = "idle"
    /\ ui' = TRUE
    /\ loop' = "services"
    /\ UNCHANGED <<vars, kernel, listed, file, monitor, pending, monitoring, reader, condition,
                   woken, unseen>>

\* WebUi._spin_once; the page is also made again after a while.
SpinServices ==
    /\ loop = "services"
    /\ ui' = FALSE
    /\ loop' = "wait"
    /\ UNCHANGED <<vars, kernel, listed, file, monitor, pending, monitoring, reader, condition,
                   woken, unseen>>

-----------------------------------------------------------------------------
(* The main thread: the services stop, the last one first.                 *)

\* The agent is told to stop, or trigger() raised an exception.
StopTester ==
    /\ loop \in {"wait", "services"} \/ (loop \in {"handled", "notified"} /\ main = "raised")
    /\ Stop
    /\ loop' = "stop"
    /\ UNCHANGED <<kernel, listed, file, monitor, pending, monitoring, reader, condition, woken, ui,
                   unseen>>

\* Mutation of StopMonitor: the process is not told to end.
StopFlagOnly ==
    /\ loop = "stop" /\ main = "stopped"
    /\ monitoring' = FALSE
    /\ loop' = "join"
    /\ UNCHANGED <<vars, kernel, listed, file, monitor, pending, reader, condition, woken,
                   ui, unseen>>

\* RoutesMonitor._stop: the flag, SIGINT, join.
StopMonitor ==
    /\ loop = "stop" /\ main = "stopped"
    /\ monitoring' = FALSE
    /\ monitor' = "dead"
    /\ loop' = "join"
    /\ UNCHANGED <<vars, kernel, listed, file, pending, reader, condition, woken,
                   ui, unseen>>

JoinMonitor ==
    /\ loop = "join" /\ reader = "exited"
    /\ loop' = "stopped"
    /\ UNCHANGED <<vars, kernel, listed, file, monitor, pending, monitoring, reader, condition,
                   woken, ui, unseen>>

\* Inside trigger() and stop_trigger_thread(), and in the tester's thread.
InTriggerable ==
    /\ Release \/ StopTrigger \/ StopRelease \/ Join \/ Service
    /\ UNCHANGED mvars

MainLoop == Wait \/ OnConditionActive \/ List \/ Compare \/ Notify \/ RequestUpdate \/ SpinServices

AgentNext ==
    \/ RouteChanges \/ Listen \/ MonitorDies
    \/ ReadLine \/ SetCondition
    \/ FirstList \/ FirstPoll \/ Popen \/ StartThread \/ StartTester
    \/ OtherEvent \/ MainLoop
    \/ StopTester \/ StopMonitor \/ JoinMonitor
    \/ InTriggerable

AgentSpec == AgentInit /\ [][AgentNext]_avars

\* Every thread goes on. The waitset returns after a second at the latest.
AgentFairness ==
    /\ Fairness
    /\ WF_avars(ReadLine) /\ WF_avars(SetCondition)
    /\ WF_avars(MainLoop) /\ WF_avars(StopMonitor) /\ WF_avars(JoinMonitor)
    /\ WF_avars(main = "raised" /\ StopTester)

AgentFairSpec == AgentSpec /\ AgentFairness

-----------------------------------------------------------------------------
(* Properties.                                                             *)

\* A change of the routes that `ip monitor` has seen is never lost between
\* the monitor's thread and the main thread: until the routes are listed
\* again, a line is waiting, or the condition is set or about to be, or the
\* main thread is on its way to the listing.
ChangeNotLost ==
    unseen => \/ pending \/ reader = "set" \/ condition
              \/ loop = "list" \/ (loop \in {"events", "handled"} /\ woken)
              \/ loop \notin Running

\* Such a change is looked at, also when `ip monitor` dies after it and when
\* routes keep changing, unless the agent stops first.
ChangeIsListed == unseen ~> (~unseen \/ loop \notin Running)

\* An agent that begins to stop gets through both joins: the tester's thread
\* and the monitor's thread, which waits for output, end.
AgentStops == (loop = "stop") ~> (loop = "stopped")

=============================================================================
