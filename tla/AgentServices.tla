---------------------------- MODULE AgentServices ----------------------------
(***************************************************************************)
(* The life cycle of the agents of one host (agent/agent.py, spin and the  *)
(* static services; agent/agent_service.py): processes `uno agent` that    *)
(* enter a stack of contexts and leave it in reverse, and the command      *)
(* `uno service up|down`.  They share the PID file, a marker file for each *)
(* static service, the services themselves, and the web server's PID file. *)
(* Every step is one access to what they share; a process may be killed,   *)
(* or interrupted, between any two steps.                                  *)
(***************************************************************************)
EXTENDS Naturals, FiniteSets, Sequences

CONSTANTS
    Procs,      \* processes that may run `uno agent`
    Configs,    \* configuration ids
    IsCell,     \* the agent is a cell's, not the registry's
    MaxFaults,  \* bound: steps that fail, and crashes
    MaxOpens,   \* bound: agents, commands and installations that are started
    MaxOverlap, \* bound: the same, in behaviours with an overlap (see below)
    NoPid, NoMarker, Down, Partial

ASSUME NamesAssumption ==
    /\ Configs \intersect {NoMarker, Down, Partial} = {}
    /\ Down # Partial
    /\ NoPid \notin Procs
    /\ IsCell \in BOOLEAN

VARIABLES
    pid_file,   \* /run/uno/uno-agent.pid
    marker,     \* /run/uno/services: the configuration a service was started with
    service,    \* the configuration that a static service really runs with
    httpd,      \* a lighttpd process is running
    httpd_pid,  \* its PID file is there
    installed,  \* configuration id in the agent's directory
    agent,      \* the processes
    cli,        \* the command `uno service`
    \* History
    faults, opens,
    raced,      \* two processes were between a look at the PID file and its use
    overlap,    \* `uno service` met an agent that was starting or stopping
    torn        \* a service was stopped and its marker, or its agent, was not

host == <<pid_file, marker, service, httpd, httpd_pid, installed>>
history == <<faults, opens, raced, overlap, torn>>
vars == <<host, agent, cli, history>>

\* running_contexts; the services are in the order of Agent.services.
Contexts == <<"pid", "participant", "net", "routes_monitor", "router",
              "peers_tester", "webui", "started">>
Static == {"net", "router"}
StaticServices == <<"net", "router", "agent">>

\* check_runnable: all services but the network are for cells only.
Runnable(s) == IsCell \/ s = "net"

active(s) == marker[s] # NoMarker
ActiveServices == {s \in {"net", "router", "agent"} : active(s)}

Off == [mode |-> "off", depth |-> 0, half |-> "none", seen |-> NoPid, exc |-> "none",
        config |-> NoMarker, initial |-> {}, reloading |-> FALSE, systemd |-> FALSE,
        found |-> {}]  \* history: static services active when the process began
Idle == [op |-> "none", i |-> 0, to |-> 0, half |-> "none", seen |-> NoPid,
         config |-> NoMarker,
         waits |-> FALSE,    \* it has interrupted the daemon
         error |-> FALSE,    \* it will report an error
         logged |-> FALSE]   \* it only logged that the network did not stop

Init ==
    /\ pid_file = NoPid
    /\ marker = [s \in {"net", "router", "agent"} |-> NoMarker]
    /\ service = [s \in Static |-> Down]
    /\ httpd = FALSE
    /\ httpd_pid = FALSE
    /\ installed \in Configs
    /\ agent = [p \in Procs |-> Off]
    /\ cli = Idle
    /\ faults = 0
    /\ opens = 0
    /\ raced = FALSE
    /\ overlap = FALSE
    /\ torn = FALSE

Alive(p) == agent[p].mode # "off"
Entering(p) == IF agent[p].mode = "starting" THEN Contexts[agent[p].depth + 1] ELSE "none"
Leaving(p) == IF agent[p].mode = "stopping" /\ agent[p].depth > 0
                THEN Contexts[agent[p].depth] ELSE "none"

\* What becomes of a process in a step.
Entered(p) == agent' = [agent EXCEPT ![p].depth = @ + 1, ![p].half = "none"]
Left(p) == agent' = [agent EXCEPT ![p].depth = @ - 1, ![p].half = "none"]
LeftWith(p, e) ==
    agent' = [agent EXCEPT ![p].depth = @ - 1, ![p].half = "none", ![p].exc = e]
At(p, h) == agent' = [agent EXCEPT ![p].half = h]
\* An exception in spin or in a context that is being entered: the contexts
\* entered before are left, that one is not.
Raise(p, e) ==
    agent' = [agent EXCEPT ![p].mode = "stopping", ![p].exc = e, ![p].half = "none",
                           ![p].seen = NoPid]

Fault == faults < MaxFaults /\ faults' = faults + 1
Counted == opens < MaxOpens /\ opens' = opens + 1

-----------------------------------------------------------------------------
(* An agent starts: Agent.open, then Agent.spin enters the contexts.       *)

Opened(sd) ==
    [Off EXCEPT !.mode = "starting", !.config = installed, !.initial = ActiveServices,
                !.systemd = sd, !.found = ActiveServices]

Open(p) ==
    /\ ~Alive(p)
    /\ Counted
    /\ \E sd \in BOOLEAN : agent' = [agent EXCEPT ![p] = Opened(sd)]
    /\ overlap' = (overlap \/ cli # Idle)
    /\ UNCHANGED <<host, cli, faults, raced, torn>>

\* Between a look at the PID file and what follows from it: the agent's own
\* PID in the file, or the deletion of a file that seems stale.
InPidWindow(p) == Entering(p) = "pid" /\ agent[p].half \in {"seen", "stale", "checked"}
CliInPidWindow == cli.half \in {"seen", "stale"}

\* _pid_file, external_agent_process: the file is read,
ReadPid(p) ==
    /\ Entering(p) = "pid"
    /\ agent[p].half = "none"
    /\ IF pid_file \in {NoPid, p} THEN At(p, "checked")
       ELSE agent' = [agent EXCEPT ![p].half = "seen", ![p].seen = pid_file]
    /\ raced' = (raced \/ CliInPidWindow \/ \E q \in Procs \ {p} : InPidWindow(q))
    /\ UNCHANGED <<host, cli, faults, opens, overlap, torn>>

\* Mutation of TestPid: the process in the file is not looked for.
TestPidNot(p) ==
    /\ Entering(p) = "pid"
    /\ agent[p].half = "seen"
    /\ agent' = [agent EXCEPT ![p].half = "stale", ![p].seen = NoPid]
    /\ UNCHANGED <<host, cli, history>>

\* the process that it names is looked for,
TestPid(p) ==
    /\ Entering(p) = "pid"
    /\ agent[p].half = "seen"
    /\ IF Alive(agent[p].seen) THEN Raise(p, "error")
       ELSE agent' = [agent EXCEPT ![p].half = "stale", ![p].seen = NoPid]
    /\ UNCHANGED <<host, cli, history>>

\* and if it is gone the file is deleted, whatever is in it by then.
ClearStalePid(p) ==
    /\ Entering(p) = "pid"
    /\ agent[p].half = "stale"
    /\ pid_file' = NoPid
    /\ At(p, "checked")
    /\ UNCHANGED <<marker, service, httpd, httpd_pid, installed, cli, history>>

WritePid(p) ==
    /\ Entering(p) = "pid"
    /\ agent[p].half = "checked"
    /\ pid_file' = p
    /\ Entered(p)
    /\ UNCHANGED <<marker, service, httpd, httpd_pid, installed, cli, history>>

\* The participant and the services that only have threads.
EnterThread(p) ==
    /\ Entering(p) \in {"participant", "routes_monitor", "peers_tester"}
    /\ \/ Entered(p) /\ UNCHANGED faults
       \/ Raise(p, "error") /\ Fault
    /\ UNCHANGED <<host, cli, opens, raced, overlap, torn>>

\* Lighttpd.start deletes the PID file and starts a server, which cannot
\* listen if another one does; it may also be too slow.
EnterWebUi(p) ==
    /\ Entering(p) = "webui"
    /\ \/ /\ httpd_pid' = IF Runnable("webui") THEN ~httpd ELSE httpd_pid
          /\ httpd' = (httpd \/ Runnable("webui"))
          /\ IF httpd /\ Runnable("webui") THEN Raise(p, "error") ELSE Entered(p)
          /\ UNCHANGED faults
       \/ /\ Runnable("webui")
          /\ Fault
          /\ httpd_pid' = FALSE
          /\ httpd' \in {httpd, TRUE}
          /\ Raise(p, "error")
    /\ UNCHANGED <<pid_file, marker, service, installed, cli, opens, raced, overlap, torn>>

\* The network cannot be set up on top of an earlier setup (see NetRules,
\* FreshStartAccepted); the router is restarted.
CanStart(s) == s = "net" => service[s] = Down

\* Mutation of TakesOver: any marker will do.
TakesOverAny(p, s) == active(s)

\* AgentService.start takes over a service with a marker if the marker is of
\* the same configuration.
TakesOver(p, s) == active(s) /\ marker[s] = agent[p].config

\* AgentService.start, up to the end of _start.
EnterStatic(p) ==
    LET s == Entering(p) IN
    /\ s \in Static
    /\ agent[p].half = "none"
    /\ \/ /\ ~Runnable(s) \/ TakesOver(p, s)
          /\ Entered(p)
          /\ UNCHANGED <<service, faults>>
       \/ /\ Runnable(s) /\ active(s) /\ ~TakesOver(p, s)
          /\ Raise(p, "error")
          /\ UNCHANGED <<service, faults>>
       \/ /\ Runnable(s) /\ ~active(s) /\ CanStart(s)
          /\ service' = [service EXCEPT ![s] = agent[p].config]
          /\ At(p, "unmarked")
          /\ UNCHANGED faults
       \/ /\ Runnable(s) /\ ~active(s)
          /\ IF CanStart(s) THEN Fault ELSE UNCHANGED faults
          /\ service' = [service EXCEPT ![s] = Partial]
          /\ Raise(p, "error")
    /\ UNCHANGED <<pid_file, marker, httpd, httpd_pid, installed, cli, opens, raced,
                   overlap, torn>>

WriteMarker(p) ==
    /\ Entering(p) \in Static
    /\ agent[p].half = "unmarked"
    /\ marker' = [marker EXCEPT ![Entering(p)] = agent[p].config]
    /\ Entered(p)
    /\ UNCHANGED <<pid_file, service, httpd, httpd_pid, installed, cli, history>>

\* _on_started; if it fails after it wrote the marker, the marker stays.
EnterStarted(p) ==
    /\ Entering(p) = "started"
    /\ marker' = IF agent[p].systemd THEN [marker EXCEPT !["agent"] = agent[p].config]
                 ELSE marker
    /\ \/ /\ agent' = [agent EXCEPT ![p].depth = @ + 1, ![p].mode = "running"]
          /\ UNCHANGED faults
       \/ Fault /\ Raise(p, "error")
    /\ UNCHANGED <<pid_file, service, httpd, httpd_pid, installed, cli, opens, raced,
                   overlap, torn>>

-----------------------------------------------------------------------------
(* An agent is interrupted, is done, fails or has to reload.               *)

StopsDuringUp == overlap' = (overlap \/ cli.op = "up")

\* SIGINT; one in the middle of a start is counted as a fault.
Interrupt(p) ==
    /\ agent[p].mode \in {"starting", "running"}
    /\ IF agent[p].mode = "starting" THEN Fault ELSE UNCHANGED faults
    /\ Raise(p, "interrupt")
    /\ StopsDuringUp
    /\ UNCHANGED <<host, cli, opens, raced, torn>>

\* _spin: an exit condition or a time limit; an error in a handler; or
\* _reload_agent is set, or spin_until_consistent raises AgentReload.
SpinEnds(p) ==
    /\ agent[p].mode = "running"
    /\ \/ Raise(p, "none") /\ UNCHANGED faults
       \/ Raise(p, "error") /\ Fault
    /\ StopsDuringUp
    /\ UNCHANGED <<host, cli, opens, raced, torn>>

SpinReloads(p) ==
    /\ agent[p].mode = "running"
    /\ Counted
    /\ agent' = [agent EXCEPT ![p].mode = "stopping", ![p].exc = "reload",
                              ![p].reloading = IsCell]
    /\ StopsDuringUp
    /\ UNCHANGED <<host, cli, faults, raced, torn>>

-----------------------------------------------------------------------------
(* The contexts are left in reverse order.                                 *)

\* Runnable.__exit__
AssertStopped(p) == agent[p].exc \in {"error", "reload"}

\* AgentService.stop: a service that was active before is left to systemd.
Delegates(p, s) ==
    ~AssertStopped(p) /\ ~agent[p].reloading /\ s \in agent[p].initial

LeaveStarted(p) ==
    /\ Leaving(p) = "started"
    /\ marker' = [marker EXCEPT !["agent"] = NoMarker]
    /\ \/ Left(p) /\ UNCHANGED faults
       \/ LeftWith(p, "error") /\ Fault
    /\ UNCHANGED <<pid_file, service, httpd, httpd_pid, installed, cli, opens, raced,
                   overlap, torn>>

\* Lighttpd.stop finds its server by the PID file.
LeaveWebUi(p) ==
    /\ Leaving(p) = "webui"
    /\ \/ /\ httpd' = (httpd /\ ~(Runnable("webui") /\ httpd_pid))
          /\ httpd_pid' = (httpd_pid /\ ~Runnable("webui"))
          /\ Left(p)
          /\ UNCHANGED faults
       \/ /\ Fault
          /\ LeftWith(p, "error")
          /\ UNCHANGED <<httpd, httpd_pid>>
    /\ UNCHANGED <<pid_file, marker, service, installed, cli, opens, raced, overlap, torn>>

LeaveThread(p) ==
    /\ Leaving(p) \in {"participant", "routes_monitor", "peers_tester"}
    /\ \/ Left(p) /\ UNCHANGED faults
       \/ LeftWith(p, "error") /\ Fault
    /\ UNCHANGED <<host, cli, opens, raced, overlap, torn>>

\* AgentService.stop, up to the end of _stop.
LeaveStatic(p) ==
    LET s == Leaving(p) IN
    /\ s \in Static
    /\ agent[p].half = "none"
    /\ IF Delegates(p, s)
         THEN /\ marker' = [marker EXCEPT ![s] = agent[p].config]
              /\ Left(p)
              /\ UNCHANGED service
         ELSE /\ service' = [service EXCEPT ![s] = Down]
              /\ At(p, "stopped")
              /\ UNCHANGED marker
    /\ UNCHANGED <<pid_file, httpd, httpd_pid, installed, cli, history>>

DeleteMarker(p) ==
    /\ Leaving(p) \in Static
    /\ agent[p].half = "stopped"
    /\ marker' = [marker EXCEPT ![Leaving(p)] = NoMarker]
    /\ Left(p)
    /\ UNCHANGED <<pid_file, service, httpd, httpd_pid, installed, cli, history>>

\* _stop fails: the marker is deleted all the same.  The network only logs
\* what went wrong if it is told to assert that it is stopped.
LeaveStaticFails(p) ==
    LET s == Leaving(p) IN
    /\ s \in Static
    /\ agent[p].half = "none"
    /\ ~Delegates(p, s)
    /\ Fault
    /\ service' = [service EXCEPT ![s] = Partial]
    /\ marker' = [marker EXCEPT ![s] = NoMarker]
    /\ IF s = "net" /\ AssertStopped(p) THEN Left(p) ELSE LeftWith(p, "error")
    /\ UNCHANGED <<pid_file, httpd, httpd_pid, installed, cli, opens, raced, overlap, torn>>

\* The PID file is deleted whatever it says.
DeletePid(p) ==
    /\ Leaving(p) = "pid"
    /\ pid_file' = NoPid
    /\ Left(p)
    /\ UNCHANGED <<marker, service, httpd, httpd_pid, installed, cli, history>>

\* KeyboardInterrupt where a context is being left: that context is not left
\* as it should be, and those outside of it get the new exception.
Interrupted(p) ==
    LET s == Leaving(p) IN
    /\ agent' = [agent EXCEPT ![p].depth = IF @ = 0 THEN 0 ELSE @ - 1,
                              ![p].half = "none", ![p].exc = "interrupt"]
    /\ torn' = (torn \/ agent[p].half = "stopped")
    /\ \/ UNCHANGED <<pid_file, marker, service, httpd, httpd_pid>>
       \/ /\ s = "pid"
          /\ pid_file' = NoPid
          /\ UNCHANGED <<marker, service, httpd, httpd_pid>>
       \/ /\ s = "started"
          /\ marker' = [marker EXCEPT !["agent"] = NoMarker]
          /\ UNCHANGED <<pid_file, service, httpd, httpd_pid>>
       \/ /\ s = "webui" /\ Runnable(s) /\ httpd_pid
          /\ httpd' = FALSE
          /\ httpd_pid' = FALSE
          /\ UNCHANGED <<pid_file, marker, service>>
       \/ /\ s \in Static /\ ~Delegates(p, s)
          /\ marker' = [marker EXCEPT ![s] = NoMarker]
          /\ service' \in {service,
                            [service EXCEPT ![s] = IF agent[p].half = "none" THEN Partial
                                                   ELSE @]}
          /\ UNCHANGED <<pid_file, httpd, httpd_pid>>
       \/ /\ s \in Static /\ Delegates(p, s)
          /\ marker' = [marker EXCEPT ![s] = agent[p].config]
          /\ UNCHANGED <<pid_file, service, httpd, httpd_pid>>

\* A second SIGINT, from outside.
InterruptStop(p) ==
    /\ agent[p].mode = "stopping"
    /\ Fault
    /\ Interrupted(p)
    /\ UNCHANGED <<installed, cli, opens, raced, overlap>>

\* Mutation of Reloaded: a new agent looks for markers, of which there are none.
ReloadedAnew(p, c) ==
    [Off EXCEPT !.mode = "starting", !.config = c, !.initial = ActiveServices,
                !.systemd = agent[p].systemd, !.found = agent[p].found]

\* Agent.reload hands the services that were active at first to the new agent.
Reloaded(p, c) ==
    [Off EXCEPT !.mode = "starting", !.config = c, !.initial = agent[p].initial,
                !.systemd = agent[p].systemd, !.found = agent[p].found]

\* agent_action: a cell reloads with a configuration that is not its own.
End(p) ==
    /\ agent[p].mode = "stopping"
    /\ agent[p].depth = 0
    /\ \/ /\ agent[p].exc = "reload"
          /\ installed' \in IF IsCell THEN Configs \ {agent[p].config} ELSE {installed}
          /\ agent' = [agent EXCEPT ![p] = Reloaded(p, installed')]
          /\ overlap' = (overlap \/ cli # Idle)
          /\ UNCHANGED faults
       \/ /\ IF agent[p].exc = "reload" THEN Fault ELSE UNCHANGED faults
          /\ agent' = [agent EXCEPT ![p] = Off]
          /\ UNCHANGED <<installed, overlap>>
    /\ UNCHANGED <<pid_file, marker, service, httpd, httpd_pid, cli, opens, raced, torn>>

\* The process is killed.
Crash(p) ==
    /\ Alive(p)
    /\ Fault
    /\ agent' = [agent EXCEPT ![p] = Off]
    /\ torn' = (torn \/ agent[p].half = "stopped")
    /\ UNCHANGED <<host, cli, opens, raced, overlap>>

-----------------------------------------------------------------------------
(* The command `uno service`.                                              *)

AgentsBusy == \E p \in Procs : agent[p].mode \in {"starting", "stopping"}

\* start_static_services, unless the target or one above it is active.
ServiceUp ==
    /\ cli = Idle
    /\ Counted
    /\ \E t \in DOMAIN StaticServices :
         /\ \A j \in t .. Len(StaticServices) : ~active(StaticServices[j])
         /\ cli' = [Idle EXCEPT !.op = "up", !.i = 1, !.to = t, !.config = installed]
    /\ overlap' = (overlap \/ AgentsBusy)
    /\ UNCHANGED <<host, agent, faults, raced, torn>>

CliNext ==
    cli' = IF cli.i = cli.to THEN Idle
           ELSE [cli EXCEPT !.i = @ + 1, !.half = "none", !.seen = NoPid]

CliBack ==
    cli' = [cli EXCEPT !.i = @ - 1, !.half = "none", !.seen = NoPid, !.waits = FALSE]

\* An exception in start_static_services: the services that it is through
\* with, started or found active, are torn down, also under an agent.
RollBack ==
    /\ cli' = IF cli.i = 1 THEN Idle
              ELSE [Idle EXCEPT !.op = "rollback", !.i = cli.i - 1, !.to = 1]
    /\ torn' = (torn \/ \E p \in Procs : agent[p].depth > 0)

\* AgentStaticService.up of the network and of the router.
UpStatic ==
    LET s == StaticServices[cli.i] IN
    /\ cli.op = "up"
    /\ cli.half = "none"
    /\ s \in Static
    /\ \/ /\ active(s) \/ ~Runnable(s)
          /\ CliNext
          /\ UNCHANGED <<service, faults, torn>>
       \/ /\ ~active(s) /\ Runnable(s) /\ CanStart(s)
          /\ service' = [service EXCEPT ![s] = cli.config]
          /\ cli' = [cli EXCEPT !.half = "unmarked"]
          /\ UNCHANGED <<faults, torn>>
       \/ /\ ~active(s) /\ Runnable(s)
          /\ IF CanStart(s) THEN Fault ELSE UNCHANGED faults
          /\ service' = [service EXCEPT ![s] = Partial]
          /\ RollBack
    /\ UNCHANGED <<pid_file, marker, httpd, httpd_pid, installed, agent, opens, raced,
                   overlap>>

UpMarker ==
    /\ cli.op = "up"
    /\ cli.half = "unmarked"
    /\ marker' = [marker EXCEPT ![StaticServices[cli.i]] = cli.config]
    /\ CliNext
    /\ UNCHANGED <<pid_file, service, httpd, httpd_pid, installed, agent, history>>

AtAgent == cli.i >= 1 /\ StaticServices[cli.i] = "agent"

\* Agent.start_static and Agent.stop_static look for a daemon with
\* external_agent_process: the PID file is read,
CliReadPid ==
    /\ AtAgent
    /\ cli.half = "none"
    /\ cli.op = "up" => ~active("agent")
    /\ cli' = [cli EXCEPT !.half = IF pid_file = NoPid THEN "free" ELSE "seen",
                          !.seen = pid_file]
    /\ raced' = (raced \/ (pid_file # NoPid /\ \E q \in Procs : InPidWindow(q)))
    /\ UNCHANGED <<host, agent, faults, opens, overlap, torn>>

\* the process that it names is looked for,
CliTestPid ==
    /\ cli.half = "seen"
    /\ cli' = IF Alive(cli.seen) THEN [cli EXCEPT !.half = "found"]
              ELSE [cli EXCEPT !.half = "stale", !.seen = NoPid]
    /\ UNCHANGED <<host, agent, history>>

\* and if it is gone the file is deleted, whatever is in it by then.
CliClearStalePid ==
    /\ cli.half = "stale"
    /\ pid_file' = NoPid
    /\ cli' = [cli EXCEPT !.half = "free"]
    /\ UNCHANGED <<marker, service, httpd, httpd_pid, installed, agent, history>>

\* AgentStaticService.up of the agent: a daemon is started, unless there is one.
UpAgent ==
    /\ cli.op = "up"
    /\ AtAgent
    /\ \/ /\ cli.half = "found" \/ (cli.half = "none" /\ active("agent"))
          /\ CliNext
          /\ UNCHANGED <<agent, faults, torn>>
       \/ /\ cli.half = "free"
          /\ \E p \in Procs : ~Alive(p) /\ agent' = [agent EXCEPT ![p] = Opened(TRUE)]
          /\ CliNext
          /\ UNCHANGED <<faults, torn>>
       \/ /\ cli.half = "free"
          /\ Fault
          /\ RollBack
          /\ UNCHANGED agent
    /\ UNCHANGED <<host, opens, raced, overlap>>

\* stop_static_services, from the agent down to the target.
ServiceDown ==
    /\ cli = Idle
    /\ Counted
    /\ \E t \in DOMAIN StaticServices :
         cli' = [Idle EXCEPT !.op = "down", !.i = Len(StaticServices), !.to = t]
    /\ overlap' = (overlap \/ AgentsBusy)
    /\ UNCHANGED <<host, agent, faults, raced, torn>>

\* Agent.stop_static deletes the agent's marker however it ends.
DownEnds(failed) ==
    /\ marker' = [marker EXCEPT !["agent"] = NoMarker]
    /\ cli' = [cli EXCEPT !.i = @ - 1, !.half = "none", !.seen = NoPid, !.waits = FALSE,
                          !.error = @ \/ failed]

\* There is no daemon, or no longer.
DownFree ==
    /\ cli.op = "down"
    /\ cli.half = "free"
    /\ DownEnds(FALSE)
    /\ UNCHANGED <<pid_file, service, httpd, httpd_pid, installed, agent, history>>

\* The daemon is interrupted, whatever it does by now; it is an error if it
\* has just ended.
DownAgent ==
    LET p == cli.seen IN
    /\ cli.op = "down"
    /\ cli.half = "found" /\ ~cli.waits
    /\ \/ /\ Alive(p)
          /\ cli' = [cli EXCEPT !.waits = TRUE, !.half = "none", !.seen = NoPid]
          /\ \/ /\ agent[p].mode # "stopping"
                /\ Raise(p, "interrupt")
                /\ UNCHANGED <<pid_file, marker, service, httpd, httpd_pid, overlap, torn>>
             \/ /\ agent[p].mode = "stopping"
                /\ Interrupted(p)
                /\ overlap' = TRUE
       \/ /\ ~Alive(p)
          /\ DownEnds(TRUE)
          /\ UNCHANGED <<pid_file, service, httpd, httpd_pid, agent, overlap, torn>>
    /\ UNCHANGED <<installed, faults, opens, raced>>

\* Mutation of DownWait: the command does not wait.
DownNoWait ==
    /\ cli.op = "down"
    /\ cli.half = "found" /\ cli.waits
    /\ DownEnds(FALSE)
    /\ UNCHANGED <<pid_file, service, httpd, httpd_pid, installed, agent, history>>

\* It looks again; after 30 seconds it goes on with the services of an agent
\* that still runs.
DownWait ==
    /\ cli.op = "down"
    /\ cli.half = "found" /\ cli.waits
    /\ \/ /\ cli' = [cli EXCEPT !.half = "none", !.seen = NoPid]
          /\ UNCHANGED <<marker, faults, torn>>
       \/ /\ Fault
          /\ DownEnds(TRUE)
          /\ torn' = TRUE
    /\ UNCHANGED <<pid_file, service, httpd, httpd_pid, installed, agent, opens, raced,
                   overlap>>

\* AgentService.stop_static, which asserts that the service is stopped.  If
\* that fails the marker is deleted all the same; `down` reports it at its end,
\* unless it is the network, which only logs what went wrong.
DownStatic ==
    LET s == StaticServices[cli.i] IN
    /\ cli.op \in {"down", "rollback"}
    /\ cli.i >= cli.to
    /\ s \in Static
    /\ cli.half = "none"
    /\ \/ /\ service' = [service EXCEPT ![s] = Down]
          /\ cli' = [cli EXCEPT !.half = "stopped"]
          /\ UNCHANGED <<marker, faults>>
       \/ /\ Fault
          /\ service' = [service EXCEPT ![s] = Partial]
          /\ marker' = [marker EXCEPT ![s] = NoMarker]
          /\ cli' = [cli EXCEPT !.i = @ - 1, !.error = @ \/ s # "net",
                                !.logged = @ \/ s = "net"]
    /\ UNCHANGED <<pid_file, httpd, httpd_pid, installed, agent, opens, raced, overlap, torn>>

DownMarker ==
    /\ cli.op \in {"down", "rollback"}
    /\ cli.half = "stopped"
    /\ marker' = [marker EXCEPT ![StaticServices[cli.i]] = NoMarker]
    /\ CliBack
    /\ UNCHANGED <<pid_file, service, httpd, httpd_pid, installed, agent, history>>

CliEnds ==
    /\ cli.op \in {"down", "rollback"}
    /\ cli.i < cli.to
    /\ cli' = Idle
    /\ UNCHANGED <<host, agent, history>>

CliCrash ==
    /\ cli # Idle
    /\ Fault
    /\ cli' = Idle
    /\ torn' = (torn \/ cli.half = "stopped")
    /\ UNCHANGED <<host, agent, opens, raced, overlap>>

\* KeyboardInterrupt: `up` rolls back; `down` and the rolling back end, and
\* delete the marker of the service that they are at.
CliInterrupt ==
    /\ Fault
    /\ \/ /\ cli.op = "up"
          /\ RollBack
          /\ UNCHANGED <<marker, service>>
       \/ /\ cli.op \in {"down", "rollback"}
          /\ cli.i >= cli.to
          /\ cli' = Idle
          /\ LET s == StaticServices[cli.i] IN
             \/ /\ cli.half = "stopped"
                /\ torn' = TRUE
                /\ UNCHANGED <<marker, service>>
             \/ /\ cli.half # "stopped"
                /\ marker' = [marker EXCEPT ![s] = NoMarker]
                /\ service' \in {service} \union
                     (IF s \in Static THEN {[service EXCEPT ![s] = Partial]} ELSE {})
                /\ UNCHANGED torn
    /\ UNCHANGED <<pid_file, httpd, httpd_pid, installed, agent, opens, raced, overlap>>

\* Agent.install_package: a new configuration on top of the old one.
InstallPackage ==
    /\ Counted
    /\ installed' \in Configs \ {installed}
    /\ UNCHANGED <<pid_file, marker, service, httpd, httpd_pid, agent, cli, faults, raced,
                   overlap, torn>>

-----------------------------------------------------------------------------

AgentNext(p) ==
    \/ Open(p) \/ ReadPid(p) \/ TestPid(p) \/ ClearStalePid(p) \/ WritePid(p)
    \/ EnterThread(p) \/ EnterWebUi(p) \/ EnterStatic(p) \/ WriteMarker(p) \/ EnterStarted(p)
    \/ Interrupt(p) \/ SpinEnds(p) \/ SpinReloads(p)
    \/ LeaveStarted(p) \/ LeaveWebUi(p) \/ LeaveThread(p) \/ LeaveStatic(p)
    \/ DeleteMarker(p) \/ LeaveStaticFails(p) \/ DeletePid(p)
    \/ InterruptStop(p) \/ End(p) \/ Crash(p)

CliNextState ==
    \/ ServiceUp \/ UpStatic \/ UpMarker \/ UpAgent
    \/ CliReadPid \/ CliTestPid \/ CliClearStalePid
    \/ ServiceDown \/ DownFree \/ DownAgent \/ DownWait \/ DownStatic \/ DownMarker
    \/ CliEnds \/ CliCrash \/ CliInterrupt \/ InstallPackage

\* Behaviours are followed up to the first race: nothing is claimed after it.
Next ==
    /\ ~raced
    /\ overlap => opens <= MaxOverlap
    /\ CliNextState \/ \E p \in Procs : AgentNext(p)

Spec == Init /\ [][Next]_vars

-----------------------------------------------------------------------------
(* Properties.                                                             *)

(* Two agents never share the host, unless two processes, agents or        *)
(* `uno service`, were between a look at the PID file and its use at the   *)
(* same time.  In particular a stale PID file, a crash, a reload, a stop   *)
(* or a daemon that ends while the command looks for it never lets a       *)
(* second agent in.                                                        *)
OneAgent ==
    ~raced => \A p, q \in Procs : agent[p].depth > 0 /\ agent[q].depth > 0 => p = q

(* An agent that is running has its services: they are up with the agent's *)
(* own configuration, also those that it took over because of a marker,    *)
(* and the web server can be stopped.                                      *)
RunningHasServices ==
    ~raced /\ ~overlap /\ ~torn =>
        \A p \in Procs : agent[p].mode = "running" =>
            /\ \A s \in Static : Runnable(s) => service[s] = agent[p].config
            /\ Runnable("webui") => httpd /\ httpd_pid

(* An agent that ends because it is done or interrupted, with no failure,  *)
(* leaves the static services as it found them, also after any number of   *)
(* reloads: active the ones that were active, with its own configuration,  *)
(* and stopped the others.                                                 *)
StaticServicesRestored ==
    ~raced /\ ~overlap /\ faults = 0 =>
        \A p \in Procs :
            Leaving(p) = "pid" /\ ~AssertStopped(p) =>
                \A s \in Static : Runnable(s) =>
                    IF s \in agent[p].found
                      THEN marker[s] = agent[p].config /\ service[s] = agent[p].config
                      ELSE ~active(s) /\ service[s] = Down

(* `uno service down` that reports no error has stopped the agent and the  *)
(* services, whatever crashes left behind.  The network may be partly up   *)
(* if the command logged that it failed to stop it.                        *)
DownIsDown ==
    ~raced /\ ~overlap /\ cli.op = "down" /\ cli.i < cli.to /\ ~cli.error =>
        /\ \A j \in cli.to .. Len(StaticServices) : ~active(StaticServices[j])
        /\ \A j \in cli.to .. Len(StaticServices) :
             LET s == StaticServices[j] IN
             s \in Static /\ ~(s = "net" /\ cli.logged) => service[s] = Down
        /\ \A p \in Procs : agent[p].depth = 0

=============================================================================
