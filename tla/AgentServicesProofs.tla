------------------------ MODULE AgentServicesProofs ------------------------
(***************************************************************************)
(* Theorems about the life cycle of the agents of a host: that one agent   *)
(* at most is past the check of the PID file, that an agent which runs has *)
(* its services, that one which stops leaves the static services as it     *)
(* found them, and that `uno service down` takes everything down.  They    *)
(* hold for any number of processes, configurations, faults and calls, and *)
(* for the agents of cells as well as the registry's.                      *)
(*                                                                         *)
(* None of the four is inductive.  Inv adds what the processes rely on     *)
(* between their steps: who owns the PID file, what a context that was     *)
(* entered stands for, when a marker file may be believed, and what the    *)
(* contexts that were already left have put back.                          *)
(*                                                                         *)
(* There is a lemma per action.  Its first step says what the action does, *)
(* in terms of the few operators defined below, and the others that each   *)
(* part of Inv is preserved.                                               *)
(***************************************************************************)
EXTENDS AgentServices, TLAPS

(* The inductive invariant.                                                *)

\* The services that have a marker file, static ones and the agent.
Services == {"net", "router", "agent"}

\* Where the context of a static service is in running_contexts.
Position(s) == IF s = "net" THEN 3 ELSE 5

\* Where a static service is in the list that `uno service` goes through.
Index(s) == IF s = "net" THEN 1 ELSE 2

\* The states of a process.
AgentRecord ==
    [mode : {"off", "starting", "running", "stopping"}, depth : 0 .. 8,
     half : {"none", "seen", "stale", "checked", "unmarked", "stopped"},
     seen : Procs \cup {NoPid}, exc : {"none", "error", "interrupt", "reload"},
     config : Configs \cup {NoMarker},
     initial : SUBSET Services, reloading : BOOLEAN, systemd : BOOLEAN,
     found : SUBSET Services]

\* The states of the command.
CliRecord ==
    [op : {"none", "up", "down", "rollback"}, i : 0 .. 3, to : 0 .. 3,
     half : {"none", "seen", "stale", "found", "free", "unmarked", "stopped"},
     seen : Procs \cup {NoPid}, config : Configs \cup {NoMarker},
     waits : BOOLEAN, error : BOOLEAN, logged : BOOLEAN]

\* Between a look at the PID file and its use.
Looks(p) == agent[p].half \in {"seen", "stale", "checked"}

\* The same for the command, which may also be done with it.
AtPid == {"seen", "stale", "found", "free"}

\* The type invariant. The bounds on faults and calls are not needed.
TypeInv ==
    /\ pid_file \in Procs \cup {NoPid}
    /\ marker \in [Services -> Configs \cup {NoMarker}]
    /\ service \in [Static -> Configs \cup {Down, Partial}]
    /\ httpd \in BOOLEAN /\ httpd_pid \in BOOLEAN
    /\ installed \in Configs
    /\ agent \in [Procs -> AgentRecord]
    /\ cli \in CliRecord
    /\ faults \in Nat
    /\ raced \in BOOLEAN /\ overlap \in BOOLEAN /\ torn \in BOOLEAN

\* How far a process is, and in which half of a step, fit together. A cell's
\* agent reloads because AgentReload was raised, as long as nothing fails and
\* nobody interrupts it.
AgentShape ==
  \A p \in Procs :
    /\ agent[p].mode = "off" => agent[p].depth = 0
    /\ agent[p].mode = "starting" => agent[p].depth < 8
    /\ agent[p].mode = "running" => agent[p].depth = 8
    /\ agent[p].mode # "off" => agent[p].config \in Configs
    /\ Looks(p) => agent[p].mode = "starting" /\ agent[p].depth = 0
    /\ agent[p].half = "unmarked" =>
         agent[p].mode = "starting" /\ agent[p].depth \in {2, 4}
    /\ agent[p].half = "stopped" =>
         agent[p].mode = "stopping" /\ agent[p].depth \in {3, 5}
    /\ agent[p].found = agent[p].initial
    /\ agent[p].reloading =>
         /\ agent[p].mode = "stopping"
         /\ faults = 0 /\ ~overlap => agent[p].exc = "reload"

\* The same for the command: it goes through the services in order, forward
\* to start them and backward to stop them.
CliShape ==
    /\ cli.op = "none" => cli = Idle
    /\ cli.half \in {"seen", "found"} => cli.seen \in Procs
    /\ cli.op = "up" =>
        /\ 1 <= cli.i /\ cli.i <= cli.to
        /\ cli.half \in {"none", "unmarked"} \cup AtPid
        /\ cli.half = "unmarked" => cli.i < 3
        /\ cli.half \in AtPid => cli.i = 3
        /\ cli.config \in Configs
    /\ cli.op = "down" =>
        /\ 1 <= cli.to /\ cli.to <= cli.i + 1
        /\ cli.half \in {"none", "stopped"} \cup AtPid
        /\ cli.half \in AtPid => cli.i = 3
        /\ cli.half = "stopped" => cli.i \in {1, 2} /\ cli.to <= cli.i
    /\ cli.op = "rollback" =>
        /\ cli.to = 1 /\ cli.i <= 2
        /\ cli.half \in {"none", "stopped"}
        /\ cli.half = "stopped" => cli.i \in {1, 2}

\* An agent that is past the check owns the PID file. Only one process at a time
\* is between a look at the file and its use, and while it is no other has
\* entered anything, but the one whose PID it has read and not yet looked for.
OwnsPid ==
  ~raced =>
    /\ \A p \in Procs :
        /\ agent[p].depth > 0 => pid_file = p
        /\ Looks(p) => \A q \in Procs \ {p} :
             ~Looks(q) /\ (agent[q].depth > 0 => agent[p].half = "seen" /\ agent[p].seen = q)
        /\ Looks(p) => cli.half \notin {"seen", "stale"}
        /\ agent[p].half = "seen" => agent[p].seen \in Procs \ {p}
    /\ cli.half = "seen" =>
        cli.seen \in Procs /\ \A q \in Procs : agent[q].depth > 0 => q = cli.seen
    /\ cli.half = "stale" => \A q \in Procs : agent[q].depth = 0

\* Nothing is torn as long as nothing fails and the command meets no agent that
\* is busy.
TornIsFault == torn => faults > 0 \/ overlap

\* The command does not run beside an agent that starts or, on the way up,
\* one that stops; it touches the static services when no agent uses them.
CliAlone ==
  ~overlap =>
    /\ cli # Idle => \A p \in Procs : agent[p].mode # "starting"
    /\ cli.op = "up" => \A p \in Procs : agent[p].mode # "stopping"
    /\ cli.op = "down" /\ cli.half = "found" =>
         cli.seen \in Procs /\ \A p \in Procs : agent[p].depth > 0 => p = cli.seen
    /\ cli.op = "down" /\ cli.half = "free" => \A p \in Procs : agent[p].depth = 0
    /\ cli.op = "down" /\ cli.i < 3 /\ ~(cli.error /\ torn) =>
         \A p \in Procs : agent[p].depth = 0
    /\ ~torn /\ cli.op = "up" /\ cli.half = "unmarked" =>
         \A p \in Procs : agent[p].depth = 0
    /\ ~torn /\ cli.op = "rollback" => \A p \in Procs : agent[p].depth = 0

\* The context of a static service was entered and not left.
HasEntered(p, s) == agent[p].depth >= Position(s)

\* A process has stopped a service and not deleted its marker yet.
HalfStopped(p, s) == agent[p].half = "stopped" /\ agent[p].depth = Position(s)

\* A process has started a service and not written its marker yet.
HalfStarted(p, s) == agent[p].half = "unmarked" /\ agent[p].depth + 1 = Position(s)

\* The command is in the half h of the service s.
CliHalf(s, h) == cli.half = h /\ cli.i = Index(s)

\* A service whose context was entered is up, with a marker, and both are of
\* the configuration of the agent.
EnteredIsUp ==
  ~raced /\ ~overlap /\ ~torn => \A p \in Procs, s \in Static : Runnable(s) =>
    /\ HasEntered(p, s) => /\ marker[s] = agent[p].config
                           /\ HalfStopped(p, s) \/ service[s] = agent[p].config
    /\ HalfStarted(p, s) => service[s] = agent[p].config

\* A marker is believed: the service runs with the configuration it names,
\* except in between the stop of the service and the deletion of the file.
MarkerIsTrue ==
  ~raced /\ ~overlap /\ ~torn => \A s \in Static : Runnable(s) =>
    /\ marker[s] # NoMarker => \/ service[s] = marker[s]
                               \/ \E p \in Procs : HalfStopped(p, s)
                               \/ CliHalf(s, "stopped")
    /\ cli.op = "up" /\ CliHalf(s, "unmarked") => service[s] = cli.config

\* The context of the web interface stands for a server with a PID file.
WebIsUp == ~raced => \A p \in Procs : agent[p].depth >= 7 /\ Runnable("webui") =>
  httpd /\ httpd_pid

\* What the contexts that were left have done: the services that were active
\* when the agent began are, the others are down and have no marker.
Restored ==
  ~raced /\ ~overlap /\ faults = 0 =>
    \A p \in Procs : agent[p].mode = "stopping" /\ ~AssertStopped(p)
      /\ agent[p].depth > 0 =>
       \A s \in Static : Runnable(s) =>
         /\ HalfStopped(p, s) => s \notin agent[p].initial /\ service[s] = Down
         /\ agent[p].depth < Position(s) =>
              IF s \in agent[p].initial
                THEN marker[s] = agent[p].config /\ service[s] = agent[p].config
                ELSE marker[s] = NoMarker /\ service[s] = Down

\* What the command has done on its way down.
DownDone ==
  ~raced /\ ~overlap /\ cli.op = "down" /\ ~cli.error =>
    /\ cli.i < 3 => marker["agent"] = NoMarker
    /\ \A s \in Static :
        /\ cli.i < Index(s) =>
             marker[s] = NoMarker /\ (service[s] = Down \/ (s = "net" /\ cli.logged))
        /\ CliHalf(s, "stopped") => service[s] = Down

\* The inductive invariant.
Inv == /\ TypeInv /\ AgentShape /\ CliShape /\ OwnsPid /\ TornIsFault /\ CliAlone
       /\ EnteredIsUp /\ MarkerIsTrue /\ WebIsUp /\ Restored /\ DownDone

-----------------------------------------------------------------------------
(* What the actions do to the processes and to the command.                *)

\* A step of the process p that leaves alone what it was opened with.
Moves(p, m, d, h, e) ==
    /\ agent' \in [Procs -> AgentRecord]
    /\ \A q \in Procs : q # p => agent'[q] = agent[q]
    /\ agent'[p].mode = m
    /\ agent'[p].depth = d
    /\ agent'[p].half = h
    /\ agent'[p].exc = e
    /\ agent'[p].config = agent[p].config
    /\ agent'[p].initial = agent[p].initial
    /\ agent'[p].found = agent[p].found
    /\ agent'[p].reloading = agent[p].reloading
    /\ agent'[p].systemd = agent[p].systemd

\* A step that makes the process p into r.
Becomes(p, r) ==
    /\ agent' \in [Procs -> AgentRecord]
    /\ \A q \in Procs : q # p => agent'[q] = agent[q]
    /\ agent'[p] = r

\* The two forms of such a step.
LEMMA RecordBecomes ==
    ASSUME agent \in [Procs -> AgentRecord], NEW p \in Procs, NEW r \in AgentRecord,
           agent' = [agent EXCEPT ![p] = r]
    PROVE  Becomes(p, r)
  BY DEF Becomes

\* Each of the steps that AgentServices names is such a move: a context is
\* entered,
LEMMA EnteredMoves ==
    ASSUME agent \in [Procs -> AgentRecord], NEW p \in Procs, agent[p].depth < 8,
           Entered(p)
    PROVE  Moves(p, agent[p].mode, agent[p].depth + 1, "none", agent[p].exc)
  <1> DEFINE r == [agent[p] EXCEPT !.depth = @ + 1, !.half = "none"]
  <1>1. agent[p] \in AgentRecord
    OBVIOUS
  <1>2. r \in AgentRecord
    <2>1. agent[p].depth \in 0 .. 8
      BY DEF AgentRecord
    <2>2. agent[p].depth + 1 \in 0 .. 8
      BY <2>1
    <2> QED BY <1>1, <2>2 DEF AgentRecord
  <1>3. agent' = [agent EXCEPT ![p] = r]
    BY DEF Entered
  <1>4. Becomes(p, r)
    BY <1>2, <1>3, RecordBecomes
  <1> QED BY <1>4 DEF Becomes, Moves

\* left,
LEMMA LeftMoves ==
    ASSUME agent \in [Procs -> AgentRecord], NEW p \in Procs, agent[p].depth > 0,
           Left(p)
    PROVE  Moves(p, agent[p].mode, agent[p].depth - 1, "none", agent[p].exc)
  <1> DEFINE r == [agent[p] EXCEPT !.depth = @ - 1, !.half = "none"]
  <1>1. agent[p] \in AgentRecord
    OBVIOUS
  <1>2. r \in AgentRecord
    <2>1. agent[p].depth \in 0 .. 8
      BY DEF AgentRecord
    <2>2. agent[p].depth - 1 \in 0 .. 8
      BY <2>1
    <2> QED BY <1>1, <2>2 DEF AgentRecord
  <1>3. agent' = [agent EXCEPT ![p] = r]
    BY DEF Left
  <1>4. Becomes(p, r)
    BY <1>2, <1>3, RecordBecomes
  <1> QED BY <1>4 DEF Becomes, Moves

\* left with an exception,
LEMMA LeftWithMoves ==
    ASSUME agent \in [Procs -> AgentRecord], NEW p \in Procs, agent[p].depth > 0,
           NEW e \in {"error", "interrupt"},
           LeftWith(p, e)
    PROVE  Moves(p, agent[p].mode, agent[p].depth - 1, "none", e)
  <1> DEFINE r == [agent[p] EXCEPT !.depth = @ - 1, !.half = "none", !.exc = e]
  <1>1. agent[p] \in AgentRecord
    OBVIOUS
  <1>2. r \in AgentRecord
    <2>1. agent[p].depth \in 0 .. 8
      BY DEF AgentRecord
    <2>2. agent[p].depth - 1 \in 0 .. 8
      BY <2>1
    <2> QED BY <1>1, <2>2 DEF AgentRecord
  <1>3. agent' = [agent EXCEPT ![p] = r]
    BY DEF LeftWith
  <1>4. Becomes(p, r)
    BY <1>2, <1>3, RecordBecomes
  <1> QED BY <1>4 DEF Becomes, Moves

\* or half way,
LEMMA AtMoves ==
    ASSUME agent \in [Procs -> AgentRecord], NEW p \in Procs,
           NEW h \in {"checked", "unmarked", "stopped"},
           At(p, h)
    PROVE  Moves(p, agent[p].mode, agent[p].depth, h, agent[p].exc)
  <1> DEFINE r == [agent[p] EXCEPT !.half = h]
  <1>2. r \in AgentRecord
    BY DEF AgentRecord
  <1>3. agent' = [agent EXCEPT ![p] = r]
    BY DEF At
  <1>4. Becomes(p, r)
    BY <1>2, <1>3, RecordBecomes
  <1> QED BY <1>4 DEF Becomes, Moves

\* half way after a look at the PID file,
LEMMA LooksMoves ==
    ASSUME agent \in [Procs -> AgentRecord], NEW p \in Procs, NEW h \in {"seen", "stale"},
           NEW x \in Procs \cup {NoPid},
           agent' = [agent EXCEPT ![p].half = h, ![p].seen = x]
    PROVE  Moves(p, agent[p].mode, agent[p].depth, h, agent[p].exc) /\ agent'[p].seen = x
  <1> DEFINE r == [agent[p] EXCEPT !.half = h, !.seen = x]
  <1>1. agent[p] \in AgentRecord
    OBVIOUS
  <1>2. r \in AgentRecord
    BY <1>1 DEF AgentRecord
  <1>3. agent' = [agent EXCEPT ![p] = r]
    OBVIOUS
  <1>4. Becomes(p, r)
    BY <1>2, <1>3, RecordBecomes
  <1>5. r.seen = x
    BY <1>1 DEF AgentRecord
  <1> QED BY <1>1, <1>4, <1>5 DEF Becomes, Moves, AgentRecord

\* interrupted where it is being left,
LEMMA InterruptedMoves ==
    ASSUME agent \in [Procs -> AgentRecord], NEW p \in Procs, agent[p].mode = "stopping",
           Interrupted(p)
    PROVE  Moves(p, "stopping", IF agent[p].depth = 0 THEN 0 ELSE agent[p].depth - 1,
                 "none", "interrupt")
  <1> DEFINE d == IF agent[p].depth = 0 THEN 0 ELSE agent[p].depth - 1
             r == [agent[p] EXCEPT !.depth = d, !.half = "none", !.exc = "interrupt"]
  <1>1. agent[p] \in AgentRecord
    OBVIOUS
  <1>2. r \in AgentRecord
    <2>1. agent[p].depth \in 0 .. 8
      BY DEF AgentRecord
    <2>2. d \in 0 .. 8
      BY <2>1
    <2> QED BY <1>1, <2>2 DEF AgentRecord
  <1>3. agent' = [agent EXCEPT ![p] = r]
    BY DEF Interrupted
  <1>4. Becomes(p, r)
    BY <1>2, <1>3, RecordBecomes
  <1> QED BY <1>4 DEF Becomes, Moves

\* an exception begins the way back,
LEMMA RaiseMoves ==
    ASSUME agent \in [Procs -> AgentRecord], NEW p \in Procs,
           NEW e \in {"none", "error", "interrupt"},
           Raise(p, e)
    PROVE  Moves(p, "stopping", agent[p].depth, "none", e)
  <1> DEFINE r == [agent[p] EXCEPT !.mode = "stopping", !.exc = e, !.half = "none",
                    !.seen = NoPid]
  <1>1. agent[p] \in AgentRecord
    OBVIOUS
  <1>2. r \in AgentRecord
    BY <1>1 DEF AgentRecord
  <1>3. agent' = [agent EXCEPT ![p] = r]
    BY DEF Raise
  <1>4. Becomes(p, r)
    BY <1>2, <1>3, RecordBecomes
  <1> QED BY <1>4 DEF Becomes, Moves

\* and the last context is entered.
LEMMA StartedMoves ==
    ASSUME agent \in [Procs -> AgentRecord], NEW p \in Procs, agent[p].depth < 8,
           agent' = [agent EXCEPT ![p].depth = @ + 1, ![p].mode = "running"]
    PROVE  Moves(p, "running", agent[p].depth + 1, agent[p].half, agent[p].exc)
  <1> DEFINE r == [agent[p] EXCEPT !.depth = @ + 1, !.mode = "running"]
  <1>1. agent[p] \in AgentRecord
    OBVIOUS
  <1>2. r \in AgentRecord
    <2>1. agent[p].depth \in 0 .. 8
      BY DEF AgentRecord
    <2>2. agent[p].depth + 1 \in 0 .. 8
      BY <2>1
    <2> QED BY <1>1, <2>2 DEF AgentRecord
  <1>3. agent' = [agent EXCEPT ![p] = r]
    OBVIOUS
  <1>4. Becomes(p, r)
    BY <1>2, <1>3, RecordBecomes
  <1> QED BY <1>4 DEF Becomes, Moves

\* The records that processes are set to are states of processes: off,
LEMMA OffRecord == Off \in AgentRecord
  BY DEF Off, AgentRecord

\* opened,
LEMMA OpenedRecord ==
    ASSUME installed \in Configs, NEW sd \in BOOLEAN PROVE Opened(sd) \in AgentRecord
  <1>1. ActiveServices \in SUBSET Services
    BY DEF ActiveServices, Services
  <1> QED BY <1>1, OffRecord DEF Opened, AgentRecord

\* reloaded.
LEMMA ReloadedRecord ==
    ASSUME agent \in [Procs -> AgentRecord], NEW p \in Procs, NEW c \in Configs
    PROVE  Reloaded(p, c) \in AgentRecord
  <1>2. /\ agent[p].initial \in SUBSET Services /\ agent[p].found \in SUBSET Services
        /\ agent[p].systemd \in BOOLEAN
    BY DEF AgentRecord
  <1> QED BY <1>2, OffRecord DEF Reloaded, AgentRecord

\* The context that is being entered says how many were before.
LEMMA EnteringAt ==
    ASSUME TypeInv, AgentShape, NEW p \in Procs, Entering(p) # "none"
    PROVE  /\ agent[p].mode = "starting"
           /\ agent[p].depth \in 0 .. 7
           /\ Entering(p) = "pid" <=> agent[p].depth = 0
           /\ Entering(p) = "participant" <=> agent[p].depth = 1
           /\ Entering(p) = "net" <=> agent[p].depth = 2
           /\ Entering(p) = "routes_monitor" <=> agent[p].depth = 3
           /\ Entering(p) = "router" <=> agent[p].depth = 4
           /\ Entering(p) = "peers_tester" <=> agent[p].depth = 5
           /\ Entering(p) = "webui" <=> agent[p].depth = 6
           /\ Entering(p) = "started" <=> agent[p].depth = 7
  <1>1. agent[p].mode = "starting" /\ agent[p].depth \in 0 .. 7
    BY DEF TypeInv, AgentShape, Entering, AgentRecord
  <1>2. Entering(p) = Contexts[agent[p].depth + 1]
    BY DEF Entering
  <1> QED BY <1>1, <1>2 DEF Contexts

\* The same for the context that is being left.
LEMMA LeavingAt ==
    ASSUME TypeInv, AgentShape, NEW p \in Procs, Leaving(p) # "none"
    PROVE  /\ agent[p].mode = "stopping"
           /\ agent[p].depth \in 1 .. 8
           /\ Leaving(p) = "pid" <=> agent[p].depth = 1
           /\ Leaving(p) = "participant" <=> agent[p].depth = 2
           /\ Leaving(p) = "net" <=> agent[p].depth = 3
           /\ Leaving(p) = "routes_monitor" <=> agent[p].depth = 4
           /\ Leaving(p) = "router" <=> agent[p].depth = 5
           /\ Leaving(p) = "peers_tester" <=> agent[p].depth = 6
           /\ Leaving(p) = "webui" <=> agent[p].depth = 7
           /\ Leaving(p) = "started" <=> agent[p].depth = 8
  <1>1. agent[p].mode = "stopping" /\ agent[p].depth \in 1 .. 8
    BY DEF TypeInv, Leaving, AgentRecord
  <1>2. Leaving(p) = Contexts[agent[p].depth]
    BY DEF Leaving
  <1> QED BY <1>1, <1>2 DEF Contexts

\* The process p begins with the configuration c and the active services i.
Begins(p, c, i) ==
    /\ agent' \in [Procs -> AgentRecord]
    /\ \A q \in Procs : q # p => agent'[q] = agent[q]
    /\ agent'[p].mode = "starting" /\ agent'[p].depth = 0 /\ agent'[p].half = "none"
    /\ agent'[p].exc = "none" /\ agent'[p].config = c
    /\ agent'[p].initial = i /\ agent'[p].found = i
    /\ agent'[p].reloading = FALSE

\* The process p is off.
Ends(p) ==
    /\ agent' \in [Procs -> AgentRecord]
    /\ \A q \in Procs : q # p => agent'[q] = agent[q]
    /\ agent'[p].mode = "off" /\ agent'[p].depth = 0 /\ agent'[p].half = "none"
    /\ agent'[p].found = agent'[p].initial
    /\ agent'[p].reloading = FALSE

\* An agent that is opened begins,
LEMMA OpenedBegins ==
    ASSUME agent \in [Procs -> AgentRecord], installed \in Configs, NEW p \in Procs,
           NEW sd \in BOOLEAN,
           agent' = [agent EXCEPT ![p] = Opened(sd)]
    PROVE  Begins(p, installed, ActiveServices)
  <1>1. Becomes(p, Opened(sd))
    BY OpenedRecord, RecordBecomes
  <1> QED BY <1>1 DEF Becomes, Begins, Opened, Off

\* one that reloads begins again,
LEMMA ReloadedBegins ==
    ASSUME agent \in [Procs -> AgentRecord], AgentShape, NEW p \in Procs,
           NEW c \in Configs,
           agent' = [agent EXCEPT ![p] = Reloaded(p, c)]
    PROVE  Begins(p, c, agent[p].initial)
  <1>1. Becomes(p, Reloaded(p, c))
    BY ReloadedRecord, RecordBecomes
  <1>2. agent[p].found = agent[p].initial
    BY DEF AgentShape
  <1> QED BY <1>1, <1>2 DEF Becomes, Begins, Reloaded, Off

\* and one that is off has ended.
LEMMA OffEnds ==
    ASSUME agent \in [Procs -> AgentRecord], NEW p \in Procs,
           agent' = [agent EXCEPT ![p] = Off]
    PROVE  Ends(p)
  <1>1. Becomes(p, Off)
    BY OffRecord, RecordBecomes
  <1> QED BY <1>1 DEF Becomes, Ends, Off

\* The agent p is on its way back because it has to reload.
Reloads(p) ==
    /\ agent' \in [Procs -> AgentRecord]
    /\ \A q \in Procs : q # p => agent'[q] = agent[q]
    /\ agent'[p].mode = "stopping" /\ agent'[p].depth = agent[p].depth
         /\ agent'[p].half = agent[p].half
    /\ agent'[p].exc = "reload" /\ agent'[p].config = agent[p].config
    /\ agent'[p].initial = agent[p].initial /\ agent'[p].found = agent[p].found
    /\ agent'[p].reloading \in BOOLEAN

\* SpinReloads leads there.
LEMMA ReloadsRecord ==
    ASSUME agent \in [Procs -> AgentRecord], NEW p \in Procs,
           agent' = [agent EXCEPT ![p].mode = "stopping", ![p].exc = "reload",
                              ![p].reloading = IsCell]
    PROVE  Reloads(p)
  <1> DEFINE r == [agent[p] EXCEPT !.mode = "stopping", !.exc = "reload",
                    !.reloading = IsCell]
  <1>1. agent[p] \in AgentRecord
    OBVIOUS
  <1>2. r \in AgentRecord
    BY <1>1, NamesAssumption DEF AgentRecord
  <1>3. agent' = [agent EXCEPT ![p] = r]
    OBVIOUS
  <1>4. Becomes(p, r)
    BY <1>2, <1>3, RecordBecomes
  <1>5. /\ r.config = agent[p].config /\ r.initial = agent[p].initial
        /\ r.found = agent[p].found /\ r.reloading \in BOOLEAN
        /\ r.depth = agent[p].depth /\ r.half = agent[p].half
        /\ r.mode = "stopping" /\ r.exc = "reload"
    BY NamesAssumption
  <1> QED BY <1>4, <1>5 DEF Becomes, Reloads

\* A step of the command to the half h of the n-th service.
CliMoves(o, n, t, h, c, e, l) ==
    /\ cli' \in CliRecord
    /\ cli'.op = o
    /\ cli'.i = n
    /\ cli'.to = t
    /\ cli'.half = h
    /\ cli'.config = c
    /\ cli'.error = e
    /\ cli'.logged = l

\* The updates of the command are such steps: it goes on to another half of a
\* service,
LEMMA CliHalves ==
    ASSUME cli \in CliRecord,
           NEW h \in {"none", "seen", "stale", "found", "free", "unmarked", "stopped"},
           NEW x \in Procs \cup {NoPid}, NEW w \in BOOLEAN,
           \/ cli' = [cli EXCEPT !.half = h]
           \/ cli' = [cli EXCEPT !.half = h, !.seen = x]
           \/ cli' = [cli EXCEPT !.waits = w, !.half = h, !.seen = x]
    PROVE  CliMoves(cli.op, cli.i, cli.to, h, cli.config, cli.error, cli.logged)
  <1>1. CASE cli' = [cli EXCEPT !.half = h]
    BY <1>1 DEF CliRecord, CliMoves
  <1>2. CASE cli' = [cli EXCEPT !.half = h, !.seen = x]
    BY <1>2 DEF CliRecord, CliMoves
  <1>3. CASE cli' = [cli EXCEPT !.waits = w, !.half = h, !.seen = x]
    BY <1>3 DEF CliRecord, CliMoves
  <1> QED BY <1>1, <1>2, <1>3

\* to the next service,
LEMMA CliForward ==
    ASSUME cli \in CliRecord, cli.i <= cli.to, CliNext
    PROVE  \/ cli' = Idle
           \/ /\ cli.i < cli.to
              /\ CliMoves(cli.op, cli.i + 1, cli.to, "none", cli.config, cli.error,
                          cli.logged)
  <1>1. cli.i \in 0 .. 3 /\ cli.to \in 0 .. 3
    BY DEF CliRecord
  <1>2. cli.i # cli.to => cli.i < cli.to /\ cli.i + 1 \in 0 .. 3
    BY <1>1
  <1> QED BY <1>2, NamesAssumption DEF CliRecord, CliMoves, CliNext

\* to the one before,
LEMMA CliBackward ==
    ASSUME cli \in CliRecord, cli.i > 0, CliBack
    PROVE  CliMoves(cli.op, cli.i - 1, cli.to, "none", cli.config, cli.error, cli.logged)
  <1>1. cli.i - 1 \in 0 .. 3
    BY DEF CliRecord
  <1> QED BY <1>1 DEF CliRecord, CliMoves, CliBack

\* also from the agent, perhaps after an error,
LEMMA CliLeavesAgent ==
    ASSUME cli \in CliRecord, cli.i = 3, NEW x \in BOOLEAN, DownEnds(x)
    PROVE  CliMoves(cli.op, 2, cli.to, "none", cli.config, cli.error \/ x, cli.logged)
  <1> DEFINE e == cli.error \/ x
             r == [op |-> cli.op, i |-> 2, to |-> cli.to, half |-> "none", seen |-> NoPid,
                   config |-> cli.config, waits |-> FALSE, error |-> e,
                   logged |-> cli.logged]
  <1>1. cli.i - 1 = 2 /\ e \in BOOLEAN
    OBVIOUS
  <1>2. cli' = r
    BY <1>1 DEF DownEnds, CliRecord
  <1>3. r \in CliRecord
    <2> HIDE DEF e
    <2> QED BY <1>1 DEF CliRecord
  <1> QED BY <1>2, <1>3 DEF CliMoves

\* or from a service that did not stop,
LEMMA CliFails ==
    ASSUME cli \in CliRecord, cli.i > 0, cli.half = "none", NEW x \in BOOLEAN,
           NEW y \in BOOLEAN,
           cli' = [cli EXCEPT !.i = @ - 1, !.error = @ \/ x, !.logged = @ \/ y]
    PROVE  CliMoves(cli.op, cli.i - 1, cli.to, "none", cli.config, cli.error \/ x,
                    cli.logged \/ y)
  <1>1. cli.i - 1 \in 0 .. 3
    BY DEF CliRecord
  <1> QED BY <1>1 DEF CliRecord, CliMoves

\* and back, because a service did not start.
LEMMA CliRollsBack ==
    ASSUME cli \in CliRecord, cli.i > 0, RollBack
    PROVE  \/ cli.i = 1 /\ cli' = Idle
           \/ /\ cli.i \in {2, 3}
              /\ CliMoves("rollback", cli.i - 1, 1, "none", NoMarker, FALSE, FALSE)
  <1>1. cli.i \in {1, 2, 3}
    BY DEF CliRecord
  <1>2. CASE cli.i = 1
    BY <1>2 DEF RollBack
  <1>3. CASE cli.i \in {2, 3}
    <2>1. cli' = [Idle EXCEPT !.op = "rollback", !.i = cli.i - 1, !.to = 1]
      BY <1>3 DEF RollBack
    <2>2. cli.i - 1 \in 0 .. 3
      BY <1>3
    <2>3. cli' = [op |-> "rollback", i |-> cli.i - 1, to |-> 1, half |-> "none",
                  seen |-> NoPid, config |-> NoMarker, waits |-> FALSE, error |-> FALSE,
                  logged |-> FALSE]
      BY <2>1 DEF Idle
    <2> QED BY <1>3, <2>2, <2>3 DEF CliRecord, CliMoves
  <1> QED BY <1>1, <1>2, <1>3

\* No command.
LEMMA IdleRecord == Idle \in CliRecord
  BY DEF Idle, CliRecord

-----------------------------------------------------------------------------
(* The steps of an agent.                                                  *)

\* Agent.open: the new process has entered nothing, so it only has to find
\* markers that are true.
LEMMA OpenKeeps ==
    ASSUME Inv, ~raced, NEW p \in Procs, Open(p)
    PROVE  Inv'
  <1>1. /\ agent[p].mode = "off"
        /\ Begins(p, installed, ActiveServices)
        /\ overlap' = (overlap \/ cli # Idle)
        /\ UNCHANGED <<pid_file, marker, service, httpd, httpd_pid, installed, cli,
             faults, raced, torn>>
    <2>1. agent \in [Procs -> AgentRecord] /\ agent[p].depth \in 0 .. 8
            /\ installed \in Configs
      BY DEF Inv, TypeInv, AgentRecord
    <2>2. agent[p].mode = "off"
      BY DEF Open, Alive
    <2> QED BY <2>1, <2>2, OpenedBegins DEF Open, host, history, Fault, Counted,
        StopsDuringUp, Static, active
  <1>2. TypeInv'
    BY <1>1 DEF Inv, Begins, TypeInv
  <1>3. AgentShape'
    BY <1>1 DEF Inv, Begins, AgentShape, Looks, TypeInv
  <1>4. CliShape'
    BY <1>1 DEF Inv, CliShape
  <1>5. OwnsPid'
    BY <1>1 DEF Inv, Begins, OwnsPid, Looks
  <1>6. TornIsFault'
    BY <1>1 DEF Inv, TornIsFault
  <1>7. CliAlone'
    <2>1. ~overlap' => cli = Idle
      BY <1>1 DEF Inv, CliAlone
    <2> QED BY <1>1, <2>1 DEF CliAlone, Idle
  <1>8. EnteredIsUp'
    BY <1>1 DEF Inv, Begins, Position, EnteredIsUp, TypeInv, HasEntered, HalfStopped,
       HalfStarted
  <1>9. MarkerIsTrue'
    BY <1>1 DEF Inv, Begins, MarkerIsTrue, AgentShape, TypeInv, HalfStopped, CliHalf
  <1>10. WebIsUp'
    BY <1>1 DEF Inv, Begins, WebIsUp
  <1>11. Restored'
    BY <1>1 DEF Inv, Begins, Restored, TypeInv, HalfStopped, AssertStopped
  <1>12. DownDone'
    <2>1. ~overlap' => cli = Idle
      BY <1>1 DEF Inv, CliAlone
    <2> QED BY <1>1, <2>1 DEF DownDone, Idle
  <1> QED BY <1>2, <1>3, <1>4, <1>5, <1>6, <1>7, <1>8, <1>9, <1>10, <1>11, <1>12 DEF Inv

\* A process that finds no PID file may go on, one that finds a file remembers
\* the PID; if another process is in between a look and its use, they race.
LEMMA ReadPidKeeps ==
    ASSUME Inv, ~raced, NEW p \in Procs, ReadPid(p)
    PROVE  Inv'
  <1>1. /\ agent[p].mode = "starting" /\ agent[p].depth = 0 /\ agent[p].half = "none"
        /\ \/ /\ pid_file \in {NoPid, p}
              /\ Moves(p, "starting", agent[p].depth, "checked", agent[p].exc)
           \/ /\ pid_file \in Procs \ {p}
              /\ Moves(p, "starting", agent[p].depth, "seen", agent[p].exc)
              /\ agent'[p].seen = pid_file
        /\ raced' \in BOOLEAN
        /\ ~raced' => /\ cli.half \notin {"seen", "stale"}
                      /\ \A q \in Procs \ {p} : ~Looks(q)
        /\ UNCHANGED <<pid_file, marker, service, httpd, httpd_pid, installed, cli,
             faults, overlap, torn>>
    <2>1. agent \in [Procs -> AgentRecord] /\ pid_file \in Procs \cup {NoPid}
      BY DEF Inv, TypeInv
    <2>2. agent[p].mode = "starting" /\ agent[p].depth = 0 /\ agent[p].half = "none"
      BY EnteringAt DEF Inv, ReadPid
    <2>3. \A q \in Procs : Looks(q) => InPidWindow(q)
      BY DEF Inv, AgentShape, Looks, InPidWindow, Entering, Contexts
    <2>4. /\ raced' \in BOOLEAN
          /\ ~raced' => /\ cli.half \notin {"seen", "stale"}
                        /\ \A q \in Procs \ {p} : ~Looks(q)
      BY <2>3 DEF ReadPid, CliInPidWindow, Inv, TypeInv
    <2>5. CASE pid_file \in {NoPid, p}
      BY <2>1, <2>2, <2>4, <2>5, AtMoves DEF ReadPid, host
    <2>6. CASE pid_file \notin {NoPid, p}
      <3>1. agent' = [agent EXCEPT ![p].half = "seen", ![p].seen = pid_file]
        BY <2>6 DEF ReadPid
      <3> QED BY <2>1, <2>2, <2>4, <2>6, <3>1, LooksMoves DEF ReadPid, host
    <2> QED BY <2>5, <2>6
  <1>2. TypeInv'
    BY <1>1 DEF Inv, Moves, TypeInv
  <1>3. AgentShape'
    BY <1>1 DEF Inv, Moves, AgentShape, Looks
  <1>4. CliShape'
    BY <1>1 DEF Inv, CliShape
  <1>5. OwnsPid'
    <2> SUFFICES ASSUME ~raced' PROVE OwnsPid'
      BY DEF OwnsPid
    <2>1. \A q \in Procs \ {p} : agent'[q] = agent[q] /\ ~Looks(q)
      BY <1>1 DEF Moves
    <2>2. \A q \in Procs : agent[q].depth > 0 => pid_file = q
      BY DEF Inv, OwnsPid
    <2>3. agent'[p].depth = 0
      BY <1>1 DEF Moves
    <2> QED BY <1>1, <2>1, <2>2, <2>3, NamesAssumption DEF OwnsPid, Looks, Moves
  <1>6. TornIsFault'
    BY <1>1 DEF Inv, TornIsFault
  <1>7. CliAlone'
    <2>1. ~overlap' => cli = Idle
      BY <1>1 DEF Inv, CliAlone
    <2> QED BY <1>1, <2>1 DEF CliAlone, Idle
  <1>8. EnteredIsUp'
    BY <1>1 DEF Inv, Moves, EnteredIsUp, HasEntered, HalfStopped, HalfStarted
  <1>9. MarkerIsTrue'
    BY <1>1 DEF Inv, Moves, MarkerIsTrue, HalfStopped, CliHalf
  <1>10. WebIsUp'
    BY <1>1 DEF Inv, Moves, WebIsUp
  <1>11. Restored'
    BY <1>1 DEF Inv, Moves, Restored, HalfStopped, AssertStopped
  <1>12. DownDone'
    <2>1. ~overlap' => cli = Idle
      BY <1>1 DEF Inv, CliAlone
    <2> QED BY <1>1, <2>1 DEF DownDone, Idle
  <1> QED BY <1>2, <1>3, <1>4, <1>5, <1>6, <1>7, <1>8, <1>9, <1>10, <1>11, <1>12 DEF Inv

\* If the process in the file is alive, the new one gives up; if not, none has
\* entered anything.
LEMMA TestPidKeeps ==
    ASSUME Inv, ~raced, NEW p \in Procs, TestPid(p)
    PROVE  Inv'
  <1>1. /\ agent[p].mode = "starting" /\ agent[p].depth = 0 /\ agent[p].half = "seen"
        /\ \/ Moves(p, "stopping", agent[p].depth, "none", "error")
           \/ /\ agent[agent[p].seen].mode = "off"
              /\ Moves(p, "starting", agent[p].depth, "stale", agent[p].exc)
        /\ UNCHANGED <<pid_file, marker, service, httpd, httpd_pid, installed, cli,
             faults, raced, overlap, torn>>
    <2>1. agent \in [Procs -> AgentRecord]
      BY DEF Inv, TypeInv
    <2>2. agent[p].mode = "starting" /\ agent[p].depth = 0 /\ agent[p].half = "seen"
      BY EnteringAt DEF Inv, TestPid
    <2>3. CASE Alive(agent[p].seen)
      BY <2>1, <2>2, <2>3, RaiseMoves DEF TestPid, host, history
    <2>4. CASE ~Alive(agent[p].seen)
      <3>1. agent' = [agent EXCEPT ![p].half = "stale", ![p].seen = NoPid]
        BY <2>4 DEF TestPid
      <3> QED BY <2>1, <2>2, <2>4, <3>1, LooksMoves DEF TestPid, Alive, host, history
    <2> QED BY <2>3, <2>4
  <1>2. TypeInv'
    BY <1>1 DEF Inv, Moves, TypeInv
  <1>3. AgentShape'
    BY <1>1 DEF Inv, Moves, AgentShape, Looks
  <1>4. CliShape'
    BY <1>1 DEF Inv, CliShape
  <1>5. OwnsPid'
    <2>1. \A q \in Procs \ {p} : agent'[q] = agent[q]
      BY <1>1 DEF Moves
    <2>2. /\ agent[p].seen \in Procs \ {p} /\ cli.half \notin {"seen", "stale"}
          /\ \A q \in Procs \ {p} : ~Looks(q) /\ (agent[q].depth > 0 => agent[p].seen = q)
      BY <1>1 DEF Inv, OwnsPid, Looks
    <2>3. agent[agent[p].seen].mode = "off" => agent[agent[p].seen].depth = 0
      BY <2>2 DEF Inv, AgentShape
    <2>4. agent'[p].depth = 0
      BY <1>1 DEF Moves
    <2>5. Looks(p)' => \A q \in Procs \ {p} : ~(agent[q].depth > 0)
      BY <1>1, <2>2, <2>3 DEF Moves, Looks
    <2>6. agent'[p].half # "seen"
      BY <1>1 DEF Moves
    <2> QED BY <1>1, <2>1, <2>2, <2>4, <2>5, <2>6 DEF Inv, OwnsPid, Looks
  <1>6. TornIsFault'
    BY <1>1 DEF Inv, TornIsFault
  <1>7. CliAlone'
    <2>1. ~overlap' => cli = Idle
      BY <1>1 DEF Inv, CliAlone
    <2> QED BY <1>1, <2>1 DEF CliAlone, Idle
  <1>8. EnteredIsUp'
    BY <1>1 DEF Inv, Moves, EnteredIsUp, HasEntered, HalfStopped, HalfStarted
  <1>9. MarkerIsTrue'
    BY <1>1 DEF Inv, Moves, MarkerIsTrue, HalfStopped, CliHalf
  <1>10. WebIsUp'
    BY <1>1 DEF Inv, Moves, WebIsUp
  <1>11. Restored'
    BY <1>1 DEF Inv, Moves, Restored, HalfStopped, AssertStopped
  <1>12. DownDone'
    <2>1. ~overlap' => cli = Idle
      BY <1>1 DEF Inv, CliAlone
    <2> QED BY <1>1, <2>1 DEF DownDone, Idle
  <1> QED BY <1>2, <1>3, <1>4, <1>5, <1>6, <1>7, <1>8, <1>9, <1>10, <1>11, <1>12 DEF Inv

\* The PID file of a process that is gone is deleted.
LEMMA ClearStalePidKeeps ==
    ASSUME Inv, ~raced, NEW p \in Procs, ClearStalePid(p)
    PROVE  Inv'
  <1>1. /\ agent[p].mode = "starting" /\ agent[p].depth = 0 /\ agent[p].half = "stale"
        /\ Moves(p, "starting", agent[p].depth, "checked", agent[p].exc)
        /\ pid_file' = NoPid
        /\ UNCHANGED <<marker, service, httpd, httpd_pid, installed, cli, faults, raced,
             overlap, torn>>
    <2>1. agent \in [Procs -> AgentRecord] /\ agent[p].depth \in 0 .. 8
            /\ installed \in Configs
      BY DEF Inv, TypeInv, AgentRecord
    <2>2. agent[p].mode = "starting" /\ agent[p].depth = 0 /\ agent[p].half = "stale"
      BY EnteringAt DEF Inv, ClearStalePid
    <2> QED BY <2>1, <2>2, AtMoves DEF ClearStalePid, history
  <1>2. TypeInv'
    BY <1>1 DEF Inv, Moves, TypeInv
  <1>3. AgentShape'
    BY <1>1 DEF Inv, Moves, AgentShape, Looks
  <1>4. CliShape'
    BY <1>1 DEF Inv, CliShape
  <1>5. OwnsPid'
    BY <1>1 DEF Inv, Moves, OwnsPid, Looks
  <1>6. TornIsFault'
    BY <1>1 DEF Inv, TornIsFault
  <1>7. CliAlone'
    <2>1. ~overlap' => cli = Idle
      BY <1>1 DEF Inv, CliAlone
    <2> QED BY <1>1, <2>1 DEF CliAlone, Idle
  <1>8. EnteredIsUp'
    <2>1. \A q \in Procs \ {p} : agent'[q] = agent[q] /\ agent[q].depth = 0
      BY <1>1 DEF Inv, Moves, OwnsPid, Looks, TypeInv, AgentRecord
    <2>2. agent'[p].depth \in {0, 1}
      BY <1>1 DEF Moves
    <2> QED BY <2>1, <2>2 DEF EnteredIsUp, HasEntered, HalfStarted, Position
  <1>9. MarkerIsTrue'
    BY <1>1 DEF Inv, Moves, MarkerIsTrue, HalfStopped, CliHalf
  <1>10. WebIsUp'
    BY <1>1 DEF Inv, Moves, WebIsUp
  <1>11. Restored'
    BY <1>1 DEF Inv, Moves, Restored, OwnsPid, Looks
  <1>12. DownDone'
    <2>1. ~overlap' => cli = Idle
      BY <1>1 DEF Inv, CliAlone
    <2> QED BY <1>1, <2>1 DEF DownDone, Idle
  <1> QED BY <1>2, <1>3, <1>4, <1>5, <1>6, <1>7, <1>8, <1>9, <1>10, <1>11, <1>12 DEF Inv

\* The only process that has checked the file writes it.
LEMMA WritePidKeeps ==
    ASSUME Inv, ~raced, NEW p \in Procs, WritePid(p)
    PROVE  Inv'
  <1>1. /\ agent[p].mode = "starting" /\ agent[p].depth = 0 /\ agent[p].half = "checked"
        /\ Moves(p, "starting", agent[p].depth + 1, "none", agent[p].exc)
        /\ pid_file' = p
        /\ UNCHANGED <<marker, service, httpd, httpd_pid, installed, cli, faults, raced,
             overlap, torn>>
    <2>1. agent \in [Procs -> AgentRecord] /\ agent[p].depth \in 0 .. 8
            /\ installed \in Configs
      BY DEF Inv, TypeInv, AgentRecord
    <2>2. agent[p].mode = "starting" /\ agent[p].depth = 0 /\ agent[p].half = "checked"
      BY EnteringAt DEF Inv, WritePid
    <2> QED BY <2>1, <2>2, EnteredMoves DEF WritePid, history
  <1>2. TypeInv'
    BY <1>1 DEF Inv, Moves, TypeInv
  <1>3. AgentShape'
    BY <1>1 DEF Inv, Moves, AgentShape, Looks
  <1>4. CliShape'
    BY <1>1 DEF Inv, CliShape
  <1>5. OwnsPid'
    BY <1>1 DEF Inv, Moves, OwnsPid, Looks
  <1>6. TornIsFault'
    BY <1>1 DEF Inv, TornIsFault
  <1>7. CliAlone'
    <2>1. ~overlap' => cli = Idle
      BY <1>1 DEF Inv, CliAlone
    <2> QED BY <1>1, <2>1 DEF CliAlone, Idle
  <1>8. EnteredIsUp'
    <2>1. \A q \in Procs \ {p} : agent'[q] = agent[q] /\ agent[q].depth = 0
      BY <1>1 DEF Inv, Moves, OwnsPid, Looks, TypeInv, AgentRecord
    <2>2. agent'[p].depth \in {0, 1}
      BY <1>1 DEF Moves
    <2> QED BY <2>1, <2>2 DEF EnteredIsUp, HasEntered, HalfStarted, Position
  <1>9. MarkerIsTrue'
    BY <1>1 DEF Inv, Moves, MarkerIsTrue, HalfStopped, CliHalf
  <1>10. WebIsUp'
    BY <1>1 DEF Inv, Moves, WebIsUp
  <1>11. Restored'
    BY <1>1 DEF Inv, Moves, Restored, OwnsPid, Looks
  <1>12. DownDone'
    <2>1. ~overlap' => cli = Idle
      BY <1>1 DEF Inv, CliAlone
    <2> QED BY <1>1, <2>1 DEF DownDone, Idle
  <1> QED BY <1>2, <1>3, <1>4, <1>5, <1>6, <1>7, <1>8, <1>9, <1>10, <1>11, <1>12 DEF Inv

\* The contexts that have only threads touch nothing that is shared.
LEMMA EnterThreadKeeps ==
    ASSUME Inv, ~raced, NEW p \in Procs, EnterThread(p)
    PROVE  Inv'
  <1>1. /\ agent[p].mode = "starting" /\ agent[p].depth \in {1, 3, 5}
        /\ \/ Moves(p, "starting", agent[p].depth + 1, "none", agent[p].exc)
                /\ faults' = faults
           \/ Moves(p, "stopping", agent[p].depth, "none", "error")
                /\ faults' = faults + 1
        /\ UNCHANGED <<pid_file, marker, service, httpd, httpd_pid, installed, cli,
             raced, overlap, torn>>
    <2>1. agent \in [Procs -> AgentRecord] /\ agent[p].depth \in 0 .. 8
            /\ installed \in Configs
      BY DEF Inv, TypeInv, AgentRecord
    <2>2. agent[p].mode = "starting" /\ agent[p].depth \in {1, 3, 5}
      BY EnteringAt DEF Inv, EnterThread
    <2> QED BY <2>1, <2>2, EnteredMoves, RaiseMoves DEF EnterThread, host, Fault
  <1>2. TypeInv'
    BY <1>1 DEF Inv, Moves, TypeInv
  <1>3. AgentShape'
    BY <1>1 DEF Inv, Moves, AgentShape, Looks, TypeInv
  <1>4. CliShape'
    BY <1>1 DEF Inv, CliShape
  <1>5. OwnsPid'
    BY <1>1 DEF Inv, Moves, OwnsPid, Looks
  <1>6. TornIsFault'
    BY <1>1 DEF Inv, TornIsFault, TypeInv
  <1>7. CliAlone'
    <2>1. ~overlap' => cli = Idle
      BY <1>1 DEF Inv, CliAlone
    <2> QED BY <1>1, <2>1 DEF CliAlone, Idle
  <1>8. EnteredIsUp'
    BY <1>1 DEF Inv, Moves, Position, EnteredIsUp, AgentShape, HasEntered, HalfStopped,
       HalfStarted
  <1>9. MarkerIsTrue'
    BY <1>1 DEF Inv, Moves, MarkerIsTrue, AgentShape, HalfStopped, CliHalf
  <1>10. WebIsUp'
    BY <1>1 DEF Inv, Moves, WebIsUp
  <1>11. Restored'
    BY <1>1 DEF Inv, Moves, Restored, OwnsPid, TypeInv
  <1>12. DownDone'
    <2>1. ~overlap' => cli = Idle
      BY <1>1 DEF Inv, CliAlone
    <2> QED BY <1>1, <2>1 DEF DownDone, Idle
  <1> QED BY <1>2, <1>3, <1>4, <1>5, <1>6, <1>7, <1>8, <1>9, <1>10, <1>11, <1>12 DEF Inv

\* Lighttpd.start: with another server it fails, and leaves no PID file.
LEMMA EnterWebUiKeeps ==
    ASSUME Inv, ~raced, NEW p \in Procs, EnterWebUi(p)
    PROVE  Inv'
  <1>1. /\ agent[p].mode = "starting" /\ agent[p].depth = 6
        /\ \/ /\ httpd_pid' = IF Runnable("webui") THEN ~httpd ELSE httpd_pid
              /\ httpd' = (httpd \/ Runnable("webui"))
              /\ IF httpd /\ Runnable("webui")
                   THEN Moves(p, "stopping", agent[p].depth, "none", "error")
                   ELSE Moves(p, "starting", agent[p].depth + 1, "none", agent[p].exc)
              /\ faults' = faults
           \/ httpd' \in BOOLEAN /\ httpd_pid' = FALSE
                /\ Moves(p, "stopping", agent[p].depth, "none", "error")
                /\ faults' = faults + 1
        /\ httpd' \in BOOLEAN /\ httpd_pid' \in BOOLEAN
        /\ UNCHANGED <<pid_file, marker, service, installed, cli, raced, overlap, torn>>
    <2>1. agent \in [Procs -> AgentRecord] /\ agent[p].depth \in 0 .. 8
            /\ installed \in Configs
      BY DEF Inv, TypeInv, AgentRecord
    <2>2. agent[p].mode = "starting" /\ agent[p].depth = 6
      BY EnteringAt DEF Inv, EnterWebUi
    <2>3. Entered(p) => Moves(p, "starting", agent[p].depth + 1, "none", agent[p].exc)
      BY <2>1, <2>2, EnteredMoves
    <2>4. Raise(p, "error") => Moves(p, "stopping", agent[p].depth, "none", "error")
      BY <2>1, RaiseMoves
    <2>5. httpd' \in BOOLEAN /\ httpd_pid' \in BOOLEAN
      BY DEF EnterWebUi, Inv, TypeInv
    <2> QED BY <2>1, <2>2, <2>3, <2>4, <2>5 DEF EnterWebUi, Fault
  <1>2. TypeInv'
    <2>1. agent' \in [Procs -> AgentRecord]
      BY <1>1 DEF Moves
    <2> QED BY <1>1, <2>1 DEF Inv, TypeInv
  <1>3. AgentShape'
    BY <1>1 DEF Inv, Moves, AgentShape, Looks, TypeInv
  <1>4. CliShape'
    BY <1>1 DEF Inv, CliShape
  <1>5. OwnsPid'
    BY <1>1 DEF Inv, Moves, OwnsPid, Looks
  <1>6. TornIsFault'
    BY <1>1 DEF Inv, TornIsFault, TypeInv
  <1>7. CliAlone'
    <2>1. ~overlap' => cli = Idle
      BY <1>1 DEF Inv, CliAlone
    <2> QED BY <1>1, <2>1 DEF CliAlone, Idle
  <1>8. EnteredIsUp'
    BY <1>1 DEF Inv, Moves, Position, EnteredIsUp, HasEntered, HalfStopped, HalfStarted
  <1>9. MarkerIsTrue'
    BY <1>1 DEF Inv, Moves, Position, MarkerIsTrue, HalfStopped, CliHalf
  <1>10. WebIsUp'
    <2>1. \A q \in Procs : q # p => agent[q].depth = 0
      BY <1>1 DEF Inv, OwnsPid, TypeInv, AgentRecord
    <2>2. \A q \in Procs : q # p => agent'[q] = agent[q]
      BY <1>1 DEF Moves
    <2>3. agent'[p].depth >= 7 /\ Runnable("webui") => httpd' /\ httpd_pid'
      BY <1>1 DEF Moves
    <2> QED BY <2>1, <2>2, <2>3 DEF WebIsUp
  <1>11. Restored'
    BY <1>1 DEF Inv, Moves, Position, Restored, OwnsPid, HalfStopped
  <1>12. DownDone'
    <2>1. ~overlap' => cli = Idle
      BY <1>1 DEF Inv, CliAlone
    <2> QED BY <1>1, <2>1 DEF DownDone, Idle
  <1> QED BY <1>2, <1>3, <1>4, <1>5, <1>6, <1>7, <1>8, <1>9, <1>10, <1>11, <1>12 DEF Inv

\* AgentService.start: a marker of the same configuration is believed, which
\* MarkerIsTrue justifies; otherwise the service is started, without a marker yet.
LEMMA EnterStaticKeeps ==
    ASSUME Inv, ~raced, NEW p \in Procs, EnterStatic(p), NEW s \in Static,
           s = Entering(p)
    PROVE  Inv'
  <1>1. /\ agent[p].mode = "starting" /\ agent[p].half = "none"
             /\ agent[p].depth + 1 = Position(s)
        /\ \/ (~Runnable(s) \/ marker[s] = agent[p].config)
                /\ Moves(p, "starting", agent[p].depth + 1, "none", agent[p].exc)
                /\ service' = service /\ faults' = faults
           \/ Moves(p, "stopping", agent[p].depth, "none", "error")
                /\ service' = service /\ faults' = faults
           \/ marker[s] = NoMarker
                /\ Moves(p, "starting", agent[p].depth, "unmarked", agent[p].exc)
                /\ service' = [service EXCEPT ![s] = agent[p].config]
                /\ faults' = faults
           \/ marker[s] = NoMarker
                /\ Moves(p, "stopping", agent[p].depth, "none", "error")
                /\ service' = [service EXCEPT ![s] = Partial]
                /\ faults' \in {faults, faults + 1}
        /\ UNCHANGED <<pid_file, marker, httpd, httpd_pid, installed, cli, raced,
             overlap, torn>>
    <2>1. agent \in [Procs -> AgentRecord] /\ agent[p].depth \in 0 .. 8
            /\ installed \in Configs
      BY DEF Inv, TypeInv, AgentRecord
    <2>2. agent[p].mode = "starting" /\ agent[p].half = "none"
            /\ agent[p].depth + 1 = Position(s)
      BY EnteringAt DEF Inv, EnterStatic, Static, Position
    <2>3. Entered(p) => Moves(p, "starting", agent[p].depth + 1, "none", agent[p].exc)
      BY <2>1, <2>2, EnteredMoves DEF Position
    <2>4. Raise(p, "error") => Moves(p, "stopping", agent[p].depth, "none", "error")
      BY <2>1, RaiseMoves
    <2>5. At(p, "unmarked") =>
            Moves(p, "starting", agent[p].depth, "unmarked", agent[p].exc)
      BY <2>1, <2>2, AtMoves
    <2> QED BY <2>2, <2>3, <2>4, <2>5 DEF EnterStatic, active, TakesOver, Fault
  <1>2. TypeInv'
    <2>1. agent' \in [Procs -> AgentRecord]
      BY <1>1 DEF Moves
    <2>2. agent[p].config \in Configs /\ faults' \in Nat
      BY <1>1 DEF Inv, TypeInv, AgentShape
    <2> QED BY <1>1, <2>1, <2>2 DEF Inv, TypeInv
  <1>3. AgentShape'
    BY <1>1 DEF Inv, Moves, Position, AgentShape, Looks, TypeInv, AgentRecord
  <1>4. CliShape'
    BY <1>1 DEF Inv, CliShape
  <1>5. OwnsPid'
    BY <1>1 DEF Inv, Moves, Position, OwnsPid, Looks, TypeInv, AgentRecord
  <1>6. TornIsFault'
    BY <1>1 DEF Inv, TornIsFault, TypeInv
  <1>7. CliAlone'
    <2>1. ~overlap' => cli = Idle
      BY <1>1 DEF Inv, CliAlone
    <2> QED BY <1>1, <2>1 DEF CliAlone, Idle
  <1>8. EnteredIsUp'
    <2> SUFFICES ASSUME ~overlap, ~torn, NEW q \in Procs, NEW t \in Static, Runnable(t)
                 PROVE  /\ HasEntered(q, t)' => marker[t] = agent'[q].config
                        /\ HasEntered(q, t)' =>
                             HalfStopped(q, t)' \/ service'[t] = agent'[q].config
                        /\ HalfStarted(q, t)' => service'[t] = agent'[q].config
      BY <1>1 DEF EnteredIsUp
    <2>1. \A o \in Procs : o # p => agent[o].depth = 0
      BY <1>1 DEF Inv, OwnsPid, TypeInv, AgentRecord, Position
    <2>2. CASE q # p
      <3>1. agent'[q] = agent[q] /\ agent[q].depth = 0
        BY <1>1, <2>1, <2>2 DEF Moves
      <3> QED BY <3>1 DEF HasEntered, HalfStarted, Position
    <2>3. cli.half # "stopped"
      BY <1>1 DEF Inv, CliAlone, Idle
    <2>4. \A o \in Procs : ~HalfStopped(o, t)
      BY <1>1, <2>1 DEF HalfStopped, Position
    <2>5. marker[t] # NoMarker => service[t] = marker[t]
      BY <2>3, <2>4 DEF Inv, MarkerIsTrue, CliHalf
    <2>6. agent[p].config # NoMarker /\ agent[p].depth \in 0 .. 8
      BY <1>1, NamesAssumption DEF Inv, AgentShape, TypeInv, AgentRecord
    <2>7. HasEntered(p, t) =>
            marker[t] = agent[p].config /\ service[t] = agent[p].config
      BY <2>4 DEF Inv, EnteredIsUp
    <2>8. CASE q = p /\ t # s
      BY <1>1, <2>6, <2>7, <2>8 DEF Inv, TypeInv, Moves, HasEntered, HalfStarted,
         Static, Position
    <2>9. CASE q = p /\ t = s
      BY <1>1, <2>5, <2>6, <2>9 DEF Inv, TypeInv, Moves, HasEntered, HalfStarted
    <2> QED BY <2>2, <2>8, <2>9
  <1>9. MarkerIsTrue'
    BY <1>1 DEF Inv, Moves, Position, MarkerIsTrue, CliAlone, TypeInv, HalfStopped,
       CliHalf
  <1>10. WebIsUp'
    BY <1>1 DEF Inv, Moves, Position, WebIsUp
  <1>11. Restored'
    BY <1>1 DEF Inv, Moves, Position, Restored, OwnsPid, TypeInv, AgentRecord,
       HalfStarted, AssertStopped
  <1>12. DownDone'
    <2>1. ~overlap' => cli = Idle
      BY <1>1 DEF Inv, CliAlone
    <2> QED BY <1>1, <2>1 DEF DownDone, Idle
  <1> QED BY <1>2, <1>3, <1>4, <1>5, <1>6, <1>7, <1>8, <1>9, <1>10, <1>11, <1>12 DEF Inv

\* The marker is written for a service that was just started.
LEMMA WriteMarkerKeeps ==
    ASSUME Inv, ~raced, NEW p \in Procs, WriteMarker(p), NEW s \in Static,
           s = Entering(p)
    PROVE  Inv'
  <1>1. /\ agent[p].mode = "starting" /\ agent[p].half = "unmarked"
             /\ agent[p].depth + 1 = Position(s)
        /\ Moves(p, "starting", agent[p].depth + 1, "none", agent[p].exc)
        /\ marker' = [marker EXCEPT ![s] = agent[p].config]
        /\ UNCHANGED <<pid_file, service, httpd, httpd_pid, installed, cli, faults,
             raced, overlap, torn>>
    <2>1. agent \in [Procs -> AgentRecord] /\ agent[p].depth \in 0 .. 8
            /\ installed \in Configs
      BY DEF Inv, TypeInv, AgentRecord
    <2>2. agent[p].mode = "starting" /\ agent[p].half = "unmarked"
            /\ agent[p].depth + 1 = Position(s)
      BY EnteringAt DEF Inv, WriteMarker, Static, Position
    <2>3. Entered(p) => Moves(p, "starting", agent[p].depth + 1, "none", agent[p].exc)
      BY <2>1, <2>2, EnteredMoves DEF Position
    <2> QED BY <2>2, <2>3 DEF WriteMarker, history
  <1>2. TypeInv'
    BY <1>1 DEF Inv, Moves, Static, Services, TypeInv, AgentRecord
  <1>3. AgentShape'
    BY <1>1 DEF Inv, Moves, AgentShape, Looks
  <1>4. CliShape'
    BY <1>1 DEF Inv, CliShape
  <1>5. OwnsPid'
    BY <1>1 DEF Inv, Moves, OwnsPid, Looks, AgentShape
  <1>6. TornIsFault'
    BY <1>1 DEF Inv, TornIsFault
  <1>7. CliAlone'
    <2>1. ~overlap' => cli = Idle
      BY <1>1 DEF Inv, CliAlone
    <2> QED BY <1>1, <2>1 DEF CliAlone, Idle
  <1>8. EnteredIsUp'
    BY <1>1 DEF Inv, Moves, Static, Position, Services, EnteredIsUp, OwnsPid,
       AgentShape, TypeInv, HasEntered, HalfStopped, HalfStarted
  <1>9. MarkerIsTrue'
    BY <1>1 DEF Inv, Moves, EnteredIsUp, MarkerIsTrue, HalfStopped, HalfStarted, CliHalf
  <1>10. WebIsUp'
    BY <1>1 DEF Inv, Moves, Position, WebIsUp
  <1>11. Restored'
    BY <1>1 DEF Inv, Moves, Restored, OwnsPid, AgentShape
  <1>12. DownDone'
    <2>1. ~overlap' => cli = Idle
      BY <1>1 DEF Inv, CliAlone
    <2> QED BY <1>1, <2>1 DEF DownDone, Idle
  <1> QED BY <1>2, <1>3, <1>4, <1>5, <1>6, <1>7, <1>8, <1>9, <1>10, <1>11, <1>12 DEF Inv

\* _on_started: under systemd, the agent has a marker of its own.
LEMMA EnterStartedKeeps ==
    ASSUME Inv, ~raced, NEW p \in Procs, EnterStarted(p)
    PROVE  Inv'
  <1>1. /\ agent[p].mode = "starting" /\ agent[p].depth = 7
        /\ marker' \in {marker, [marker EXCEPT !["agent"] = agent[p].config]}
        /\ \/ Moves(p, "running", agent[p].depth + 1, agent[p].half, agent[p].exc)
                /\ faults' = faults
           \/ Moves(p, "stopping", agent[p].depth, "none", "error")
                /\ faults' = faults + 1
        /\ UNCHANGED <<pid_file, service, httpd, httpd_pid, installed, cli, raced,
             overlap, torn>>
    <2>1. agent \in [Procs -> AgentRecord] /\ agent[p].depth \in 0 .. 8
            /\ installed \in Configs
      BY DEF Inv, TypeInv, AgentRecord
    <2>2. agent[p].mode = "starting" /\ agent[p].depth = 7
      BY EnteringAt DEF Inv, EnterStarted
    <2> QED BY <2>1, <2>2, StartedMoves, RaiseMoves DEF EnterStarted, Fault
  <1>2. TypeInv'
    BY <1>1 DEF Inv, Moves, TypeInv, AgentRecord
  <1>3. AgentShape'
    BY <1>1 DEF Inv, Moves, AgentShape, Looks, TypeInv
  <1>4. CliShape'
    BY <1>1 DEF Inv, CliShape
  <1>5. OwnsPid'
    <2>1. agent[p].half # "seen" /\ agent'[p].half \in {agent[p].half, "none"}
      BY <1>1 DEF Inv, AgentShape, Looks, Moves
    <2> QED BY <1>1, <2>1 DEF Inv, Moves, OwnsPid, Looks
  <1>6. TornIsFault'
    BY <1>1 DEF Inv, TornIsFault, TypeInv
  <1>7. CliAlone'
    <2>1. ~overlap' => cli = Idle
      BY <1>1 DEF Inv, CliAlone
    <2> QED BY <1>1, <2>1 DEF CliAlone, Idle
  <1>8. EnteredIsUp'
    BY <1>1 DEF Inv, Moves, Static, Position, Services, EnteredIsUp, TypeInv,
       HasEntered, HalfStopped, HalfStarted
  <1>9. MarkerIsTrue'
    BY <1>1 DEF Inv, Moves, Static, Position, Services, MarkerIsTrue, TypeInv,
       HalfStopped, CliHalf
  <1>10. WebIsUp'
    BY <1>1 DEF Inv, WebIsUp
  <1>11. Restored'
    BY <1>1 DEF Inv, Moves, Restored, OwnsPid, TypeInv
  <1>12. DownDone'
    <2>1. ~overlap' => cli = Idle
      BY <1>1 DEF Inv, CliAlone
    <2> QED BY <1>1, <2>1 DEF DownDone, Idle
  <1> QED BY <1>2, <1>3, <1>4, <1>5, <1>6, <1>7, <1>8, <1>9, <1>10, <1>11, <1>12 DEF Inv

\* An interrupt begins the way back; nothing was left so far.
LEMMA InterruptKeeps ==
    ASSUME Inv, ~raced, NEW p \in Procs, Interrupt(p)
    PROVE  Inv'
  <1>1. /\ agent[p].mode \in {"starting", "running"}
        /\ faults' = IF agent[p].mode = "starting" THEN faults + 1 ELSE faults
        /\ Moves(p, "stopping", agent[p].depth, "none", "interrupt")
        /\ overlap' = (overlap \/ cli.op = "up")
        /\ UNCHANGED <<pid_file, marker, service, httpd, httpd_pid, installed, cli,
             raced, torn>>
    <2>1. agent \in [Procs -> AgentRecord] /\ agent[p].depth \in 0 .. 8
            /\ installed \in Configs
      BY DEF Inv, TypeInv, AgentRecord
    <2> QED BY <2>1, RaiseMoves DEF Interrupt, host, Fault, StopsDuringUp
  <1>2. TypeInv'
    BY <1>1 DEF Inv, Moves, TypeInv
  <1>3. AgentShape'
    BY <1>1 DEF Inv, Moves, AgentShape, Looks, TypeInv
  <1>4. CliShape'
    BY <1>1 DEF Inv, CliShape
  <1>5. OwnsPid'
    BY <1>1 DEF Inv, Moves, OwnsPid, Looks
  <1>6. TornIsFault'
    BY <1>1 DEF Inv, TornIsFault, TypeInv
  <1>7. CliAlone'
    <2>1. ~overlap' => ~overlap /\ cli.op # "up"
      BY <1>1
    <2>2. \A q \in Procs : agent'[q].depth = agent[q].depth
            /\ (agent'[q].mode = "starting" => agent[q].mode = "starting")
      BY <1>1 DEF Moves
    <2> QED BY <1>1, <2>1, <2>2 DEF Inv, CliAlone
  <1>8. EnteredIsUp'
    BY <1>1 DEF Inv, Moves, EnteredIsUp, AgentShape, TypeInv, HasEntered, HalfStopped,
       HalfStarted
  <1>9. MarkerIsTrue'
    BY <1>1 DEF Inv, Moves, MarkerIsTrue, AgentShape, TypeInv, HalfStopped, CliHalf
  <1>10. WebIsUp'
    BY <1>1 DEF Inv, Moves, WebIsUp
  <1>11. Restored'
    BY <1>1 DEF Inv, Moves, Position, Restored, OwnsPid, AgentShape, TypeInv,
       HalfStopped
  <1>12. DownDone'
    BY <1>1 DEF Inv, DownDone, TypeInv, CliHalf
  <1> QED BY <1>2, <1>3, <1>4, <1>5, <1>6, <1>7, <1>8, <1>9, <1>10, <1>11, <1>12 DEF Inv

\* So do the end of spin and an error in it,
LEMMA SpinEndsKeeps ==
    ASSUME Inv, ~raced, NEW p \in Procs, SpinEnds(p)
    PROVE  Inv'
  <1>1. /\ agent[p].mode = "running"
        /\ \/ Moves(p, "stopping", agent[p].depth, "none", "none") /\ faults' = faults
           \/ Moves(p, "stopping", agent[p].depth, "none", "error")
                /\ faults' = faults + 1
        /\ overlap' = (overlap \/ cli.op = "up")
        /\ UNCHANGED <<pid_file, marker, service, httpd, httpd_pid, installed, cli,
             raced, torn>>
    <2>1. agent \in [Procs -> AgentRecord] /\ agent[p].depth \in 0 .. 8
            /\ installed \in Configs
      BY DEF Inv, TypeInv, AgentRecord
    <2> QED BY <2>1, RaiseMoves DEF SpinEnds, host, Fault, StopsDuringUp
  <1>2. TypeInv'
    BY <1>1 DEF Inv, Moves, TypeInv
  <1>3. AgentShape'
    BY <1>1 DEF Inv, Moves, AgentShape, Looks, TypeInv
  <1>4. CliShape'
    BY <1>1 DEF Inv, CliShape
  <1>5. OwnsPid'
    BY <1>1 DEF Inv, Moves, OwnsPid, Looks
  <1>6. TornIsFault'
    BY <1>1 DEF Inv, TornIsFault, TypeInv
  <1>7. CliAlone'
    <2>1. ~overlap' => ~overlap /\ cli.op # "up"
      BY <1>1
    <2>2. \A q \in Procs : agent'[q].depth = agent[q].depth
            /\ (agent'[q].mode = "starting" => agent[q].mode = "starting")
      BY <1>1 DEF Moves
    <2> QED BY <1>1, <2>1, <2>2 DEF Inv, CliAlone
  <1>8. EnteredIsUp'
    BY <1>1 DEF Inv, Moves, EnteredIsUp, AgentShape, TypeInv, HasEntered, HalfStopped,
       HalfStarted
  <1>9. MarkerIsTrue'
    BY <1>1 DEF Inv, Moves, MarkerIsTrue, AgentShape, TypeInv, HalfStopped, CliHalf
  <1>10. WebIsUp'
    BY <1>1 DEF Inv, Moves, WebIsUp
  <1>11. Restored'
    BY <1>1 DEF Inv, Moves, Position, Restored, OwnsPid, AgentShape, HalfStopped
  <1>12. DownDone'
    BY <1>1 DEF Inv, DownDone, TypeInv, CliHalf
  <1> QED BY <1>2, <1>3, <1>4, <1>5, <1>6, <1>7, <1>8, <1>9, <1>10, <1>11, <1>12 DEF Inv

\* and AgentReload, which only keeps a cell's agent from delegating services.
LEMMA SpinReloadsKeeps ==
    ASSUME Inv, ~raced, NEW p \in Procs, SpinReloads(p)
    PROVE  Inv'
  <1>1. /\ agent[p].mode = "running"
        /\ Reloads(p)
        /\ overlap' = (overlap \/ cli.op = "up")
        /\ UNCHANGED <<pid_file, marker, service, httpd, httpd_pid, installed, cli,
             faults, raced, torn>>
    <2>1. agent \in [Procs -> AgentRecord] /\ agent[p].depth \in 0 .. 8
            /\ installed \in Configs
      BY DEF Inv, TypeInv, AgentRecord
    <2>2. agent[p].mode = "running"
      BY DEF SpinReloads
    <2> QED BY <2>1, <2>2, ReloadsRecord DEF SpinReloads, host, history, Fault, Counted,
        StopsDuringUp, Static, active
  <1>2. TypeInv'
    BY <1>1 DEF Inv, Reloads, TypeInv
  <1>3. AgentShape'
    BY <1>1 DEF Inv, Reloads, AgentShape, Looks, TypeInv
  <1>4. CliShape'
    BY <1>1 DEF Inv, CliShape
  <1>5. OwnsPid'
    <2>1. ~Looks(p) /\ agent'[p].half = agent[p].half
      BY <1>1 DEF Inv, AgentShape, Reloads
    <2> QED BY <1>1, <2>1 DEF Inv, Reloads, OwnsPid, Looks
  <1>6. TornIsFault'
    BY <1>1 DEF Inv, TornIsFault
  <1>7. CliAlone'
    <2>1. ~overlap' => ~overlap /\ cli.op # "up"
      BY <1>1
    <2>2. \A q \in Procs : agent'[q].depth = agent[q].depth
            /\ (agent'[q].mode = "starting" => agent[q].mode = "starting")
      BY <1>1 DEF Reloads
    <2> QED BY <1>1, <2>1, <2>2 DEF Inv, CliAlone
  <1>8. EnteredIsUp'
    BY <1>1 DEF Inv, Reloads, EnteredIsUp, TypeInv, HasEntered, HalfStopped, HalfStarted
  <1>9. MarkerIsTrue'
    BY <1>1 DEF Inv, Reloads, MarkerIsTrue, TypeInv, HalfStopped, CliHalf
  <1>10. WebIsUp'
    BY <1>1 DEF Inv, Reloads, WebIsUp
  <1>11. Restored'
    BY <1>1 DEF Inv, Reloads, Position, Restored, OwnsPid, AgentShape, HalfStopped
  <1>12. DownDone'
    BY <1>1 DEF Inv, DownDone, TypeInv, CliHalf
  <1> QED BY <1>2, <1>3, <1>4, <1>5, <1>6, <1>7, <1>8, <1>9, <1>10, <1>11, <1>12 DEF Inv

\* The marker of the agent is deleted.
LEMMA LeaveStartedKeeps ==
    ASSUME Inv, ~raced, NEW p \in Procs, LeaveStarted(p)
    PROVE  Inv'
  <1>1. /\ agent[p].mode = "stopping" /\ agent[p].depth > 0 /\ agent[p].depth = 8
        /\ marker' = [marker EXCEPT !["agent"] = NoMarker]
        /\ \/ Moves(p, "stopping", agent[p].depth - 1, "none", agent[p].exc)
                /\ faults' = faults
           \/ Moves(p, "stopping", agent[p].depth - 1, "none", "error")
                /\ faults' = faults + 1
        /\ UNCHANGED <<pid_file, service, httpd, httpd_pid, installed, cli, raced,
             overlap, torn>>
    <2>1. agent \in [Procs -> AgentRecord] /\ agent[p].depth \in 0 .. 8
            /\ installed \in Configs
      BY DEF Inv, TypeInv, AgentRecord
    <2>2. agent[p].mode = "stopping" /\ agent[p].depth > 0 /\ agent[p].depth = 8
      BY LeavingAt DEF Inv, LeaveStarted
    <2> QED BY <2>1, <2>2, LeftMoves, LeftWithMoves DEF LeaveStarted, Fault
  <1>2. TypeInv'
    BY <1>1 DEF Inv, Moves, Services, TypeInv
  <1>3. AgentShape'
    BY <1>1 DEF Inv, Moves, AgentShape, Looks, TypeInv
  <1>4. CliShape'
    BY <1>1 DEF Inv, CliShape
  <1>5. OwnsPid'
    BY <1>1 DEF Inv, Moves, OwnsPid, Looks
  <1>6. TornIsFault'
    BY <1>1 DEF Inv, TornIsFault, TypeInv
  <1>7. CliAlone'
    BY <1>1 DEF Inv, CliAlone, Moves
  <1>8. EnteredIsUp'
    BY <1>1 DEF Inv, Moves, Static, Position, EnteredIsUp, HasEntered, HalfStopped,
       HalfStarted
  <1>9. MarkerIsTrue'
    BY <1>1 DEF Inv, Position, EnteredIsUp, MarkerIsTrue, CliAlone, HasEntered,
       HalfStopped
  <1>10. WebIsUp'
    BY <1>1 DEF Inv, WebIsUp
  <1>11. Restored'
    BY <1>1 DEF Inv, Moves, Position, Restored, OwnsPid, HalfStopped
  <1>12. DownDone'
    <2>1. ~overlap /\ cli.op = "down" /\ ~cli.error => cli.i = 3 /\ cli.half # "stopped"
      BY <1>1 DEF Inv, CliAlone, CliShape, TypeInv, CliRecord
    <2> QED BY <1>1, <2>1 DEF DownDone, CliHalf, Index
  <1> QED BY <1>2, <1>3, <1>4, <1>5, <1>6, <1>7, <1>8, <1>9, <1>10, <1>11, <1>12 DEF Inv

\* Lighttpd.stop: the web server goes before the services it shows.
LEMMA LeaveWebUiKeeps ==
    ASSUME Inv, ~raced, NEW p \in Procs, LeaveWebUi(p)
    PROVE  Inv'
  <1>1. /\ agent[p].mode = "stopping" /\ agent[p].depth > 0 /\ agent[p].depth = 7
        /\ httpd' \in BOOLEAN /\ httpd_pid' \in BOOLEAN
        /\ \/ Moves(p, "stopping", agent[p].depth - 1, "none", agent[p].exc)
                /\ faults' = faults
           \/ Moves(p, "stopping", agent[p].depth - 1, "none", "error")
                /\ faults' = faults + 1
        /\ UNCHANGED <<pid_file, marker, service, installed, cli, raced, overlap, torn>>
    <2>1. agent \in [Procs -> AgentRecord] /\ agent[p].depth \in 0 .. 8
            /\ installed \in Configs
      BY DEF Inv, TypeInv, AgentRecord
    <2>2. agent[p].mode = "stopping" /\ agent[p].depth > 0 /\ agent[p].depth = 7
      BY LeavingAt DEF Inv, LeaveWebUi
    <2>3. httpd' \in BOOLEAN /\ httpd_pid' \in BOOLEAN
      BY DEF LeaveWebUi, Inv, TypeInv
    <2> QED BY <2>1, <2>2, <2>3, LeftMoves, LeftWithMoves DEF LeaveWebUi, Fault
  <1>2. TypeInv'
    BY <1>1 DEF Inv, Moves, TypeInv
  <1>3. AgentShape'
    BY <1>1 DEF Inv, Moves, AgentShape, Looks, TypeInv
  <1>4. CliShape'
    BY <1>1 DEF Inv, CliShape
  <1>5. OwnsPid'
    BY <1>1 DEF Inv, Moves, OwnsPid, Looks
  <1>6. TornIsFault'
    BY <1>1 DEF Inv, TornIsFault, TypeInv
  <1>7. CliAlone'
    BY <1>1 DEF Inv, CliAlone, Moves
  <1>8. EnteredIsUp'
    BY <1>1 DEF Inv, Moves, Position, EnteredIsUp, HasEntered, HalfStopped, HalfStarted
  <1>9. MarkerIsTrue'
    BY <1>1 DEF Inv, Position, EnteredIsUp, MarkerIsTrue, CliAlone, HasEntered,
       HalfStopped
  <1>10. WebIsUp'
    BY <1>1 DEF Inv, Moves, WebIsUp, OwnsPid, AgentRecord
  <1>11. Restored'
    BY <1>1 DEF Inv, Moves, Position, Restored, OwnsPid, HalfStopped
  <1>12. DownDone'
    <2>1. ~overlap /\ cli.op = "down" /\ ~cli.error => cli.i = 3 /\ cli.half # "stopped"
      BY <1>1 DEF Inv, CliAlone, CliShape, TypeInv, CliRecord
    <2> QED BY <1>1, <2>1 DEF DownDone, CliHalf, Index
  <1> QED BY <1>2, <1>3, <1>4, <1>5, <1>6, <1>7, <1>8, <1>9, <1>10, <1>11, <1>12 DEF Inv

\* The contexts that have only threads, on the way back.
LEMMA LeaveThreadKeeps ==
    ASSUME Inv, ~raced, NEW p \in Procs, LeaveThread(p)
    PROVE  Inv'
  <1>1. /\ agent[p].mode = "stopping" /\ agent[p].depth > 0
             /\ agent[p].depth \in {2, 4, 6}
        /\ \/ Moves(p, "stopping", agent[p].depth - 1, "none", agent[p].exc)
                /\ faults' = faults
           \/ Moves(p, "stopping", agent[p].depth - 1, "none", "error")
                /\ faults' = faults + 1
        /\ UNCHANGED <<pid_file, marker, service, httpd, httpd_pid, installed, cli,
             raced, overlap, torn>>
    <2>1. agent \in [Procs -> AgentRecord] /\ agent[p].depth \in 0 .. 8
            /\ installed \in Configs
      BY DEF Inv, TypeInv, AgentRecord
    <2>2. agent[p].mode = "stopping" /\ agent[p].depth > 0
            /\ agent[p].depth \in {2, 4, 6}
      BY LeavingAt DEF Inv, LeaveThread
    <2> QED BY <2>1, <2>2, LeftMoves, LeftWithMoves DEF LeaveThread, host, Fault
  <1>2. TypeInv'
    BY <1>1 DEF Inv, Moves, TypeInv
  <1>3. AgentShape'
    BY <1>1 DEF Inv, Moves, AgentShape, Looks, TypeInv
  <1>4. CliShape'
    BY <1>1 DEF Inv, CliShape
  <1>5. OwnsPid'
    BY <1>1 DEF Inv, Moves, OwnsPid, Looks
  <1>6. TornIsFault'
    BY <1>1 DEF Inv, TornIsFault, TypeInv
  <1>7. CliAlone'
    BY <1>1 DEF Inv, CliAlone, Moves
  <1>8. EnteredIsUp'
    BY <1>1 DEF Inv, Moves, Position, EnteredIsUp, HasEntered, HalfStopped, HalfStarted
  <1>9. MarkerIsTrue'
    BY <1>1 DEF Inv, Moves, Position, MarkerIsTrue, HalfStopped, CliHalf
  <1>10. WebIsUp'
    BY <1>1 DEF Inv, Moves, WebIsUp
  <1>11. Restored'
    BY <1>1 DEF Inv, Moves, Position, Restored, OwnsPid, HalfStopped, AssertStopped
  <1>12. DownDone'
    <2>1. ~overlap /\ cli.op = "down" /\ ~cli.error => cli.i = 3 /\ cli.half # "stopped"
      BY <1>1 DEF Inv, CliAlone, CliShape, TypeInv, CliRecord
    <2> QED BY <1>1, <2>1 DEF DownDone, CliHalf, Index
  <1> QED BY <1>2, <1>3, <1>4, <1>5, <1>6, <1>7, <1>8, <1>9, <1>10, <1>11, <1>12 DEF Inv

\* AgentService.stop: a service that was active when the agent began is left,
\* with a marker of the configuration that it has; any other one is stopped.
LEMMA LeaveStaticKeeps ==
    ASSUME Inv, ~raced, NEW p \in Procs, LeaveStatic(p), NEW s \in Static,
           s = Leaving(p)
    PROVE  Inv'
  <1>1. /\ agent[p].mode = "stopping" /\ agent[p].half = "none" /\ agent[p].depth > 0
             /\ agent[p].depth = Position(s)
        /\ \/ Delegates(p, s)
                /\ Moves(p, "stopping", agent[p].depth - 1, "none", agent[p].exc)
                /\ marker' = [marker EXCEPT ![s] = agent[p].config]
                /\ service' = service
           \/ ~Delegates(p, s)
                /\ Moves(p, "stopping", agent[p].depth, "stopped", agent[p].exc)
                /\ marker' = marker /\ service' = [service EXCEPT ![s] = Down]
        /\ UNCHANGED <<pid_file, httpd, httpd_pid, installed, cli, faults, raced,
             overlap, torn>>
    <2>1. agent \in [Procs -> AgentRecord] /\ agent[p].depth \in 0 .. 8
            /\ installed \in Configs
      BY DEF Inv, TypeInv, AgentRecord
    <2>2. agent[p].mode = "stopping" /\ agent[p].half = "none" /\ agent[p].depth > 0
            /\ agent[p].depth = Position(s)
      BY LeavingAt DEF Inv, LeaveStatic, Static, Position
    <2>3. Left(p) => Moves(p, "stopping", agent[p].depth - 1, "none", agent[p].exc)
      BY <2>1, <2>2, LeftMoves
    <2>4. At(p, "stopped") =>
            Moves(p, "stopping", agent[p].depth, "stopped", agent[p].exc)
      BY <2>1, <2>2, AtMoves
    <2> QED BY <2>2, <2>3, <2>4 DEF LeaveStatic, history
  <1>2. TypeInv'
    BY <1>1 DEF Inv, Moves, Services, TypeInv, AgentRecord
  <1>3. AgentShape'
    BY <1>1 DEF Inv, Moves, Position, AgentShape, Looks
  <1>4. CliShape'
    BY <1>1 DEF Inv, CliShape
  <1>5. OwnsPid'
    BY <1>1 DEF Inv, Moves, OwnsPid, Looks
  <1>6. TornIsFault'
    BY <1>1 DEF Inv, TornIsFault
  <1>7. CliAlone'
    BY <1>1 DEF Inv, CliAlone, Moves
  <1>8. EnteredIsUp'
    BY <1>1 DEF Inv, Moves, Position, Services, EnteredIsUp, OwnsPid, TypeInv,
       AgentRecord, HasEntered, HalfStopped, HalfStarted
  <1>9. MarkerIsTrue'
    BY <1>1 DEF Inv, Moves, Static, Position, Services, EnteredIsUp, MarkerIsTrue,
       CliAlone, TypeInv, HasEntered, HalfStopped, CliHalf
  <1>10. WebIsUp'
    BY <1>1 DEF Inv, Moves, Position, WebIsUp
  <1>11. Restored'
    BY <1>1 DEF Inv, Moves, Static, Position, Services, Restored, EnteredIsUp, OwnsPid,
       AgentShape, TypeInv, TornIsFault, HasEntered, HalfStopped, AssertStopped,
       Delegates
  <1>12. DownDone'
    <2>1. ~overlap /\ cli.op = "down" /\ ~cli.error => cli.i = 3 /\ cli.half # "stopped"
      BY <1>1 DEF Inv, CliAlone, CliShape, TypeInv, CliRecord
    <2> QED BY <1>1, <2>1 DEF DownDone, CliHalf, Index
  <1> QED BY <1>2, <1>3, <1>4, <1>5, <1>6, <1>7, <1>8, <1>9, <1>10, <1>11, <1>12 DEF Inv

\* The marker of a service that was just stopped is deleted.
LEMMA DeleteMarkerKeeps ==
    ASSUME Inv, ~raced, NEW p \in Procs, DeleteMarker(p), NEW s \in Static,
           s = Leaving(p)
    PROVE  Inv'
  <1>1. /\ agent[p].mode = "stopping" /\ agent[p].half = "stopped"
             /\ agent[p].depth > 0 /\ agent[p].depth = Position(s)
        /\ Moves(p, "stopping", agent[p].depth - 1, "none", agent[p].exc)
        /\ marker' = [marker EXCEPT ![s] = NoMarker]
        /\ UNCHANGED <<pid_file, service, httpd, httpd_pid, installed, cli, faults,
             raced, overlap, torn>>
    <2>1. agent \in [Procs -> AgentRecord] /\ agent[p].depth \in 0 .. 8
            /\ installed \in Configs
      BY DEF Inv, TypeInv, AgentRecord
    <2>2. agent[p].mode = "stopping" /\ agent[p].half = "stopped" /\ agent[p].depth > 0
            /\ agent[p].depth = Position(s)
      BY LeavingAt DEF Inv, DeleteMarker, Static, Position
    <2>3. Left(p) => Moves(p, "stopping", agent[p].depth - 1, "none", agent[p].exc)
      BY <2>1, <2>2, LeftMoves
    <2> QED BY <2>2, <2>3 DEF DeleteMarker, history
  <1>2. TypeInv'
    BY <1>1 DEF Inv, Moves, Static, Services, TypeInv
  <1>3. AgentShape'
    BY <1>1 DEF Inv, Moves, AgentShape, Looks
  <1>4. CliShape'
    BY <1>1 DEF Inv, CliShape
  <1>5. OwnsPid'
    BY <1>1 DEF Inv, Moves, OwnsPid, Looks
  <1>6. TornIsFault'
    BY <1>1 DEF Inv, TornIsFault
  <1>7. CliAlone'
    BY <1>1 DEF Inv, CliAlone, Moves
  <1>8. EnteredIsUp'
    BY <1>1 DEF Inv, Moves, Position, EnteredIsUp, OwnsPid, AgentRecord, HasEntered,
       HalfStopped, HalfStarted
  <1>9. MarkerIsTrue'
    BY <1>1 DEF Inv, Moves, Static, Position, Services, MarkerIsTrue, TypeInv,
       HalfStopped, HalfStarted, CliHalf
  <1>10. WebIsUp'
    BY <1>1 DEF Inv, Moves, Position, WebIsUp
  <1>11. Restored'
    BY <1>1 DEF Inv, Moves, Static, Position, Services, Restored, OwnsPid, TypeInv,
       HalfStopped, AssertStopped
  <1>12. DownDone'
    <2>1. ~overlap /\ cli.op = "down" /\ ~cli.error => cli.i = 3 /\ cli.half # "stopped"
      BY <1>1 DEF Inv, CliAlone, CliShape, TypeInv, CliRecord
    <2> QED BY <1>1, <2>1 DEF DownDone, CliHalf, Index
  <1> QED BY <1>2, <1>3, <1>4, <1>5, <1>6, <1>7, <1>8, <1>9, <1>10, <1>11, <1>12 DEF Inv

\* A stop that fails is a fault, and ends what Restored promises.
LEMMA LeaveStaticFailsKeeps ==
    ASSUME Inv, ~raced, NEW p \in Procs, LeaveStaticFails(p), NEW s \in Static,
           s = Leaving(p)
    PROVE  Inv'
  <1>1. /\ agent[p].mode = "stopping" /\ agent[p].half = "none" /\ agent[p].depth > 0
             /\ agent[p].depth = Position(s)
        /\ faults' = faults + 1
        /\ Moves(p, "stopping", agent[p].depth - 1, "none", agent[p].exc)
             \/ Moves(p, "stopping", agent[p].depth - 1, "none", "error")
        /\ marker' = [marker EXCEPT ![s] = NoMarker]
        /\ service' = [service EXCEPT ![s] = Partial]
        /\ UNCHANGED <<pid_file, httpd, httpd_pid, installed, cli, raced, overlap,
             torn>>
    <2>1. agent \in [Procs -> AgentRecord] /\ agent[p].depth \in 0 .. 8
            /\ installed \in Configs
      BY DEF Inv, TypeInv, AgentRecord
    <2>2. agent[p].mode = "stopping" /\ agent[p].half = "none" /\ agent[p].depth > 0
            /\ agent[p].depth = Position(s)
      BY LeavingAt DEF Inv, LeaveStaticFails, Static, Position
    <2>3. Left(p) => Moves(p, "stopping", agent[p].depth - 1, "none", agent[p].exc)
      BY <2>1, <2>2, LeftMoves
    <2>4. LeftWith(p, "error") =>
            Moves(p, "stopping", agent[p].depth - 1, "none", "error")
      BY <2>1, <2>2, LeftWithMoves
    <2> QED BY <2>2, <2>3, <2>4 DEF LeaveStaticFails, Fault
  <1>2. TypeInv'
    BY <1>1 DEF Inv, Moves, Static, Services, TypeInv
  <1>3. AgentShape'
    BY <1>1 DEF Inv, Moves, AgentShape, Looks, TypeInv
  <1>4. CliShape'
    BY <1>1 DEF Inv, CliShape
  <1>5. OwnsPid'
    BY <1>1 DEF Inv, Moves, OwnsPid, Looks
  <1>6. TornIsFault'
    BY <1>1 DEF Inv, TornIsFault, TypeInv
  <1>7. CliAlone'
    BY <1>1 DEF Inv, CliAlone, Moves
  <1>8. EnteredIsUp'
    BY <1>1 DEF Inv, Moves, Position, EnteredIsUp, OwnsPid, AgentRecord, HasEntered,
       HalfStopped, HalfStarted
  <1>9. MarkerIsTrue'
    BY <1>1 DEF Inv, Moves, Static, Services, MarkerIsTrue, CliAlone, TypeInv,
       HalfStopped, CliHalf
  <1>10. WebIsUp'
    BY <1>1 DEF Inv, Moves, Position, WebIsUp
  <1>11. Restored'
    BY <1>1 DEF Inv, Restored, TypeInv
  <1>12. DownDone'
    <2>1. ~overlap /\ cli.op = "down" /\ ~cli.error => cli.i = 3 /\ cli.half # "stopped"
      BY <1>1 DEF Inv, CliAlone, CliShape, TypeInv, CliRecord
    <2> QED BY <1>1, <2>1 DEF DownDone, CliHalf, Index
  <1> QED BY <1>2, <1>3, <1>4, <1>5, <1>6, <1>7, <1>8, <1>9, <1>10, <1>11, <1>12 DEF Inv

\* The agent that is the last to leave owns the PID file it deletes.
LEMMA DeletePidKeeps ==
    ASSUME Inv, ~raced, NEW p \in Procs, DeletePid(p)
    PROVE  Inv'
  <1>1. /\ agent[p].mode = "stopping" /\ agent[p].depth > 0 /\ agent[p].depth = 1
        /\ Moves(p, "stopping", agent[p].depth - 1, "none", agent[p].exc)
        /\ pid_file' = NoPid
        /\ UNCHANGED <<marker, service, httpd, httpd_pid, installed, cli, faults, raced,
             overlap, torn>>
    <2>1. agent \in [Procs -> AgentRecord] /\ agent[p].depth \in 0 .. 8
            /\ installed \in Configs
      BY DEF Inv, TypeInv, AgentRecord
    <2>2. agent[p].mode = "stopping" /\ agent[p].depth > 0 /\ agent[p].depth = 1
      BY LeavingAt DEF Inv, DeletePid
    <2> QED BY <2>1, <2>2, LeftMoves DEF DeletePid, history
  <1>2. TypeInv'
    BY <1>1 DEF Inv, Moves, TypeInv
  <1>3. AgentShape'
    BY <1>1 DEF Inv, Moves, AgentShape, Looks
  <1>4. CliShape'
    BY <1>1 DEF Inv, CliShape
  <1>5. OwnsPid'
    BY <1>1 DEF Inv, Moves, OwnsPid, Looks
  <1>6. TornIsFault'
    BY <1>1 DEF Inv, TornIsFault
  <1>7. CliAlone'
    BY <1>1 DEF Inv, CliAlone, Moves
  <1>8. EnteredIsUp'
    BY <1>1 DEF Inv, Moves, Position, EnteredIsUp, OwnsPid, AgentRecord, HasEntered,
       HalfStarted
  <1>9. MarkerIsTrue'
    BY <1>1 DEF Inv, Moves, Position, MarkerIsTrue, HalfStopped, CliHalf
  <1>10. WebIsUp'
    BY <1>1 DEF Inv, Moves, WebIsUp
  <1>11. Restored'
    BY <1>1 DEF Inv, Moves, Restored, OwnsPid
  <1>12. DownDone'
    <2>1. ~overlap /\ cli.op = "down" /\ ~cli.error => cli.i = 3 /\ cli.half # "stopped"
      BY <1>1 DEF Inv, CliAlone, CliShape, TypeInv, CliRecord
    <2> QED BY <1>1, <2>1 DEF DownDone, CliHalf, Index
  <1> QED BY <1>2, <1>3, <1>4, <1>5, <1>6, <1>7, <1>8, <1>9, <1>10, <1>11, <1>12 DEF Inv

\* What an interrupt leaves of a context that is being left.
LEMMA InterruptedLeaves ==
    ASSUME Inv, NEW p \in Procs, agent[p].mode = "stopping", Interrupted(p)
    PROVE  /\ Moves(p, "stopping", IF agent[p].depth = 0 THEN 0 ELSE agent[p].depth - 1,
                    "none", "interrupt")
           /\ pid_file' = pid_file \/ (pid_file' = NoPid /\ agent[p].depth = 1)
           /\ UNCHANGED <<httpd, httpd_pid>> \/ agent[p].depth = 7
           /\ httpd' \in BOOLEAN /\ httpd_pid' \in BOOLEAN
           /\ torn' = (torn \/ agent[p].half = "stopped")
           /\ marker' \in [Services -> Configs \cup {NoMarker}]
           /\ service' \in [Static -> Configs \cup {Down, Partial}]
           /\ marker'["agent"] \in {marker["agent"], NoMarker}
           /\ \A s \in Static :
               \/ marker'[s] = marker[s] /\ service'[s] = service[s]
               \/ agent[p].depth = Position(s) /\ marker'[s] = NoMarker
               \/ /\ agent[p].depth = Position(s) /\ marker'[s] = agent[p].config
                  /\ service'[s] = service[s]
  <1>1. Moves(p, "stopping", IF agent[p].depth = 0 THEN 0 ELSE agent[p].depth - 1,
              "none", "interrupt")
    BY InterruptedMoves DEF Inv, TypeInv
  <1>2. /\ pid_file' = pid_file \/ (pid_file' = NoPid /\ Leaving(p) = "pid")
        /\ UNCHANGED <<httpd, httpd_pid>> \/ Leaving(p) = "webui"
        /\ httpd' \in BOOLEAN /\ httpd_pid' \in BOOLEAN
        /\ torn' = (torn \/ agent[p].half = "stopped")
    BY DEF Interrupted, Inv, TypeInv
  <1>3. /\ Leaving(p) = "pid" => agent[p].depth = 1
        /\ Leaving(p) = "webui" => agent[p].depth = 7
        /\ \A s \in Static : Leaving(p) = s => agent[p].depth = Position(s)
    BY LeavingAt DEF Inv, Static, Position
  <1> DEFINE IsLeft(m, v) ==
        /\ m \in [Services -> Configs \cup {NoMarker}]
        /\ v \in [Static -> Configs \cup {Down, Partial}]
        /\ m["agent"] \in {marker["agent"], NoMarker}
        /\ \A s \in Static :
            \/ m[s] = marker[s] /\ v[s] = service[s]
            \/ agent[p].depth = Position(s) /\ m[s] = NoMarker
            \/ agent[p].depth = Position(s) /\ m[s] = agent[p].config /\ v[s] = service[s]
  <1>4. IsLeft(marker', service')
    <2>1. CASE UNCHANGED <<marker, service>>
      BY <2>1 DEF Inv, TypeInv
    <2>2. CASE marker' = [marker EXCEPT !["agent"] = NoMarker] /\ service' = service
      BY <2>2 DEF Inv, TypeInv, Services, Static
    <2>3. CASE /\ Leaving(p) \in Static
               /\ marker' = [marker EXCEPT ![Leaving(p)] = NoMarker]
               /\ service' \in {service, [service EXCEPT ![Leaving(p)] = Partial]}
      BY <1>3, <2>3 DEF Inv, TypeInv, Services, Static
    <2>4. CASE /\ Leaving(p) \in Static
               /\ marker' = [marker EXCEPT ![Leaving(p)] = agent[p].config]
               /\ service' = service
      <3>1. agent[p].config \in Configs
        BY DEF Inv, AgentShape
      <3> QED BY <1>3, <2>4, <3>1 DEF Inv, TypeInv, Services, Static
    <2>5. \A s \in Static : [service EXCEPT ![s] = service[s]] = service
      BY DEF Inv, TypeInv
    <2> QED BY <2>1, <2>2, <2>3, <2>4, <2>5 DEF Interrupted
  <1> QED BY <1>1, <1>2, <1>3, <1>4

\* Whatever an interrupt leaves of a stop, a service that is up keeps its marker,
\* and a marker that lies is torn.
LEMMA InterruptStopKeeps ==
    ASSUME Inv, ~raced, NEW p \in Procs, InterruptStop(p)
    PROVE  Inv'
  <1>1. /\ agent[p].mode = "stopping" /\ Interrupted(p) /\ faults' = faults + 1
        /\ UNCHANGED <<installed, cli, raced, overlap>>
    BY DEF InterruptStop, Fault
  <1> DEFINE d == IF agent[p].depth = 0 THEN 0 ELSE agent[p].depth - 1
  <1>2. /\ Moves(p, "stopping", d, "none", "interrupt")
        /\ pid_file' = pid_file \/ (pid_file' = NoPid /\ agent[p].depth = 1)
        /\ UNCHANGED <<httpd, httpd_pid>> \/ agent[p].depth = 7
        /\ httpd' \in BOOLEAN /\ httpd_pid' \in BOOLEAN
        /\ torn' = (torn \/ agent[p].half = "stopped")
        /\ marker' \in [Services -> Configs \cup {NoMarker}]
        /\ service' \in [Static -> Configs \cup {Down, Partial}]
        /\ marker'["agent"] \in {marker["agent"], NoMarker}
    BY <1>1, InterruptedLeaves
  <1>3. \A s \in Static :
          \/ marker'[s] = marker[s] /\ service'[s] = service[s]
          \/ agent[p].depth = Position(s) /\ marker'[s] = NoMarker
          \/ /\ agent[p].depth = Position(s) /\ marker'[s] = agent[p].config
             /\ service'[s] = service[s]
    BY <1>1, InterruptedLeaves
  <1>4. \A q \in Procs : q # p => agent'[q] = agent[q]
    BY <1>2 DEF Moves
  <1>5. agent[p].depth \in 0 .. 8 /\ \A q \in Procs : agent[q].depth \in Nat
    BY DEF Inv, TypeInv, AgentRecord
  <1>6. \A q \in Procs : agent[q].depth > 0 => q = p \/ agent[p].depth = 0
    BY <1>5 DEF Inv, OwnsPid
  <1>7. /\ agent'[p].depth = d /\ agent'[p].half = "none"
        /\ agent'[p].config = agent[p].config
    BY <1>2 DEF Moves
  <1>8. TypeInv'
    BY <1>1, <1>2 DEF Inv, Moves, TypeInv
  <1>9. AgentShape'
    BY <1>1, <1>2, <1>5 DEF Inv, Moves, AgentShape, Looks, TypeInv
  <1>10. CliShape'
    BY <1>1 DEF Inv, CliShape
  <1>11. OwnsPid'
    BY <1>1, <1>2, <1>5, <1>6 DEF Inv, Moves, OwnsPid, Looks
  <1>12. TornIsFault'
    BY <1>1 DEF Inv, TypeInv, TornIsFault
  <1>13. CliAlone'
    <2>1. \A q \in Procs : agent'[q].depth > 0 => agent[q].depth > 0
      BY <1>4, <1>5, <1>7
    <2>2. \A q \in Procs : /\ agent[q].depth = 0 => agent'[q].depth = 0
                           /\ agent'[q].mode = agent[q].mode
      BY <1>1, <1>2, <1>4, <1>7 DEF Moves
    <2> QED BY <1>1, <1>2, <2>1, <2>2 DEF Inv, CliAlone
  <1>14. EnteredIsUp'
    <2> SUFFICES ASSUME ~overlap, ~torn', NEW q \in Procs, NEW s \in Static, Runnable(s)
                 PROVE  /\ HasEntered(q, s)' =>
                             /\ marker'[s] = agent'[q].config
                             /\ HalfStopped(q, s)' \/ service'[s] = agent'[q].config
                        /\ HalfStarted(q, s)' => service'[s] = agent'[q].config
      BY <1>1 DEF EnteredIsUp
    <2>1. ~torn /\ agent[p].half # "stopped"
      BY <1>2
    <2>2. /\ HasEntered(q, s) => /\ marker[s] = agent[q].config
                                 /\ HalfStopped(q, s) \/ service[s] = agent[q].config
          /\ HalfStarted(q, s) => service[s] = agent[q].config
      BY <1>1, <2>1 DEF Inv, EnteredIsUp
    <2>3. CASE q = p
      BY <1>3, <1>5, <1>7, <2>1, <2>2, <2>3 DEF HasEntered, HalfStopped, HalfStarted,
         Position
    <2>4. CASE q # p
      BY <1>3, <1>4, <1>5, <1>6, <2>2, <2>4 DEF HasEntered, HalfStopped, HalfStarted,
         Position
    <2> QED BY <2>3, <2>4
  <1>15. MarkerIsTrue'
    <2> SUFFICES ASSUME ~overlap, ~torn', NEW s \in Static, Runnable(s)
                 PROVE  /\ marker'[s] # NoMarker => \/ service'[s] = marker'[s]
                                                   \/ \E q \in Procs : HalfStopped(q, s)'
                                                   \/ CliHalf(s, "stopped")
                        /\ cli.op = "up" /\ CliHalf(s, "unmarked") =>
                             service'[s] = cli.config
      BY <1>1 DEF MarkerIsTrue, CliHalf
    <2>1. ~torn /\ agent[p].half # "stopped"
      BY <1>2
    <2>2. /\ marker[s] # NoMarker => \/ service[s] = marker[s]
                                     \/ \E q \in Procs : HalfStopped(q, s)
                                     \/ CliHalf(s, "stopped")
          /\ cli.op = "up" /\ CliHalf(s, "unmarked") => service[s] = cli.config
      BY <1>1, <2>1 DEF Inv, MarkerIsTrue
    <2>3. \A q \in Procs : HalfStopped(q, s) => HalfStopped(q, s)'
      BY <1>4, <2>1 DEF HalfStopped
    <2>4. agent[p].depth = Position(s) => service[s] = agent[p].config
      BY <1>1, <2>1 DEF Inv, EnteredIsUp, HasEntered, HalfStopped, Position
    <2>5. cli.op # "up"
      BY <1>1 DEF Inv, CliAlone
    <2> QED BY <1>3, <2>2, <2>3, <2>4, <2>5
  <1>16. WebIsUp'
    BY <1>1, <1>2, <1>4, <1>5, <1>6, <1>7 DEF Inv, WebIsUp
  <1>17. Restored'
    BY <1>1 DEF Restored, Inv, TypeInv
  <1>18. DownDone'
    <2>1. ~overlap /\ cli.op = "down" /\ ~cli.error /\ cli.i < 3 => agent[p].depth = 0
      BY <1>1 DEF Inv, CliAlone
    <2>2. CliHalf("net", "stopped") \/ CliHalf("router", "stopped") => cli.i < 3
      BY DEF CliHalf, Index
    <2> QED BY <1>1, <1>2, <1>3, <2>1, <2>2 DEF Inv, DownDone, Position, Index, Static,
        CliHalf, TypeInv, CliRecord
  <1> QED BY <1>8, <1>9, <1>10, <1>11, <1>12, <1>13, <1>14, <1>15, <1>16, <1>17, <1>18
      DEF Inv

\* The process ends, or, after AgentReload, begins once more with the services
\* that it had found.
LEMMA EndKeeps ==
    ASSUME Inv, ~raced, NEW p \in Procs, End(p)
    PROVE  Inv'
  <1>1. /\ agent[p].mode = "stopping" /\ agent[p].depth = 0
        /\ \/ Begins(p, installed', agent[p].initial)
                /\ overlap' = (overlap \/ cli # Idle) /\ faults' = faults
           \/ Ends(p) /\ overlap' = overlap /\ installed' = installed
                /\ faults' \in {faults, faults + 1}
        /\ installed' \in Configs /\ overlap' \in BOOLEAN
        /\ UNCHANGED <<pid_file, marker, service, httpd, httpd_pid, cli, raced, torn>>
    <2>1. agent \in [Procs -> AgentRecord] /\ agent[p].depth \in 0 .. 8
            /\ installed \in Configs
      BY DEF Inv, TypeInv, AgentRecord
    <2>2. agent[p].mode = "stopping" /\ agent[p].depth = 0
      BY DEF End
    <2>3. CASE agent[p].exc = "reload"
                 /\ agent' = [agent EXCEPT ![p] = Reloaded(p, installed')]
               /\ installed' \in (IF IsCell THEN Configs \ {agent[p].config}
                    ELSE {installed})
               /\ overlap' = (overlap \/ cli # Idle) /\ faults' = faults
      <3>1. installed' \in Configs
        BY <2>1, <2>3
      <3>2. Begins(p, installed', agent[p].initial)
        BY <2>1, <2>3, <3>1, ReloadedBegins DEF Inv
      <3> QED BY <2>3, <3>1, <3>2 DEF End
    <2>4. CASE agent' = [agent EXCEPT ![p] = Off] /\ UNCHANGED <<installed, overlap>>
               /\ (IF agent[p].exc = "reload" THEN Fault ELSE UNCHANGED faults)
      BY <2>1, <2>2, <2>4, OffEnds DEF End, Fault, Inv, TypeInv
    <2> QED BY <2>3, <2>4 DEF End
  <1>2. TypeInv'
    <2>1. agent' \in [Procs -> AgentRecord]
      BY <1>1 DEF Begins, Ends
    <2> QED BY <1>1, <2>1 DEF Inv, TypeInv
  <1>3. AgentShape'
    <2>1. CASE Begins(p, installed', agent[p].initial) /\ faults' = faults
      BY <1>1, <2>1 DEF Inv, AgentShape, Looks, Begins
    <2>2. CASE Ends(p) /\ overlap' = overlap /\ faults' \in {faults, faults + 1}
      <3>1. faults' = 0 => faults = 0
        BY <2>2 DEF Inv, TypeInv
      <3> QED BY <2>2, <3>1 DEF Inv, AgentShape, Looks, Ends
    <2> QED BY <1>1, <2>1, <2>2
  <1>4. CliShape'
    BY <1>1 DEF Inv, CliShape
  <1>5. OwnsPid'
    BY <1>1 DEF Inv, Begins, Ends, OwnsPid, Looks
  <1>6. TornIsFault'
    BY <1>1 DEF Inv, TornIsFault, TypeInv
  <1>7. CliAlone'
    <2>2. CASE Begins(p, installed', agent[p].initial)
                 /\ overlap' = (overlap \/ cli # Idle)
      <3>1. ~overlap' => cli = Idle
        BY <2>2
      <3> QED BY <1>1, <3>1 DEF CliAlone, Idle
    <2>3. CASE Ends(p)
      <3>1. \A q \in Procs : agent'[q].depth = agent[q].depth
              /\ agent'[q].mode \in {"off", agent[q].mode}
        BY <1>1, <2>3 DEF Ends
      <3> QED BY <1>1, <3>1 DEF Inv, CliAlone
    <2> QED BY <1>1, <2>2, <2>3
  <1>8. EnteredIsUp'
    BY <1>1 DEF Inv, Begins, Ends, Position, EnteredIsUp, HasEntered, HalfStopped,
       HalfStarted
  <1>9. MarkerIsTrue'
    BY <1>1 DEF Inv, Begins, Ends, Position, MarkerIsTrue, HalfStopped, CliHalf
  <1>10. WebIsUp'
    BY <1>1 DEF Inv, Begins, Ends, WebIsUp
  <1>11. Restored'
    BY <1>1 DEF Inv, Begins, Ends, Restored, TypeInv, HalfStopped, AssertStopped
  <1>12. DownDone'
    BY <1>1 DEF Inv, DownDone, CliHalf
  <1> QED BY <1>2, <1>3, <1>4, <1>5, <1>6, <1>7, <1>8, <1>9, <1>10, <1>11, <1>12 DEF Inv

\* A process that is killed leaves its half done step; a marker that lies is
\* torn.
LEMMA CrashKeeps ==
    ASSUME Inv, ~raced, NEW p \in Procs, Crash(p)
    PROVE  Inv'
  <1>1. /\ agent[p].mode # "off"
        /\ Ends(p)
        /\ faults' = faults + 1
        /\ torn' = (torn \/ agent[p].half = "stopped")
        /\ UNCHANGED <<pid_file, marker, service, httpd, httpd_pid, installed, cli,
             raced, overlap>>
    <2>1. agent \in [Procs -> AgentRecord] /\ agent[p].depth \in 0 .. 8
            /\ installed \in Configs
      BY DEF Inv, TypeInv, AgentRecord
    <2>2. agent[p].mode # "off"
      BY DEF Crash, Alive
    <2> QED BY <2>1, <2>2, OffEnds DEF Crash, host, history, Fault, Counted,
        StopsDuringUp, Static, active
  <1>2. TypeInv'
    BY <1>1 DEF Inv, Ends, TypeInv
  <1>3. AgentShape'
    <2>3. faults' # 0
      BY <1>1 DEF Inv, TypeInv
    <2> QED BY <1>1, <2>3 DEF Inv, AgentShape, Looks, Ends
  <1>4. CliShape'
    BY <1>1 DEF Inv, CliShape
  <1>5. OwnsPid'
    BY <1>1 DEF Inv, Ends, OwnsPid, Looks
  <1>6. TornIsFault'
    BY <1>1 DEF Inv, TornIsFault, TypeInv
  <1>7. CliAlone'
    <2>1. (~torn' => ~torn) /\ (torn => torn')
      BY <1>1
    <2>2. \A q \in Procs : agent'[q].depth \in {0, agent[q].depth}
            /\ agent'[q].mode \in {"off", agent[q].mode}
      BY <1>1 DEF Ends
    <2> QED BY <1>1, <2>1, <2>2 DEF Inv, CliAlone
  <1>8. EnteredIsUp'
    BY <1>1 DEF Inv, Ends, Position, EnteredIsUp, TypeInv, HasEntered, HalfStopped,
       HalfStarted
  <1>9. MarkerIsTrue'
    <2>1. ~torn' => ~torn /\ agent[p].half # "stopped"
      BY <1>1
    <2>2. ~torn' => \A q \in Procs, s \in Static : HalfStopped(q, s) =>
            HalfStopped(q, s)'
      BY <1>1, <2>1 DEF HalfStopped, Ends
    <2> QED BY <1>1, <2>1, <2>2 DEF Inv, MarkerIsTrue, CliHalf
  <1>10. WebIsUp'
    BY <1>1 DEF Inv, Ends, WebIsUp
  <1>11. Restored'
    BY <1>1 DEF Inv, Restored, TypeInv
  <1>12. DownDone'
    BY <1>1 DEF Inv, DownDone, CliHalf
  <1> QED BY <1>2, <1>3, <1>4, <1>5, <1>6, <1>7, <1>8, <1>9, <1>10, <1>11, <1>12 DEF Inv

-----------------------------------------------------------------------------
(* The steps of the command `uno service`.                                 *)

\* `uno service up` begins with the first service. Beside an agent that starts
\* or stops, the two overlap.
LEMMA ServiceUpKeeps ==
    ASSUME Inv, ~raced, ServiceUp
    PROVE  Inv'
  <1>1. /\ cli = Idle
        /\ \E t \in 1 .. 3 : CliMoves("up", 1, t, "none", installed, FALSE, FALSE)
        /\ overlap' \in BOOLEAN
             /\ (~overlap' =>
             ~overlap /\ \A p \in Procs : agent[p].mode \notin {"starting", "stopping"})
        /\ UNCHANGED <<pid_file, marker, service, httpd, httpd_pid, installed, agent,
             faults, raced, torn>>
    <2>1. cli \in CliRecord /\ agent \in [Procs -> AgentRecord] /\ installed \in Configs
      BY DEF Inv, TypeInv
    <2>3. cli = Idle
      BY DEF ServiceUp
    <2>4. PICK t \in DOMAIN StaticServices :
            cli' = [Idle EXCEPT !.op = "up", !.i = 1, !.to = t, !.config = installed]
      BY DEF ServiceUp, StaticServices
    <2>5. t \in 1 .. 3
      BY DEF StaticServices
    <2>6. CliMoves("up", 1, t, "none", installed, FALSE, FALSE)
      <3>1. cli' = [op |-> "up", i |-> 1, to |-> t, half |-> "none", seen |-> NoPid,
                    config |-> installed, waits |-> FALSE, error |-> FALSE,
                    logged |-> FALSE]
        BY <2>4 DEF Idle
      <3>2. 1 \in 0 .. 3 /\ t \in 0 .. 3
        BY <2>5
      <3> QED BY <2>1, <3>1, <3>2 DEF CliMoves, CliRecord
    <2>7. overlap' \in BOOLEAN
            /\ (~overlap' =>
            ~overlap /\ \A p \in Procs : agent[p].mode \notin {"starting", "stopping"})
      BY DEF ServiceUp, AgentsBusy, Inv, TypeInv
    <2> QED BY <2>3, <2>5, <2>6, <2>7 DEF ServiceUp, host, Counted
  <1>2. TypeInv'
    BY <1>1 DEF Inv, CliMoves, TypeInv
  <1>3. AgentShape'
    BY <1>1 DEF Inv, AgentShape, Looks
  <1>4. CliShape'
    <2>1. PICK t \in 1 .. 3 : CliMoves("up", 1, t, "none", installed, FALSE, FALSE)
      BY <1>1
    <2> QED BY <2>1 DEF Inv, TypeInv, CliShape, CliMoves, AtPid
  <1>5. OwnsPid'
    BY <1>1 DEF Inv, CliMoves, Idle, OwnsPid, Looks
  <1>6. TornIsFault'
    BY <1>1 DEF Inv, TornIsFault
  <1>7. CliAlone'
    BY <1>1 DEF CliMoves, CliAlone
  <1>8. EnteredIsUp'
    BY <1>1 DEF Inv, EnteredIsUp, HasEntered, HalfStopped, HalfStarted
  <1>9. MarkerIsTrue'
    BY <1>1 DEF Inv, CliMoves, Idle, MarkerIsTrue, HalfStopped, CliHalf
  <1>10. WebIsUp'
    BY <1>1 DEF Inv, WebIsUp
  <1>11. Restored'
    BY <1>1 DEF Restored
  <1>12. DownDone'
    BY <1>1 DEF CliMoves, DownDone
  <1> QED BY <1>2, <1>3, <1>4, <1>5, <1>6, <1>7, <1>8, <1>9, <1>10, <1>11, <1>12 DEF Inv

\* start_static: as EnterStatic, for the command. A failure rolls back.
LEMMA UpStaticKeeps ==
    ASSUME Inv, ~raced, UpStatic, NEW s \in Static, s = StaticServices[cli.i]
    PROVE  Inv'
  <1>1. cli.op = "up" /\ cli.half = "none" /\ cli.i = Index(s) /\ cli.i <= cli.to
    BY DEF Inv, TypeInv, CliShape, CliRecord, UpStatic, StaticServices, Static, Index
  <1>2. /\ \/ /\ \/ cli' = Idle
                 \/ CliMoves("up", cli.i + 1, cli.to, "none", cli.config, cli.error,
                             cli.logged) /\ cli.i < cli.to
              /\ UNCHANGED <<service, faults, torn>>
           \/ /\ marker[s] = NoMarker /\ Runnable(s)
              /\ CliMoves("up", cli.i, cli.to, "unmarked", cli.config, cli.error,
                          cli.logged)
              /\ service' = [service EXCEPT ![s] = cli.config]
              /\ UNCHANGED <<faults, torn>>
           \/ /\ marker[s] = NoMarker /\ Runnable(s)
              /\ service' = [service EXCEPT ![s] = Partial]
              /\ faults' \in {faults, faults + 1}
              /\ torn' = (torn \/ \E p \in Procs : agent[p].depth > 0)
              /\ \/ cli' = Idle
                 \/ /\ cli.i = 2
                    /\ CliMoves("rollback", cli.i - 1, 1, "none", NoMarker, FALSE, FALSE)
        /\ UNCHANGED <<pid_file, marker, httpd, httpd_pid, installed, agent, raced,
             overlap>>
    <2>1. cli \in CliRecord
      BY DEF Inv, TypeInv
    <2>2. CASE CliNext /\ UNCHANGED <<service, faults, torn>>
      <3>1. \/ cli' = Idle
            \/ CliMoves("up", cli.i + 1, cli.to, "none", cli.config, cli.error,
                        cli.logged) /\ cli.i < cli.to
        BY <1>1, <2>1, <2>2, CliForward
      <3> QED BY <2>2, <3>1 DEF UpStatic
    <2>3. CASE /\ marker[s] = NoMarker /\ Runnable(s)
               /\ service' = [service EXCEPT ![s] = cli.config]
               /\ cli' = [cli EXCEPT !.half = "unmarked"]
               /\ UNCHANGED <<faults, torn>>
      <3>1. CliMoves("up", cli.i, cli.to, "unmarked", cli.config, cli.error, cli.logged)
        BY <1>1, <2>1, <2>3, CliHalves
      <3> QED BY <2>3, <3>1 DEF UpStatic
    <2>4. CASE /\ marker[s] = NoMarker /\ Runnable(s)
               /\ service' = [service EXCEPT ![s] = Partial]
               /\ (IF CanStart(s) THEN Fault ELSE UNCHANGED faults)
               /\ RollBack
      <3>1. \/ cli' = Idle
            \/ /\ cli.i = 2
               /\ CliMoves("rollback", cli.i - 1, 1, "none", NoMarker, FALSE, FALSE)
        <4>1. cli.i \in {1, 2}
          BY <1>1 DEF Index
        <4>2. cli.i > 0 /\ cli.i # 3
          BY <4>1
        <4> QED BY <2>1, <2>4, <4>1, <4>2, CliRollsBack
      <3> QED BY <2>4, <3>1 DEF UpStatic, Fault, RollBack
    <2> QED BY <2>2, <2>3, <2>4 DEF UpStatic, active
  <1>3. ~overlap => \A p \in Procs : agent[p].mode \notin {"starting", "stopping"}
    BY <1>1 DEF Inv, CliAlone, Idle
  <1>4. ~overlap /\ ~torn /\ marker[s] = NoMarker /\ Runnable(s) =>
          \A p \in Procs : agent[p].depth = 0
    <2> SUFFICES ASSUME ~overlap, ~torn, marker[s] = NoMarker, Runnable(s),
                        NEW p \in Procs, agent[p].depth # 0
                 PROVE  FALSE
      OBVIOUS
    <2>1. agent[p].mode = "running" /\ agent[p].depth = 8 /\ agent[p].config \in Configs
      BY <1>3 DEF Inv, AgentShape, TypeInv, AgentRecord
    <2>2. marker[s] = agent[p].config
      BY <2>1 DEF Inv, EnteredIsUp, HasEntered, Position
    <2> QED BY <2>1, <2>2, NamesAssumption
  <1>5. faults' \in Nat /\ faults <= faults' /\ (faults > 0 => faults' > 0)
    <2>1. faults \in Nat /\ faults' \in {faults, faults + 1}
      BY <1>2 DEF Inv, TypeInv
    <2> QED BY <2>1
  <1>6. torn' \in BOOLEAN /\ (torn => torn') /\ (torn' => torn \/ overlap)
    <2>1. CASE torn' = torn
      BY <2>1 DEF Inv, TypeInv
    <2>2. CASE /\ marker[s] = NoMarker /\ Runnable(s)
               /\ torn' = (torn \/ \E p \in Procs : agent[p].depth > 0)
      <3>1. ~overlap /\ ~torn => ~\E p \in Procs : agent[p].depth > 0
        BY <1>4, <2>2
      <3> QED BY <2>2, <3>1
    <2> QED BY <1>2, <2>1, <2>2
  <1>7. TypeInv'
    <2>1. cli.config \in Configs
      BY <1>1 DEF Inv, CliShape
    <2>2. cli' \in CliRecord
      BY <1>2, IdleRecord DEF CliMoves
    <2>3. service' \in [Static -> Configs \cup {Down, Partial}]
      BY <1>2, <2>1 DEF Inv, TypeInv
    <2> QED BY <1>2, <1>5, <1>6, <2>2, <2>3 DEF Inv, TypeInv
  <1>8. AgentShape'
    <2>1. faults' = 0 => faults = 0
      BY <1>5 DEF Inv, TypeInv
    <2> QED BY <1>2, <2>1 DEF Inv, AgentShape, Looks
  <1>9. CliShape'
    <2>1. CASE cli' = Idle
      BY <2>1 DEF CliShape, Idle
    <2>2. CASE CliMoves("up", cli.i + 1, cli.to, "none", cli.config, cli.error,
                        cli.logged) /\ cli.i < cli.to
      <3>1. cli.i \in 0 .. 3 /\ cli.to \in 0 .. 3
        BY DEF Inv, TypeInv, CliRecord
      <3>2. 1 <= cli.i + 1 /\ cli.i + 1 <= cli.to
        BY <2>2, <3>1
      <3> QED BY <1>1, <2>2, <3>2 DEF Inv, CliMoves, CliShape, AtPid
    <2>3. CASE CliMoves("up", cli.i, cli.to, "unmarked", cli.config, cli.error,
                        cli.logged)
      BY <1>1, <2>3 DEF Inv, Index, CliMoves, CliShape, AtPid
    <2>4. CASE CliMoves("rollback", cli.i - 1, 1, "none", NoMarker, FALSE, FALSE)
               /\ cli.i = 2
      BY <2>4 DEF CliMoves, CliShape
    <2> QED BY <1>2, <2>1, <2>2, <2>3, <2>4
  <1>10. OwnsPid'
    <2>1. cli'.half \notin {"seen", "stale"}
      BY <1>2 DEF CliMoves, Idle
    <2> QED BY <1>2, <2>1 DEF Inv, OwnsPid, Looks
  <1>11. TornIsFault'
    BY <1>2, <1>5, <1>6 DEF Inv, TornIsFault
  <1>12. CliAlone'
    <2>1. \/ cli'.op \in {"up", "none"} /\ cli'.half = "none"
          \/ marker[s] = NoMarker /\ Runnable(s) /\ cli'.op = "up"
          \/ marker[s] = NoMarker /\ Runnable(s) /\ cli'.op = "rollback"
      BY <1>2 DEF CliMoves, Idle
    <2>2. ~overlap /\ ~torn' /\ marker[s] = NoMarker /\ Runnable(s) =>
            \A p \in Procs : agent'[p].depth = 0
      BY <1>2, <1>4, <1>6
    <2>3. ~overlap => \A p \in Procs : agent'[p].mode \notin {"starting", "stopping"}
      BY <1>2, <1>3
    <2>4. overlap' = overlap
      BY <1>2
    <2> QED BY <2>1, <2>2, <2>3, <2>4 DEF CliAlone
  <1>13. EnteredIsUp'
    <2>1. CASE service' = service
      BY <1>2, <1>6, <2>1 DEF Inv, EnteredIsUp, HasEntered, HalfStopped, HalfStarted
    <2>2. CASE /\ marker[s] = NoMarker /\ Runnable(s)
               /\ \A t \in Static : t # s => service'[t] = service[t]
      <3>1. ~overlap /\ ~torn' => \A p \in Procs : ~HasEntered(p, s)'
        BY <1>2, <1>4, <1>6, <2>2 DEF HasEntered, Position
      <3>2. ~overlap => \A p \in Procs : ~HalfStarted(p, s)'
        BY <1>2, <1>3 DEF Inv, AgentShape, HalfStarted
      <3> QED BY <1>2, <1>6, <2>2, <3>1, <3>2 DEF Inv, EnteredIsUp, HasEntered,
          HalfStopped, HalfStarted
    <2>3. service' = service \/ \A t \in Static : t # s => service'[t] = service[t]
      BY <1>2 DEF Inv, TypeInv
    <2> QED BY <1>2, <2>1, <2>2, <2>3
  <1>14. MarkerIsTrue'
    <2>1. CASE service' = service /\ cli'.half = "none"
      BY <1>1, <1>2, <1>6, <2>1 DEF Inv, MarkerIsTrue, HalfStopped, CliHalf
    <2>2. CASE /\ marker[s] = NoMarker
               /\ \A t \in Static : t # s => service'[t] = service[t]
               /\ \/ cli'.half = "none"
                  \/ /\ cli'.half = "unmarked" /\ cli'.i = cli.i
                     /\ cli'.config = cli.config /\ service'[s] = cli.config
      BY <1>1, <1>2, <1>6, <2>2 DEF Inv, MarkerIsTrue, HalfStopped, CliHalf, Static,
         Index
    <2>3. \/ service' = service /\ cli'.half = "none"
          \/ /\ marker[s] = NoMarker
             /\ \A t \in Static : t # s => service'[t] = service[t]
             /\ \/ cli'.half = "none"
                \/ /\ cli'.half = "unmarked" /\ cli'.i = cli.i
                   /\ cli'.config = cli.config /\ service'[s] = cli.config
      BY <1>2 DEF Inv, TypeInv, CliMoves, Idle
    <2> QED BY <2>1, <2>2, <2>3
  <1>15. WebIsUp'
    BY <1>2 DEF Inv, WebIsUp
  <1>16. Restored'
    BY <1>2, <1>3 DEF Restored
  <1>17. DownDone'
    BY <1>2 DEF CliMoves, Idle, DownDone
  <1> QED BY <1>7, <1>8, <1>9, <1>10, <1>11, <1>12, <1>13, <1>14, <1>15, <1>16, <1>17
      DEF Inv

\* The marker of a service that the command just started.
LEMMA UpMarkerKeeps ==
    ASSUME Inv, ~raced, UpMarker, NEW s \in Static, s = StaticServices[cli.i]
    PROVE  Inv'
  <1>1. /\ cli.op = "up" /\ cli.half = "unmarked" /\ cli.i = Index(s) /\ cli.i <= cli.to
        /\ \/ cli' = Idle
           \/ cli.i < cli.to /\ CliMoves("up", cli.i + 1, cli.to, "none", cli.config,
                                        cli.error, cli.logged)
        /\ marker' = [marker EXCEPT ![s] = cli.config]
        /\ UNCHANGED <<pid_file, service, httpd, httpd_pid, installed, agent, faults,
             raced, overlap, torn>>
    <2>1. cli \in CliRecord /\ agent \in [Procs -> AgentRecord] /\ installed \in Configs
      BY DEF Inv, TypeInv
    <2>3. cli.op = "up" /\ cli.half = "unmarked" /\ cli.i = Index(s) /\ cli.i <= cli.to
      BY <2>1 DEF Inv, CliShape, CliRecord, UpMarker, StaticServices, Index
    <2>4. CliNext => \/ cli' = Idle
                     \/ cli.i < cli.to /\ CliMoves("up", cli.i + 1, cli.to, "none",
                                                  cli.config, cli.error, cli.logged)
      BY <2>1, <2>3, CliForward
    <2> QED BY <2>3, <2>4 DEF UpMarker, history
  <1>2. TypeInv'
    <2>1. cli.config \in Configs
      BY <1>1 DEF Inv, CliShape
    <2>2. marker' \in [Services -> Configs \cup {NoMarker}]
      BY <1>1, <2>1 DEF Inv, TypeInv, Services, Static
    <2> QED BY <1>1, <2>2, IdleRecord DEF Inv, CliMoves, TypeInv
  <1>3. AgentShape'
    BY <1>1 DEF Inv, AgentShape, Looks
  <1>4. CliShape'
    BY <1>1 DEF Inv, Index, CliMoves, Idle, CliRecord, CliShape, AtPid
  <1>5. OwnsPid'
    BY <1>1 DEF Inv, CliMoves, Idle, OwnsPid, Looks
  <1>6. TornIsFault'
    BY <1>1 DEF Inv, TornIsFault
  <1>7. CliAlone'
    BY <1>1 DEF Inv, CliMoves, Idle, CliAlone
  <1>8. EnteredIsUp'
    BY <1>1 DEF Inv, Position, EnteredIsUp, CliAlone, HasEntered, HalfStarted
  <1>9. MarkerIsTrue'
    BY <1>1 DEF Inv, CliMoves, Idle, MarkerIsTrue, HalfStopped, CliHalf
  <1>10. WebIsUp'
    BY <1>1 DEF Inv, WebIsUp
  <1>11. Restored'
    BY <1>1 DEF Inv, Restored, CliAlone
  <1>12. DownDone'
    BY <1>1 DEF CliMoves, Idle, DownDone
  <1> QED BY <1>2, <1>3, <1>4, <1>5, <1>6, <1>7, <1>8, <1>9, <1>10, <1>11, <1>12 DEF Inv

\* At the agent.
LEMMA AtAgentIs ==
    ASSUME Inv, AtAgent
    PROVE  cli.i = 3 /\ cli.to \in 0 .. 3 /\ cli.op \in {"up", "down"}
  <1>1. cli.i \in 0 .. 3 /\ cli.to \in 0 .. 3 /\ cli.op \in {"none", "up", "down", "rollback"}
    BY DEF Inv, TypeInv, CliRecord
  <1>2. cli.i = 3
    BY <1>1 DEF AtAgent, StaticServices
  <1> QED BY <1>1, <1>2 DEF Inv, CliShape, Idle

\* Where the command only looks for a daemon, these parts of Inv are preserved.
LEMMA CliLooks ==
    ASSUME Inv, ~raced, cli.i = 3, cli.op \in {"up", "down"}, cli.half \in {"none"} \cup AtPid,
           NEW h \in {"none"} \cup AtPid,
           CliMoves(cli.op, cli.i, cli.to, h, cli.config, cli.error, cli.logged),
           h \in {"seen", "found"} => cli'.seen \in Procs,
           pid_file' \in Procs \cup {NoPid}, raced' \in BOOLEAN,
           UNCHANGED <<marker, service, httpd, httpd_pid, installed, agent, faults,
                overlap, torn>>
    PROVE  /\ TypeInv' /\ AgentShape' /\ CliShape' /\ TornIsFault' /\ EnteredIsUp'
           /\ MarkerIsTrue' /\ WebIsUp' /\ Restored' /\ DownDone'
  <1>1. TypeInv'
    BY DEF Inv, CliMoves, TypeInv
  <1>2. AgentShape' /\ TornIsFault'
    BY DEF Inv, AgentShape, TornIsFault, Looks
  <1>3. CliShape'
    <2>1. h \notin {"unmarked", "stopped"}
      BY DEF AtPid
    <2> QED BY <2>1 DEF Inv, CliMoves, CliShape
  <1>4. EnteredIsUp' /\ WebIsUp' /\ Restored'
    BY DEF Inv, EnteredIsUp, WebIsUp, Restored, HasEntered, HalfStopped, HalfStarted,
       AssertStopped
  <1>5. \A s \in Static : cli.i # Index(s) /\ ~(cli.i < Index(s))
    BY DEF Static, Index
  <1>6. MarkerIsTrue'
    BY <1>5 DEF Inv, MarkerIsTrue, CliMoves, CliHalf, HalfStopped
  <1>7. DownDone'
    BY <1>5 DEF DownDone, CliMoves, CliHalf
  <1> QED BY <1>1, <1>2, <1>3, <1>4, <1>6, <1>7

\* If there is no PID file no agent has entered anything, and if there is one no
\* other than the one it names.
LEMMA CliReadPidKeeps ==
    ASSUME Inv, ~raced, CliReadPid
    PROVE  Inv'
  <1> DEFINE h == IF pid_file = NoPid THEN "free" ELSE "seen"
  <1>1. /\ cli.i = 3 /\ cli.op \in {"up", "down"} /\ cli.half = "none"
        /\ CliMoves(cli.op, cli.i, cli.to, h, cli.config, cli.error, cli.logged)
        /\ cli'.seen = pid_file
        /\ raced' \in BOOLEAN
        /\ ~raced' => pid_file = NoPid \/ \A q \in Procs : ~Looks(q)
        /\ UNCHANGED <<pid_file, marker, service, httpd, httpd_pid, installed, agent,
             faults, overlap, torn>>
    <2>1. cli \in CliRecord /\ pid_file \in Procs \cup {NoPid} /\ h \in AtPid
      BY DEF Inv, TypeInv, AtPid
    <2>2. cli' = [cli EXCEPT !.half = h, !.seen = pid_file]
      BY DEF CliReadPid
    <2>3. CliMoves(cli.op, cli.i, cli.to, h, cli.config, cli.error, cli.logged)
            /\ cli'.seen = pid_file
      <3> HIDE DEF h
      <3> QED BY <2>1, <2>2, CliHalves DEF CliRecord, AtPid
    <2>4. \A q \in Procs : Looks(q) => InPidWindow(q)
      BY DEF Inv, AgentShape, Looks, InPidWindow, Entering, Contexts
    <2> QED BY <2>3, <2>4, AtAgentIs DEF CliReadPid, host
  <1>2. pid_file \in Procs \cup {NoPid} /\ h \in {"none"} \cup AtPid
    BY DEF Inv, TypeInv, AtPid
  <1>3. cli'.half = h /\ cli'.op = cli.op /\ cli'.i = cli.i /\ cli'.error = cli.error
    BY <1>1 DEF CliMoves
  <1>4. \A q \in Procs : agent[q].depth > 0 => pid_file = q
    BY DEF Inv, OwnsPid
  <1>5. OwnsPid'
    BY <1>1, <1>2, <1>3, <1>4, NamesAssumption DEF Inv, OwnsPid, Looks
  <1>6. CliAlone'
    <2>1. h = "free" => \A q \in Procs : agent[q].depth = 0
      BY <1>4, NamesAssumption DEF Inv, TypeInv, AgentRecord
    <2> QED BY <1>1, <1>3, <2>1 DEF Inv, CliAlone, Idle
  <1> HIDE DEF h
  <1>7. h \in {"seen", "found"} => cli'.seen \in Procs
    BY <1>1, <1>2 DEF h
  <1> QED BY <1>1, <1>2, <1>5, <1>6, <1>7, CliLooks DEF Inv

\* If the process is gone, no agent has entered anything.
LEMMA CliTestPidKeeps ==
    ASSUME Inv, ~raced, CliTestPid
    PROVE  Inv'
  <1>1. cli.half = "seen" /\ cli.i = 3 /\ cli.op \in {"up", "down"} /\ cli.seen \in Procs
    BY DEF CliTestPid, Inv, CliShape, TypeInv, CliRecord, AtPid, Idle
  <1>2. /\ \A q \in Procs : agent[q].depth > 0 => q = cli.seen
        /\ \A q \in Procs : ~Looks(q)
    BY <1>1 DEF Inv, OwnsPid
  <1>3. UNCHANGED <<pid_file, marker, service, httpd, httpd_pid, installed, agent,
             faults, raced, overlap, torn>>
    BY DEF CliTestPid, host, history
  <1>4. cli \in CliRecord /\ pid_file \in Procs \cup {NoPid} /\ raced \in BOOLEAN
    BY DEF Inv, TypeInv
  <1>5. CASE Alive(cli.seen)
    <2>1. cli' = [cli EXCEPT !.half = "found"]
      BY <1>5 DEF CliTestPid
    <2>2. CliMoves(cli.op, cli.i, cli.to, "found", cli.config, cli.error, cli.logged)
            /\ cli'.seen = cli.seen
      BY <1>4, <2>1, NamesAssumption, CliHalves DEF CliRecord
    <2>3. OwnsPid'
      BY <1>2, <1>3, <2>2 DEF Inv, OwnsPid, CliMoves, Looks
    <2>4. CliAlone'
      BY <1>1, <1>2, <1>3, <2>2 DEF Inv, CliAlone, CliMoves, Idle
    <2> QED BY <1>1, <1>3, <1>4, <2>2, <2>3, <2>4, CliLooks DEF Inv, AtPid
  <1>6. CASE ~Alive(cli.seen)
    <2>1. cli' = [cli EXCEPT !.half = "stale", !.seen = NoPid]
      BY <1>6 DEF CliTestPid
    <2>2. CliMoves(cli.op, cli.i, cli.to, "stale", cli.config, cli.error, cli.logged)
      BY <1>4, <2>1, CliHalves
    <2>3. \A q \in Procs : agent[q].depth = 0
      BY <1>1, <1>2, <1>6 DEF Alive, Inv, AgentShape, TypeInv, AgentRecord
    <2>4. OwnsPid'
      BY <1>2, <1>3, <2>2, <2>3 DEF Inv, OwnsPid, CliMoves, Looks
    <2>5. CliAlone'
      BY <1>1, <1>3, <2>2, <2>3 DEF Inv, CliAlone, CliMoves, Idle
    <2> QED BY <1>1, <1>3, <1>4, <2>2, <2>4, <2>5, CliLooks DEF Inv, AtPid
  <1> QED BY <1>5, <1>6

\* The file that is deleted is nobody's.
LEMMA CliClearStalePidKeeps ==
    ASSUME Inv, ~raced, CliClearStalePid
    PROVE  Inv'
  <1>1. cli.half = "stale" /\ cli.i = 3 /\ cli.op \in {"up", "down"}
    BY DEF CliClearStalePid, Inv, CliShape, TypeInv, CliRecord, AtPid, Idle
  <1>2. pid_file' = NoPid /\ UNCHANGED <<marker, service, httpd, httpd_pid, installed,
             agent, faults, raced, overlap, torn>>
    BY DEF CliClearStalePid, history
  <1>3. \A q \in Procs : agent[q].depth = 0 /\ ~Looks(q)
    BY <1>1 DEF Inv, OwnsPid
  <1>4. CliMoves(cli.op, cli.i, cli.to, "free", cli.config, cli.error, cli.logged)
    BY CliHalves DEF CliClearStalePid, Inv, TypeInv
  <1>5. OwnsPid'
    BY <1>2, <1>3, <1>4 DEF OwnsPid, CliMoves, Looks
  <1>6. CliAlone'
    BY <1>1, <1>2, <1>3, <1>4 DEF Inv, CliAlone, CliMoves, Idle
  <1>7. raced' \in BOOLEAN
    BY <1>2 DEF Inv, TypeInv
  <1> QED BY <1>1, <1>2, <1>4, <1>5, <1>6, <1>7, CliLooks DEF Inv, AtPid

\* Agent.start_static: a daemon begins, unless there is one. If there cannot be
\* one, what the command has started is taken down, under an agent or not.
LEMMA UpAgentKeeps ==
    ASSUME Inv, ~raced, UpAgent
    PROVE  Inv'
  <1>1. /\ cli.op = "up" /\ cli.i = 3 /\ cli.to = 3 /\ cli.half \notin {"stopped", "unmarked"}
        /\ \/ /\ cli' = Idle
              /\ \/ agent' = agent
                 \/ \E p \in Procs : agent[p].mode = "off"
                                       /\ Begins(p, installed, ActiveServices)
              /\ UNCHANGED <<faults, torn>>
           \/ /\ CliMoves("rollback", cli.i - 1, 1, "none", NoMarker, FALSE, FALSE)
              /\ agent' = agent
              /\ faults' = faults + 1
              /\ torn' = (torn \/ \E p \in Procs : agent[p].depth > 0)
        /\ UNCHANGED <<pid_file, marker, service, httpd, httpd_pid, installed, raced,
             overlap>>
    <2>1. cli \in CliRecord /\ agent \in [Procs -> AgentRecord] /\ installed \in Configs
      BY DEF Inv, TypeInv
    <2>2. cli.op = "up" /\ cli.i = 3 /\ cli.to \in 0 .. 3 /\ cli.i <= cli.to
            /\ cli.half \notin {"stopped", "unmarked"}
      BY AtAgentIs DEF Inv, CliShape, UpAgent
    <2>3. cli.to = 3
      BY <2>2
    <2>4. CliNext => cli' = Idle
      BY <2>2, <2>3 DEF CliNext
    <2>5. RollBack =>
            /\ CliMoves("rollback", cli.i - 1, 1, "none", NoMarker, FALSE, FALSE)
            /\ torn' = (torn \/ \E p \in Procs : agent[p].depth > 0)
      <3>1. cli.i > 0 /\ cli.i # 1
        BY <2>2
      <3>2. RollBack => torn' = (torn \/ \E p \in Procs : agent[p].depth > 0)
        BY DEF RollBack
      <3> QED BY <2>1, <3>1, <3>2, CliRollsBack
    <2>6. ASSUME NEW p \in Procs, agent' = [agent EXCEPT ![p] = Opened(TRUE)]
          PROVE  Begins(p, installed, ActiveServices)
      BY <2>1, <2>6, OpenedBegins
    <2> QED BY <2>2, <2>3, <2>4, <2>5, <2>6 DEF UpAgent, Alive, host, Fault
  <1>2. /\ faults' \in Nat /\ (faults' = 0 => faults = 0) /\ (faults > 0 => faults' > 0)
        /\ faults' = faults \/ faults' > 0
    <2>1. faults \in Nat /\ faults' \in {faults, faults + 1}
      BY <1>1 DEF Inv, TypeInv
    <2> QED BY <2>1
  <1>3. torn' \in BOOLEAN /\ (torn => torn') /\ (torn' => torn \/ faults' > 0)
    <2>1. torn \in BOOLEAN /\ faults \in Nat
      BY DEF Inv, TypeInv
    <2>2. CASE torn' = torn
      BY <2>1, <2>2
    <2>3. CASE /\ faults' = faults + 1
               /\ torn' = (torn \/ \E p \in Procs : agent[p].depth > 0)
      BY <2>1, <2>3
    <2> QED BY <1>1, <2>2, <2>3
  <1>4. agent' = agent \/ \E p \in Procs : agent[p].mode = "off"
                                       /\ Begins(p, installed, ActiveServices)
    BY <1>1
  <1>5. TypeInv'
    <2>1. cli' \in CliRecord
      BY <1>1, IdleRecord DEF CliMoves
    <2>2. agent' \in [Procs -> AgentRecord]
      BY <1>4 DEF Inv, TypeInv, Begins
    <2> QED BY <1>1, <1>2, <1>3, <2>1, <2>2 DEF Inv, TypeInv
  <1>6. AgentShape'
    BY <1>1, <1>2, <1>4 DEF Inv, Begins, AgentShape, Looks, TypeInv
  <1>7. CliShape'
    BY <1>1 DEF Idle, CliMoves, CliShape
  <1>8. OwnsPid'
    <2>1. cli'.half = "none"
      BY <1>1 DEF Idle, CliMoves
    <2> QED BY <1>1, <1>4, <2>1 DEF Inv, Begins, OwnsPid, Looks
  <1>9. TornIsFault'
    BY <1>1, <1>2, <1>3 DEF Inv, TornIsFault
  <1>10. CliAlone'
    <2>1. CASE cli' = Idle
      BY <2>1 DEF Idle, CliAlone
    <2>2. CASE /\ CliMoves("rollback", cli.i - 1, 1, "none", NoMarker, FALSE, FALSE)
               /\ agent' = agent
               /\ torn' = (torn \/ \E p \in Procs : agent[p].depth > 0)
      <3>1. ~torn' => \A p \in Procs : agent'[p].depth = 0
        <4>1. \A p \in Procs : agent[p].depth \in 0 .. 8
          BY DEF Inv, TypeInv, AgentRecord
        <4>2. ~torn' => \A p \in Procs : ~(agent[p].depth > 0)
          BY <2>2
        <4> QED BY <2>2, <4>1, <4>2
      <3> QED BY <1>1, <2>2, <3>1 DEF Inv, CliAlone, CliMoves, Idle
    <2> QED BY <1>1, <2>1, <2>2
  <1>11. EnteredIsUp'
    BY <1>1, <1>3, <1>4 DEF Inv, Begins, Position, EnteredIsUp, HasEntered, HalfStopped,
       HalfStarted
  <1>12. MarkerIsTrue'
    <2>1. cli'.half = "none"
      BY <1>1 DEF Idle, CliMoves
    <2> QED BY <1>1, <1>3, <1>4, <2>1 DEF Inv, Begins, MarkerIsTrue, AgentShape,
        HalfStopped, CliHalf
  <1>13. WebIsUp'
    BY <1>1, <1>4 DEF Inv, Begins, WebIsUp
  <1>14. Restored'
    <2>1. ~overlap => \A p \in Procs : agent[p].mode # "stopping"
      BY <1>1 DEF Inv, CliAlone
    <2> QED BY <1>1, <1>4, <2>1 DEF Begins, Restored
  <1>15. DownDone'
    BY <1>1 DEF Idle, CliMoves, DownDone
  <1> QED BY <1>5, <1>6, <1>7, <1>8, <1>9, <1>10, <1>11, <1>12, <1>13, <1>14, <1>15
      DEF Inv

\* `uno service down` begins with the last service.
LEMMA ServiceDownKeeps ==
    ASSUME Inv, ~raced, ServiceDown
    PROVE  Inv'
  <1>1. /\ cli = Idle
        /\ \E t \in 1 .. 3 : CliMoves("down", 3, t, "none", NoMarker, FALSE, FALSE)
        /\ overlap' \in BOOLEAN
        /\ ~overlap' =>
             ~overlap /\ \A p \in Procs : agent[p].mode \notin {"starting", "stopping"}
        /\ UNCHANGED <<pid_file, marker, service, httpd, httpd_pid, installed, agent,
             faults, raced, torn>>
    <2>1. PICK t \in DOMAIN StaticServices :
            cli' = [Idle EXCEPT !.op = "down", !.i = Len(StaticServices), !.to = t]
      BY DEF ServiceDown, StaticServices
    <2>2. t \in 1 .. 3
      BY DEF StaticServices
    <2>3. CliMoves("down", 3, t, "none", NoMarker, FALSE, FALSE)
      <3>1. cli' = [op |-> "down", i |-> 3, to |-> t, half |-> "none", seen |-> NoPid,
                    config |-> NoMarker, waits |-> FALSE, error |-> FALSE,
                    logged |-> FALSE]
        BY <2>1 DEF Idle, StaticServices
      <3>2. 3 \in 0 .. 3 /\ t \in 0 .. 3
        BY <2>2
      <3> QED BY <3>1, <3>2 DEF CliMoves, CliRecord
    <2>4. /\ overlap' \in BOOLEAN
          /\ ~overlap' =>
               ~overlap /\ \A p \in Procs : agent[p].mode \notin {"starting", "stopping"}
      BY DEF ServiceDown, AgentsBusy, Inv, TypeInv
    <2> QED BY <2>2, <2>3, <2>4 DEF ServiceDown, host
  <1>2. TypeInv'
    BY <1>1 DEF Inv, CliMoves, TypeInv
  <1>3. AgentShape'
    BY <1>1 DEF Inv, AgentShape, Looks
  <1>4. CliShape'
    BY <1>1 DEF CliMoves, CliShape, AtPid
  <1>5. OwnsPid'
    BY <1>1 DEF Inv, CliMoves, Idle, OwnsPid, Looks
  <1>6. TornIsFault'
    BY <1>1 DEF Inv, TornIsFault
  <1>7. CliAlone'
    BY <1>1 DEF CliMoves, CliAlone
  <1>8. EnteredIsUp'
    BY <1>1 DEF Inv, EnteredIsUp, HasEntered, HalfStopped, HalfStarted
  <1>9. MarkerIsTrue'
    BY <1>1 DEF Inv, CliMoves, Idle, MarkerIsTrue, HalfStopped, CliHalf
  <1>10. WebIsUp'
    BY <1>1 DEF Inv, WebIsUp
  <1>11. Restored'
    BY <1>1 DEF Restored
  <1>12. DownDone'
    BY <1>1 DEF Index, CliMoves, DownDone, CliHalf
  <1> QED BY <1>2, <1>3, <1>4, <1>5, <1>6, <1>7, <1>8, <1>9, <1>10, <1>11, <1>12 DEF Inv

\* The command leaves the agent for the router, and its marker is deleted. If the
\* agent is gone, or the command knows that it is not, Inv is preserved.
LEMMA DownEndsKeeps ==
    ASSUME Inv, ~raced, cli.op = "down", cli.i = 3, cli.half \in AtPid,
           NEW x \in BOOLEAN, DownEnds(x),
           UNCHANGED <<pid_file, service, httpd, httpd_pid, installed, agent, raced,
                overlap>>,
           \/ UNCHANGED <<faults, torn>>
           \/ faults' = faults + 1 /\ torn' = TRUE,
           ~overlap => (x /\ torn') \/ \A p \in Procs : agent[p].depth = 0
    PROVE  Inv'
  <1>1. CliMoves("down", 2, cli.to, "none", cli.config, cli.error \/ x, cli.logged)
    BY CliLeavesAgent DEF Inv, TypeInv
  <1>2. marker' = [marker EXCEPT !["agent"] = NoMarker]
    BY DEF DownEnds
  <1>3. /\ marker' \in [Services -> Configs \cup {NoMarker}]
        /\ marker'["agent"] = NoMarker
        /\ \A s \in Static : marker'[s] = marker[s]
    BY <1>2 DEF Inv, TypeInv, Services, Static
  <1>4. /\ faults' \in Nat /\ (faults' = 0 => faults = 0) /\ (faults > 0 => faults' > 0)
        /\ faults' = faults \/ faults' > 0
    <2>1. faults \in Nat /\ faults' \in {faults, faults + 1}
      BY DEF Inv, TypeInv
    <2> QED BY <2>1
  <1>5. torn' \in BOOLEAN /\ (torn => torn') /\ (torn' => torn \/ faults' > 0)
    <2>1. torn \in BOOLEAN /\ faults \in Nat
      BY DEF Inv, TypeInv
    <2>2. CASE torn' = torn
      BY <2>1, <2>2
    <2>3. CASE faults' = faults + 1 /\ torn' = TRUE
      BY <2>1, <2>3
    <2> QED BY <2>2, <2>3
  <1>6. TypeInv'
    BY <1>1, <1>3, <1>4, <1>5 DEF Inv, CliMoves, TypeInv
  <1>7. AgentShape'
    BY <1>4 DEF Inv, AgentShape, Looks
  <1>8. CliShape'
    BY <1>1 DEF Inv, TypeInv, CliRecord, CliMoves, CliShape, AtPid
  <1>9. OwnsPid'
    BY <1>1 DEF Inv, CliMoves, OwnsPid, Looks
  <1>10. TornIsFault'
    BY <1>4, <1>5 DEF Inv, TornIsFault
  <1>11. CliAlone'
    <2>1. cli # Idle
      BY DEF Idle
    <2> QED BY <1>1, <2>1 DEF Inv, CliMoves, CliAlone
  <1>12. EnteredIsUp'
    BY <1>3, <1>5 DEF Inv, EnteredIsUp, HasEntered, HalfStopped, HalfStarted
  <1>13. MarkerIsTrue'
    <2>1. cli.half # "stopped"
      BY DEF AtPid
    <2> QED BY <1>1, <1>3, <1>5, <2>1 DEF Inv, MarkerIsTrue, CliMoves, HalfStopped,
        CliHalf
  <1>14. WebIsUp'
    BY DEF Inv, WebIsUp
  <1>15. Restored'
    BY <1>3, <1>4 DEF Inv, Restored, HalfStopped, AssertStopped
  <1>16. DownDone'
    BY <1>1, <1>3 DEF CliMoves, DownDone, CliHalf, Static, Index
  <1> QED BY <1>6, <1>7, <1>8, <1>9, <1>10, <1>11, <1>12, <1>13, <1>14, <1>15, <1>16
      DEF Inv

\* No daemon.
LEMMA DownFreeKeeps ==
    ASSUME Inv, ~raced, DownFree
    PROVE  Inv'
  <1>1. cli.op = "down" /\ cli.i = 3 /\ cli.half = "free"
    BY DEF DownFree, Inv, CliShape, AtPid
  <1>2. ~overlap => \A p \in Procs : agent[p].depth = 0
    BY <1>1 DEF Inv, CliAlone
  <1> QED BY <1>1, <1>2, DownEndsKeeps DEF DownFree, AtPid, history

\* The daemon is interrupted. If it is already stopping the two overlap, and if
\* it has ended there is no agent.
LEMMA DownAgentKeeps ==
    ASSUME Inv, ~raced, DownAgent
    PROVE  Inv'
  <1>1. cli.op = "down" /\ cli.i = 3 /\ cli.half = "found" /\ cli.seen \in Procs
    BY DEF DownAgent, Inv, CliShape, AtPid
  <1>2. PICK p \in Procs : p = cli.seen
    BY <1>1
  <1>3. cli \in CliRecord /\ agent \in [Procs -> AgentRecord]
    BY DEF Inv, TypeInv
  <1>4. UNCHANGED <<installed, faults, raced>>
    BY DEF DownAgent
  <1>5. CASE ~Alive(p)
    <2>1. DownEnds(TRUE) /\ UNCHANGED <<pid_file, service, httpd, httpd_pid, agent,
                                       overlap, torn>>
      BY <1>5, <1>2 DEF DownAgent
    <2>2. ~overlap => \A q \in Procs : agent[q].depth > 0 => q = p
      BY <1>1, <1>2 DEF Inv, CliAlone
    <2>3. ~overlap => \A q \in Procs : agent[q].depth = 0
      BY <1>1, <1>3, <1>5, <2>2 DEF Alive, Inv, AgentShape, AgentRecord
    <2> QED BY <1>1, <1>4, <2>1, <2>3, DownEndsKeeps DEF AtPid
  <1>6. CASE Alive(p)
    <2>1. cli' = [cli EXCEPT !.waits = TRUE, !.half = "none", !.seen = NoPid]
      BY <1>6, <1>2 DEF DownAgent
    <2>2. CliMoves("down", 3, cli.to, "none", cli.config, cli.error, cli.logged)
      BY <1>1, <1>3, <2>1, CliHalves
    <2>3. CliShape'
      BY <1>1, <2>2 DEF Inv, CliMoves, CliShape, AtPid
    <2>4. CASE agent[p].mode # "stopping"
      <3>1. /\ Raise(p, "interrupt")
            /\ UNCHANGED <<pid_file, marker, service, httpd, httpd_pid, overlap, torn>>
        BY <1>6, <2>4, <1>2 DEF DownAgent
      <3>2. Moves(p, "stopping", agent[p].depth, "none", "interrupt")
        BY <1>1, <1>3, <3>1, RaiseMoves
      <3>3. agent[p].mode \in {"starting", "running"}
        BY <1>1, <1>3, <1>6, <2>4 DEF AgentRecord, Alive
      <3>4. ~overlap => /\ agent[p].mode = "running" /\ agent[p].half = "none"
                        /\ agent[p].depth = 8
        BY <1>1, <1>3, <3>3 DEF Inv, CliAlone, AgentShape, Looks, Idle, AgentRecord
      <3>5. /\ \A q \in Procs : /\ agent'[q].depth = agent[q].depth
                                /\ agent'[q].config = agent[q].config
            /\ ~overlap => \A q \in Procs : agent'[q].half = agent[q].half
        BY <3>2, <3>4 DEF Moves
      <3>6. TypeInv'
        BY <1>4, <2>2, <3>1, <3>2 DEF Inv, Moves, CliMoves, TypeInv
      <3>7. AgentShape'
        BY <1>1, <1>4, <3>1, <3>2, <3>3 DEF Inv, AgentShape, Looks, Moves
      <3>8. OwnsPid'
        BY <1>1, <1>4, <2>2, <3>1, <3>2, <3>3 DEF Inv, Moves, CliMoves, OwnsPid, Looks
      <3>9. TornIsFault'
        BY <1>4, <3>1 DEF Inv, TornIsFault
      <3>10. CliAlone'
        <4>1. cli # Idle
          BY <1>1 DEF Idle
        <4> QED BY <1>1, <2>2, <3>1, <3>2, <4>1 DEF Inv, CliAlone, CliMoves, Moves
      <3>11. EnteredIsUp'
        BY <1>4, <3>1, <3>5 DEF Inv, EnteredIsUp, HasEntered, HalfStopped, HalfStarted
      <3>12. MarkerIsTrue'
        BY <1>1, <1>4, <2>2, <3>1, <3>5 DEF Inv, MarkerIsTrue, CliMoves, HalfStopped,
           CliHalf
      <3>13. WebIsUp'
        BY <1>4, <3>1, <3>5 DEF Inv, WebIsUp
      <3>14. Restored'
        <4>1. ~overlap => \A t \in Static : ~HalfStopped(p, t)'
                                              /\ ~(agent'[p].depth < Position(t))
          <5>1. \A t \in Static : Position(t) \in {3, 5}
            BY DEF Position
          <5>2. ~overlap => agent'[p].depth = 8
            BY <1>1, <3>4, <3>5
          <5>3. agent'[p].half = "none"
            BY <3>2 DEF Moves
          <5>4. \A t \in Static : ~HalfStopped(p, t)'
            BY <5>3 DEF HalfStopped
          <5>5. ~overlap => \A t \in Static : ~(agent'[p].depth < Position(t))
            BY <5>1, <5>2
          <5> QED BY <5>4, <5>5
        <4> QED BY <1>1, <1>4, <3>1, <3>2, <4>1 DEF Inv, Restored, HalfStopped,
            AssertStopped, Moves
      <3>15. DownDone'
        BY <2>2 DEF CliMoves, DownDone, CliHalf, Index
      <3> QED BY <2>3, <3>6, <3>7, <3>8, <3>9, <3>10, <3>11, <3>12, <3>13, <3>14, <3>15
          DEF Inv
    <2>5. CASE agent[p].mode = "stopping"
      <3>1. Interrupted(p) /\ overlap'
        BY <1>6, <2>5, <1>2 DEF DownAgent
      <3> DEFINE d == IF agent[p].depth = 0 THEN 0 ELSE agent[p].depth - 1
      <3>2. /\ Moves(p, "stopping", d, "none", "interrupt")
            /\ pid_file' = pid_file \/ (pid_file' = NoPid /\ agent[p].depth = 1)
            /\ UNCHANGED <<httpd, httpd_pid>> \/ agent[p].depth = 7
            /\ httpd' \in BOOLEAN /\ httpd_pid' \in BOOLEAN
            /\ torn' = (torn \/ agent[p].half = "stopped")
            /\ marker' \in [Services -> Configs \cup {NoMarker}]
            /\ service' \in [Static -> Configs \cup {Down, Partial}]
        BY <1>1, <2>5, <3>1, InterruptedLeaves
      <3>3. agent[p].depth \in 0 .. 8 /\ \A q \in Procs : agent[q].depth \in Nat
        BY <1>1, <1>3 DEF AgentRecord
      <3>4. \A q \in Procs : agent[q].depth > 0 => q = p \/ agent[p].depth = 0
        BY <1>1, <3>3 DEF Inv, OwnsPid
      <3>5. \A q \in Procs : q # p => agent'[q] = agent[q]
        BY <3>2 DEF Moves
      <3>6. agent'[p].depth = d
        BY <3>2 DEF Moves
      <3>7. overlap' \in BOOLEAN
        BY <1>6, <2>5, <1>2 DEF DownAgent
      <3>8. TypeInv'
        BY <1>4, <2>2, <3>2, <3>7 DEF Inv, Moves, CliMoves, TypeInv
      <3>9. AgentShape'
        BY <1>1, <1>4, <2>5, <3>1, <3>2, <3>3 DEF Inv, Moves, AgentShape, Looks
      <3>10. OwnsPid'
        BY <1>1, <1>4, <2>2, <3>2, <3>3, <3>4 DEF Inv, Moves, CliMoves, OwnsPid, Looks
      <3>11. WebIsUp'
        BY <1>4, <3>2, <3>3, <3>4, <3>5, <3>6 DEF Inv, WebIsUp
      <3>12. /\ TornIsFault' /\ CliAlone' /\ EnteredIsUp' /\ MarkerIsTrue' /\ Restored'
             /\ DownDone'
        BY <3>1 DEF TornIsFault, CliAlone, EnteredIsUp, MarkerIsTrue, Restored, DownDone
      <3> QED BY <2>3, <3>8, <3>9, <3>10, <3>11, <3>12 DEF Inv
    <2> QED BY <2>4, <2>5
  <1> QED BY <1>5, <1>6

\* The command looks again for the agent; or it goes on after its time is up, with
\* an error, over a torn service.
LEMMA DownWaitKeeps ==
    ASSUME Inv, ~raced, DownWait
    PROVE  Inv'
  <1>1. cli.op = "down" /\ cli.i = 3 /\ cli.half = "found"
    BY DEF DownWait, Inv, CliShape, AtPid
  <1>2. UNCHANGED <<pid_file, service, httpd, httpd_pid, installed, agent, raced,
             overlap>>
    BY DEF DownWait
  <1>3. CASE cli' = [cli EXCEPT !.half = "none", !.seen = NoPid]
             /\ UNCHANGED <<marker, faults, torn>>
    <2>1. CliMoves(cli.op, cli.i, cli.to, "none", cli.config, cli.error, cli.logged)
      BY <1>3, CliHalves DEF Inv, TypeInv
    <2>2. OwnsPid'
      BY <1>2, <2>1 DEF Inv, OwnsPid, CliMoves, Looks
    <2>3. CliAlone'
      BY <1>1, <1>2, <1>3, <2>1 DEF Inv, CliAlone, CliMoves, Idle
    <2>4. pid_file' \in Procs \cup {NoPid} /\ raced' \in BOOLEAN
      BY <1>2 DEF Inv, TypeInv
    <2> QED BY <1>1, <1>2, <1>3, <2>1, <2>2, <2>3, <2>4, CliLooks DEF Inv, AtPid
  <1>4. CASE Fault /\ DownEnds(TRUE) /\ torn' = TRUE
    BY <1>1, <1>2, <1>4, DownEndsKeeps DEF Fault, AtPid
  <1> QED BY <1>3, <1>4 DEF DownWait

\* stop_static of a service that no agent uses any more.
LEMMA DownStaticKeeps ==
    ASSUME Inv, ~raced, DownStatic, NEW s \in Static, s = StaticServices[cli.i]
    PROVE  Inv'
  <1>1. /\ cli.op \in {"down", "rollback"} /\ cli.half = "none" /\ cli.i = Index(s)
             /\ cli.to <= cli.i
        /\ \/ CliMoves(cli.op, cli.i, cli.to, "stopped", cli.config, cli.error,
                       cli.logged)
                /\ service' = [service EXCEPT ![s] = Down] /\ marker' = marker
                /\ faults' = faults
           \/ CliMoves(cli.op, cli.i - 1, cli.to, "none", cli.config,
                       cli.error \/ s # "net", cli.logged \/ s = "net")
                /\ service' = [service EXCEPT ![s] = Partial]
                /\ marker' = [marker EXCEPT ![s] = NoMarker] /\ faults' = faults + 1
        /\ UNCHANGED <<pid_file, httpd, httpd_pid, installed, agent, raced, overlap,
             torn>>
    <2>1. cli \in CliRecord /\ agent \in [Procs -> AgentRecord] /\ installed \in Configs
      BY DEF Inv, TypeInv
    <2>3. cli.op \in {"down", "rollback"} /\ cli.half = "none" /\ cli.i = Index(s)
            /\ cli.to <= cli.i
      BY <2>1 DEF Inv, CliShape, CliRecord, DownStatic, StaticServices, Static, Index
    <2>4. cli' = [cli EXCEPT !.half = "stopped"] =>
            CliMoves(cli.op, cli.i, cli.to, "stopped", cli.config, cli.error, cli.logged)
      BY <2>1, NamesAssumption, CliHalves DEF CliRecord
    <2>5. cli' = [cli EXCEPT !.i = @ - 1, !.error = @ \/ s # "net",
                             !.logged = @ \/ s = "net"] =>
            CliMoves(cli.op, cli.i - 1, cli.to, "none", cli.config,
                     cli.error \/ s # "net", cli.logged \/ s = "net")
      <3>1. cli.i > 0
        BY <2>3 DEF Index
      <3> QED BY <2>1, <2>3, <3>1, CliFails
    <2> QED BY <2>3, <2>4, <2>5 DEF DownStatic, Fault
  <1>2. TypeInv'
    BY <1>1 DEF Inv, CliMoves, TypeInv
  <1>3. AgentShape'
    BY <1>1 DEF Inv, CliMoves, AgentShape, Looks, TypeInv
  <1>4. CliShape'
    BY <1>1 DEF Inv, Index, CliMoves, CliShape, AtPid
  <1>5. OwnsPid'
    BY <1>1 DEF Inv, CliMoves, Idle, OwnsPid, Looks
  <1>6. TornIsFault'
    BY <1>1 DEF Inv, CliMoves, TornIsFault, TypeInv
  <1>7. CliAlone'
    <2>1. cli # Idle /\ cli'.op = cli.op /\ cli'.half \in {"none", "stopped"}
      BY <1>1 DEF CliMoves, Idle
    <2>2. cli'.error \/ ~cli.error
      <3>1. cli'.error = cli.error \/ cli'.error = (cli.error \/ s # "net")
        BY <1>1 DEF CliMoves
      <3> QED BY <3>1
    <2>3. cli.i < 3
      BY <1>1 DEF Index
    <2> QED BY <1>1, <2>1, <2>2, <2>3 DEF Inv, CliAlone
  <1>8. EnteredIsUp'
    BY <1>1 DEF Inv, Position, Index, EnteredIsUp, CliAlone, HasEntered, HalfStarted
  <1>9. MarkerIsTrue'
    BY <1>1 DEF Inv, Static, Services, CliMoves, MarkerIsTrue, TypeInv, HalfStopped,
       CliHalf
  <1>10. WebIsUp'
    BY <1>1 DEF Inv, WebIsUp
  <1>11. Restored'
    BY <1>1 DEF Inv, Index, CliMoves, Restored, CliAlone, TypeInv, TornIsFault
  <1>12. DownDone'
    <2> SUFFICES ASSUME ~overlap, cli'.op = "down", ~cli'.error
                 PROVE  /\ cli'.i < 3 => marker'["agent"] = NoMarker
                        /\ \A t \in Static :
                            /\ cli'.i < Index(t) =>
                                 /\ marker'[t] = NoMarker
                                 /\ service'[t] = Down \/ (t = "net" /\ cli'.logged)
                            /\ CliHalf(t, "stopped")' => service'[t] = Down
      BY <1>1 DEF DownDone
    <2>1. cli.i \in {1, 2} /\ \A t \in Static : Index(t) = cli.i => t = s
      BY <1>1 DEF Index, Static
    <2>2. marker["agent"] = NoMarker /\ \A t \in Static :
            /\ cli.i < Index(t) =>
                 marker[t] = NoMarker /\ (service[t] = Down \/ (t = "net" /\ cli.logged))
      <3>1. cli.op = "down" /\ ~cli.error
        BY <1>1 DEF CliMoves
      <3> QED BY <2>1, <3>1 DEF Inv, DownDone
    <2>3. CASE /\ CliMoves(cli.op, cli.i, cli.to, "stopped", cli.config, cli.error,
                           cli.logged)
               /\ service' = [service EXCEPT ![s] = Down] /\ marker' = marker
      BY <2>1, <2>2, <2>3 DEF Inv, TypeInv, CliMoves, CliHalf
    <2>4. CASE /\ CliMoves(cli.op, cli.i - 1, cli.to, "none", cli.config,
                           cli.error \/ s # "net", cli.logged \/ s = "net")
               /\ service' = [service EXCEPT ![s] = Partial]
               /\ marker' = [marker EXCEPT ![s] = NoMarker]
      <3>1. s = "net" /\ cli'.logged /\ cli'.half = "none" /\ cli.i = 1 /\ cli'.i = 0
        <4>1. /\ cli'.error = (cli.error \/ s # "net")
              /\ cli'.logged = (cli.logged \/ s = "net")
              /\ cli'.half = "none" /\ cli'.i = cli.i - 1
          BY <2>4 DEF CliMoves
        <4>2. s = "net"
          BY <4>1
        <4>3. cli.i = 1
          BY <1>1, <4>2 DEF Index
        <4>4. cli'.logged = (cli.logged \/ TRUE)
          BY <4>1, <4>2, Zenon
        <4>5. cli'.logged
          BY <4>4
        <4> QED BY <4>1, <4>2, <4>3, <4>5
      <3>2. /\ marker' \in [Services -> Configs \cup {NoMarker}]
            /\ marker'["net"] = NoMarker
            /\ \A t \in Services \ {"net"} : marker'[t] = marker[t]
            /\ \A t \in Static \ {"net"} : service'[t] = service[t]
        BY <2>4, <3>1, NamesAssumption DEF Inv, TypeInv, Services, Static
      <3>3. cli.i < Index("router")
        BY <3>1 DEF Index
      <3> QED BY <2>2, <3>1, <3>2, <3>3 DEF CliHalf, Services, Static
    <2> QED BY <1>1, <2>3, <2>4
  <1> QED BY <1>2, <1>3, <1>4, <1>5, <1>6, <1>7, <1>8, <1>9, <1>10, <1>11, <1>12 DEF Inv

\* Its marker is deleted.
LEMMA DownMarkerKeeps ==
    ASSUME Inv, ~raced, DownMarker, NEW s \in Static, s = StaticServices[cli.i]
    PROVE  Inv'
  <1>1. /\ cli.op \in {"down", "rollback"} /\ cli.half = "stopped" /\ cli.i = Index(s)
             /\ cli.to <= cli.i
        /\ CliMoves(cli.op, cli.i - 1, cli.to, "none", cli.config, cli.error, cli.logged)
        /\ marker' = [marker EXCEPT ![s] = NoMarker]
        /\ UNCHANGED <<pid_file, service, httpd, httpd_pid, installed, agent, faults,
             raced, overlap, torn>>
    <2>1. cli \in CliRecord /\ agent \in [Procs -> AgentRecord] /\ installed \in Configs
      BY DEF Inv, TypeInv
    <2>3. cli.op \in {"down", "rollback"} /\ cli.half = "stopped" /\ cli.i = Index(s)
            /\ cli.to <= cli.i
      BY <2>1 DEF Inv, CliShape, CliRecord, DownMarker, StaticServices, Index
    <2>4. CliMoves(cli.op, cli.i - 1, cli.to, "none", cli.config, cli.error, cli.logged)
      <3>1. cli.i > 0
        BY <2>3 DEF Index
      <3> QED BY <2>1, <3>1, CliBackward DEF DownMarker
    <2> QED BY <2>3, <2>4 DEF DownMarker, history
  <1>2. TypeInv'
    <2>1. marker' \in [Services -> Configs \cup {NoMarker}]
      BY <1>1 DEF Inv, TypeInv, Services, Static
    <2> QED BY <1>1, <2>1 DEF Inv, CliMoves, TypeInv
  <1>3. AgentShape'
    BY <1>1 DEF Inv, AgentShape, Looks
  <1>4. CliShape'
    BY <1>1 DEF Inv, Index, CliMoves, CliShape, AtPid
  <1>5. OwnsPid'
    BY <1>1 DEF Inv, CliMoves, Idle, OwnsPid, Looks
  <1>6. TornIsFault'
    BY <1>1 DEF Inv, TornIsFault
  <1>7. CliAlone'
    BY <1>1 DEF Inv, Index, CliMoves, Idle, CliAlone
  <1>8. EnteredIsUp'
    BY <1>1 DEF Inv, Position, Index, EnteredIsUp, CliAlone, HasEntered, HalfStarted
  <1>9. MarkerIsTrue'
    <2>1. cli'.half = "none" /\ CliHalf(s, "stopped")
      BY <1>1 DEF CliMoves, CliHalf
    <2>2. \A t \in Static : t # s => ~CliHalf(t, "stopped") /\ marker'[t] = marker[t]
      BY <1>1 DEF CliHalf, Static, Index
    <2>3. marker'[s] = NoMarker
      BY <1>1 DEF Inv, TypeInv, Services, Static
    <2>4. \A p \in Procs, t \in Static : HalfStopped(p, t)' <=> HalfStopped(p, t)
      BY <1>1 DEF HalfStopped
    <2> QED BY <1>1, <2>1, <2>2, <2>3, <2>4 DEF Inv, MarkerIsTrue, CliHalf
  <1>10. WebIsUp'
    BY <1>1 DEF Inv, WebIsUp
  <1>11. Restored'
    BY <1>1 DEF Inv, Index, Restored, CliAlone, TornIsFault
  <1>12. DownDone'
    <2>1. /\ cli'.op = cli.op /\ cli'.i = cli.i - 1 /\ cli'.half = "none"
               /\ cli'.error = cli.error /\ cli'.logged = cli.logged
          /\ cli.i \in {1, 2}
      BY <1>1 DEF CliMoves, Index
    <2>2. marker'[s] = NoMarker /\ (\A t \in Services : t # s => marker'[t] = marker[t])
      BY <1>1 DEF Inv, TypeInv, Services, Static
    <2>3. \A t \in Static : cli'.i < Index(t) => t = s \/ cli.i < Index(t)
      BY <1>1, <2>1 DEF Static, Index
    <2> QED BY <1>1, <2>1, <2>2, <2>3 DEF Inv, DownDone, CliHalf
  <1> QED BY <1>2, <1>3, <1>4, <1>5, <1>6, <1>7, <1>8, <1>9, <1>10, <1>11, <1>12 DEF Inv

\* The command ends.
LEMMA CliEndsKeeps ==
    ASSUME Inv, ~raced, CliEnds
    PROVE  Inv'
  <1>1. /\ cli.op \in {"down", "rollback"} /\ cli.i < cli.to
        /\ cli' \in CliRecord
        /\ cli' = Idle
        /\ UNCHANGED <<pid_file, marker, service, httpd, httpd_pid, installed, agent,
             faults, raced, overlap, torn>>
    <2> QED BY IdleRecord DEF CliEnds, host, history
  <1>2. TypeInv'
    BY <1>1 DEF Inv, TypeInv
  <1>3. AgentShape'
    BY <1>1 DEF Inv, AgentShape, Looks
  <1>4. CliShape'
    BY <1>1 DEF Idle, CliShape
  <1>5. OwnsPid'
    BY <1>1 DEF Inv, CliMoves, Idle, OwnsPid, Looks
  <1>6. TornIsFault'
    BY <1>1 DEF Inv, TornIsFault
  <1>7. CliAlone'
    BY <1>1 DEF Idle, CliAlone
  <1>8. EnteredIsUp'
    BY <1>1 DEF Inv, Position, CliRecord, EnteredIsUp, CliAlone, TypeInv, HasEntered,
       HalfStarted
  <1>9. MarkerIsTrue'
    BY <1>1 DEF Inv, Idle, CliRecord, MarkerIsTrue, CliShape, TypeInv, HalfStopped,
       CliHalf
  <1>10. WebIsUp'
    BY <1>1 DEF Inv, WebIsUp
  <1>11. Restored'
    BY <1>1 DEF Inv, CliRecord, Restored, CliAlone, TypeInv, TornIsFault
  <1>12. DownDone'
    BY <1>1 DEF Idle, DownDone
  <1> QED BY <1>2, <1>3, <1>4, <1>5, <1>6, <1>7, <1>8, <1>9, <1>10, <1>11, <1>12 DEF Inv

\* The command is killed; a marker that lies is torn.
LEMMA CliCrashKeeps ==
    ASSUME Inv, ~raced, CliCrash
    PROVE  Inv'
  <1>1. /\ cli' = Idle
        /\ cli' \in CliRecord
        /\ faults' = faults + 1
        /\ torn' = (torn \/ cli.half = "stopped")
        /\ UNCHANGED <<pid_file, marker, service, httpd, httpd_pid, installed, agent,
             raced, overlap>>
    <2> QED BY IdleRecord DEF CliCrash, Fault, host
  <1>2. TypeInv'
    BY <1>1 DEF Inv, TypeInv
  <1>3. AgentShape'
    BY <1>1 DEF Inv, AgentShape, Looks, TypeInv
  <1>4. CliShape'
    BY <1>1 DEF Idle, CliShape
  <1>5. OwnsPid'
    BY <1>1 DEF Inv, CliMoves, Idle, OwnsPid, Looks
  <1>6. TornIsFault'
    BY <1>1 DEF Inv, TornIsFault, TypeInv
  <1>7. CliAlone'
    BY <1>1 DEF Idle, CliAlone
  <1>8. EnteredIsUp'
    BY <1>1 DEF Inv, EnteredIsUp, TypeInv, HasEntered, HalfStopped, HalfStarted
  <1>9. MarkerIsTrue'
    <2>1. ~torn' => ~torn /\ \A t \in Static : ~CliHalf(t, "stopped")
      BY <1>1 DEF CliHalf
    <2>2. \A p \in Procs, t \in Static : HalfStopped(p, t)' <=> HalfStopped(p, t)
      BY <1>1 DEF HalfStopped
    <2> QED BY <1>1, <2>1, <2>2 DEF Inv, MarkerIsTrue, Idle
  <1>10. WebIsUp'
    BY <1>1 DEF Inv, WebIsUp
  <1>11. Restored'
    BY <1>1 DEF Inv, Restored, TypeInv
  <1>12. DownDone'
    BY <1>1 DEF Idle, DownDone
  <1> QED BY <1>2, <1>3, <1>4, <1>5, <1>6, <1>7, <1>8, <1>9, <1>10, <1>11, <1>12 DEF Inv

\* The command is interrupted: on the way up what it has started is taken down,
\* under an agent or not; on the way down it ends, and deletes the marker of the
\* service that it is at, which may be up in part.
LEMMA CliInterruptKeeps ==
    ASSUME Inv, ~raced, CliInterrupt
    PROVE  Inv'
  <1>1. /\ faults' = faults + 1 /\ faults \in Nat /\ torn \in BOOLEAN /\ cli \in CliRecord
        /\ cli.i \in 0 .. 3 /\ cli.to \in 0 .. 3
        /\ UNCHANGED <<pid_file, httpd, httpd_pid, installed, agent, raced, overlap>>
    BY DEF CliInterrupt, Fault, Inv, TypeInv, CliRecord
  <1>2. CASE cli.op = "up"
    <2>1. RollBack /\ UNCHANGED <<marker, service>>
      BY <1>2 DEF CliInterrupt
    <2>2. cli.i > 0 /\ cli.half # "stopped"
      BY <1>1, <1>2 DEF Inv, CliShape, AtPid
    <2>3. \/ cli' = Idle
          \/ /\ cli.i \in {2, 3}
             /\ CliMoves("rollback", cli.i - 1, 1, "none", NoMarker, FALSE, FALSE)
      BY <1>1, <2>1, <2>2, CliRollsBack
    <2>4. torn' = (torn \/ \E p \in Procs : agent[p].depth > 0)
      BY <2>1 DEF RollBack
    <2>5. /\ torn' \in BOOLEAN /\ (torn => torn') /\ faults' \in Nat /\ faults' > 0
          /\ cli'.half = "none" /\ cli' \in CliRecord
      <3>1. cli'.half = "none" /\ cli' \in CliRecord
        <4>1. CASE cli' = Idle
          BY <4>1, IdleRecord DEF Idle
        <4>2. CASE CliMoves("rollback", cli.i - 1, 1, "none", NoMarker, FALSE, FALSE)
          BY <4>2 DEF CliMoves
        <4> QED BY <2>3, <4>1, <4>2
      <3>2. torn' \in BOOLEAN /\ (torn => torn')
        BY <1>1, <2>4
      <3> QED BY <1>1, <3>1, <3>2
    <2>6. TypeInv'
      BY <1>1, <2>1, <2>5 DEF Inv, TypeInv
    <2>7. AgentShape' /\ TornIsFault'
      BY <1>1, <2>5 DEF Inv, AgentShape, TornIsFault, Looks
    <2>8. CliShape'
      BY <2>3 DEF Idle, CliMoves, CliShape
    <2>9. OwnsPid'
      BY <1>1, <2>5 DEF Inv, OwnsPid, Looks
    <2>10. CliAlone'
      <3>1. CASE cli' = Idle
        BY <3>1 DEF Idle, CliAlone
      <3>2. CASE CliMoves("rollback", cli.i - 1, 1, "none", NoMarker, FALSE, FALSE)
        <4>1. \A p \in Procs : agent[p].depth \in 0 .. 8
          BY DEF Inv, TypeInv, AgentRecord
        <4>2. ~torn' => \A p \in Procs : ~(agent[p].depth > 0)
          BY <2>4
        <4>3. ~torn' => \A p \in Procs : agent'[p].depth = 0
          BY <1>1, <4>1, <4>2
        <4> QED BY <1>1, <1>2, <3>2, <4>3 DEF Inv, CliAlone, CliMoves, Idle
      <3> QED BY <2>3, <3>1, <3>2
    <2>11. EnteredIsUp'
      BY <1>1, <2>1, <2>5 DEF Inv, EnteredIsUp, HasEntered, HalfStopped, HalfStarted
    <2>12. MarkerIsTrue'
      BY <1>1, <2>1, <2>2, <2>5 DEF Inv, MarkerIsTrue, HalfStopped, CliHalf
    <2>13. WebIsUp' /\ Restored'
      BY <1>1, <2>5 DEF Inv, WebIsUp, Restored
    <2>14. DownDone'
      BY <2>3 DEF Idle, CliMoves, DownDone
    <2> QED BY <2>6, <2>7, <2>8, <2>9, <2>10, <2>11, <2>12, <2>13, <2>14 DEF Inv
  <1>3. CASE cli.op \in {"down", "rollback"}
    <2>1. /\ cli' = Idle /\ cli.i >= cli.to /\ cli.i \in 1 .. 3 /\ cli.half # "unmarked"
      BY <1>1, <1>3 DEF CliInterrupt, Inv, CliShape, AtPid
    <2>2. PICK s \in Services :
            /\ s \in Static => cli.i = Index(s)
            /\ \/ /\ cli.half = "stopped"
                  /\ torn' = TRUE
                  /\ UNCHANGED <<marker, service>>
               \/ /\ cli.half # "stopped"
                  /\ marker' = [marker EXCEPT ![s] = NoMarker]
                  /\ \/ service' = service
                     \/ s \in Static /\ service' = [service EXCEPT ![s] = Partial]
                  /\ UNCHANGED torn
      <3>1. StaticServices[cli.i] \in Services
        BY <2>1 DEF StaticServices, Services
      <3>2. StaticServices[cli.i] \in Static => cli.i = Index(StaticServices[cli.i])
        BY <2>1 DEF StaticServices, Static, Index
      <3> QED BY <1>3, <3>1, <3>2 DEF CliInterrupt
    <2>3. /\ marker' \in [Services -> Configs \cup {NoMarker}]
          /\ service' \in [Static -> Configs \cup {Down, Partial}]
          /\ torn' \in BOOLEAN /\ (torn => torn')
          /\ \A t \in Static :
               \/ marker'[t] = marker[t] /\ service'[t] = service[t]
               \/ /\ cli.i = Index(t) /\ marker'[t] = NoMarker
                  /\ cli.half # "stopped"
      <3>1. /\ marker \in [Services -> Configs \cup {NoMarker}]
            /\ service \in [Static -> Configs \cup {Down, Partial}]
        BY DEF Inv, TypeInv
      <3>2. CASE cli.half = "stopped" /\ torn' = TRUE /\ UNCHANGED <<marker, service>>
        BY <3>1, <3>2
      <3>3. CASE /\ cli.half # "stopped" /\ UNCHANGED torn
                 /\ marker' = [marker EXCEPT ![s] = NoMarker]
                 /\ \/ service' = service
                    \/ s \in Static /\ service' = [service EXCEPT ![s] = Partial]
        <4>1. /\ marker' \in [Services -> Configs \cup {NoMarker}]
              /\ marker'[s] = NoMarker
              /\ \A t \in Services \ {s} : marker'[t] = marker[t]
          BY <3>1, <3>3
        <4>2. /\ service' \in [Static -> Configs \cup {Down, Partial}]
              /\ \A t \in Static \ {s} : service'[t] = service[t]
          BY <3>1, <3>3
        <4> QED BY <1>1, <2>2, <3>3, <4>1, <4>2 DEF Services, Static
      <3> QED BY <2>2, <3>2, <3>3
    <2>4. \/ cli.half = "stopped" /\ torn' = TRUE
          \/ cli.half # "stopped" /\ torn' = torn
      BY <2>2
    <2>5. faults' \in Nat /\ faults' > 0
      BY <1>1
    <2>6. TypeInv'
      BY <1>1, <2>1, <2>3, <2>5, IdleRecord DEF Inv, TypeInv
    <2>7. AgentShape' /\ TornIsFault'
      BY <1>1, <2>5 DEF Inv, AgentShape, TornIsFault, Looks
    <2>8. CliShape' /\ CliAlone' /\ DownDone'
      BY <2>1 DEF Idle, CliShape, CliAlone, DownDone
    <2>9. OwnsPid'
      BY <1>1, <2>1 DEF Inv, OwnsPid, Looks, Idle
    <2>10. EnteredIsUp'
      <3>1. \A t \in Static : ~overlap /\ ~torn' /\ cli.i = Index(t) =>
              \A p \in Procs : agent[p].depth = 0
        <4>1. \A t \in Static : Index(t) < 3
          BY DEF Index
        <4> QED BY <1>3, <2>3, <4>1 DEF Inv, CliAlone
      <3>2. \A p \in Procs, t \in Static : agent[p].depth = 0 => ~HasEntered(p, t)
        BY DEF HasEntered, Position
      <3>3. ~overlap => \A p \in Procs, t \in Static : ~HalfStarted(p, t)
        <4>1. cli # Idle
          BY <1>3 DEF Idle
        <4> QED BY <4>1 DEF Inv, CliAlone, AgentShape, HalfStarted
      <3> QED BY <1>1, <2>3, <3>1, <3>2, <3>3 DEF Inv, EnteredIsUp, HasEntered,
          HalfStopped, HalfStarted
    <2>11. MarkerIsTrue'
      <3>1. ~torn' => ~torn /\ \A t \in Static : ~CliHalf(t, "stopped")
        BY <2>3, <2>4 DEF CliHalf
      <3>2. \A p \in Procs, t \in Static : HalfStopped(p, t)' <=> HalfStopped(p, t)
        BY <1>1 DEF HalfStopped
      <3> QED BY <1>1, <2>1, <2>3, <3>1, <3>2 DEF Inv, MarkerIsTrue, Idle
    <2>12. WebIsUp' /\ Restored'
      BY <1>1, <2>5 DEF Inv, WebIsUp, Restored
    <2> QED BY <2>6, <2>7, <2>8, <2>9, <2>10, <2>11, <2>12 DEF Inv
  <1> QED BY <1>2, <1>3 DEF CliInterrupt

\* A new configuration in the directory of the agent changes no process.
LEMMA InstallPackageKeeps ==
    ASSUME Inv, ~raced, InstallPackage
    PROVE  Inv'
  <1>1. /\ installed' \in Configs
        /\ UNCHANGED <<pid_file, marker, service, httpd, httpd_pid, cli, agent, faults,
             raced, overlap, torn>>
    <2> QED BY DEF InstallPackage
  <1>2. TypeInv'
    BY <1>1 DEF Inv, TypeInv
  <1>3. AgentShape'
    BY <1>1 DEF Inv, AgentShape, Looks
  <1>4. CliShape'
    BY <1>1 DEF Inv, CliShape
  <1>5. OwnsPid'
    BY <1>1 DEF Inv, CliMoves, Idle, OwnsPid, Looks
  <1>6. TornIsFault'
    BY <1>1 DEF Inv, TornIsFault
  <1>7. CliAlone'
    BY <1>1 DEF Inv, CliAlone
  <1>8. EnteredIsUp'
    BY <1>1 DEF Inv, EnteredIsUp, HasEntered, HalfStopped, HalfStarted
  <1>9. MarkerIsTrue'
    BY <1>1 DEF Inv, MarkerIsTrue, HalfStopped, CliHalf
  <1>10. WebIsUp'
    BY <1>1 DEF Inv, WebIsUp
  <1>11. Restored'
    BY <1>1 DEF Inv, Restored, HalfStopped, AssertStopped
  <1>12. DownDone'
    BY <1>1 DEF Inv, DownDone, CliHalf
  <1> QED BY <1>2, <1>3, <1>4, <1>5, <1>6, <1>7, <1>8, <1>9, <1>10, <1>11, <1>12 DEF Inv

-----------------------------------------------------------------------------
(* The theorems.                                                           *)

\* On a host where nothing was started, the invariant holds.
LEMMA InvInit == Init => Inv
  <1> SUFFICES ASSUME Init PROVE Inv
    OBVIOUS
  <1>1. Off \in AgentRecord /\ Idle \in CliRecord
    BY OffRecord, IdleRecord
  <1>2. \A p \in Procs : agent[p] = Off
    BY DEF Init
  <1>3. TypeInv
    BY <1>1 DEF Init, TypeInv, Services, Static
  <1>4. /\ Off.mode = "off" /\ Off.depth = 0 /\ Off.half = "none"
             /\ Off.found = Off.initial
        /\ Off.reloading = FALSE /\ Idle.op = "none" /\ Idle.half = "none"
    BY DEF Off, Idle
  <1>5. AgentShape
    BY <1>2, <1>4 DEF AgentShape, Looks
  <1>6. CliShape /\ OwnsPid /\ TornIsFault /\ CliAlone /\ WebIsUp /\ DownDone
    <2>1. cli = Idle /\ torn = FALSE
      BY DEF Init
    <2> QED BY <1>2, <1>4, <2>1 DEF CliShape, OwnsPid, TornIsFault, CliAlone, WebIsUp,
        DownDone, Looks
  <1>7. EnteredIsUp
    BY <1>2, <1>4 DEF EnteredIsUp, HasEntered, HalfStarted, Position
  <1>8. MarkerIsTrue /\ Restored
    BY <1>4 DEF Init, MarkerIsTrue, Restored, Static
  <1> QED BY <1>3, <1>5, <1>6, <1>7, <1>8 DEF Inv

\* Every step preserves it. The lemmas are about steps before the first race,
\* where the specification ends.
LEMMA InvNext == Inv /\ [Next]_vars => Inv'
  <1> SUFFICES ASSUME Inv, [Next]_vars PROVE Inv'
    OBVIOUS
  <1>1. CASE UNCHANGED vars
    BY <1>1 DEF vars, host, history, Inv, TypeInv, AgentShape, CliShape, OwnsPid,
       TornIsFault, CliAlone, EnteredIsUp, MarkerIsTrue, WebIsUp, Restored, DownDone,
       HasEntered, HalfStopped, HalfStarted, CliHalf, AssertStopped, Looks
  <1>2. ASSUME ~raced, NEW p \in Procs, AgentNext(p) PROVE Inv'
    <2>1. EnterStatic(p) => Entering(p) \in Static
      BY DEF EnterStatic
    <2>2. WriteMarker(p) => Entering(p) \in Static
      BY DEF WriteMarker
    <2>3. LeaveStatic(p) \/ DeleteMarker(p) \/ LeaveStaticFails(p) =>
            Leaving(p) \in Static
      BY DEF LeaveStatic, DeleteMarker, LeaveStaticFails
    <2> QED BY <1>2, <2>1, <2>2, <2>3, OpenKeeps, ReadPidKeeps, TestPidKeeps,
        ClearStalePidKeeps,
        WritePidKeeps, EnterThreadKeeps, EnterWebUiKeeps, EnterStaticKeeps,
        WriteMarkerKeeps, EnterStartedKeeps, InterruptKeeps, SpinEndsKeeps,
        SpinReloadsKeeps, LeaveStartedKeeps, LeaveWebUiKeeps, LeaveThreadKeeps,
        LeaveStaticKeeps, DeleteMarkerKeeps, LeaveStaticFailsKeeps, DeletePidKeeps,
        InterruptStopKeeps, EndKeeps,
        CrashKeeps DEF AgentNext
  <1>3. ASSUME ~raced, CliNextState PROVE Inv'
    <2>1. UpStatic \/ DownStatic => StaticServices[cli.i] \in Static
      BY DEF UpStatic, DownStatic
    <2>2. UpMarker \/ DownMarker => StaticServices[cli.i] \in Static
      BY DEF UpMarker, DownMarker, Inv, CliShape, TypeInv, CliRecord, StaticServices,
         Static
    <2> QED BY <1>3, <2>1, <2>2, ServiceUpKeeps, UpStaticKeeps, UpMarkerKeeps,
        CliReadPidKeeps, CliTestPidKeeps, CliClearStalePidKeeps, UpAgentKeeps,
        ServiceDownKeeps, DownFreeKeeps, DownAgentKeeps, DownWaitKeeps, DownStaticKeeps,
        DownMarkerKeeps, CliEndsKeeps, CliCrashKeeps, CliInterruptKeeps,
        InstallPackageKeeps DEF CliNextState
  <1> QED BY <1>1, <1>2, <1>3 DEF Next

\* The invariant is one.
THEOREM InvCorrect == Spec => []Inv
  BY InvInit, InvNext, PTL DEF Spec

\* At most one agent is past the check of the PID file, however many are
\* started, crash, or are looked for by the command, as long as no two of the
\* agents and the command were between a look at the file and its use at once.
THEOREM OneAgentCorrect == Spec => []OneAgent
  <1>1. Inv => OneAgent
    BY DEF Inv, OwnsPid, OneAgent
  <1> QED BY <1>1, InvCorrect, PTL

\* An agent that runs has its network, its router and its web server, with its
\* own configuration: also the ones it took over on the word of a marker.
THEOREM RunningServicesCorrect == Spec => []RunningHasServices
  <1>1. Inv => RunningHasServices
    BY DEF Inv, AgentShape, EnteredIsUp, WebIsUp, RunningHasServices, HasEntered,
       HalfStopped, Position
  <1> QED BY <1>1, InvCorrect, PTL

\* An agent that ends because it is done or interrupted, after no fault, leaves
\* every static service as it found it, however often it was reloaded.
THEOREM RestoredCorrect == Spec => []StaticServicesRestored
  <1>1. ASSUME Inv, ~raced, ~overlap, faults = 0, NEW p \in Procs, Leaving(p) = "pid",
               ~AssertStopped(p), NEW s \in Static, Runnable(s)
        PROVE  IF s \in agent[p].found
                      THEN marker[s] = agent[p].config /\ service[s] = agent[p].config
                      ELSE ~active(s) /\ service[s] = Down
    <2>1. agent[p].mode = "stopping" /\ agent[p].depth = 1
      BY <1>1, LeavingAt DEF Inv
    <2>2. agent[p].depth < Position(s)
      BY <2>1 DEF Position
    <2>3. agent[p].found = agent[p].initial
      BY <1>1 DEF Inv, AgentShape
    <2> QED BY <1>1, <2>1, <2>2, <2>3 DEF Inv, Restored, active
  <1>2. Inv => StaticServicesRestored
    BY <1>1 DEF StaticServicesRestored
  <1> QED BY <1>2, InvCorrect, PTL

\* When `uno service down` is through without an error, the services from its
\* target on have no markers and are down, the network unless the command logged
\* that it could not stop it, and no agent is left: whatever it found.
THEOREM DownCorrect == Spec => []DownIsDown
  <1>1. ASSUME Inv, ~raced, ~overlap, cli.op = "down", cli.i < cli.to, ~cli.error
        PROVE  /\ \A j \in cli.to .. Len(StaticServices) : ~active(StaticServices[j])
               /\ \A j \in cli.to .. Len(StaticServices) :
                    LET s == StaticServices[j] IN
                    s \in Static /\ ~(s = "net" /\ cli.logged) => service[s] = Down
               /\ \A p \in Procs : agent[p].depth = 0
    <2>1. cli.i < 3 /\ cli.to \in 1 .. 3 /\ cli.i \in 0 .. 3
      BY <1>1 DEF Inv, TypeInv, CliRecord, CliShape
    <2>2. \A p \in Procs : agent[p].depth = 0
      BY <1>1, <2>1 DEF Inv, CliAlone
    <2>3. marker["agent"] = NoMarker /\ \A s \in Static : cli.i < Index(s) =>
            marker[s] = NoMarker /\ (service[s] = Down \/ (s = "net" /\ cli.logged))
      BY <1>1, <2>1 DEF Inv, DownDone
    <2>4. ASSUME NEW j \in cli.to .. 3
          PROVE  /\ ~active(StaticServices[j])
                 /\ StaticServices[j] \in Static
                      /\ ~(StaticServices[j] = "net" /\ cli.logged) =>
                      service[StaticServices[j]] = Down
      BY <1>1, <2>1, <2>3 DEF StaticServices, Static, Index, active
    <2> QED BY <2>2, <2>4 DEF StaticServices
  <1>2. Inv => DownIsDown
    BY <1>1 DEF DownIsDown
  <1> QED BY <1>2, InvCorrect, PTL

=============================================================================
