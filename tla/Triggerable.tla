----------------------------- MODULE Triggerable -----------------------------
(***************************************************************************)
(* A service thread that runs a handler when it is triggered, or when it   *)
(* was not for a while (agent/triggerable.py).  The reachability tester of *)
(* a cell's agent is one: the agent's main thread triggers it from its     *)
(* event handlers, starts it with the agent and stops it on the way out.   *)
(*                                                                         *)
(* The two threads share a flag under a lock, a bounded semaphore that is  *)
(* released outside of that lock, and an unprotected "active" flag.  Each  *)
(* step below touches one of them.  Time is left out: a timeout may happen *)
(* whenever the semaphore is not available.                                *)
(***************************************************************************)
EXTENDS Naturals

VARIABLES
    sem,        \* value of _trigger_sem, a BoundedSemaphore(1)
    triggered,  \* _triggered, under _state_lock
    active,     \* _service_active
    main,       \* where the main thread is
    service,    \* where the service thread is
    got,        \* the service thread's local "triggered"
    due,        \* trigger_delay >= max_trigger_delay, when it was read
    requested   \* trigger() was called and no handler has started since

vars == <<sem, triggered, active, main, service, got, due, requested>>

MainStates == {"new", "idle", "release", "raised",
               "stop_trigger", "stop_release", "join", "stopped"}
ServiceStates == {"new", "check", "acquire", "read", "decide", "handle", "exited"}

\* __init__ acquires the semaphore at once.
Init ==
    /\ sem = 0
    /\ triggered = FALSE
    /\ active = FALSE
    /\ main = "new"
    /\ service = "new"
    /\ got = FALSE
    /\ due = FALSE
    /\ requested = FALSE

-----------------------------------------------------------------------------
(* The main thread.                                                        *)

\* start_trigger_thread
Start ==
    /\ main = "new"
    /\ active' = TRUE
    /\ main' = "idle"
    /\ service' = "check"
    /\ UNCHANGED <<sem, triggered, got, due, requested>>

\* trigger(), up to the end of its critical section.
Trigger ==
    /\ main = "idle"
    /\ requested' = TRUE
    /\ triggered' = TRUE
    /\ main' = IF triggered THEN "idle" ELSE "release"
    /\ UNCHANGED <<sem, active, service, got, due>>

\* Mutation of Release: it is skipped.
NoRelease ==
    /\ main = "release"
    /\ main' = "idle"
    /\ UNCHANGED <<sem, triggered, active, service, got, due, requested>>

\* trigger(), the release: a bounded semaphore raises ValueError at its limit.
Release ==
    /\ main = "release"
    /\ \/ sem = 0 /\ sem' = 1 /\ main' = "idle"
       \/ sem = 1 /\ sem' = 1 /\ main' = "raised"
    /\ UNCHANGED <<triggered, active, service, got, due, requested>>

\* stop_trigger_thread, when the agent's contexts exit: on a request to stop,
\* or because of an exception that a handler raised.
Stop ==
    /\ main \in {"idle", "raised"}
    /\ active' = FALSE
    /\ main' = "stop_trigger"
    /\ UNCHANGED <<sem, triggered, service, got, due, requested>>

StopTrigger ==
    /\ main = "stop_trigger"
    /\ triggered' = TRUE
    /\ main' = IF triggered THEN "join" ELSE "stop_release"
    /\ UNCHANGED <<sem, active, service, got, due, requested>>

\* If the release raises, stop_trigger_thread does not wait for the thread.
StopRelease ==
    /\ main = "stop_release"
    /\ \/ sem = 0 /\ sem' = 1 /\ main' = "join"
       \/ sem = 1 /\ sem' = 1 /\ main' = "stopped"
    /\ UNCHANGED <<triggered, active, service, got, due, requested>>

Join ==
    /\ main = "join"
    /\ service = "exited"
    /\ main' = "stopped"
    /\ UNCHANGED <<sem, triggered, active, service, got, due, requested>>

-----------------------------------------------------------------------------
(* The service thread: run().                                              *)

Check ==
    /\ service = "check"
    /\ service' = IF active THEN "acquire" ELSE "exited"
    /\ UNCHANGED <<sem, triggered, active, main, got, due, requested>>

\* The delay since the last handler may have passed in the meantime.
Acquire ==
    /\ service = "acquire"
    /\ sem = 1
    /\ sem' = 0
    /\ due' \in BOOLEAN
    /\ service' = "read"
    /\ UNCHANGED <<triggered, active, main, got, requested>>

\* The last handler started before this wait did.
Timeout ==
    /\ service = "acquire"
    /\ sem = 0
    /\ due' = TRUE
    /\ service' = "read"
    /\ UNCHANGED <<sem, triggered, active, main, got, requested>>

Read ==
    /\ service = "read"
    /\ got' = triggered
    /\ triggered' = FALSE
    /\ service' = "decide"
    /\ UNCHANGED <<sem, active, main, due, requested>>

\* Mutation of Decide: only the delay counts.
DecideOnDelay ==
    /\ service = "decide"
    /\ \/ (~active \/ ~due) /\ service' = "check" /\ UNCHANGED requested
       \/ active /\ due /\ service' = "handle" /\ requested' = FALSE
    /\ UNCHANGED <<sem, triggered, active, main, got, due>>

Decide ==
    /\ service = "decide"
    /\ \/ /\ ~active \/ ~(got \/ due)
          /\ service' = "check"
          /\ UNCHANGED requested
       \/ /\ active /\ (got \/ due)
          /\ service' = "handle"
          /\ requested' = FALSE
    /\ UNCHANGED <<sem, triggered, active, main, got, due>>

\* _handle_trigger returns.
Handle ==
    /\ service = "handle"
    /\ service' = "check"
    /\ UNCHANGED <<sem, triggered, active, main, got, due, requested>>

\* An exception ends the thread.
HandleFails ==
    /\ service = "handle"
    /\ active' = FALSE
    /\ service' = "exited"
    /\ UNCHANGED <<sem, triggered, main, got, due, requested>>

Main == Start \/ Trigger \/ Release \/ Stop \/ StopTrigger \/ StopRelease \/ Join
Service == Check \/ Acquire \/ Timeout \/ Read \/ Decide \/ Handle \/ HandleFails

Next == Main \/ Service

Spec == Init /\ [][Next]_vars

\* A call that the main thread has started goes on, and so does the service
\* thread. No one relies on a timeout.
Fairness ==
    /\ WF_vars(Release) /\ WF_vars(StopTrigger) /\ WF_vars(StopRelease) /\ WF_vars(Join)
    /\ WF_vars(Check) /\ WF_vars(Acquire) /\ WF_vars(Read) /\ WF_vars(Decide)
    /\ WF_vars(Handle \/ HandleFails)

FairSpec == Spec /\ Fairness

-----------------------------------------------------------------------------
(* Properties.                                                             *)

\* Every variable has its type; the semaphore stays within its bound.
TypeOK ==
    /\ sem \in {0, 1}
    /\ triggered \in BOOLEAN
    /\ active \in BOOLEAN
    /\ main \in MainStates
    /\ service \in ServiceStates
    /\ got \in BOOLEAN
    /\ due \in BOOLEAN
    /\ requested \in BOOLEAN

\* A trigger that is queued wakes the service thread without a timeout:
\* once trigger() has returned, the semaphore is available, or the thread
\* has just taken it.
WakeupNotLost ==
    triggered /\ main \notin {"release", "stop_release"} => sem = 1 \/ service = "read"

\* After a call of trigger(), also one that finds a trigger queued or the
\* handler running, the handler starts once more, unless the thread is
\* stopped or its handler failed.
TriggerServed == requested ~> (~requested \/ ~active)

=============================================================================
