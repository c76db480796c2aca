--------------------------- MODULE WindowsService ---------------------------
(***************************************************************************)
(* win32/service.hpp: Install and Uninstall, and the WindowsService class. *)
(*                                                                         *)
(* A running service has two threads.  "svc" executes ServiceMain; "ctl",  *)
(* the thread that called Run, executes ControlHandler whenever the        *)
(* service control manager (SCM) has a control for it.  They share the     *)
(* member serviceStatus, of which only dwCurrentState changes after the    *)
(* first report, and the event handle, without a lock.                     *)
(*                                                                         *)
(* SetServiceStatus is two steps: it reads the struct behind the pointer,  *)
(* then the SCM takes what was read.  The first STOPPED the SCM takes      *)
(* closes the status handle: a later call has no effect or ends the        *)
(* process (the documented contract of SetServiceStatus).                  *)
(***************************************************************************)
EXTENDS Naturals

CONSTANT MaxControls        \* bound: controls the SCM delivers

ASSUME MaxControlsAssumption == MaxControls \in Nat

ServiceThread == {"svc", "ctl"}
State == {"START_PENDING", "RUNNING", "STOP_PENDING", "STOPPED"}
NoState == "none"
Control == {"STOP", "SHUTDOWN", "INTERROGATE"}

\* Mutant: the default label of the switch falls through into the first two.
StopsAny(c) == c \in Control

\* The controls the first two case labels of ControlHandler select.
Stops(c) == c \in {"STOP", "SHUTDOWN"}

VARIABLES
    installed,  \* the SCM database has the service
    said,       \* what the last Install or Uninstall printed or returned
    proc,       \* the process, seen from Run
    pc,         \* the next statement of each thread
    cur,        \* serviceStatus.dwCurrentState
    msg,        \* what a SetServiceStatus in progress has read, per thread
    event,      \* wrapper->stopEvent: NULL, or a manual-reset event
    shown,      \* the state the SCM shows: the last it took
    controls,   \* how many controls the SCM has delivered
    stopSent,   \* history: some of them were stop or shutdown
    failed      \* history: CreateEvent failed

admin == <<installed, said>>
vars == <<installed, said, proc, pc, cur, msg, event, shown, controls, stopSent, failed>>

SvcLabel == {"register", "init", "report_start", "create", "fail", "report_fail", "run",
             "report_run", "loop", "stop", "report_stop", "done", "unregistered"}
CtlLabel == {"idle", "pending", "report_pending", "signal", "stopped", "report_stopped"}

Init ==
    /\ installed = FALSE
    /\ said = "nothing"
    /\ proc = "none"
    /\ pc = [svc |-> "register", ctl |-> "idle"]
    /\ cur = NoState
    /\ msg = [t \in ServiceThread |-> NoState]
    /\ event = "null"
    /\ shown = NoState
    /\ controls = 0
    /\ stopSent = FALSE
    /\ failed = FALSE

(***************************************************************************)
(* Install and Uninstall, called by an administrator's process.            *)
(***************************************************************************)
AdminCall(result) ==
    /\ said' = result
    /\ UNCHANGED <<proc, pc, cur, msg, event, shown, controls, stopSent, failed>>

\* OpenSCManager and CreateServiceW may fail for reasons of their own; the
\* latter always does when the name is taken.
Install ==
    \/ installed' = TRUE /\ installed = FALSE /\ AdminCall("installed")
    \/ UNCHANGED installed /\ AdminCall("failed")

\* OpenServiceW asks for the right to delete, and both handles are closed.
Uninstall ==
    \/ installed /\ UNCHANGED installed /\ AdminCall("uninstalled")
    \/ UNCHANGED installed /\ AdminCall("failed")

(***************************************************************************)
(* The process.                                                            *)
(***************************************************************************)
Alive == proc \in {"dispatching", "returned"}

\* Run hands its thread to the dispatcher, or, outside a service start,
\* fails and returns.
Run ==
    /\ proc = "none"
    /\ proc' = IF installed THEN "dispatching" ELSE "returned"
    /\ UNCHANGED <<admin, pc, cur, msg, event, shown, controls, stopSent, failed>>

\* The dispatcher returns when its one service has stopped.
DispatcherReturns ==
    /\ proc = "dispatching" /\ shown = "STOPPED" /\ pc["ctl"] = "idle"
    /\ proc' = "returned"
    /\ UNCHANGED <<admin, pc, cur, msg, event, shown, controls, stopSent, failed>>

\* The caller of Run returns from main, whatever the service thread does.
ProcessExits ==
    /\ proc = "returned"
    /\ proc' = "exited"
    /\ UNCHANGED <<admin, pc, cur, msg, event, shown, controls, stopSent, failed>>

(***************************************************************************)
(* Statements the two threads share.                                       *)
(***************************************************************************)
Goto(t, from, to) ==
    /\ Alive
    /\ pc[t] = from
    /\ pc' = [pc EXCEPT ![t] = to]

Assign(t, from, state, to) ==
    /\ Goto(t, from, to)
    /\ cur' = state
    /\ UNCHANGED <<admin, proc, msg, event, shown, controls, stopSent, failed>>

ReadStatus(t, from) ==
    /\ Goto(t, from, from)
    /\ msg[t] = NoState
    /\ msg' = [msg EXCEPT ![t] = cur]
    /\ UNCHANGED <<admin, proc, cur, event, shown, controls, stopSent, failed>>

ScmTakes(t, from, to) ==
    /\ Goto(t, from, to)
    /\ msg[t] # NoState
    /\ msg' = [msg EXCEPT ![t] = NoState]
    /\ shown' = IF shown = "STOPPED" THEN shown ELSE msg[t]
    /\ UNCHANGED <<admin, proc, cur, event, controls, stopSent, failed>>

ClosedHandleCrashes(t, from) ==
    /\ Goto(t, from, from)
    /\ msg[t] # NoState
    /\ shown = "STOPPED"
    /\ proc' = "exited"
    /\ UNCHANGED <<admin, cur, msg, event, shown, controls, stopSent, failed>>

SetServiceStatus(t, from, to) ==
    \/ ReadStatus(t, from)
    \/ ScmTakes(t, from, to)
    \/ ClosedHandleCrashes(t, from)

(***************************************************************************)
(* ServiceMain.                                                            *)
(***************************************************************************)
RegisterHandler ==
    /\ proc = "dispatching"
    /\ Goto("svc", "register", "init") \/ Goto("svc", "register", "unregistered")
    /\ UNCHANGED <<admin, proc, cur, msg, event, shown, controls, stopSent, failed>>

CreateStopEvent ==
    /\ \/ Goto("svc", "create", "run") /\ event' = "unset" /\ failed' = failed
       \/ Goto("svc", "create", "fail") /\ event' = "null" /\ failed' = TRUE
    /\ UNCHANGED <<admin, proc, cur, msg, shown, controls, stopSent>>

\* EventLoop is the user's: it returns once it has seen the event ...
LoopSeesStop ==
    /\ event = "set"
    /\ Goto("svc", "loop", "stop")
    /\ UNCHANGED <<admin, proc, cur, msg, event, shown, controls, stopSent, failed>>

\* ... and may return for reasons of its own.
LoopEndsItself ==
    /\ Goto("svc", "loop", "stop")
    /\ UNCHANGED <<admin, proc, cur, msg, event, shown, controls, stopSent, failed>>

ServiceMain ==
    \/ RegisterHandler
    \/ Assign("svc", "init", "START_PENDING", "report_start")
    \/ SetServiceStatus("svc", "report_start", "create")
    \/ CreateStopEvent
    \/ Assign("svc", "fail", "STOPPED", "report_fail")
    \/ SetServiceStatus("svc", "report_fail", "done")
    \/ Assign("svc", "run", "RUNNING", "report_run")
    \/ SetServiceStatus("svc", "report_run", "loop")
    \/ LoopSeesStop
    \/ Assign("svc", "stop", "STOPPED", "report_stop")
    \/ SetServiceStatus("svc", "report_stop", "done")

(***************************************************************************)
(* ControlHandler.                                                         *)
(***************************************************************************)

\* The SCM has seen a report that accepts stop and shutdown; while the
\* service is starting it delivers nothing else.
ScmDelivers(c) ==
    /\ proc = "dispatching"
    /\ controls < MaxControls
    /\ \/ shown = "RUNNING"
       \/ shown = "START_PENDING" /\ c = "STOP"
    /\ controls' = controls + 1

\* Mutant: the handler stores the control where the state belongs.
ControlHandlerStoresCode(c) ==
    /\ ScmDelivers(c)
    /\ pc["ctl"] = "idle"
    /\ pc' = [pc EXCEPT !["ctl"] = IF Stops(c) THEN "pending" ELSE "idle"]
    /\ cur' = c
    /\ stopSent' = (stopSent \/ c \in {"STOP", "SHUTDOWN"})
    /\ UNCHANGED <<admin, proc, msg, event, shown, failed>>

ControlHandler(c) ==
    /\ ScmDelivers(c)
    /\ pc["ctl"] = "idle"
    /\ pc' = [pc EXCEPT !["ctl"] = IF Stops(c) THEN "pending" ELSE "idle"]
    /\ stopSent' = (stopSent \/ c \in {"STOP", "SHUTDOWN"})
    /\ UNCHANGED <<admin, proc, cur, msg, event, shown, failed>>

\* Mutant: the handler reports and forgets to set the event.
SignalStopUnset ==
    /\ Goto("ctl", "signal", "stopped")
    /\ UNCHANGED <<admin, proc, cur, msg, event, shown, controls, stopSent, failed>>

\* Mutant: the handler leaves the report of STOPPED to ServiceMain.
SignalStopOnly ==
    /\ Goto("ctl", "signal", "idle")
    /\ event' = IF event = "null" THEN "null" ELSE "set"
    /\ UNCHANGED <<admin, proc, cur, msg, shown, controls, stopSent, failed>>

\* SetEvent fails on a NULL handle; the code does not look at its result.
SignalStop ==
    /\ Goto("ctl", "signal", "stopped")
    /\ event' = IF event = "null" THEN "null" ELSE "set"
    /\ UNCHANGED <<admin, proc, cur, msg, shown, controls, stopSent, failed>>

HandlerSteps ==
    \/ Assign("ctl", "pending", "STOP_PENDING", "report_pending")
    \/ SetServiceStatus("ctl", "report_pending", "signal")
    \/ SignalStop
    \/ Assign("ctl", "stopped", "STOPPED", "report_stopped")
    \/ SetServiceStatus("ctl", "report_stopped", "idle")

Next ==
    \/ Install
    \/ Uninstall
    \/ Run
    \/ DispatcherReturns
    \/ ProcessExits
    \/ ServiceMain
    \/ LoopEndsItself
    \/ \E c \in Control : ControlHandler(c)
    \/ HandlerSteps

\* The operating system runs both threads; it starts and ends no process,
\* delivers no control and ends no event loop because it should.
Fairness == WF_vars(ServiceMain) /\ WF_vars(HandlerSteps) /\ WF_vars(DispatcherReturns)

Spec == Init /\ [][Next]_vars /\ Fairness

\* The same with a caller that does return from main after Run.
PromptSpec == Spec /\ WF_vars(ProcessExits)

(***************************************************************************)
(* Properties.                                                             *)
(***************************************************************************)

\* Every variable has its type, and a thread has a status in its hands only
\* while it is inside SetServiceStatus.
TypeOK ==
    /\ installed \in BOOLEAN
    /\ said \in {"nothing", "installed", "uninstalled", "failed"}
    /\ proc \in {"none", "dispatching", "returned", "exited"}
    /\ pc \in [ServiceThread -> SvcLabel \cup CtlLabel]
    /\ pc["svc"] \in SvcLabel /\ pc["ctl"] \in CtlLabel
    /\ cur \in State \cup {NoState}
    /\ msg \in [ServiceThread -> State \cup {NoState}]
    /\ \A t \in ServiceThread : msg[t] # NoState =>
         pc[t] \in {"report_start", "report_fail", "report_run", "report_stop",
                   "report_pending", "report_stopped"}
    /\ event \in {"null", "unset", "set"}
    /\ shown \in State \cup {NoState}
    /\ controls \in 0 .. MaxControls
    /\ stopSent \in BOOLEAN /\ failed \in BOOLEAN

\* Nobody sees a service stop for nothing: the SCM shows STOPPED only after
\* a stop or shutdown was delivered, the event could not be created, or the
\* event loop returned, in whatever order the threads' reports arrive.
StoppedHasCause ==
    shown = "STOPPED" => stopSent \/ failed \/ pc["svc"] \in {"report_stop", "done"}

\* However the writes and the reports of the two threads interleave, once
\* ServiceMain has returned and no handler runs, the SCM shows STOPPED: no
\* finished service is left shown as running or stopping.
FinishedIsReported ==
    pc["svc"] = "done" /\ pc["ctl"] = "idle" => shown = "STOPPED"

\* A stop signalled after the event exists ends ServiceMain, or the process
\* is gone before.
StopEndsLoop ==
    (pc["ctl"] = "signal" /\ event # "null") ~> (pc["svc"] = "done" \/ proc = "exited")

(***************************************************************************)
(* What the comments of the code say and the code does not do.             *)
(***************************************************************************)

\* Comments at lines 205 and 223: STOPPED says that the event loop has been
\* stopped.
StoppedMeansReturned == shown = "STOPPED" /\ Alive => pc["svc"] # "loop"

\* Comment at line 222: the handler notifies the service, which then stops.
NotifiedServiceStops ==
    pc["ctl"] = "signal" ~> (pc["svc"] = "done" \/ proc = "exited")
=============================================================================
