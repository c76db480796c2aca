---------------------------- MODULE Win32Proofs ----------------------------
(***************************************************************************)
(* Proofs about the Windows side: the service skeleton for every number of *)
(* controls, the thread object for any number of starts, any clock and any *)
(* arguments of log::limit, and the dynamic modules for any objects,       *)
(* libraries and calls.                                                    *)
(***************************************************************************)
EXTENDS WindowsService, ThreadObject, DynamicModules, TLAPS

(***************************************************************************)
(* The service.                                                            *)
(***************************************************************************)
Cause == stopSent \/ failed \/ pc["svc"] \in {"report_stop", "done"}

\* Where STOPPED may be found, and which thread may be about to write it.
CauseInv ==
    /\ cur = "STOPPED" => Cause
    /\ shown = "STOPPED" => Cause
    /\ \A t \in ServiceThread : msg[t] = "STOPPED" => Cause
    /\ pc["svc"] \in {"fail", "report_fail"} => failed
    /\ pc["ctl"] # "idle" => stopSent

\* Both threads have executed their last assignment of dwCurrentState (a
\* handler that is not running has none ahead).
BothAssigned ==
    /\ pc["svc"] \in {"report_fail", "report_stop", "done"}
    /\ pc["ctl"] \in {"report_stopped", "idle"}

\* Thread t is in its last report and has read STOPPED, or will.
LastReport(t) ==
    /\ pc[t] \in {"report_fail", "report_stop", "report_stopped"}
    /\ msg[t] \in {NoState, "STOPPED"}

\* The report of whichever thread assigned last is still on its way, or in.
ReportInv ==
    BothAssigned =>
        /\ cur = "STOPPED"
        /\ shown = "STOPPED" \/ \E t \in ServiceThread : LastReport(t)

IInv == TypeOK /\ CauseInv /\ ReportInv

\* The initial state satisfies the invariant: nothing is assigned or shown.
LEMMA InitInv == Init => IInv
  <1> SUFFICES ASSUME Init PROVE IInv
      OBVIOUS
  <1>1. TypeOK
    <2>1. /\ pc \in [ServiceThread -> SvcLabel \cup CtlLabel]
          /\ pc["svc"] \in SvcLabel /\ pc["ctl"] \in CtlLabel
        BY DEF Init, ServiceThread, SvcLabel, CtlLabel
    <2>2. /\ msg \in [ServiceThread -> State \cup {NoState}]
          /\ \A t \in ServiceThread : msg[t] = NoState
        BY DEF Init
    <2>3. controls \in 0 .. MaxControls
        BY MaxControlsAssumption DEF Init
    <2> QED  BY <2>1, <2>2, <2>3 DEF Init, TypeOK
  <1>2. CauseInv
      BY DEF Init, CauseInv, ServiceThread, NoState
  <1>3. ReportInv
      BY DEF Init, ReportInv, BothAssigned
  <1> QED  BY <1>1, <1>2, <1>3 DEF IInv

\* The calls of SetServiceStatus: thread, label of the call, label after it.
Calls == {<<"svc", "report_start", "create">>, <<"svc", "report_fail", "done">>,
          <<"svc", "report_run", "loop">>, <<"svc", "report_stop", "done">>,
          <<"ctl", "report_pending", "signal">>, <<"ctl", "report_stopped", "idle">>}

\* A call of SetServiceStatus preserves the invariant: what it reads is what
\* the last assignment left, and the SCM keeps a STOPPED it has taken.
LEMMA ReportStep ==
  ASSUME NEW t, NEW from, NEW to, <<t, from, to>> \in Calls,
         IInv, SetServiceStatus(t, from, to)
  PROVE  IInv'
  <1>1. CASE ReadStatus(t, from)
    <2>1. TypeOK'
        BY <1>1 DEF IInv, TypeOK, ReadStatus, Goto, Calls, ServiceThread, SvcLabel, CtlLabel, admin
    <2>2. CauseInv'
        BY <1>1 DEF IInv, TypeOK, CauseInv, Cause, ReadStatus, Goto, Calls, ServiceThread,
                    SvcLabel, CtlLabel, admin
    <2>3. ReportInv'
        BY <1>1 DEF IInv, TypeOK, ReportInv, BothAssigned, LastReport, ReadStatus, Goto,
                    Calls, ServiceThread, SvcLabel, CtlLabel, admin, NoState
    <2> QED  BY <2>1, <2>2, <2>3 DEF IInv
  <1>2. CASE ScmTakes(t, from, to)
    <2>1. TypeOK'
        BY <1>2 DEF IInv, TypeOK, ScmTakes, Goto, Calls, ServiceThread, SvcLabel, CtlLabel, admin
    <2>2. CauseInv'
        BY <1>2 DEF IInv, TypeOK, CauseInv, Cause, ScmTakes, Goto, Calls, ServiceThread,
                    SvcLabel, CtlLabel, admin, NoState
    <2>3. ReportInv'
        BY <1>2 DEF IInv, TypeOK, ReportInv, BothAssigned, LastReport, ScmTakes, Goto,
                    Calls, ServiceThread, SvcLabel, CtlLabel, admin, NoState
    <2> QED  BY <2>1, <2>2, <2>3 DEF IInv
  <1>3. CASE ClosedHandleCrashes(t, from)
    <2>1. TypeOK'
        BY <1>3 DEF IInv, TypeOK, ClosedHandleCrashes, Goto, Calls, ServiceThread, SvcLabel,
                    CtlLabel, admin
    <2>2. CauseInv' /\ ReportInv'
        BY <1>3 DEF IInv, TypeOK, CauseInv, Cause, ReportInv, BothAssigned, LastReport,
                    ClosedHandleCrashes, Goto, Calls, ServiceThread, SvcLabel, CtlLabel, admin
    <2> QED  BY <2>1, <2>2 DEF IInv
  <1> QED  BY <1>1, <1>2, <1>3 DEF SetServiceStatus

\* The assignments of dwCurrentState: thread, label, state, label after it.
Assignments == {<<"svc", "init", "START_PENDING", "report_start">>,
                <<"svc", "fail", "STOPPED", "report_fail">>,
                <<"svc", "run", "RUNNING", "report_run">>,
                <<"svc", "stop", "STOPPED", "report_stop">>,
                <<"ctl", "pending", "STOP_PENDING", "report_pending">>,
                <<"ctl", "stopped", "STOPPED", "report_stopped">>}

\* An assignment of dwCurrentState preserves the invariant: the thread that
\* assigns last is then in its last report and has read nothing yet.
LEMMA AssignStep ==
  ASSUME NEW t, NEW from, NEW state, NEW to, <<t, from, state, to>> \in Assignments,
         IInv, Assign(t, from, state, to)
  PROVE  IInv'
  <1>1. TypeOK'
      BY DEF IInv, TypeOK, Assign, Goto, Assignments, ServiceThread, State, SvcLabel, CtlLabel,
             admin, NoState
  <1>2. CauseInv'
      BY DEF IInv, TypeOK, CauseInv, Cause, Assign, Goto, Assignments, ServiceThread, SvcLabel,
             CtlLabel, admin
  <1>3. msg[t] = NoState
      BY DEF IInv, TypeOK, Assign, Goto, Assignments, ServiceThread
  <1>4. ReportInv'
      BY <1>3 DEF IInv, TypeOK, ReportInv, BothAssigned, LastReport, Assign, Goto,
                  Assignments, ServiceThread, SvcLabel, CtlLabel, admin
  <1> QED  BY <1>1, <1>2, <1>4 DEF IInv

\* The remaining steps preserve the invariant: they assign no state and take
\* no report, and only ControlHandler and CreateStopEvent lead a thread to
\* where an assignment is ahead of it.
LEMMA OtherStep ==
  ASSUME IInv,
         \/ Install \/ Uninstall \/ Run \/ DispatcherReturns \/ ProcessExits
         \/ RegisterHandler \/ CreateStopEvent \/ LoopSeesStop \/ LoopEndsItself
         \/ \E c \in Control : ControlHandler(c)
         \/ SignalStop \/ UNCHANGED vars
  PROVE  IInv'
  <1>1. CASE Install \/ Uninstall \/ Run \/ DispatcherReturns \/ ProcessExits \/ UNCHANGED vars
    <2>1. TypeOK'
        BY <1>1 DEF IInv, TypeOK, Install, Uninstall, AdminCall, Run, DispatcherReturns, ProcessExits,
                    admin, vars
    <2>2. UNCHANGED <<pc, cur, msg, shown, stopSent, failed>>
        BY <1>1 DEF Install, Uninstall, AdminCall, Run, DispatcherReturns, ProcessExits,
                    admin, vars
    <2>3. CauseInv' /\ ReportInv'
        BY <2>2 DEF IInv, CauseInv, Cause, ReportInv, BothAssigned, LastReport
    <2> QED  BY <2>1, <2>3 DEF IInv
  <1>2. CASE RegisterHandler \/ LoopSeesStop \/ LoopEndsItself
    <2>1. TypeOK'
        BY <1>2 DEF IInv, TypeOK, RegisterHandler, LoopSeesStop, LoopEndsItself, Goto, admin, ServiceThread, SvcLabel, CtlLabel
    <2>2. CauseInv'
        BY <1>2 DEF IInv, TypeOK, CauseInv, Cause, RegisterHandler, LoopSeesStop, LoopEndsItself, Goto, admin,
                    ServiceThread, SvcLabel, CtlLabel
    <2>3. ReportInv'
        BY <1>2 DEF IInv, TypeOK, ReportInv, BothAssigned, LastReport, RegisterHandler, LoopSeesStop, LoopEndsItself,
                    Goto, admin, ServiceThread, SvcLabel, CtlLabel
    <2> QED  BY <2>1, <2>2, <2>3 DEF IInv
  <1>3. CASE CreateStopEvent
    <2>1. TypeOK'
      <3>1. CASE event' = "unset" /\ failed' = failed /\ Goto("svc", "create", "run")
        BY <1>3, <3>1 DEF IInv, TypeOK, CreateStopEvent, Goto, admin, ServiceThread, SvcLabel, CtlLabel
      <3>2. CASE event' = "null" /\ failed' = TRUE /\ Goto("svc", "create", "fail")
        BY <1>3, <3>2 DEF IInv, TypeOK, CreateStopEvent, Goto, admin, ServiceThread, SvcLabel, CtlLabel
      <3> QED
        BY <1>3, <3>1, <3>2 DEF CreateStopEvent
    <2>2. CauseInv'
        BY <1>3 DEF IInv, TypeOK, CauseInv, Cause, CreateStopEvent, Goto, admin,
                    ServiceThread, SvcLabel, CtlLabel
    <2>3. ReportInv'
        BY <1>3 DEF IInv, TypeOK, ReportInv, BothAssigned, LastReport, CreateStopEvent,
                    Goto, admin, ServiceThread, SvcLabel, CtlLabel
    <2> QED  BY <2>1, <2>2, <2>3 DEF IInv
  <1>4. CASE SignalStop
    <2>1. TypeOK'
        BY <1>4 DEF IInv, TypeOK, SignalStop, Goto, admin, ServiceThread, SvcLabel, CtlLabel
    <2>2. CauseInv'
        BY <1>4 DEF IInv, TypeOK, CauseInv, Cause, SignalStop, Goto, admin,
                    ServiceThread, SvcLabel, CtlLabel
    <2>3. ReportInv'
        BY <1>4 DEF IInv, TypeOK, ReportInv, BothAssigned, LastReport, SignalStop,
                    Goto, admin, ServiceThread, SvcLabel, CtlLabel
    <2> QED  BY <2>1, <2>2, <2>3 DEF IInv
  <1>5. ASSUME NEW c \in Control, ControlHandler(c) PROVE IInv'
    <2>1. TypeOK'
        BY <1>5, MaxControlsAssumption
        DEF IInv, TypeOK, ControlHandler, ScmDelivers, Stops, admin, ServiceThread, SvcLabel, CtlLabel
    <2>2. CauseInv' /\ ReportInv'
        BY <1>5 DEF IInv, TypeOK, CauseInv, Cause, ReportInv, BothAssigned, LastReport,
                    ControlHandler, Stops, admin, ServiceThread, SvcLabel, CtlLabel
    <2> QED  BY <2>1, <2>2 DEF IInv
  <1> QED  BY <1>1, <1>2, <1>3, <1>4, <1>5

\* Every step preserves the invariant.
LEMMA StepInv == IInv /\ [Next]_vars => IInv'
  <1> SUFFICES ASSUME IInv, [Next]_vars PROVE IInv'
      OBVIOUS
  <1>1. CASE ServiceMain
      BY <1>1, AssignStep, ReportStep, OtherStep DEF ServiceMain, Assignments, Calls
  <1>2. CASE HandlerSteps
      BY <1>2, AssignStep, ReportStep, OtherStep DEF HandlerSteps, Assignments, Calls
  <1> QED  BY <1>1, <1>2, OtherStep DEF Next

\* The strengthened invariant of the two threads that share serviceStatus.
THEOREM Inductive == Spec => []IInv
  <1> QED  BY InitInv, StepInv, PTL DEF Spec

\* Every variable has its type, and a status is held only inside a call of
\* SetServiceStatus.
THEOREM TypeCorrect == Spec => []TypeOK
  <1>1. IInv => TypeOK
      BY DEF IInv
  <1> QED  BY <1>1, Inductive, PTL

\* The SCM shows STOPPED for a reason: a stop or shutdown, no event, or the
\* end of the event loop.
THEOREM StopsForACause == Spec => []StoppedHasCause
  <1>1. IInv => StoppedHasCause
      BY DEF IInv, CauseInv, Cause, StoppedHasCause
  <1> QED  BY <1>1, Inductive, PTL

\* When ServiceMain has returned and no handler runs, the SCM shows STOPPED,
\* however the unlocked assignments and reports of the threads interleaved.
THEOREM FinishedReported == Spec => []FinishedIsReported
  <1>1. IInv => FinishedIsReported
      BY DEF IInv, ReportInv, BothAssigned, LastReport, ServiceThread, FinishedIsReported
  <1> QED  BY <1>1, Inductive, PTL

(***************************************************************************)
(* The thread object and the log helpers.                                  *)
(***************************************************************************)
ThreadTypeOK ==
  /\ threadHandle \in Nat /\ starts \in Nat
  /\ destroyed \in BOOLEAN
  /\ onlyOnce \in BOOLEAN /\ met \in BOOLEAN /\ onces \in Nat
  /\ worker \in [Worker -> {"none", "running", "passed", "done"}]
  /\ entered \in BOOLEAN /\ timestamp \in Nat /\ counter = 0 /\ first \in BOOLEAN
  /\ gate \in [Worker -> {"out", "passed", "logged"}]
  /\ currentTime \in [Worker -> Nat] /\ now \in Nat
  /\ crowded \in BOOLEAN /\ refused \in Nat
  /\ outputs \in [previous : Nat, latest : Nat, refused : Nat]

\* The handle an object holds is that of its last start.
HandleInv == HandlesAccounted /\ threadHandle = starts

\* Unless two workers met, at most one has passed the test and not yet cleared
\* the static, and the static is set as long as nothing was logged.
OnceInv ==
  ~met =>
    /\ \A v, w \in Worker : worker[v] = "passed" /\ worker[w] = "passed" => v = w
    /\ (\E w \in Worker : worker[w] = "passed") => onlyOnce
    /\ onlyOnce => onces = 0
    /\ onces <= 1

\* Unless calls crowded log::limit, at most one is between its test and its store;
\* the timestamp is not before the last output except while that one's store is
\* outstanding, and one that has passed the test has the right to.
Spaced == \/ outputs.latest - outputs.previous >= Timeout
          \/ outputs.refused >= Limit

Inside(w) == gate[w] # "out"

AloneInside ==
  /\ \A v, w \in Worker : Inside(v) /\ Inside(w) => v = w
  /\ (\A w \in Worker : gate[w] # "logged") /\ ~first => outputs.latest <= timestamp
  /\ \A w \in Worker : gate[w] = "logged" => outputs.latest = currentTime[w]
  /\ \A w \in Worker : gate[w] = "passed" =>
       refused >= Limit \/ currentTime[w] - outputs.latest >= Timeout

LimitInv ==
  /\ first => refused >= Limit
  /\ ~first \/ (\E w \in Worker : Inside(w)) => entered
  /\ ~crowded => Spaced /\ AloneInside

ThreadInv == ThreadTypeOK /\ HandleInv /\ OnceInv /\ LimitInv

\* Steps that leave log::limit alone.
LEMMA SameLimit ==
  ASSUME LimitInv, UNCHANGED limitVars
  PROVE  LimitInv'
BY DEF limitVars, staticVars, LimitInv, Spaced, AloneInside, Inside

\* The object's calls leave what the workers know of the static alone, except
\* that a start adds a worker.
LEMMA HandleSteps ==
  ASSUME ThreadInv, Start \/ Destroy
  PROVE  ThreadInv'
<1>0. /\ starts \in Nat /\ destroyed \in BOOLEAN /\ threadHandle = starts
      /\ open = (1 .. starts) \ (IF destroyed THEN {starts} ELSE {})
      /\ worker \in [Worker -> {"none", "running", "passed", "done"}]
  BY DEF ThreadInv, ThreadTypeOK, HandleInv, HandlesAccounted
<1>1. CASE Start
  <2>1. /\ destroyed = FALSE /\ destroyed' = destroyed
        /\ starts' = starts + 1 /\ threadHandle' = starts + 1
        /\ open' = open \cup {starts + 1}
        /\ worker' = [worker EXCEPT ![starts + 1] = "running"]
        /\ UNCHANGED <<onlyOnce, met, onces, limitVars>>
    BY <1>0, <1>1 DEF Start
  <2>2. HandleInv'
    BY <1>0, <2>1 DEF HandleInv, HandlesAccounted
  <2>3. /\ worker' \in [Worker -> {"none", "running", "passed", "done"}]
        /\ \A w \in Worker : worker'[w] = "passed" => worker[w] = "passed"
    BY <1>0, <2>1
  <2>4. ThreadTypeOK'
    BY <1>0, <2>1, <2>3 DEF ThreadInv, ThreadTypeOK, limitVars, staticVars
  <2>5. OnceInv'
    BY <2>1, <2>3 DEF ThreadInv, OnceInv
  <2>6. LimitInv'
    BY <2>1, SameLimit DEF ThreadInv
  <2> QED
    BY <2>2, <2>4, <2>5, <2>6 DEF ThreadInv
<1>2. CASE Destroy
  <2>1. /\ destroyed = FALSE /\ destroyed' = TRUE
        /\ open' = IF threadHandle # 0 THEN open \ {threadHandle} ELSE open
        /\ UNCHANGED <<threadHandle, starts, onlyOnce, worker, met, onces, limitVars>>
    BY <1>0, <1>2 DEF Destroy, onceVars
  <2>2. HandleInv'
    BY <1>0, <2>1 DEF HandleInv, HandlesAccounted
  <2>3. LimitInv'
    BY <2>1, SameLimit DEF ThreadInv
  <2> QED
    BY <1>0, <2>1, <2>2, <2>3 DEF ThreadInv, ThreadTypeOK, OnceInv, limitVars, staticVars
<1> QED
  BY <1>1, <1>2

\* log::once, its test and its clear.
LEMMA OnceSteps ==
  ASSUME ThreadInv, NEW w \in Worker, OnceTests(w) \/ OnceLogs(w)
  PROVE  ThreadInv'
<1>0. /\ onlyOnce \in BOOLEAN /\ met \in BOOLEAN /\ onces \in Nat
      /\ worker \in [Worker -> {"none", "running", "passed", "done"}]
      /\ UNCHANGED <<threadHandle, open, destroyed, starts, limitVars>>
  BY DEF ThreadInv, ThreadTypeOK, OnceTests, OnceLogs, handleVars
<1>1. HandleInv' /\ LimitInv'
  BY <1>0, SameLimit DEF ThreadInv, HandleInv, HandlesAccounted
<1>2. CASE OnceTests(w)
  <2>1. /\ worker' = [worker EXCEPT ![w] = IF onlyOnce THEN "passed" ELSE "done"]
        /\ met' = (met \/ (onlyOnce /\ \E v \in Worker : worker[v] = "passed"))
        /\ UNCHANGED <<onlyOnce, onces>>
    BY <1>2 DEF OnceTests
  <2>2. /\ worker' \in [Worker -> {"none", "running", "passed", "done"}]
        /\ worker'[w] = IF onlyOnce THEN "passed" ELSE "done"
        /\ \A v \in Worker \ {w} : worker'[v] = worker[v]
    BY <1>0, <2>1
  <2>3. ThreadTypeOK'
    BY <1>0, <2>1, <2>2 DEF ThreadInv, ThreadTypeOK, limitVars, staticVars
  <2>4. OnceInv'
    <3> SUFFICES ASSUME ~met' PROVE OnceInv'
      BY DEF OnceInv
    <3>1. /\ ~met
          /\ onlyOnce => \A v \in Worker : worker[v] # "passed"
          /\ \A v, u \in Worker : worker[v] = "passed" /\ worker[u] = "passed" => v = u
          /\ (\E v \in Worker : worker[v] = "passed") => onlyOnce
          /\ onlyOnce => onces = 0
          /\ onces <= 1
      BY <2>1 DEF ThreadInv, OnceInv
    <3> QED
      BY <2>1, <2>2, <3>1 DEF OnceInv
  <2> QED
    BY <1>1, <2>3, <2>4 DEF ThreadInv
<1>3. CASE OnceLogs(w)
  <2>1. /\ worker[w] = "passed"
        /\ worker' = [worker EXCEPT ![w] = "done"]
        /\ onlyOnce' = FALSE /\ onces' = onces + 1
        /\ UNCHANGED met
    BY <1>3 DEF OnceLogs
  <2>2. /\ worker' \in [Worker -> {"none", "running", "passed", "done"}]
        /\ worker'[w] = "done"
        /\ \A v \in Worker \ {w} : worker'[v] = worker[v]
    BY <1>0, <2>1
  <2>3. ThreadTypeOK'
    <3>1. onces' \in Nat
      BY <1>0, <2>1
    <3>2. onlyOnce' \in BOOLEAN /\ met' \in BOOLEAN
      BY <1>0, <2>1, Zenon
    <3> QED
      BY <1>0, <2>2, <3>1, <3>2 DEF ThreadInv, ThreadTypeOK, limitVars, staticVars
  <2>4. OnceInv'
    <3> SUFFICES ASSUME ~met' PROVE OnceInv'
      BY DEF OnceInv
    <3>1. /\ \A v \in Worker \ {w} : worker[v] # "passed"
          /\ onces = 0
      BY <2>1 DEF ThreadInv, OnceInv
    <3> QED
      BY <2>1, <2>2, <3>1 DEF OnceInv
  <2> QED
    BY <1>1, <2>3, <2>4 DEF ThreadInv
<1> QED
  BY <1>2, <1>3

\* log::limit: the counter stays zero, so only the first call's mark and the time
\* since the last output let a call through; and the clock, which only moves on.
LEMMA LimitSteps ==
  ASSUME ThreadInv, Tick \/ \E w \in Worker : LimitTests(w) \/ LimitLogs(w) \/ LimitStores(w)
  PROVE  ThreadInv'
<1>0. /\ entered \in BOOLEAN /\ timestamp \in Nat /\ counter = 0 /\ first \in BOOLEAN
      /\ gate \in [Worker -> {"out", "passed", "logged"}]
      /\ currentTime \in [Worker -> Nat] /\ now \in Nat
      /\ crowded \in BOOLEAN /\ refused \in Nat
      /\ outputs \in [previous : Nat, latest : Nat, refused : Nat]
      /\ Timeout \in Nat /\ Limit \in Nat \ {0}
  BY ThreadAssumption DEF ThreadInv, ThreadTypeOK
<1>1. UNCHANGED <<threadHandle, open, destroyed, starts, onlyOnce, worker, met, onces>>
  BY DEF LimitTests, LimitLogs, LimitStores, Tick, handleVars, onceVars
<1>2. HandleInv' /\ OnceInv'
  BY <1>1 DEF ThreadInv, HandleInv, HandlesAccounted, OnceInv
<1>3. /\ first => refused >= Limit
      /\ ~first \/ (\E w \in Worker : Inside(w)) => entered
      /\ ~crowded => Spaced /\ AloneInside
  BY DEF ThreadInv, LimitInv
<1> DEFINE Typed == /\ entered' \in BOOLEAN /\ timestamp' \in Nat /\ counter' = 0
                    /\ first' \in BOOLEAN
                    /\ gate' \in [Worker -> {"out", "passed", "logged"}]
                    /\ currentTime' \in [Worker -> Nat] /\ now' \in Nat
                    /\ crowded' \in BOOLEAN /\ refused' \in Nat
                    /\ outputs' \in [previous : Nat, latest : Nat, refused : Nat]
<1>4. ASSUME Typed PROVE ThreadTypeOK'
  BY <1>1, <1>4 DEF ThreadInv, ThreadTypeOK
<1>5. CASE Tick
  <2>1. now' = now + 1
        /\ UNCHANGED <<entered, timestamp, counter, first, gate, currentTime, crowded, refused,
                       outputs>>
    BY <1>5 DEF Tick, staticVars
  <2>2. Typed
    BY <1>0, <2>1
  <2>3. LimitInv'
    BY <1>3, <2>1 DEF LimitInv, Spaced, AloneInside, Inside
  <2> QED
    BY <1>2, <1>4, <2>2, <2>3 DEF ThreadInv
<1>6. ASSUME NEW w \in Worker, LimitTests(w) PROVE ThreadInv'
  <2> DEFINE start == IF entered THEN timestamp ELSE now
             passes == now - start >= Timeout \/ counter + 1 > Limit \/ first
  <2>1. /\ gate[w] = "out" /\ entered' = TRUE /\ timestamp' = start
        /\ UNCHANGED <<counter, first, now, outputs>>
        /\ IF passes
           THEN /\ gate' = [gate EXCEPT ![w] = "passed"]
                /\ currentTime' = [currentTime EXCEPT ![w] = now]
                /\ crowded' = (crowded \/ \E v \in Worker : Inside(v))
                /\ UNCHANGED refused
           ELSE /\ refused' = IF refused < Limit THEN refused + 1 ELSE refused
                /\ UNCHANGED <<gate, currentTime, crowded>>
    BY <1>6 DEF LimitTests, Inside
  <2>2. start \in Nat /\ (entered => start = timestamp)
    BY <1>0
  <2>3. passes => first \/ now - start >= Timeout
    BY <1>0
  <2> HIDE DEF start
  <2>4. CASE ~passes
    <3>1. /\ refused' = IF refused < Limit THEN refused + 1 ELSE refused
          /\ UNCHANGED <<gate, currentTime, crowded>>
      BY <2>1, <2>4
    <3>2. refused' \in Nat /\ (refused >= Limit => refused' >= Limit)
      BY <1>0, <3>1
    <3>3. Typed
      BY <1>0, <2>1, <2>2, <3>1, <3>2
    <3>4. ~first => timestamp' = timestamp
      BY <1>3, <2>1, <2>2
    <3>5. LimitInv'
      BY <1>3, <2>1, <3>1, <3>2, <3>4 DEF LimitInv, Spaced, AloneInside, Inside
    <3> QED
      BY <1>2, <1>4, <3>3, <3>5 DEF ThreadInv
  <2>5. CASE passes
    <3>1. /\ gate' = [gate EXCEPT ![w] = "passed"]
          /\ currentTime' = [currentTime EXCEPT ![w] = now]
          /\ crowded' = (crowded \/ \E v \in Worker : Inside(v))
          /\ UNCHANGED refused
      BY <2>1, <2>5
    <3>2. crowded' \in BOOLEAN
      BY <3>1, Zenon
    <3>3. Typed
      BY <1>0, <2>1, <2>2, <3>1, <3>2
    <3>4. /\ gate'[w] = "passed" /\ currentTime'[w] = now
          /\ \A v \in Worker \ {w} : gate'[v] = gate[v] /\ currentTime'[v] = currentTime[v]
      BY <1>0, <3>1
    <3>5. ASSUME ~crowded' PROVE Spaced' /\ AloneInside'
      <4>1. ~crowded /\ \A v \in Worker : gate[v] = "out"
        BY <3>1, <3>5 DEF Inside
      <4>2. Spaced /\ (~first => outputs.latest <= timestamp)
        BY <1>3, <4>1 DEF AloneInside
      <4>3. ~first => start = timestamp /\ timestamp' = timestamp
        BY <1>3, <2>1, <2>2
      <4>4. refused >= Limit \/ now - outputs.latest >= Timeout
        <5>1. outputs.latest \in Nat
          BY <1>0
        <5> QED BY <1>0, <1>3, <2>2, <2>3, <2>5, <4>2, <4>3, <5>1
      <4> QED
        BY <2>1, <3>1, <3>4, <4>1, <4>2, <4>3, <4>4 DEF Spaced, AloneInside, Inside
    <3>6. LimitInv'
      BY <1>3, <2>1, <3>1, <3>5 DEF LimitInv
    <3> QED
      BY <1>2, <1>4, <3>3, <3>6 DEF ThreadInv
  <2> QED BY <2>4, <2>5
<1>7. ASSUME NEW w \in Worker, LimitLogs(w) PROVE ThreadInv'
  <2>1. /\ gate[w] = "passed" /\ gate' = [gate EXCEPT ![w] = "logged"]
        /\ first' = FALSE /\ refused' = 0
        /\ outputs' = [previous |-> outputs.latest, latest |-> currentTime[w],
                       refused |-> refused]
        /\ UNCHANGED <<entered, timestamp, counter, currentTime, now, crowded>>
    BY <1>7 DEF LimitLogs
  <2>2. /\ outputs' \in [previous : Nat, latest : Nat, refused : Nat]
        /\ outputs'.previous = outputs.latest /\ outputs'.latest = currentTime[w]
        /\ outputs'.refused = refused
    BY <1>0, <2>1
  <2>3. Typed
    BY <1>0, <2>1, <2>2
  <2>4. /\ gate'[w] = "logged"
        /\ \A v \in Worker \ {w} : gate'[v] = gate[v]
    BY <1>0, <2>1
  <2>5. entered
    BY <1>3, <2>1 DEF Inside
  <2>6. ASSUME ~crowded PROVE Spaced' /\ AloneInside'
    <3>1. AloneInside
      BY <1>3, <2>6
    <3>2. \A v \in Worker \ {w} : gate[v] = "out"
      BY <2>1, <3>1 DEF AloneInside, Inside
    <3>3. Spaced'
      BY <2>1, <2>2, <3>1 DEF Spaced, AloneInside
    <3> QED
      BY <2>1, <2>2, <2>4, <3>2, <3>3 DEF AloneInside, Inside
  <2>7. LimitInv'
    BY <2>1, <2>5, <2>6 DEF LimitInv
  <2> QED
    BY <1>2, <1>4, <2>3, <2>7 DEF ThreadInv
<1>8. ASSUME NEW w \in Worker, LimitStores(w) PROVE ThreadInv'
  <2>1. /\ gate[w] = "logged" /\ gate' = [gate EXCEPT ![w] = "out"]
        /\ timestamp' = currentTime[w] /\ counter' = 0
        /\ currentTime' = [currentTime EXCEPT ![w] = 0]
        /\ UNCHANGED <<entered, first, now, crowded, refused, outputs>>
    BY <1>8 DEF LimitStores
  <2>2. Typed
    BY <1>0, <2>1
  <2>3. /\ gate'[w] = "out"
        /\ \A v \in Worker \ {w} : gate'[v] = gate[v] /\ currentTime'[v] = currentTime[v]
    BY <1>0, <2>1
  <2>4. entered
    BY <1>3, <2>1 DEF Inside
  <2>5. ASSUME ~crowded PROVE Spaced' /\ AloneInside'
    <3>1. Spaced /\ AloneInside
      BY <1>3, <2>5
    <3>2. \A v \in Worker \ {w} : gate[v] = "out"
      BY <2>1, <3>1 DEF AloneInside, Inside
    <3>3. outputs.latest = currentTime[w] /\ outputs.latest \in Nat
      BY <1>0, <2>1, <3>1 DEF AloneInside
    <3> QED
      BY <2>1, <2>3, <3>1, <3>2, <3>3 DEF Spaced, AloneInside, Inside
  <2>6. LimitInv'
    BY <1>3, <2>1, <2>4, <2>5 DEF LimitInv
  <2> QED
    BY <1>2, <1>4, <2>2, <2>6 DEF ThreadInv
<1> QED
  BY <1>5, <1>6, <1>7, <1>8

\* The inductive invariant.
THEOREM ThreadInvariant == ThreadSpec => []ThreadInv
<1>1. ThreadInit => ThreadInv
  <2> SUFFICES ASSUME ThreadInit PROVE ThreadInv
    OBVIOUS
  <2>1. ThreadTypeOK
    BY ThreadAssumption DEF ThreadInit, ThreadTypeOK
  <2>2. HandleInv
    BY DEF ThreadInit, HandleInv, HandlesAccounted
  <2>3. OnceInv
    BY DEF ThreadInit, OnceInv
  <2>4. LimitInv
    BY ThreadAssumption DEF ThreadInit, LimitInv, Spaced, AloneInside, Inside
  <2> QED
    BY <2>1, <2>2, <2>3, <2>4 DEF ThreadInv
<1>2. ThreadInv /\ [ThreadNext]_threadVars => ThreadInv'
  <2> SUFFICES ASSUME ThreadInv, [ThreadNext]_threadVars PROVE ThreadInv'
    OBVIOUS
  <2>1. CASE UNCHANGED threadVars
    <3>1. UNCHANGED limitVars /\ UNCHANGED handleVars /\ UNCHANGED onceVars
      BY <2>1 DEF threadVars
    <3> QED
      BY <3>1, SameLimit DEF handleVars, onceVars, limitVars, staticVars, ThreadInv,
         ThreadTypeOK, HandleInv, HandlesAccounted, OnceInv
  <2> QED
    BY <2>1, HandleSteps, OnceSteps, LimitSteps DEF ThreadNext
<1> QED
  BY <1>1, <1>2, PTL DEF ThreadSpec

\* What a thread object and the log gates lose, and only that.
THEOREM ThreadLossesAccounted == ThreadSpec => []ThreadsAccounted
<1>1. ThreadInv => ThreadsAccounted
  BY DEF ThreadInv, ThreadTypeOK, HandleInv, OnceInv, LimitInv, Spaced, ThreadsAccounted,
     OnceAccounted, LimitSpacing
<1> QED
  BY <1>1, ThreadInvariant, PTL

(***************************************************************************)
(* Dynamic modules.                                                        *)
(***************************************************************************)
Library == Dll \cup {"none"}

ModuleTypeOK ==
  /\ refs \in [Dll -> {0, 1}]
  /\ moduleMap \subseteq Dll /\ freed \subseteq Dll
  /\ obj \in [Object -> [szDllName : Library, hModule : Library,
                         ptr : UNION {[Functions(o) -> Library] : o \in Object}]]
  /\ \A o \in Object : obj[o].ptr \in [Functions(o) -> Listed(o) \cup {"none"}]
  /\ call \in [o : Object \cup {"none"}, at : Nat, api : 0 .. Len(LoadOrder)]
  /\ call # Idle => call.o \in Object /\ call.at \in 1 .. Len(DLL_NAMES[call.o])
  /\ api \in [loaded : BOOLEAN, rc : {"none", "OK", "ERR"}, failed : BOOLEAN]

\* A handle is one of a library its object lists, and was got by a Load.
HandleOfList ==
  \A o \in Object : obj[o].hModule # "none" =>
    obj[o].hModule \in Listed(o) /\ obj[o].szDllName # "none"

\* References are held to cached libraries only; a library that was freed has none,
\* and a cached one is mapped unless it was freed.
CacheInv ==
  /\ \A d \in Dll : refs[d] = 1 => d \in moduleMap
  /\ \A d \in freed : refs[d] = 0 /\ d \in moduleMap
  /\ \A d \in moduleMap : Live(d) \/ d \in freed

\* The libraries it is known that they may be gone.
NoFunctions(d) == \A p \in Object : d \in Listed(p) => Functions(p) = {}
Excused(d) == NoFunctions(d) \/ \E u \in released : d \in Listed(u)

\* Libraries are only lost with an excuse; a cached function's library is cached
\* too, or was asked of a stale handle; an object's loop goes on from a library it
\* may give up.
ExcuseInv ==
  /\ \A d \in freed : Excused(d)
  /\ \A d \in Dll, f \in Fn : <<d, f>> \in functionMap => d \in moduleMap \/ Excused(d)
  /\ call # Idle /\ call.at > 1 =>
       LET h == obj[call.o].hModule
       IN  h = "none" \/ h \in Pinned \/ NoFunctions(h) \/ call.o \in released
  /\ \A o \in Object : \A f \in Functions(o) :
       LET d == obj[o].ptr[f] IN d = "none" \/ Live(d) \/ Excused(d)

\* The objects API::Load has been through are complete.
Complete(o) == \A f \in Required[o] : obj[o].ptr[f] # "none"
Done(n) == \A i \in 1 .. n : LoadOrder[i] \in Necessary => Complete(LoadOrder[i])
ApiInv ==
  /\ call.api # 0 => call.o = LoadOrder[call.api] /\ api.loaded
  /\ ~api.failed /\ released = {} /\ api.loaded =>
       Done(IF call.api = 0 THEN Len(LoadOrder) ELSE call.api - 1)

ModulesInv == ModuleTypeOK /\ HandleOfList /\ CacheInv /\ ExcuseInv /\ ApiInv

\* The counts after a handle was given up.
Dropped(h) == [e \in Dll |-> IF e = h THEN 0 ELSE refs[e]]

\* The libraries an object lists, by number.
LEMMA ListedIsDll ==
  ASSUME NEW o \in Object
  PROVE  /\ Listed(o) \subseteq Dll
         /\ \A i \in 1 .. Len(DLL_NAMES[o]) : DLL_NAMES[o][i] \in Listed(o)
         /\ Len(DLL_NAMES[o]) \in Nat \ {0}
<1>1. DLL_NAMES[o] \in Seq(Dll) /\ DLL_NAMES[o] # <<>>
  BY ModuleAssumption
<1>2. DOMAIN DLL_NAMES[o] = 1 .. Len(DLL_NAMES[o]) /\ Len(DLL_NAMES[o]) \in Nat \ {0}
  BY <1>1
<1> QED
  BY <1>1, <1>2 DEF Listed

\* What the base Unload leaves: a handle that is no longer valid stays, any other
\* is given up with its reference.
LEMMA UnloadCases ==
  ASSUME ModuleTypeOK, HandleOfList, NEW o \in Object
  PROVE  LET u == BaseUnload(o)
             h == obj[o].hModule
         IN  \/ h # "none" /\ ~Live(h) /\ u.hModule = h /\ u.refs = refs
             \/ (h = "none" \/ Live(h)) /\ u.hModule = "none" /\ u.refs = Dropped(h)
<1> DEFINE h == obj[o].hModule
<1>1. refs = [e \in Dll |-> refs[e]] /\ \A e \in Dll : refs[e] \in {0, 1}
  BY DEF ModuleTypeOK
<1>2. h # "none" => h \in Dll
  BY ListedIsDll DEF HandleOfList
<1> HIDE DEF h
<1>3. CASE h = "none"
  <2>1. Dropped(h) = refs
    BY <1>1, <1>3, ModuleAssumption DEF Dropped
  <2> QED
    BY <1>3, <2>1 DEF BaseUnload, h
<1>4. CASE h # "none" /\ ~Live(h)
  BY <1>2, <1>4 DEF BaseUnload, FreeLibrary, h
<1>5. CASE h # "none" /\ Live(h)
  <2>1. CASE refs[h] > 0
    <3>1. refs[h] - 1 = 0
      BY <1>1, <1>2, <1>5, <2>1
    <3>2. [refs EXCEPT ![h] = @ - 1] = Dropped(h)
      BY <1>1, <3>1 DEF Dropped
    <3> QED
      BY <1>2, <1>5, <2>1, <3>2 DEF BaseUnload, FreeLibrary, h
  <2>2. CASE ~(refs[h] > 0)
    <3>1. refs[h] = 0
      BY <1>1, <1>2, <1>5, <2>2
    <3>2. refs = Dropped(h)
      BY <1>1, <3>1 DEF Dropped
    <3> QED
      BY <1>2, <1>5, <2>2, <3>2 DEF BaseUnload, FreeLibrary, h
  <2> QED
    BY <2>1, <2>2
<1> QED
  BY <1>3, <1>4, <1>5 DEF h

\* What the base Unload and Load leave together.
LEMMA LoadCases ==
  ASSUME ModuleTypeOK, HandleOfList, CacheInv, NEW o \in Object, NEW d \in Dll,
         NEW l, l = BaseLoad(o, d, BaseUnload(o).hModule, BaseUnload(o).refs)
  PROVE  LET h == obj[o].hModule
         IN  \/ /\ h # "none" /\ ~Live(h)
                /\ l.hModule = h /\ l.refs = refs /\ l.cache = moduleMap
             \/ /\ h = "none" \/ Live(h)
                /\ \/ d \in moduleMap /\ l.hModule = d /\ l.refs = Dropped(h)
                      /\ l.cache = moduleMap
                   \/ d \notin moduleMap /\ l.hModule = "none" /\ l.refs = Dropped(h)
                      /\ l.cache = moduleMap
                   \/ d \notin moduleMap /\ l.hModule = d
                      /\ l.refs = [Dropped(h) EXCEPT ![d] = 1]
                      /\ l.cache = moduleMap \cup {d}
<1> DEFINE u == BaseUnload(o)
           h == obj[o].hModule
<1>1. \/ h # "none" /\ ~Live(h) /\ u.hModule = h /\ u.refs = refs
      \/ (h = "none" \/ Live(h)) /\ u.hModule = "none" /\ u.refs = Dropped(h)
  BY UnloadCases
<1>2. d \notin moduleMap => Dropped(h)[d] = 0
  BY DEF Dropped, CacheInv, ModuleTypeOK
<1> HIDE DEF u, h
<1>3. CASE h # "none" /\ ~Live(h)
  <2>1. l = BaseLoad(o, d, u.hModule, u.refs)
    BY DEF u
  <2> QED
    BY <1>1, <1>3, <2>1 DEF BaseLoad, h
<1>4. CASE h = "none" \/ Live(h)
  <2>1. u.hModule = "none" /\ u.refs = Dropped(h)
    BY <1>1, <1>4
  <2> DEFINE r == Dropped(h)
  <2>2. d \notin moduleMap => [r EXCEPT ![d] = @ + 1] = [r EXCEPT ![d] = 1]
    <3>1. ASSUME d \notin moduleMap PROVE r[d] + 1 = 1
      BY <1>2, <3>1
    <3> QED
      BY <3>1
  <2>4. l = BaseLoad(o, d, "none", r)
    BY <2>1 DEF u
  <2> HIDE DEF r
  <2>3. \/ d \in moduleMap /\ l.hModule = d /\ l.refs = r /\ l.cache = moduleMap
        \/ d \notin moduleMap /\ l.hModule = "none" /\ l.refs = r /\ l.cache = moduleMap
        \/ d \notin moduleMap /\ l.hModule = d /\ l.refs = [r EXCEPT ![d] = 1]
           /\ l.cache = moduleMap \cup {d}
    BY <2>2, <2>4 DEF BaseLoad
  <2> QED
    BY <1>4, <2>1, <2>3 DEF r, u, h
<1> QED
  BY <1>3, <1>4 DEF h

\* What a round of the loop with library d and the found functions got does to the
\* object and the maps, given what the base Load answered.
Round(o, d, got, l) ==
  /\ refs' = l.refs /\ moduleMap' = l.cache /\ freed' = freed \cup Unmapped(l.refs)
  /\ obj' = [obj EXCEPT ![o] =
               [szDllName |-> d, hModule |-> l.hModule,
                ptr |-> [f \in Functions(o) |->
                           IF f \notin got THEN obj[o].ptr[f]
                           ELSE IF l.hModule = "none" THEN d ELSE l.hModule]]]
  /\ functionMap' = functionMap \cup {<<d, f>> : f \in got}
  /\ got \subseteq Functions(o)
  /\ l.hModule = "none" => \A f \in got : <<d, f>> \in functionMap
  /\ released' = IF call.at = 1 /\ obj[o].szDllName # "none" THEN released \cup {o}
                                                           ELSE released
  /\ exports' = exports /\ publicCalls' = publicCalls

\* How it goes on: with the next library, back to the caller of Load, out of
\* API::Load with an error or at its end, or with its next object.
NextLibrary == /\ call.at < Len(DLL_NAMES[call.o])
               /\ call' = [call EXCEPT !.at = @ + 1] /\ api' = api
LoadReturns == call.api = 0 /\ call' = Idle /\ api' = api
ApiFails == call' = Idle /\ api' = [api EXCEPT !.rc = "ERR", !.failed = TRUE]
ApiEnds == /\ call.api = Len(LoadOrder)
           /\ call' = Idle /\ api' = [api EXCEPT !.rc = "OK"]
NextObject ==
  /\ call.api # 0 /\ call.api # Len(LoadOrder) /\ api' = api
  /\ call' = [o |-> LoadOrder[call.api + 1], at |-> 1, api |-> call.api + 1]

\* The ends of one object's Load.
LEMMA ReturnCases ==
  ASSUME NEW rc \in {"OK", "ERR"}, Return(rc)
  PROVE  \/ LoadReturns
         \/ rc = "ERR" /\ ApiFails
         \/ rc = "OK" /\ call.api # 0 /\ (ApiEnds \/ NextObject)
BY DEF Return, LoadReturns, ApiFails, ApiEnds, NextObject

\* A round of the loop as the base Load, the functions found and where it goes on.
LEMMA TryCases ==
  ASSUME ModuleTypeOK, TryDll
  PROVE  \E got, l :
           LET o == call.o
               d == DLL_NAMES[o][call.at]
           IN  /\ call # Idle
               /\ l = BaseLoad(o, d, BaseUnload(o).hModule, BaseUnload(o).refs)
               /\ Round(o, d, got, l)
               /\ \/ NextLibrary \/ LoadReturns \/ ApiFails
                  \/ /\ call.api # 0 /\ (ApiEnds \/ NextObject)
                     /\ o \in Necessary => Required[o] \subseteq got
<1> DEFINE o == call.o
           d == DLL_NAMES[o][call.at]
           l == BaseLoad(o, d, BaseUnload(o).hModule, BaseUnload(o).refs)
           last == call.at = Len(DLL_NAMES[o])
           onFail == IF last THEN Return(IF o \in Necessary THEN "ERR" ELSE "OK")
                     ELSE call' = [call EXCEPT !.at = @ + 1] /\ UNCHANGED api
<1>1. PICK got \in (IF l.ok THEN Found(o, d, l.hModule, l.refs) ELSE {{}}) :
        /\ obj' = [obj EXCEPT ![o] =
                     [szDllName |-> d, hModule |-> l.hModule,
                      ptr |-> [f \in Functions(o) |->
                                 IF f \notin got THEN obj[o].ptr[f]
                                 ELSE IF l.hModule = "none" THEN d ELSE l.hModule]]]
        /\ functionMap' = functionMap \cup {<<d, f>> : f \in got}
        /\ IF l.ok /\ Required[o] \subseteq got
                   /\ (got # {} \/ Len(DLL_NAMES[o]) = 1)
           THEN Return("OK") ELSE onFail
  BY DEF TryDll, ModuleTypeOK
<1>2. /\ call # Idle /\ refs' = l.refs /\ moduleMap' = l.cache
      /\ freed' = freed \cup Unmapped(l.refs)
      /\ released' = IF call.at = 1 /\ obj[o].szDllName # "none"
                     THEN released \cup {o} ELSE released
      /\ exports' = exports /\ publicCalls' = publicCalls
  BY DEF TryDll
<1>3. o \in Object /\ call.at \in 1 .. Len(DLL_NAMES[o]) /\ Len(DLL_NAMES[o]) \in Nat
  BY <1>2, ListedIsDll DEF ModuleTypeOK
<1> HIDE DEF l
<1>4. got \subseteq Functions(o)
  BY <1>1 DEF Found
<1>5. l.hModule = "none" => \A f \in got : <<d, f>> \in functionMap
  BY <1>1 DEF Found
<1>6. Round(o, d, got, l)
  BY <1>1, <1>2, <1>4, <1>5 DEF Round
<1>7. \/ NextLibrary \/ LoadReturns \/ ApiFails
      \/ /\ call.api # 0 /\ (ApiEnds \/ NextObject)
         /\ o \in Necessary => Required[o] \subseteq got
  <2>1. CASE Required[o] \subseteq got /\ Return("OK")
    BY <2>1, ReturnCases
  <2>2. CASE onFail /\ last
    <3>1. CASE o \in Necessary
      BY <2>2, <3>1, ReturnCases
    <3>2. CASE o \notin Necessary
      BY <2>2, <3>2, ReturnCases
    <3> QED
      BY <3>1, <3>2
  <2>3. CASE onFail /\ ~last
    BY <1>3, <2>3 DEF NextLibrary
  <2> QED
    BY <1>1, <2>1, <2>2, <2>3
<1> QED
  BY <1>2, <1>6, <1>7 DEF l

Trying(o, d, got, l) ==
  /\ call # Idle /\ o = call.o /\ d = DLL_NAMES[o][call.at]
  /\ l = BaseLoad(o, d, BaseUnload(o).hModule, BaseUnload(o).refs)
  /\ Round(o, d, got, l)

\* The object keeps a handle that is no longer valid.
Stale(o, l) ==
  /\ obj[o].hModule # "none" /\ ~Live(obj[o].hModule)
  /\ l.hModule = obj[o].hModule /\ refs' = refs /\ moduleMap' = moduleMap

\* It gives up its handle, and takes one from the cache, none, or a new one.
Taken(o, d, l) ==
  LET h == obj[o].hModule
  IN  /\ h = "none" \/ Live(h)
      /\ \/ /\ d \in moduleMap /\ l.hModule = d
            /\ refs' = Dropped(h) /\ moduleMap' = moduleMap
         \/ /\ d \notin moduleMap /\ l.hModule = "none"
            /\ refs' = Dropped(h) /\ moduleMap' = moduleMap
         \/ /\ d \notin moduleMap /\ l.hModule = d
            /\ refs' = [Dropped(h) EXCEPT ![d] = 1] /\ moduleMap' = moduleMap \cup {d}

\* The handles and counts of a round, without the base class.
LEMMA TryHandles ==
  ASSUME ModulesInv, NEW o, NEW d, NEW got, NEW l, Trying(o, d, got, l)
  PROVE  /\ o \in Object /\ d \in Listed(o) /\ Listed(o) \subseteq Dll
         /\ call.at \in 1 .. Len(DLL_NAMES[o]) /\ Len(DLL_NAMES[o]) \in Nat
         /\ obj[o].hModule \in Listed(o) \cup {"none"}
         /\ l.hModule \in Listed(o) \cup {"none"}
         /\ refs' \in [Dll -> {0, 1}]
         /\ freed' = freed \cup {e \in Dll \ Pinned : refs[e] > 0 /\ refs'[e] = 0}
         /\ Stale(o, l) \/ Taken(o, d, l)
<1>1. o \in Object /\ call.at \in 1 .. Len(DLL_NAMES[o]) /\ d = DLL_NAMES[o][call.at]
  BY DEF ModulesInv, ModuleTypeOK, Trying
<1>2. /\ Listed(o) \subseteq Dll /\ d \in Listed(o) /\ Len(DLL_NAMES[o]) \in Nat
  BY <1>1, ListedIsDll
<1>3. obj[o].hModule \in Listed(o) \cup {"none"}
  BY <1>1 DEF ModulesInv, HandleOfList
<1>4. Stale(o, l) \/ Taken(o, d, l)
  <2>1. l = BaseLoad(o, d, BaseUnload(o).hModule, BaseUnload(o).refs)
        /\ refs' = l.refs /\ moduleMap' = l.cache
    BY DEF Trying, Round
  <2>2. ModuleTypeOK /\ HandleOfList /\ CacheInv /\ d \in Dll
    BY <1>2 DEF ModulesInv
  <2> DEFINE h == obj[o].hModule
  <2>3. \/ /\ h # "none" /\ ~Live(h)
           /\ l.hModule = h /\ l.refs = refs /\ l.cache = moduleMap
        \/ /\ h = "none" \/ Live(h)
           /\ \/ d \in moduleMap /\ l.hModule = d /\ l.refs = Dropped(h)
                 /\ l.cache = moduleMap
              \/ d \notin moduleMap /\ l.hModule = "none" /\ l.refs = Dropped(h)
                 /\ l.cache = moduleMap
              \/ d \notin moduleMap /\ l.hModule = d
                 /\ l.refs = [Dropped(h) EXCEPT ![d] = 1]
                 /\ l.cache = moduleMap \cup {d}
    BY <1>1, <2>1, <2>2, LoadCases
  <2> QED
    BY <2>1, <2>3 DEF Stale, Taken
<1>5. l.hModule \in Listed(o) \cup {"none"}
  BY <1>2, <1>3, <1>4 DEF Stale, Taken
<1>6. refs' \in [Dll -> {0, 1}]
  BY <1>2, <1>4 DEF Stale, Taken, Dropped, ModulesInv, ModuleTypeOK
<1>7. freed' = freed \cup {e \in Dll \ Pinned : refs[e] > 0 /\ refs'[e] = 0}
  BY DEF Trying, Round, Unmapped
<1> QED
  BY <1>1, <1>2, <1>3, <1>4, <1>5, <1>6, <1>7

\* Where the loop stands afterwards.
LEMMA TryCall ==
  ASSUME ModulesInv, call # Idle,
         NextLibrary \/ LoadReturns \/ ApiFails \/ (call.api # 0 /\ (ApiEnds \/ NextObject))
  PROVE  /\ call' \in [o : Object \cup {"none"}, at : Nat, api : 0 .. Len(LoadOrder)]
         /\ call' # Idle => call'.o \in Object /\ call'.at \in 1 .. Len(DLL_NAMES[call'.o])
         /\ call'.at > 1 => call.at < Len(DLL_NAMES[call.o]) /\ call'.o = call.o
<1>1. /\ LoadOrder \in Seq(Object) /\ Len(LoadOrder) \in Nat \ {0}
      /\ call \in [o : Object \cup {"none"}, at : Nat, api : 0 .. Len(LoadOrder)]
      /\ call.o \in Object /\ call.at \in 1 .. Len(DLL_NAMES[call.o])
  BY ModuleAssumption DEF ModulesInv, ModuleTypeOK
<1>2. Idle \in [o : Object \cup {"none"}, at : Nat, api : 0 .. Len(LoadOrder)] /\ Idle.at = 0
  BY <1>1 DEF Idle
<1>3. CASE NextLibrary
  <2>1. Len(DLL_NAMES[call.o]) \in Nat
    BY <1>1, ListedIsDll
  <2> QED
    BY <1>1, <1>3, <2>1 DEF NextLibrary
<1>4. CASE LoadReturns \/ ApiFails \/ ApiEnds
  BY <1>2, <1>4 DEF LoadReturns, ApiFails, ApiEnds
<1>5. CASE NextObject
  <2>1. call.api + 1 \in 1 .. Len(LoadOrder)
    BY <1>1, <1>5 DEF NextObject
  <2>2. LoadOrder[call.api + 1] \in Object
    BY <1>1, <2>1
  <2>3. Len(DLL_NAMES[LoadOrder[call.api + 1]]) \in Nat \ {0}
    BY <2>2, ListedIsDll
  <2> QED
    BY <1>5, <2>1, <2>2, <2>3 DEF NextObject
<1> QED
  BY <1>3, <1>4, <1>5

\* A round leaves handles and pointers into libraries the object lists.
LEMMA TryTypes ==
  ASSUME ModulesInv, NEW o, NEW d, NEW got, NEW l, Trying(o, d, got, l),
         NextLibrary \/ LoadReturns \/ ApiFails \/ (call.api # 0 /\ (ApiEnds \/ NextObject))
  PROVE  ModuleTypeOK' /\ HandleOfList'
<1>1. /\ o \in Object /\ d \in Listed(o) /\ Listed(o) \subseteq Dll
      /\ l.hModule \in Listed(o) \cup {"none"}
      /\ refs' \in [Dll -> {0, 1}]
      /\ freed' = freed \cup {e \in Dll \ Pinned : refs[e] > 0 /\ refs'[e] = 0}
      /\ Stale(o, l) \/ Taken(o, d, l)
  BY TryHandles
<1>2. moduleMap' \subseteq Dll /\ freed' \subseteq Dll
  BY <1>1 DEF ModulesInv, ModuleTypeOK, Stale, Taken
<1> DEFINE p == [f \in Functions(o) |->
                   IF f \notin got THEN obj[o].ptr[f]
                   ELSE IF l.hModule = "none" THEN d ELSE l.hModule]
<1>3. p \in [Functions(o) -> Listed(o) \cup {"none"}]
  BY <1>1 DEF ModulesInv, ModuleTypeOK
<1>4. p \in UNION {[Functions(q) -> Library] : q \in Object}
  BY <1>1, <1>3 DEF Library
<1>5. obj' = [obj EXCEPT ![o] = [szDllName |-> d, hModule |-> l.hModule, ptr |-> p]]
  BY DEF Trying, Round
<1> HIDE DEF p
<1>6. /\ obj' \in [Object -> [szDllName : Library, hModule : Library,
                              ptr : UNION {[Functions(q) -> Library] : q \in Object}]]
      /\ obj'[o].ptr = p /\ obj'[o].hModule = l.hModule /\ obj'[o].szDllName = d
      /\ \A q \in Object \ {o} : obj'[q] = obj[q]
  BY <1>1, <1>4, <1>5 DEF ModulesInv, ModuleTypeOK, Library
<1>7. \A q \in Object : obj'[q].ptr \in [Functions(q) -> Listed(q) \cup {"none"}]
  BY <1>3, <1>6 DEF ModulesInv, ModuleTypeOK
<1>8. HandleOfList'
  BY <1>1, <1>6, ModuleAssumption DEF ModulesInv, HandleOfList
<1>9. call # Idle
  BY DEF Trying
<1>10. api' \in [loaded : BOOLEAN, rc : {"none", "OK", "ERR"}, failed : BOOLEAN]
  BY DEF ModulesInv, ModuleTypeOK, NextLibrary, LoadReturns, ApiFails, ApiEnds, NextObject
<1> QED
  BY <1>1, <1>2, <1>6, <1>7, <1>8, <1>9, <1>10, TryCall DEF ModuleTypeOK

\* A round takes a reference to a library that was never cached only.
LEMMA TryCache ==
  ASSUME ModulesInv, NEW o, NEW d, NEW got, NEW l, Trying(o, d, got, l)
  PROVE  CacheInv'
<1>1. /\ d \in Dll
      /\ refs' \in [Dll -> {0, 1}] /\ refs \in [Dll -> {0, 1}]
      /\ freed \subseteq Dll /\ moduleMap \subseteq Dll
      /\ freed' = freed \cup {e \in Dll \ Pinned : refs[e] > 0 /\ refs'[e] = 0}
      /\ Stale(o, l) \/ Taken(o, d, l)
  BY TryHandles DEF ModulesInv, ModuleTypeOK
<1>2. \A e \in Dll : refs'[e] = 1 => e \in moduleMap' /\ (refs[e] = 1 \/ e \notin moduleMap)
  BY <1>1 DEF ModulesInv, CacheInv, Stale, Taken, Dropped
<1>3. /\ moduleMap \subseteq moduleMap'
      /\ \A e \in moduleMap' : e \in moduleMap \/ refs'[e] = 1
  BY <1>1 DEF Stale, Taken, Dropped
<1>4. \A e \in freed : e \in moduleMap
  BY DEF ModulesInv, CacheInv
<1> QED
  BY <1>1, <1>2, <1>3, <1>4 DEF CacheInv, ModulesInv, Live

\* Nothing is released twice or taken back, so an excuse stays one.
LEMMA ExcuseStays ==
  ASSUME released \subseteq released', NEW d, Excused(d)
  PROVE  Excused(d)'
BY DEF Excused, NoFunctions

\* A round loses its object's own library only: released, or one it may give up.
LEMMA TryExcuse ==
  ASSUME ModulesInv, NEW o, NEW d, NEW got, NEW l, Trying(o, d, got, l),
         NextLibrary \/ LoadReturns \/ ApiFails \/ (call.api # 0 /\ (ApiEnds \/ NextObject))
  PROVE  ExcuseInv'
<1> DEFINE h == obj[o].hModule
           h2 == l.hModule
           p == [f \in Functions(o) |-> IF f \notin got THEN obj[o].ptr[f]
                                         ELSE IF h2 = "none" THEN d ELSE h2]
<1>1. /\ o \in Object /\ d \in Listed(o) /\ Listed(o) \subseteq Dll
      /\ call.at \in 1 .. Len(DLL_NAMES[o]) /\ Len(DLL_NAMES[o]) \in Nat
      /\ h \in Listed(o) \cup {"none"} /\ h2 \in Listed(o) \cup {"none"}
      /\ refs' \in [Dll -> {0, 1}] /\ refs \in [Dll -> {0, 1}]
      /\ freed' = freed \cup {e \in Dll \ Pinned : refs[e] > 0 /\ refs'[e] = 0}
      /\ Stale(o, l) \/ Taken(o, d, l)
  BY TryHandles DEF ModulesInv, ModuleTypeOK
<1>2. /\ call # Idle /\ o = call.o /\ d = DLL_NAMES[o][call.at]
      /\ obj' = [obj EXCEPT ![o] = [szDllName |-> d, hModule |-> h2, ptr |-> p]]
      /\ functionMap' = functionMap \cup {<<d, f>> : f \in got}
      /\ got \subseteq Functions(o)
      /\ h2 = "none" => \A f \in got : <<d, f>> \in functionMap
      /\ released' = IF call.at = 1 /\ obj[o].szDllName # "none" THEN released \cup {o}
                                                               ELSE released
  BY DEF Trying, Round
<1>3. released \subseteq released'
  BY <1>2
<1>4. h # "none" => h \in Pinned \/ NoFunctions(h) \/ o \in released'
  <2>1. CASE call.at = 1
    BY <1>1, <1>2, <2>1 DEF ModulesInv, HandleOfList
  <2>2. CASE call.at > 1
    BY <1>2, <1>3, <2>2 DEF ModulesInv, ExcuseInv
  <2> QED
    BY <1>1, <2>1, <2>2
<1>5. obj \in [Object -> [szDllName : Library, hModule : Library,
                         ptr : UNION {[Functions(q) -> Library] : q \in Object}]]
  BY DEF ModulesInv, ModuleTypeOK
<1> HIDE DEF h, h2, p
<1>6. /\ obj'[o].hModule = h2 /\ obj'[o].ptr = p
      /\ \A q \in Object \ {o} : obj'[q] = obj[q]
  BY <1>1, <1>2, <1>5
\* Only the handle's own library is lost, and not without an excuse.
<1>7. ASSUME NEW e \in Dll, Live(e), ~Live(e)' PROVE Excused(e)'
  <2>1. e \notin Pinned /\ refs[e] = 1 /\ refs'[e] = 0
    BY <1>1, <1>7 DEF Live
  <2>2. e = h /\ h # "none"
    <3>1. Dropped(h)[e] = IF e = h THEN 0 ELSE refs[e]
      BY DEF Dropped
    <3>2. Dropped(h) = [x \in Dll |-> IF x = h THEN 0 ELSE refs[x]]
      BY DEF Dropped
    <3>3. ~Stale(o, l)
      BY <2>1 DEF Stale
    <3>4. refs' = Dropped(h) \/ refs' = [Dropped(h) EXCEPT ![d] = 1]
      BY <1>1, <3>3 DEF Taken, h
    <3>5. Dropped(h)[e] = 0
      BY <1>1, <2>1, <3>2, <3>4
    <3> QED
      BY <2>1, <3>1, <3>5, ModuleAssumption
  <2> QED
    BY <1>1, <1>4, <2>1, <2>2 DEF Excused, NoFunctions
<1>8. \A e \in freed' : Excused(e)'
  <2>1. ASSUME NEW e \in Dll \ Pinned, refs[e] > 0, refs'[e] = 0 PROVE Excused(e)'
    BY <1>7, <2>1 DEF Live
  <2> QED
    BY <1>1, <1>3, <2>1, ExcuseStays DEF ModulesInv, ExcuseInv
\* A library asked of a stale handle.
<1>9. ASSUME Stale(o, l), NEW f \in Functions(o) PROVE o \in released' /\ Excused(d)'
  <2>1. h # "none" /\ ~Live(h)
    BY <1>9 DEF Stale, h
  <2>2. h \notin Pinned /\ ~NoFunctions(h)
    BY <1>1, <2>1, <1>9 DEF Live, NoFunctions
  <2> QED
    BY <1>1, <1>4, <2>1, <2>2 DEF Excused
<1>10. ASSUME NEW e \in Dll, NEW f \in Fn, <<e, f>> \in functionMap'
       PROVE  e \in moduleMap' \/ Excused(e)'
  <2>1. moduleMap \subseteq moduleMap'
    BY <1>1 DEF Stale, Taken
  <2>2. CASE <<e, f>> \in functionMap
    BY <1>3, <2>1, <2>2, ExcuseStays DEF ModulesInv, ExcuseInv
  <2>3. CASE e = d /\ f \in got /\ h2 # "none"
    <3>1. CASE Stale(o, l)
      BY <1>2, <1>9, <2>3, <3>1
    <3>2. CASE Taken(o, d, l)
      BY <2>3, <3>2 DEF Taken, h2
    <3> QED
      BY <1>1, <3>1, <3>2
  <2> QED
    BY <1>2, <1>10, <2>2, <2>3
<1>11. ASSUME call' # Idle, call'.at > 1
       PROVE  LET g == obj'[call'.o].hModule
              IN  g = "none" \/ g \in Pinned \/ NoFunctions(g) \/ call'.o \in released'
  <2>1. call.at < Len(DLL_NAMES[o]) /\ call'.o = o
    BY <1>2, <1>11, TryCall
  <2>2. obj'[call'.o].hModule = h2
    BY <1>6, <2>1
  <2>3. CASE Stale(o, l)
    <3>1. h2 = h /\ h # "none" /\ h \notin Pinned
      BY <2>3 DEF Stale, Live, h, h2
    <3> QED
      BY <1>4, <2>1, <2>2, <3>1
  <2>4. CASE Taken(o, d, l)
    <3>1. h2 = "none" \/ h2 = d
      BY <2>4 DEF Taken, h2
    <3>2. d \in Pinned \/ NoFunctions(d)
      <4>1. call.at \in 1 .. Len(DLL_NAMES[o]) - 1
        BY <1>1, <2>1
      <4> QED
        BY <1>1, <1>2, <4>1, ModuleAssumption DEF NoFunctions
    <3> QED
      BY <2>2, <3>1, <3>2
  <2> QED
    BY <1>1, <2>3, <2>4
<1>12. ASSUME NEW q \in Object, NEW f \in Functions(q), NEW e, e = obj'[q].ptr[f],
              e # "none"
       PROVE  Live(e)' \/ Excused(e)'
  <2>1. CASE e = obj[q].ptr[f]
    <3>1. e \in Dll
      BY <1>12, <2>1, ListedIsDll DEF ModulesInv, ModuleTypeOK
    <3>2. Live(e) \/ Excused(e)
      BY <1>12, <2>1 DEF ModulesInv, ExcuseInv
    <3> QED
      BY <1>3, <1>7, <3>1, <3>2, ExcuseStays
  <2>2. CASE q = o /\ f \in got /\ e = d /\ h2 = "none"
    <3>1. Taken(o, d, l) /\ d \notin moduleMap
      BY <1>1, <2>2, ModuleAssumption DEF Stale, Taken, h2
    <3>2. f \in Fn /\ <<d, f>> \in functionMap
      BY <1>1, <1>2, <2>2 DEF Fn
    <3>3. Excused(d)
      BY <1>1, <3>1, <3>2 DEF ModulesInv, ExcuseInv
    <3> QED
      BY <1>3, <2>2, <3>3, ExcuseStays
  <2>3. CASE q = o /\ f \in got /\ e = h2 /\ h2 # "none"
    <3>1. CASE Stale(o, l)
      <4>1. o \in released' /\ h2 \in Listed(o)
        BY <1>1, <1>9, <1>12, <2>3, <3>1
      <4> QED
        BY <2>3, <4>1 DEF Excused
    <3>2. CASE Taken(o, d, l)
      <4>1. h2 \in moduleMap'
        BY <2>3, <3>2 DEF Taken, h2
      <4>2. Live(h2)' \/ h2 \in freed'
        BY <4>1, TryCache DEF CacheInv
      <4> QED
        BY <1>8, <2>3, <4>2
    <3> QED
      BY <1>1, <3>1, <3>2
  <2> QED
    BY <1>6, <1>12, <2>1, <2>2, <2>3 DEF p
<1> QED
  BY <1>8, <1>10, <1>11, <1>12 DEF ExcuseInv

\* A round completes its object, or API::Load does not go on from it.
LEMMA TryApi ==
  ASSUME ModulesInv, NEW o, NEW d, NEW got, NEW l, Trying(o, d, got, l),
         \/ NextLibrary \/ LoadReturns \/ ApiFails
         \/ /\ call.api # 0 /\ (ApiEnds \/ NextObject)
            /\ o \in Necessary => Required[o] \subseteq got
  PROVE  ApiInv'
<1>1. o \in Object /\ o = call.o /\ d # "none" /\ released \subseteq released'
  <2>1. o \in Object /\ d \in Dll
    BY TryHandles
  <2>2. o = call.o /\ released \subseteq released'
    BY DEF Trying, Round
  <2> QED
    BY <2>1, <2>2, ModuleAssumption
<1> DEFINE p == [f \in Functions(o) |-> IF f \notin got THEN obj[o].ptr[f]
                                         ELSE IF l.hModule = "none" THEN d ELSE l.hModule]
<1>2. obj' = [obj EXCEPT ![o] = [szDllName |-> d, hModule |-> l.hModule, ptr |-> p]]
  BY DEF Trying, Round
<1>3. ASSUME NEW f \in Functions(o)
      PROVE  p[f] = IF f \notin got THEN obj[o].ptr[f]
                    ELSE IF l.hModule = "none" THEN d ELSE l.hModule
  OBVIOUS
<1>4. obj \in [Object -> [szDllName : Library, hModule : Library,
                         ptr : UNION {[Functions(q) -> Library] : q \in Object}]]
  BY DEF ModulesInv, ModuleTypeOK
<1> HIDE DEF p
<1>5. obj'[o].ptr = p /\ \A q \in Object \ {o} : obj'[q] = obj[q]
  BY <1>1, <1>2, <1>4
<1>6. /\ \A q \in Object : Complete(q) => Complete(q)'
      /\ Required[o] \subseteq got => Complete(o)'
  <2>1. \A q \in Object \ {o} : Complete(q) => Complete(q)'
    BY <1>5 DEF Complete
  <2>2. Required[o] \subseteq Functions(o)
    BY DEF Functions
  <2>3. Complete(o)' <=> \A f \in Required[o] : p[f] # "none"
    BY <1>5 DEF Complete
  <2>4. \A f \in Functions(o) : (obj[o].ptr[f] # "none" \/ f \in got) => p[f] # "none"
    BY <1>1, <1>3
  <2>5. Complete(o) => Complete(o)'
    BY <2>2, <2>3, <2>4 DEF Complete
  <2>6. Required[o] \subseteq got => Complete(o)'
    BY <2>2, <2>3, <2>4
  <2> QED
    BY <2>1, <2>5, <2>6
<1>7. /\ LoadOrder \in Seq(Object) /\ Len(LoadOrder) \in Nat \ {0}
      /\ call \in [o : Object \cup {"none"}, at : Nat, api : 0 .. Len(LoadOrder)]
      /\ api \in [loaded : BOOLEAN, rc : {"none", "OK", "ERR"}, failed : BOOLEAN]
      /\ \A i \in 1 .. Len(LoadOrder) : LoadOrder[i] \in Object
  BY ModuleAssumption DEF ModulesInv, ModuleTypeOK
<1>8. /\ call.api # 0 => call.o = LoadOrder[call.api] /\ api.loaded
      /\ ~api.failed /\ released = {} /\ api.loaded =>
           Done(IF call.api = 0 THEN Len(LoadOrder) ELSE call.api - 1)
  BY DEF ModulesInv, ApiInv
<1>9. ASSUME NEW n \in 0 .. Len(LoadOrder), Done(n) PROVE Done(n)'
  <2>1. ASSUME NEW i \in 1 .. n, LoadOrder[i] \in Necessary PROVE Complete(LoadOrder[i])'
    <3>1. LoadOrder[i] \in Object
      BY <1>7
    <3> QED
      BY <1>6, <1>9, <2>1, <3>1 DEF Done
  <2> QED
    BY <2>1 DEF Done
<1>n. PICK n \in 0 .. Len(LoadOrder) : n = call.api
  BY <1>7
<1>10. ASSUME n # 0, o \in Necessary => Required[o] \subseteq got, Done(n - 1)
       PROVE  Done(n)'
  <2>1. n \in 1 .. Len(LoadOrder) /\ LoadOrder[n] = o
    BY <1>1, <1>7, <1>8, <1>n, <1>10
  <2>2. ASSUME NEW i \in 1 .. n, LoadOrder[i] \in Necessary
        PROVE  Complete(LoadOrder[i])'
    <3>1. CASE i = n
      BY <1>6, <1>10, <2>1, <2>2, <3>1
    <3>2. CASE i # n
      <4>1. i \in 1 .. n - 1 /\ LoadOrder[i] \in Object
        BY <1>7, <2>1, <3>2
      <4> QED
        BY <1>6, <1>10, <2>2, <4>1 DEF Done
    <3> QED
      BY <3>1, <3>2
  <2> QED
    BY <2>2 DEF Done
<1>11. Idle.api = 0
  BY DEF Idle
<1>m. n - 1 \in 0 .. Len(LoadOrder) \/ n = 0
  BY <1>7
<1>12. CASE NextLibrary
  <2>1. call'.api = n /\ call'.o = call.o /\ api' = api
    BY <1>7, <1>12, <1>n DEF NextLibrary
  <2>2. ~api.failed /\ released' = {} /\ api.loaded =>
          Done(IF n = 0 THEN Len(LoadOrder) ELSE n - 1)
    BY <1>1, <1>8, <1>n
  <2>3. ASSUME ~api.failed, released' = {}, api.loaded
        PROVE  Done(IF call.api = 0 THEN Len(LoadOrder) ELSE call.api - 1)'
    <3>1. CASE n = 0
      BY <1>7, <1>9, <2>1, <2>2, <2>3, <3>1
    <3>2. CASE n # 0
      BY <1>7, <1>9, <1>m, <2>1, <2>2, <2>3, <3>2
    <3> QED
      BY <3>1, <3>2
  <2> QED
    BY <1>8, <1>n, <2>1, <2>3 DEF ApiInv
<1>13. CASE LoadReturns
  <2>1. n = 0 /\ call'.api = 0 /\ api' = api
    BY <1>11, <1>13, <1>n DEF LoadReturns
  <2>2. ~api.failed /\ released' = {} /\ api.loaded => Done(Len(LoadOrder))'
    BY <1>1, <1>7, <1>8, <1>9, <1>n, <2>1
  <2> QED
    BY <1>8, <1>n, <2>1, <2>2 DEF ApiInv
<1>14. CASE ApiFails
  <2>1. call'.api = 0 /\ api'.failed = TRUE /\ api'.rc = "ERR"
    BY <1>7, <1>11, <1>14 DEF ApiFails
  <2> QED
    BY <2>1 DEF ApiInv
<1>15. CASE /\ call.api # 0 /\ ApiEnds
            /\ o \in Necessary => Required[o] \subseteq got
  <2>1. /\ call'.api = 0 /\ n = Len(LoadOrder) /\ n # 0
        /\ api'.failed = api.failed /\ api'.loaded = api.loaded
    BY <1>7, <1>11, <1>15, <1>n DEF ApiEnds
  <2>2. ~api.failed /\ released' = {} => Done(n)'
    BY <1>1, <1>8, <1>10, <1>15, <1>n, <2>1
  <2>3. Done(n)' => Done(Len(LoadOrder))'
    BY <2>1
  <2> QED
    BY <1>8, <1>15, <2>1, <2>2, <2>3 DEF ApiInv
<1>16. CASE /\ call.api # 0 /\ NextObject
            /\ o \in Necessary => Required[o] \subseteq got
  <2>1. call'.api = n + 1 /\ call'.o = LoadOrder[n + 1] /\ api' = api /\ n # 0
    BY <1>16, <1>n DEF NextObject
  <2>2. call'.api # 0 /\ call'.api - 1 = n
    BY <1>7, <2>1
  <2>3. ~api.failed /\ released' = {} => Done(n)'
    BY <1>1, <1>8, <1>10, <1>16, <1>n, <2>1
  <2>4. ASSUME ~api.failed, released' = {}
        PROVE  Done(IF call.api = 0 THEN Len(LoadOrder) ELSE call.api - 1)'
    BY <2>2, <2>3, <2>4
  <2> QED
    BY <1>8, <1>16, <1>n, <2>1, <2>2, <2>4 DEF ApiInv
<1> QED
  BY <1>12, <1>13, <1>14, <1>15, <1>16

\* A round of the loop keeps the invariant.
LEMMA TryStep ==
  ASSUME ModulesInv, TryDll
  PROVE  ModulesInv'
<1>1. PICK got, l :
        LET o == call.o
            d == DLL_NAMES[o][call.at]
        IN  /\ call # Idle
            /\ l = BaseLoad(o, d, BaseUnload(o).hModule, BaseUnload(o).refs)
            /\ Round(o, d, got, l)
            /\ \/ NextLibrary \/ LoadReturns \/ ApiFails
               \/ /\ call.api # 0 /\ (ApiEnds \/ NextObject)
                  /\ o \in Necessary => Required[o] \subseteq got
  BY TryCases DEF ModulesInv
<1> DEFINE o == call.o
           d == DLL_NAMES[o][call.at]
<1>2. Trying(o, d, got, l)
  BY <1>1 DEF Trying
<1>3. /\ \/ NextLibrary \/ LoadReturns \/ ApiFails
         \/ /\ call.api # 0 /\ (ApiEnds \/ NextObject)
            /\ o \in Necessary => Required[o] \subseteq got
  BY <1>1
<1>a. NextLibrary \/ LoadReturns \/ ApiFails \/ (call.api # 0 /\ (ApiEnds \/ NextObject))
  BY <1>1
<1> HIDE DEF o, d
<1>4. ModuleTypeOK' /\ HandleOfList'
  BY <1>2, <1>a, TryTypes
<1>5. CacheInv'
  BY <1>2, TryCache
<1>6. ExcuseInv'
  BY <1>2, <1>a, TryExcuse
<1>7. ApiInv'
  BY <1>2, <1>3, TryApi
<1> QED
  BY <1>4, <1>5, <1>6, <1>7 DEF ModulesInv

\* Nothing is loaded.
LEMMA ModulesInvInit == ModulesInit => ModulesInv
<1> SUFFICES ASSUME ModulesInit PROVE ModulesInv
  OBVIOUS
<1>1. /\ refs = [d \in Dll |-> 0] /\ moduleMap = {} /\ functionMap = {}
      /\ obj = [o \in Object |-> [szDllName |-> "none", hModule |-> "none",
                                  ptr |-> [f \in Functions(o) |-> "none"]]]
      /\ call = Idle /\ api = [loaded |-> FALSE, rc |-> "none", failed |-> FALSE]
      /\ freed = {} /\ released = {}
  BY DEF ModulesInit
<1>2. \A o \in Object : /\ [f \in Functions(o) |-> "none"] \in [Functions(o) -> Library]
                        /\ obj[o].hModule = "none" /\ obj[o].szDllName = "none"
                        /\ obj[o].ptr = [f \in Functions(o) |-> "none"]
  BY <1>1 DEF Library
<1>3. obj \in [Object -> [szDllName : Library, hModule : Library,
                         ptr : UNION {[Functions(q) -> Library] : q \in Object}]]
  BY <1>1, <1>2 DEF Library
<1>4. Len(LoadOrder) \in Nat /\ call.api = 0
  BY <1>1, ModuleAssumption DEF Idle
<1>5. ModuleTypeOK
  BY <1>1, <1>2, <1>3, <1>4 DEF ModuleTypeOK, Idle
<1>6. HandleOfList
  BY <1>2 DEF HandleOfList
<1>7. CacheInv
  BY <1>1 DEF CacheInv
<1>8. ExcuseInv
  BY <1>1, <1>2 DEF ExcuseInv
<1>9. ApiInv
  BY <1>1, <1>4 DEF ApiInv
<1> QED
  BY <1>5, <1>6, <1>7, <1>8, <1>9 DEF ModulesInv

\* A Load from outside only begins the loop.
LEMMA LoadStep ==
  ASSUME ModulesInv, LoadApi \/ \E o \in Object : LoadObject(o)
  PROVE  ModulesInv'
<1>1. /\ call = Idle
      /\ refs' = refs /\ moduleMap' = moduleMap /\ functionMap' = functionMap /\ obj' = obj
      /\ freed' = freed /\ released' = released
  BY DEF LoadApi, LoadObject, Called
<1>2. /\ LoadOrder \in Seq(Object) /\ Len(LoadOrder) \in Nat \ {0}
      /\ LoadOrder[1] \in Object
      /\ \A o \in Object : Len(DLL_NAMES[o]) \in Nat \ {0}
      /\ api \in [loaded : BOOLEAN, rc : {"none", "OK", "ERR"}, failed : BOOLEAN]
      /\ call.api = 0
  BY <1>1, ModuleAssumption, ListedIsDll DEF ModulesInv, ModuleTypeOK, Idle
<1> DEFINE One == /\ \E o \in Object : call' = [o |-> o, at |-> 1, api |-> 0]
                  /\ api' = api
           Again == api.loaded /\ api' = [api EXCEPT !.rc = "OK"] /\ call' = call
           First == /\ ~api.loaded /\ api' = [api EXCEPT !.loaded = TRUE]
                    /\ call' = [o |-> LoadOrder[1], at |-> 1, api |-> 1]
           Typed == /\ call' \in [o : Object \cup {"none"}, at : Nat, api : 0 .. Len(LoadOrder)]
                    /\ call' # Idle => call'.o \in Object /\ call'.at = 1
                    /\ api' \in [loaded : BOOLEAN, rc : {"none", "OK", "ERR"},
                                 failed : BOOLEAN]
<1>3. One \/ Again \/ First
  BY DEF LoadApi, LoadObject
<1>4. Typed
  <2>1. CASE One
    <3>1. PICK o \in Object : call' = [o |-> o, at |-> 1, api |-> 0]
      BY <2>1
    <3> QED
      BY <1>2, <2>1, <3>1
  <2>2. CASE Again
    BY <1>1, <1>2, <2>2 DEF ModulesInv, ModuleTypeOK
  <2>3. CASE First
    <3>1. 1 \in 0 .. Len(LoadOrder)
      BY <1>2
    <3>2. call' = [o |-> LoadOrder[1], at |-> 1, api |-> 1] /\ LoadOrder[1] \in Object
      BY <1>2, <2>3
    <3>3. call' \in [o : Object \cup {"none"}, at : Nat, api : 0 .. Len(LoadOrder)]
      BY <3>1, <3>2
    <3>4. call'.o \in Object /\ call'.at = 1
      BY <3>2
    <3>5. api' \in [loaded : BOOLEAN, rc : {"none", "OK", "ERR"}, failed : BOOLEAN]
      BY <1>2, <2>3
    <3> QED
      BY <3>3, <3>4, <3>5
  <2> HIDE DEF One, Again, First, Typed
  <2> QED
    BY <1>3, <2>1, <2>2, <2>3
<1>5. ModuleTypeOK'
  BY <1>1, <1>2, <1>4 DEF ModulesInv, ModuleTypeOK
<1>6. HandleOfList' /\ CacheInv'
  BY <1>1 DEF ModulesInv, HandleOfList, CacheInv, Live
<1>7. ExcuseInv'
  BY <1>1, <1>4 DEF ModulesInv, ExcuseInv, Excused, NoFunctions, Live
<1>8. ApiInv'
  <2>1. ~api.failed /\ released = {} /\ api.loaded => Done(Len(LoadOrder))
    BY <1>2 DEF ModulesInv, ApiInv
  <2>2. CASE One \/ Again
    <3>1. call'.api = 0 /\ api'.loaded = api.loaded /\ api'.failed = api.failed
      BY <1>1, <1>2, <2>1, <2>2
    <3> HIDE DEF One, Again
    <3> QED
      BY <1>1, <2>1, <3>1 DEF ApiInv, Done, Complete
  <2>3. CASE First
    <3>1. call'.api = 1 /\ call'.o = LoadOrder[1] /\ api'.loaded
      BY <1>2, <2>1, <2>3
    <3>2. ASSUME NEW i \in 1 .. (IF call'.api = 0 THEN Len(LoadOrder) ELSE call'.api - 1)
          PROVE  FALSE
      BY <3>1
    <3> QED
      BY <3>1, <3>2 DEF ApiInv, Done
  <2> QED
    BY <1>3, <2>2, <2>3
<1> QED
  BY <1>5, <1>6, <1>7, <1>8 DEF ModulesInv

\* A second caller of API::Load changes nothing but the last answer.
LEMMA MeanwhileStep ==
  ASSUME ModulesInv, LoadApiMeanwhile
  PROVE  ModulesInv'
<1>1. /\ refs' = refs /\ moduleMap' = moduleMap /\ functionMap' = functionMap
      /\ obj' = obj /\ call' = call /\ freed' = freed /\ released' = released
      /\ api' = [api EXCEPT !.rc = "OK"]
  BY DEF LoadApiMeanwhile
<1>2. api \in [loaded : BOOLEAN, rc : {"none", "OK", "ERR"}, failed : BOOLEAN]
  BY DEF ModulesInv, ModuleTypeOK
<1>3. /\ api' \in [loaded : BOOLEAN, rc : {"none", "OK", "ERR"}, failed : BOOLEAN]
      /\ api'.loaded = api.loaded /\ api'.failed = api.failed
  BY <1>1, <1>2
<1>4. ModuleTypeOK' /\ HandleOfList' /\ CacheInv'
  BY <1>1, <1>3 DEF ModulesInv, ModuleTypeOK, HandleOfList, CacheInv, Live
<1>5. ExcuseInv'
  BY <1>1 DEF ModulesInv, ExcuseInv, Live, Excused, NoFunctions
<1>6. ApiInv'
  BY <1>1, <1>3 DEF ModulesInv, ApiInv, Done, Complete
<1> QED
  BY <1>4, <1>5, <1>6 DEF ModulesInv

\* An Unload from outside releases the object and what it held.
LEMMA UnloadStep ==
  ASSUME ModulesInv, NEW o \in Object, UnloadObject(o)
  PROVE  ModulesInv'
<1> DEFINE u == BaseUnload(o)
           h == obj[o].hModule
<1>1. \/ h # "none" /\ ~Live(h) /\ u.hModule = h /\ u.refs = refs
      \/ (h = "none" \/ Live(h)) /\ u.hModule = "none" /\ u.refs = Dropped(h)
  BY UnloadCases DEF ModulesInv
<1>2. /\ call = Idle /\ call' = call /\ api' = api
      /\ moduleMap' = moduleMap /\ functionMap' = functionMap
      /\ obj' = [obj EXCEPT ![o].ptr = [f \in Functions(o) |-> "none"],
                            ![o].hModule = u.hModule]
      /\ refs' = u.refs /\ freed' = freed \cup Unmapped(u.refs)
      /\ released' = released \cup {o}
  BY DEF UnloadObject, Called
<1>3. /\ obj \in [Object -> [szDllName : Library, hModule : Library,
                             ptr : UNION {[Functions(q) -> Library] : q \in Object}]]
      /\ refs \in [Dll -> {0, 1}] /\ Listed(o) \subseteq Dll
      /\ h \in Listed(o) \cup {"none"} /\ moduleMap \subseteq Dll /\ freed \subseteq Dll
  BY ListedIsDll DEF ModulesInv, ModuleTypeOK, HandleOfList
<1>4. [f \in Functions(o) |-> "none"] \in [Functions(o) -> Library]
  BY DEF Library
<1> HIDE DEF u, h
<1>5. /\ refs' \in [Dll -> {0, 1}] /\ (u.hModule = "none" \/ u.hModule = h)
      /\ freed' = freed \cup {e \in Dll \ Pinned : refs[e] > 0 /\ refs'[e] = 0}
  BY <1>1, <1>2, <1>3 DEF Dropped, Unmapped
<1>6. /\ obj' \in [Object -> [szDllName : Library, hModule : Library,
                              ptr : UNION {[Functions(q) -> Library] : q \in Object}]]
      /\ obj'[o].ptr = [f \in Functions(o) |-> "none"] /\ obj'[o].hModule = u.hModule
      /\ obj'[o].szDllName = obj[o].szDllName
      /\ \A q \in Object \ {o} : obj'[q] = obj[q]
  <2> DEFINE p == [f \in Functions(o) |-> "none"]
             r == [obj[o] EXCEPT !.ptr = p, !.hModule = u.hModule]
  <2>1. obj' = [obj EXCEPT ![o] = r]
    BY <1>2, <1>3
  <2>2. obj[o] \in [szDllName : Library, hModule : Library,
                   ptr : UNION {[Functions(q) -> Library] : q \in Object}]
    BY <1>3
  <2>3. p \in UNION {[Functions(q) -> Library] : q \in Object} /\ u.hModule \in Library
    BY <1>3, <1>4, <1>5 DEF Library
  <2> HIDE DEF p
  <2>4. /\ r \in [szDllName : Library, hModule : Library,
                  ptr : UNION {[Functions(q) -> Library] : q \in Object}]
        /\ r.ptr = p /\ r.hModule = u.hModule /\ r.szDllName = obj[o].szDllName
    BY <2>2, <2>3
  <2> HIDE DEF r
  <2> QED
    BY <1>3, <2>1, <2>4 DEF p
<1>7. ModuleTypeOK'
  <2>1. ASSUME NEW q \in Object
        PROVE  obj'[q].ptr \in [Functions(q) -> Listed(q) \cup {"none"}]
    <3>1. CASE q = o
      <4>1. [f \in Functions(o) |-> "none"] \in [Functions(o) -> Listed(o) \cup {"none"}]
        OBVIOUS
      <4> QED
        BY <1>6, <3>1, <4>1
    <3>2. CASE q # o
      BY <1>6, <3>2 DEF ModulesInv, ModuleTypeOK
    <3> QED
      BY <3>1, <3>2
  <2>2. moduleMap' \subseteq Dll /\ freed' \subseteq Dll
    BY <1>2, <1>3, <1>5
  <2>3. refs' \in [Dll -> {0, 1}]
    BY <1>5
  <2> QED
    BY <1>2, <1>6, <2>1, <2>2, <2>3 DEF ModulesInv, ModuleTypeOK
<1>8. HandleOfList'
  BY <1>5, <1>6 DEF ModulesInv, HandleOfList, h
<1>9. /\ \A e \in Dll : refs'[e] = 1 => refs[e] = 1
      /\ \A e \in Dll : refs[e] = 1 /\ refs'[e] = 0 => e = h
  BY <1>1, <1>2, <1>3 DEF Dropped
<1>10. CacheInv'
  BY <1>2, <1>3, <1>5, <1>9 DEF ModulesInv, CacheInv, Live
<1>11. released \subseteq released'
  BY <1>2
<1>12. ASSUME NEW e \in Dll, Live(e), ~Live(e)' PROVE Excused(e)'
  <2>1. refs[e] = 1 /\ refs'[e] = 0
    BY <1>3, <1>5, <1>12 DEF Live
  <2>2. e \in Listed(o)
    BY <1>3, <1>9, <2>1, ModuleAssumption
  <2> QED
    BY <1>2, <2>2 DEF Excused
<1>13. \A e \in freed' : Excused(e)'
  <2>1. ASSUME NEW e \in Dll \ Pinned, refs[e] > 0, refs'[e] = 0 PROVE Excused(e)'
    BY <1>12, <2>1 DEF Live
  <2> QED
    BY <1>5, <1>11, <2>1, ExcuseStays DEF ModulesInv, ExcuseInv
<1>14. \A e \in Dll, f \in Fn : <<e, f>> \in functionMap' => e \in moduleMap' \/ Excused(e)'
  BY <1>2, <1>11, ExcuseStays DEF ModulesInv, ExcuseInv
<1>15. ASSUME NEW q \in Object, NEW f \in Functions(q), NEW e, e = obj'[q].ptr[f],
              e # "none"
       PROVE  Live(e)' \/ Excused(e)'
  <2>1. q # o
    BY <1>6, <1>15
  <2>2. e = obj[q].ptr[f]
    BY <1>6, <1>15, <2>1
  <2>3. e \in Dll
    BY <1>15, <2>2, ListedIsDll DEF ModulesInv, ModuleTypeOK
  <2>4. Live(e) \/ Excused(e)
    BY <1>15, <2>2 DEF ModulesInv, ExcuseInv
  <2> QED
    BY <1>11, <1>12, <2>3, <2>4, ExcuseStays
<1>16. ExcuseInv'
  BY <1>2, <1>13, <1>14, <1>15 DEF ExcuseInv
<1>17. ApiInv'
  BY <1>2 DEF ModulesInv, ApiInv, Idle
<1> QED
  BY <1>7, <1>8, <1>10, <1>16, <1>17 DEF ModulesInv

\* Every step keeps the invariant.
LEMMA ModulesInvStep == ModulesInv /\ [ModulesNext]_moduleVars => ModulesInv'
<1> SUFFICES ASSUME ModulesInv, [ModulesNext]_moduleVars PROVE ModulesInv'
  OBVIOUS
<1>1. CASE UNCHANGED moduleVars
  <2>1. /\ refs' = refs /\ moduleMap' = moduleMap /\ functionMap' = functionMap
        /\ obj' = obj /\ call' = call /\ api' = api
        /\ freed' = freed /\ released' = released
    BY <1>1 DEF moduleVars
  <2>2. ModuleTypeOK' /\ HandleOfList' /\ CacheInv'
    BY <2>1 DEF ModulesInv, ModuleTypeOK, HandleOfList, CacheInv, Live
  <2>3. ExcuseInv'
    BY <2>1 DEF ModulesInv, ExcuseInv, Live, Excused, NoFunctions
  <2>4. ApiInv'
    BY <2>1 DEF ModulesInv, ApiInv, Done, Complete
  <2> QED
    BY <2>2, <2>3, <2>4 DEF ModulesInv
<1>2. CASE LoadApi \/ \E o \in Object : LoadObject(o)
  BY <1>2, LoadStep
<1>3. CASE \E o \in Object : UnloadObject(o)
  BY <1>3, UnloadStep
<1> QED
  BY <1>1, <1>2, <1>3, TryStep, MeanwhileStep DEF ModulesNext

\* The inductive invariant of the module and function caches holds.
THEOREM ModulesInvariant == ModulesSpec => []ModulesInv
BY ModulesInvInit, ModulesInvStep, PTL DEF ModulesSpec

\* No pointer is into an unmapped library unless an object that lists it was
\* released, whatever the objects, the libraries and the calls.
THEOREM PointersDangleAfterRelease == ModulesSpec => []DanglingOnlyAfterRelease
<1>1. ModulesInv => DanglingOnlyAfterRelease
  <2> SUFFICES ASSUME ModulesInv, NEW o \in Object, NEW f \in Functions(o), NEW d,
                      d = obj[o].ptr[f], d # "none", ~Live(d)
               PROVE  \E u \in released : d \in Listed(u)
    BY DEF DanglingOnlyAfterRelease
  <2>1. d \in Listed(o)
    BY DEF ModulesInv, ModuleTypeOK
  <2>2. Excused(d)
    BY DEF ModulesInv, ExcuseInv
  <2> QED
    BY <2>1, <2>2 DEF Excused, NoFunctions
<1> QED
  BY <1>1, ModulesInvariant, PTL

\* A library is loaded once in the life of the process.
THEOREM LibrariesLoadedOnce == ModulesSpec => LoadedOnce
<1>1. ModulesInv /\ ModulesInv' /\ [ModulesNext]_moduleVars =>
        [\A d \in Dll : refs'[d] <= 1 /\ (d \in freed => refs'[d] = 0)]_moduleVars
  <2> SUFFICES ASSUME ModulesInv', [ModulesNext]_moduleVars, NEW d \in Dll
               PROVE  refs'[d] <= 1 /\ (d \in freed => refs'[d] = 0)
    OBVIOUS
  <2>1. refs' \in [Dll -> {0, 1}] /\ \A e \in freed' : refs'[e] = 0
    BY DEF ModulesInv, ModuleTypeOK, CacheInv
  <2>2. freed \subseteq freed'
    BY DEF ModulesNext, TryDll, LoadApi, LoadApiMeanwhile, LoadObject, UnloadObject, moduleVars
  <2> QED
    BY <2>1, <2>2
<1> QED
  BY <1>1, ModulesInvariant, PTL DEF ModulesSpec, LoadedOnce

\* A necessary function is never missing in silence: API::Load was not called yet,
\* is still loading or answered an error, or something was released.
THEOREM ApiLoadsAll == ModulesSpec => []ApiComplete
<1>1. ModulesInv => ApiComplete
  <2> SUFFICES ASSUME ModulesInv, api.loaded, call.api = 0, ~api.failed, released = {},
                      NEW o \in Necessary, NEW f \in Required[o]
               PROVE  obj[o].ptr[f] # "none"
    BY DEF ApiComplete
  <2>1. Done(Len(LoadOrder))
    BY DEF ModulesInv, ApiInv
  <2>2. PICK i \in 1 .. Len(LoadOrder) : LoadOrder[i] = o
    BY ModuleAssumption
  <2> QED
    BY <2>1, <2>2 DEF Done, Complete
<1> QED
  BY <1>1, ModulesInvariant, PTL

=============================================================================
