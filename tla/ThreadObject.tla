---------------------------- MODULE ThreadObject ----------------------------
(***************************************************************************)
(* cpl::sys::thread::Thread (win32/thread.hpp), which starts a thread and  *)
(* owns its handle, and the two log gates of base.hpp that the threads     *)
(* share: log::once tests and clears an unsynchronised static, log::limit  *)
(* decides by the time since its last output, which it stores after the    *)
(* callback has returned.  Another thread can come between any two         *)
(* accesses of a static.  Handles are numbered in the order they are       *)
(* opened; CreateThread and CloseHandle are external, and a thread that    *)
(* cannot be created ends the process.                                     *)
(***************************************************************************)
EXTENDS Naturals, FiniteSets

CONSTANTS
  MaxStarts,   \* calls of Start and StartEx, and so threads
  MaxTime,     \* the clock stops here
  Timeout, Limit   \* arguments of log::limit

ASSUME ThreadAssumption ==
  {MaxStarts, MaxTime, Timeout} \subseteq Nat /\ Limit \in Nat \ {0}

VARIABLES
  threadHandle,    \* 0 is nullptr
  open,            \* handles the process holds
  destroyed,
  starts,
  onlyOnce,        \* log::once's static
  worker,          \* per thread: where it is in log::once
  met,             \* history: two threads were between its test and its clear
  onces,           \* history: its outputs
  entered,         \* log::limit was called, which initialises its statics:
  timestamp, counter, first,
  gate,            \* per thread: where it is in log::limit, and its
  currentTime,     \* local of that name
  now,
  crowded,         \* history: a call was let through while another one was inside
  refused,         \* history: calls turned away since the last output, up to Limit
  outputs          \* history: when the last two outputs were let through, and how
                   \* many calls were turned away between them

handleVars == <<threadHandle, open, destroyed, starts>>
onceVars == <<onlyOnce, worker, met, onces>>
staticVars == <<entered, timestamp, counter, first>>
limitVars == <<staticVars, gate, currentTime, now, crowded, refused, outputs>>
threadVars == <<handleVars, onceVars, limitVars>>

Worker == 1 .. MaxStarts

ThreadInit ==
  /\ threadHandle = 0 /\ open = {} /\ destroyed = FALSE /\ starts = 0
  /\ onlyOnce = TRUE /\ worker = [w \in Worker |-> "none"] /\ met = FALSE /\ onces = 0
  /\ entered = FALSE /\ timestamp = 0 /\ counter = 0 /\ first = TRUE
  /\ gate = [w \in Worker |-> "out"] /\ currentTime = [w \in Worker |-> 0] /\ now = 0
  /\ crowded = FALSE /\ refused = Limit
  /\ outputs = [previous |-> 0, latest |-> 0, refused |-> Limit]

\* Start and StartEx: the new handle replaces the old one unseen.
Start ==
  /\ ~destroyed
  /\ starts < MaxStarts
  /\ starts' = starts + 1
  /\ threadHandle' = starts + 1
  /\ open' = open \cup {starts + 1}
  /\ worker' = [worker EXCEPT ![starts + 1] = "running"]
  /\ UNCHANGED <<destroyed, onlyOnce, met, onces, limitVars>>

\* The destructor closes the handle and does not wait for the thread.
Destroy ==
  /\ ~destroyed
  /\ destroyed' = TRUE
  /\ open' = IF threadHandle # 0 THEN open \ {threadHandle} ELSE open
  /\ UNCHANGED <<threadHandle, starts, onceVars, limitVars>>

OnceTests(w) ==
  /\ worker[w] = "running"
  /\ worker' = [worker EXCEPT ![w] = IF onlyOnce THEN "passed" ELSE "done"]
  /\ met' = (met \/ (onlyOnce /\ \E v \in Worker : worker[v] = "passed"))
  /\ UNCHANGED <<handleVars, onlyOnce, onces, limitVars>>

\* Mutant: the static is not cleared.
OnceLogsUncleared(w) ==
  /\ worker[w] = "passed"
  /\ worker' = [worker EXCEPT ![w] = "done"]
  /\ onces' = onces + 1
  /\ UNCHANGED <<handleVars, onlyOnce, met, limitVars>>

OnceLogs(w) ==
  /\ worker[w] = "passed"
  /\ worker' = [worker EXCEPT ![w] = "done"]
  /\ onlyOnce' = FALSE
  /\ onces' = onces + 1
  /\ UNCHANGED <<handleVars, met, limitVars>>

\* The first call initialises the timestamp with its own time.
LimitTests(w) ==
  LET start == IF entered THEN timestamp ELSE now
      passes == now - start >= Timeout \/ counter + 1 > Limit \/ first
  IN  /\ worker[w] # "none" /\ gate[w] = "out"
      /\ entered' = TRUE /\ timestamp' = start
      /\ IF passes
         THEN /\ gate' = [gate EXCEPT ![w] = "passed"]
              /\ currentTime' = [currentTime EXCEPT ![w] = now]
              /\ crowded' = (crowded \/ \E v \in Worker : gate[v] # "out")
              /\ UNCHANGED refused
         ELSE /\ refused' = IF refused < Limit THEN refused + 1 ELSE refused
              /\ UNCHANGED <<gate, currentTime, crowded>>
      /\ UNCHANGED <<handleVars, onceVars, counter, first, now, outputs>>

\* The callback, after the mark of the first call was cleared.
LimitLogs(w) ==
  /\ gate[w] = "passed"
  /\ gate' = [gate EXCEPT ![w] = "logged"]
  /\ first' = FALSE
  /\ outputs' = [previous |-> outputs.latest, latest |-> currentTime[w], refused |-> refused]
  /\ refused' = 0
  /\ UNCHANGED <<handleVars, onceVars, entered, timestamp, counter, currentTime, now, crowded>>

\* Mutant: the timestamp stays that of the first call.
LimitStoresNothing(w) ==
  /\ gate[w] = "logged"
  /\ gate' = [gate EXCEPT ![w] = "out"]
  /\ currentTime' = [currentTime EXCEPT ![w] = 0]
  /\ UNCHANGED <<handleVars, onceVars, staticVars, now, crowded, refused, outputs>>

\* What is stored is the time of the test, however long the callback took.
LimitStores(w) ==
  /\ gate[w] = "logged"
  /\ gate' = [gate EXCEPT ![w] = "out"]
  /\ timestamp' = currentTime[w]
  /\ counter' = 0
  /\ currentTime' = [currentTime EXCEPT ![w] = 0]
  /\ UNCHANGED <<handleVars, onceVars, entered, first, now, crowded, refused, outputs>>

Tick ==
  /\ now < MaxTime
  /\ now' = now + 1
  /\ UNCHANGED <<handleVars, onceVars, staticVars, gate, currentTime, crowded, refused, outputs>>

ThreadNext ==
  \/ Start \/ Destroy
  \/ \E w \in Worker : \/ OnceTests(w) \/ OnceLogs(w)
                       \/ LimitTests(w) \/ LimitLogs(w) \/ LimitStores(w)
  \/ Tick

ThreadSpec == ThreadInit /\ [][ThreadNext]_threadVars

-----------------------------------------------------------------------------
\* Every start but the last loses its handle for good; the last is closed.
HandlesAccounted ==
  /\ open = (1 .. starts) \ (IF destroyed THEN {starts} ELSE {})
  /\ ~destroyed /\ starts > 0 => threadHandle \in open

\* log::once outputs more than once only when two threads passed its test together.
OnceAccounted == onces > 1 => met

\* As long as no call of log::limit was let through while another was inside, an
\* output comes Timeout after the one before it, or after Limit calls were turned
\* away, as the very first is taken to.  (The code never counts a call, so no
\* other output comes after Limit.)
LimitSpacing ==
  ~crowded => \/ outputs.latest - outputs.previous >= Timeout
              \/ outputs.refused >= Limit

(***************************************************************************)
(* What a thread object and the log gates lose, and only that: the handles *)
(* of all starts but the last, one output per race on log::once, and every *)
(* log::limit call within the timeout unless threads raced on its statics. *)
(***************************************************************************)
ThreadsAccounted == HandlesAccounted /\ OnceAccounted /\ LimitSpacing

=============================================================================
