--------------------------- MODULE DynamicModules ---------------------------
(***************************************************************************)
(* The run-time loading of system libraries: the base class DynamicModule  *)
(* (win32/sys.hpp) with its two process-wide caches, which nothing ever    *)
(* erases, the generated classes (win32/api.hpp) that try a list of        *)
(* libraries for their functions, and the singleton API that loads them    *)
(* all.  What LoadLibrary, FreeLibrary and GetProcAddress do is external.  *)
(***************************************************************************)
EXTENDS Naturals, Sequences, FiniteSets

CONSTANTS
  DLL_NAMES,     \* per object: the libraries it tries, in order
  Required, Optional,   \* per object: its functions
  Necessary,     \* objects whose Load reports an error when no library will do
  LoadOrder,     \* the objects in the order API::Load loads them
  Pinned,        \* libraries the process imports itself and never loses
  MaxPublicCalls \* calls of Load and Unload from outside

VARIABLES
  exports,       \* what each library offers on this system, "absent" if it is not there
  refs,          \* per library: references taken with LoadLibrary
  moduleMap,     \* libraries cached by name
  functionMap,   \* pairs of library and function cached by name
  obj,           \* per object: szDllName, hModule, function pointers
  call,          \* the Load in progress
  api,           \* API: its flag, the last answer of its Load, whether one was an error
  publicCalls,
  freed,         \* history: libraries unmapped
  released       \* history: objects unloaded, or loaded a second time

moduleVars == <<exports, refs, moduleMap, functionMap, obj, call, api, publicCalls, freed, released>>

Object == DOMAIN DLL_NAMES
Dll == UNION {{DLL_NAMES[o][i] : i \in DOMAIN DLL_NAMES[o]} : o \in Object}
Functions(o) == Required[o] \cup Optional[o]
Fn == UNION {Functions(o) : o \in Object}
Listed(o) == {DLL_NAMES[o][i] : i \in DOMAIN DLL_NAMES[o]}

\* The functions anyone looks for in a library.
Sought(d) == UNION {Functions(o) : o \in {p \in Object : d \in Listed(p)}}

\* Every object tries a library, and API::Load loads all that are necessary.  An
\* object that goes on to another library gives up one that the process keeps
\* (Kernel32) or one from which nobody takes a function (OpenSSL's have none).
ASSUME ModuleAssumption ==
  /\ \A o \in Object : DLL_NAMES[o] \in Seq(Dll) \ {<<>>}
  /\ "none" \notin Dll /\ Pinned \subseteq Dll
  /\ LoadOrder \in Seq(Object) \ {<<>>}
  /\ Necessary \subseteq {LoadOrder[i] : i \in DOMAIN LoadOrder}
  /\ \A o \in Object : \A i \in 1 .. Len(DLL_NAMES[o]) - 1 :
       \/ DLL_NAMES[o][i] \in Pinned
       \/ \A p \in Object : DLL_NAMES[o][i] \in Listed(p) => Functions(p) = {}

Absent == {"absent"}
Idle == [o |-> "none", at |-> 0, api |-> 0]

\* A library is mapped while someone holds a reference, or for good.
Live(d) == d \in Pinned \/ refs[d] > 0

ModulesInit ==
  /\ exports \in [Dll -> {Absent} \cup SUBSET Fn]
  /\ \A d \in Dll : exports[d] = Absent \/ exports[d] \subseteq Sought(d)
  /\ \A d \in Pinned : exports[d] # Absent
  /\ refs = [d \in Dll |-> 0]
  /\ moduleMap = {}
  /\ functionMap = {}
  /\ obj = [o \in Object |-> [szDllName |-> "none", hModule |-> "none",
                              ptr |-> [f \in Functions(o) |-> "none"]]]
  /\ call = Idle
  /\ api = [loaded |-> FALSE, rc |-> "none", failed |-> FALSE]
  /\ publicCalls = 0
  /\ freed = {}
  /\ released = {}

(***************************************************************************)
(* Freeing: FreeLibrary fails on a handle that is no longer valid, and the *)
(* object then keeps it.                                                   *)
(***************************************************************************)
FreeLibrary(h) == [ok |-> h \in Dll /\ Live(h),
                   refs |-> IF h \in Dll /\ refs[h] > 0 THEN [refs EXCEPT ![h] = @ - 1]
                                                        ELSE refs]

\* The base Unload: what is left in hModule and in the reference counts.
BaseUnload(o) ==
  LET h == obj[o].hModule
      r == FreeLibrary(h)
  IN  IF h = "none" THEN [ok |-> TRUE, hModule |-> "none", refs |-> refs]
      ELSE IF r.ok THEN [ok |-> TRUE, hModule |-> "none", refs |-> r.refs]
      ELSE [ok |-> FALSE, hModule |-> h, refs |-> refs]

Unmapped(new) == {d \in Dll \ Pinned : refs[d] > 0 /\ new[d] = 0}

Called ==
  call = Idle /\ publicCalls < MaxPublicCalls /\ publicCalls' = publicCalls + 1

\* A generated Unload forgets the pointers first, whatever becomes of the handle.
UnloadObject(o) ==
  LET u == BaseUnload(o)
  IN  /\ Called
      /\ obj' = [obj EXCEPT ![o].ptr = [f \in Functions(o) |-> "none"],
                            ![o].hModule = u.hModule]
      /\ refs' = u.refs
      /\ freed' = freed \cup Unmapped(u.refs)
      /\ released' = released \cup {o}
      /\ UNCHANGED <<exports, moduleMap, functionMap, call, api>>

\* Mutant: GetModuleHandle in place of LoadLibrary, which takes no reference.
BaseLoadUncounted(o, d, h, r) ==
  IF h # "none" THEN [ok |-> TRUE, hModule |-> h, refs |-> r, cache |-> moduleMap]
  ELSE IF exports[d] = Absent
       THEN [ok |-> o \notin Necessary, hModule |-> "none", refs |-> r, cache |-> moduleMap]
  ELSE [ok |-> TRUE, hModule |-> d, refs |-> r, cache |-> moduleMap \cup {d}]

\* Mutant: a library is loaded and not cached.
BaseLoadUncached(o, d, h, r) ==
  IF h # "none" THEN [ok |-> TRUE, hModule |-> h, refs |-> r, cache |-> moduleMap]
  ELSE IF exports[d] = Absent
       THEN [ok |-> o \notin Necessary, hModule |-> "none", refs |-> r, cache |-> moduleMap]
  ELSE [ok |-> TRUE, hModule |-> d, refs |-> [r EXCEPT ![d] = @ + 1], cache |-> moduleMap]

(***************************************************************************)
(* The base Load after an Unload that left handle h and counts r: the      *)
(* object's own handle first, then the cache, then LoadLibrary.            *)
(***************************************************************************)
BaseLoad(o, d, h, r) ==
  IF h # "none" THEN [ok |-> TRUE, hModule |-> h, refs |-> r, cache |-> moduleMap]
  ELSE IF d \in moduleMap
       THEN [ok |-> TRUE, hModule |-> d, refs |-> r, cache |-> moduleMap]
  ELSE IF exports[d] = Absent
       THEN [ok |-> o \notin Necessary, hModule |-> "none", refs |-> r, cache |-> moduleMap]
  ELSE [ok |-> TRUE, hModule |-> d, refs |-> [r EXCEPT ![d] = @ + 1],
        cache |-> moduleMap \cup {d}]

\* The sets of functions LoadFunction may find: cached ones at once, others by
\* GetProcAddress, whose answer for a library that is gone is anything.
Found(o, d, h, r) ==
  LET cached == {f \in Functions(o) : <<d, f>> \in functionMap}
  IN  IF h = "none" THEN {cached}
      ELSE IF h \in Pinned \/ r[h] > 0 THEN {cached \cup (Functions(o) \cap exports[h])}
      ELSE {cached \cup s : s \in SUBSET Functions(o)}

\* Mutant: API::Load goes on after an object that could not be loaded.
ReturnGoingOn(rc) ==
  IF call.api = 0 THEN call' = Idle /\ UNCHANGED api
  ELSE IF call.api = Len(LoadOrder) THEN call' = Idle /\ api' = [api EXCEPT !.rc = "OK"]
  ELSE /\ call' = [o |-> LoadOrder[call.api + 1], at |-> 1, api |-> call.api + 1]
       /\ UNCHANGED api

\* The end of one object's Load: back to the caller, or on with API::Load.
Return(rc) ==
  IF call.api = 0 THEN call' = Idle /\ UNCHANGED api
  ELSE IF rc = "ERR" THEN call' = Idle /\ api' = [api EXCEPT !.rc = "ERR", !.failed = TRUE]
  ELSE IF call.api = Len(LoadOrder) THEN call' = Idle /\ api' = [api EXCEPT !.rc = "OK"]
  ELSE /\ call' = [o |-> LoadOrder[call.api + 1], at |-> 1, api |-> call.api + 1]
       /\ UNCHANGED api

\* One round of the generated loop.
TryDll ==
  LET o == call.o
      d == DLL_NAMES[o][call.at]
      u == BaseUnload(o)
      l == BaseLoad(o, d, u.hModule, u.refs)
      last == call.at = Len(DLL_NAMES[o])
      onFail == IF last THEN Return(IF o \in Necessary THEN "ERR" ELSE "OK")
                ELSE call' = [call EXCEPT !.at = @ + 1] /\ UNCHANGED api
  IN  /\ call # Idle
      /\ refs' = l.refs
      /\ freed' = freed \cup Unmapped(l.refs)
      /\ moduleMap' = l.cache
      /\ \E got \in IF l.ok THEN Found(o, d, l.hModule, l.refs) ELSE {{}} :
           /\ obj' = [obj EXCEPT ![o] =
                        [szDllName |-> d, hModule |-> l.hModule,
                         ptr |-> [f \in Functions(o) |->
                                    IF f \notin got THEN @.ptr[f]
                                    ELSE IF l.hModule = "none" THEN d ELSE l.hModule]]]
           /\ functionMap' = functionMap \cup {<<d, f>> : f \in got}
           /\ IF l.ok /\ Required[o] \subseteq got
                      /\ (got # {} \/ Len(DLL_NAMES[o]) = 1)
              THEN Return("OK") ELSE onFail
      /\ released' = IF call.at = 1 /\ obj[o].szDllName # "none"
                     THEN released \cup {o} ELSE released
      /\ UNCHANGED <<exports, publicCalls>>

LoadObject(o) ==
  /\ Called
  /\ call' = [o |-> o, at |-> 1, api |-> 0]
  /\ UNCHANGED <<exports, refs, moduleMap, functionMap, obj, api, freed, released>>

\* API::Load sets its flag before it loads anything: the next call answers success,
\* whatever became of this one.
LoadApi ==
  /\ Called
  /\ IF api.loaded THEN api' = [api EXCEPT !.rc = "OK"] /\ UNCHANGED call
     ELSE /\ api' = [api EXCEPT !.loaded = TRUE]
          /\ call' = [o |-> LoadOrder[1], at |-> 1, api |-> 1]
  /\ UNCHANGED <<exports, refs, moduleMap, functionMap, obj, freed, released>>

\* A second thread calls API::Load while a Load goes on in another: it finds the
\* flag set and answers success before anything has to be there.  (If it found the
\* flag clear, both threads would change the two maps at once, which is undefined.)
LoadApiMeanwhile ==
  /\ call # Idle /\ api.loaded
  /\ publicCalls < MaxPublicCalls /\ publicCalls' = publicCalls + 1
  /\ api' = [api EXCEPT !.rc = "OK"]
  /\ UNCHANGED <<exports, refs, moduleMap, functionMap, obj, call, freed, released>>

ModulesNext ==
  \/ TryDll
  \/ LoadApi
  \/ LoadApiMeanwhile
  \/ \E o \in Object : LoadObject(o) \/ UnloadObject(o)

ModulesSpec == ModulesInit /\ [][ModulesNext]_moduleVars

-----------------------------------------------------------------------------
(***************************************************************************)
(* Objects that name the same library share the one reference of the first *)
(* of them.  A pointer can be into an unmapped library only after an       *)
(* object that lists the library was unloaded or loaded a second time (its *)
(* Load frees the library and takes the handle back from the cache).  The  *)
(* loop's own Unload of a library that lacked a function never takes one   *)
(* from another object.                                                    *)
(***************************************************************************)
DanglingOnlyAfterRelease ==
  \A o \in Object : \A f \in Functions(o) :
    LET d == obj[o].ptr[f]
    IN  d # "none" /\ ~Live(d) => \E u \in released : d \in Listed(u)

(***************************************************************************)
(* The module cache is never erased: a library is loaded once in the life  *)
(* of the process, and after it was freed no Load maps it again, whatever  *)
(* handles the objects go on taking from the cache.                        *)
(***************************************************************************)
LoadedOnce ==
  [][\A d \in Dll : refs'[d] <= 1 /\ (d \in freed => refs'[d] = 0)]_moduleVars

(***************************************************************************)
(* A function that an object cannot do without is never missing in         *)
(* silence: once API::Load was called and no call of it is loading, every  *)
(* such function was found, or some call answered an error, or an object   *)
(* was released since.  What another call answered says nothing: a thread  *)
(* that comes in the middle, or after the error, is answered success.      *)
(***************************************************************************)
ApiComplete ==
  api.loaded /\ call.api = 0 /\ ~api.failed /\ released = {} =>
    \A o \in Necessary : \A f \in Required[o] : obj[o].ptr[f] # "none"

=============================================================================
