---------------------------- MODULE RandomSource ----------------------------
(***************************************************************************)
(* Where naion.h takes random bytes from: the provider, a global that any  *)
(* thread may replace, the sources of the platform tried in turn, and a    *)
(* generator of its own when they all fail, whose counter is a static      *)
(* without a lock.  Three callers: fill_random, the buffer call on top of  *)
(* it, and CSM's own call, which goes to the provider directly.            *)
(***************************************************************************)
EXTENDS Integers, Sequences

CONSTANTS
  Thread,
  Size,       \* bytes of one request
  Chunk,      \* bytes the Windows sources hand out at most in one call
  MaxCalls    \* requests of all threads together

ASSUME SizeAssumption == Size \in Nat \ {0} /\ Chunk \in Nat \ {0} /\ MaxCalls \in Nat

VARIABLES
  platform,
  provider,            \* g_random_provider
  g_fallback_counter,
  req,                 \* per thread: its current or last request
  calls,               \* requests made so far, bounded by MaxCalls
  draws,               \* history: the counter values the fallback used, in order, and
                       \* whether another thread came in between their read and write
  raced                \* history: the threads now between them that met another there

rngVars == <<platform, provider, g_fallback_counter, req, calls, draws, raced>>

Platforms == {"linux", "bsd", "windows"}

\* The sources in the order they are tried.
Sources(os) ==
  CASE os = "linux"   -> <<"getrandom", "urandom", "random">>
    [] os = "bsd"     -> <<"getrandom", "arc4random">>
    [] os = "windows" -> <<"bcrypt", "advapi">>

NoRequest == [pc |-> "idle", entry |-> "fill", buf |-> [i \in 1 .. Size |-> "stale"],
              src |-> 1, off |-> 0, seen |-> "system", mine |-> 0,
              reset |-> FALSE, rc |-> "none"]

Pc(t) == req[t].pc
Update(t, r) == req' = [req EXCEPT ![t] = r]

RngInit ==
  /\ platform \in Platforms
  /\ provider = "null"
  /\ g_fallback_counter = 0
  /\ req = [t \in Thread |-> NoRequest]
  /\ calls = 0
  /\ draws = <<>>
  /\ raced = {}

(***************************************************************************)
(* The provider.                                                           *)
(***************************************************************************)
SetProvider(p) ==
  /\ provider' = p
  /\ req' = [t \in Thread |-> IF Pc(t) = "get" /\ p = "null"
                              THEN [req[t] EXCEPT !.reset = TRUE] ELSE req[t]]
  /\ UNCHANGED <<platform, g_fallback_counter, calls, draws, raced>>

\* Mutant: the getter returns the global without a test.
TestProviderSkipped(t) ==
  /\ Pc(t) = "called"
  /\ Update(t, [req[t] EXCEPT !.pc = "get"])
  /\ UNCHANGED <<platform, provider, g_fallback_counter, calls, draws, raced>>

\* naion_get_random_provider tests the global and reads it again to return it.
TestProvider(t) ==
  /\ Pc(t) = "called"
  /\ Update(t, IF provider # "null" THEN [req[t] EXCEPT !.pc = "get"]
               ELSE [req[t] EXCEPT !.pc = "provider", !.seen = "system"])
  /\ UNCHANGED <<platform, provider, g_fallback_counter, calls, draws, raced>>

ReadProvider(t) ==
  /\ Pc(t) = "get"
  /\ Update(t, [req[t] EXCEPT !.pc = "provider", !.seen = provider])
  /\ UNCHANGED <<platform, provider, g_fallback_counter, calls, draws, raced>>

Whole(source) == [i \in 1 .. Size |-> source]

\* NULL is called by fill_random and refused by CSM; a custom provider fills the buffer.
CallProvider(t) ==
  /\ Pc(t) = "provider"
  /\ Update(t, CASE req[t].seen = "system" -> [req[t] EXCEPT !.pc = "system"]
                 [] req[t].seen = "custom" ->
                      [req[t] EXCEPT !.pc = "done", !.rc = "OK", !.buf = Whole("custom")]
                 [] req[t].seen = "null" /\ req[t].entry = "csm" ->
                      [req[t] EXCEPT !.pc = "done", !.rc = "ERR_RANDOM_PROVIDER"]
                 [] req[t].seen = "null" /\ req[t].entry = "fill" ->
                      [req[t] EXCEPT !.pc = "crashed"])
  /\ UNCHANGED <<platform, provider, g_fallback_counter, calls, draws, raced>>

(***************************************************************************)
(* naion_system_randombytes.  An interrupted call (EINTR, EAGAIN) is made  *)
(* again and changes nothing.                                              *)
(***************************************************************************)
Source(t) == Sources(platform)[req[t].src]

\* How much one call of the source may deliver.
Delivers(t) ==
  LET left == Size - req[t].off
  IN  CASE Source(t) \in {"getrandom", "urandom", "random"} -> 1 .. left
        [] Source(t) \in {"bcrypt", "advapi"} -> {IF left > Chunk THEN Chunk ELSE left}
        [] Source(t) = "arc4random" -> {left}

SourceReads(t) ==
  /\ Pc(t) = "system"
  /\ req[t].off < Size
  /\ \E n \in Delivers(t) :
       Update(t, [req[t] EXCEPT
                    !.off = @ + n,
                    !.buf = [i \in 1 .. Size |-> IF i \in req[t].off + 1 .. req[t].off + n
                                                 THEN Source(t) ELSE @[i]]])
  /\ UNCHANGED <<platform, provider, g_fallback_counter, calls, draws, raced>>

\* Mutant: the next source goes on where the last one stopped.
SourceFailsMidway(t) ==
  /\ Pc(t) = "system"
  /\ req[t].off < Size
  /\ Source(t) # "arc4random"
  /\ Update(t, [req[t] EXCEPT
                  !.src = @ + 1,
                  !.pc = IF req[t].src < Len(Sources(platform)) THEN @ ELSE "failed"])
  /\ UNCHANGED <<platform, provider, g_fallback_counter, calls, draws, raced>>

\* Mutant: a source that failed is tried again.
SourceFailsAgain(t) ==
  /\ Pc(t) = "system"
  /\ req[t].off < Size
  /\ Source(t) # "arc4random"
  /\ Update(t, [req[t] EXCEPT !.off = 0])
  /\ UNCHANGED <<platform, provider, g_fallback_counter, calls, draws, raced>>

\* An error, an end of file, a library or device that does not open: the
\* next source starts from the beginning of the buffer.
SourceFails(t) ==
  /\ Pc(t) = "system"
  /\ req[t].off < Size
  /\ Source(t) # "arc4random"
  /\ Update(t, [req[t] EXCEPT
                  !.off = 0,
                  !.src = @ + 1,
                  !.pc = IF req[t].src < Len(Sources(platform)) THEN @ ELSE "failed"])
  /\ UNCHANGED <<platform, provider, g_fallback_counter, calls, draws, raced>>

SystemSucceeds(t) ==
  /\ Pc(t) = "system"
  /\ req[t].off = Size
  /\ Update(t, [req[t] EXCEPT !.pc = "done", !.rc = "OK"])
  /\ UNCHANGED <<platform, provider, g_fallback_counter, calls, draws, raced>>

\* naion_system_random_provider drops the result, so CSM goes on.
SystemFails(t) ==
  /\ Pc(t) = "failed"
  /\ Update(t, IF req[t].entry = "csm" THEN [req[t] EXCEPT !.pc = "done", !.rc = "OK"]
               ELSE [req[t] EXCEPT !.pc = "fallback"])
  /\ UNCHANGED <<platform, provider, g_fallback_counter, calls, draws, raced>>

(***************************************************************************)
(* naion_fallback_randombytes: g_fallback_counter++ is a read and a write. *)
(***************************************************************************)
FallbackReads(t) ==
  /\ Pc(t) = "fallback"
  /\ Update(t, [req[t] EXCEPT !.pc = "counted", !.mine = g_fallback_counter])
  /\ LET others == {u \in Thread \ {t} : Pc(u) = "counted"}
     IN  raced' = raced \cup others \cup IF others = {} THEN {} ELSE {t}
  /\ UNCHANGED <<platform, provider, g_fallback_counter, calls, draws>>

\* Mutant: the counter is not incremented.
FallbackFillsUncounted(t) ==
  /\ Pc(t) = "counted"
  /\ draws' = Append(draws, [count |-> req[t].mine, raced |-> t \in raced])
  /\ raced' = raced \ {t}
  /\ Update(t, [req[t] EXCEPT !.pc = "done", !.rc = "OK", !.buf = Whole("fallback")])
  /\ UNCHANGED <<platform, provider, g_fallback_counter, calls>>

FallbackFills(t) ==
  /\ Pc(t) = "counted"
  /\ g_fallback_counter' = req[t].mine + 1
  /\ draws' = Append(draws, [count |-> req[t].mine, raced |-> t \in raced])
  /\ raced' = raced \ {t}
  /\ Update(t, [req[t] EXCEPT !.pc = "done", !.rc = "OK", !.buf = Whole("fallback")])
  /\ UNCHANGED <<platform, provider, calls>>

(***************************************************************************)
(* Requests.                                                               *)
(***************************************************************************)
Request(t, entry) ==
  /\ Pc(t) \in {"idle", "done"}
  /\ calls < MaxCalls
  /\ calls' = calls + 1
  /\ Update(t, [NoRequest EXCEPT !.pc = "called", !.entry = entry])
  /\ UNCHANGED <<platform, provider, g_fallback_counter, draws, raced>>

RequestStep(t) ==
  \/ TestProvider(t) \/ ReadProvider(t) \/ CallProvider(t)
  \/ SourceReads(t) \/ SourceFails(t) \/ SystemSucceeds(t) \/ SystemFails(t)
  \/ FallbackReads(t) \/ FallbackFills(t)

RngNext ==
  \/ \E p \in {"null", "custom", "system"} : SetProvider(p)
  \/ \E t \in Thread : RequestStep(t) \/ \E entry \in {"fill", "csm"} : Request(t, entry)

RngSpec == RngInit /\ [][RngNext]_rngVars

\* The scheduler runs every thread, and the kernel does not interrupt one call forever.
RngFairness == \A t \in Thread : WF_rngVars(RequestStep(t))

-----------------------------------------------------------------------------
Finished(t) == Pc(t) = "done" /\ req[t].rc = "OK"

(***************************************************************************)
(* However the sources fail, and however far one came before it did, a     *)
(* buffer that fill_random reports as filled has every byte from the one   *)
(* source that delivered all of it, none that was there before.  The       *)
(* fallback is that source only when the last of the platform's failed.    *)
(***************************************************************************)
FilledFromOneSource ==
  \A t \in Thread : Finished(t) /\ req[t].entry = "fill" =>
    \/ req[t].buf = Whole("custom")
    \/ req[t].buf = Whole("fallback") /\ req[t].src > Len(Sources(platform))
    \/ req[t].src <= Len(Sources(platform)) /\ req[t].buf = Whole(Source(t))

(***************************************************************************)
(* A counter value is used again only if the draw that used it first was   *)
(* raced, that is, another thread was between the read and the write of    *)
(* the counter at the same time.  A lost increment, even one that sets     *)
(* the counter back later, never brings back the value of a draw that ran  *)
(* alone.                                                                  *)
(***************************************************************************)
FallbackDistinct ==
  \A i, j \in DOMAIN draws : i < j /\ draws[i].count = draws[j].count => draws[i].raced

(***************************************************************************)
(* A null provider is called only when another thread resets the provider  *)
(* between the test and the second read of one getter call.                *)
(***************************************************************************)
NullOnlyByReset == \A t \in Thread : Pc(t) = "crashed" => req[t].reset

(***************************************************************************)
(* Every request ends: each source is given up after its first error and   *)
(* the fallback cannot fail.                                               *)
(***************************************************************************)
RequestEnds == \A t \in Thread : Pc(t) = "called" ~> Pc(t) \in {"done", "crashed"}

(***************************************************************************)
(* plan03.md: a failure to generate random bytes is reported as            *)
(* NAION_CSM_ERR_RANDOM_PROVIDER.  The code drops the system provider's    *)
(* result, and CSM goes on with the bytes the buffer held.                 *)
(***************************************************************************)
CsmReportsFailure ==
  \A t \in Thread : Finished(t) /\ req[t].entry = "csm" =>
    \A i \in 1 .. Size : req[t].buf[i] # "stale"

=============================================================================
