------------------------- MODULE RandomSourceProofs -------------------------
(***************************************************************************)
(* Proofs about RandomSource for any number of threads, any request size,  *)
(* any size of the pieces a source delivers and any number of requests.    *)
(***************************************************************************)
EXTENDS RandomSource, TLAPS

Cell == {"stale", "custom", "fallback", "getrandom", "urandom", "random",
         "arc4random", "bcrypt", "advapi"}

\* What a request is made of.
Req == [pc : {"idle", "called", "get", "provider", "system", "failed", "fallback",
              "counted", "done", "crashed"},
        entry : {"fill", "csm"}, buf : [1 .. Size -> Cell], src : Nat, off : Nat,
        seen : {"null", "custom", "system"}, mine : Nat, reset : BOOLEAN,
        rc : {"none", "OK", "ERR_RANDOM_PROVIDER"}]

RngTypeOK ==
  /\ platform \in Platforms
  /\ provider \in {"null", "custom", "system"}
  /\ g_fallback_counter \in Nat
  /\ req \in [Thread -> Req]
  /\ draws \in Seq([count : Nat, raced : BOOLEAN])
  /\ raced \subseteq Thread

\* Where a request r is in the list of sources, and that the bytes up to its
\* offset are those of its source.
RequestOK(r) ==
  LET n == Len(Sources(platform))
  IN  /\ r.pc \in {"called", "get", "provider"} => r.src = 1 /\ r.off = 0
      /\ r.pc = "system" =>
           /\ r.src \in 1 .. n /\ r.off <= Size
           /\ \A i \in 1 .. r.off : r.buf[i] = Sources(platform)[r.src]
      /\ r.pc \in {"failed", "fallback", "counted"} => r.src > n
      /\ r.pc = "done" /\ r.rc = "OK" /\ r.entry = "fill" =>
           \/ r.buf = Whole("custom")
           \/ r.buf = Whole("fallback") /\ r.src > n
           \/ r.src <= n /\ r.buf = Whole(Sources(platform)[r.src])

\* A request that has read a null provider was between its two reads when the
\* provider was reset.
NullSeen(r) ==
  /\ r.pc = "get" /\ provider = "null" => r.reset
  /\ r.pc = "provider" /\ r.seen = "null" => r.reset
  /\ r.pc = "crashed" => r.reset

\* A thread that met no other is alone with the counter it has read, and the count
\* of a draw that ran alone is below the counter and below what anyone has read.
CounterInv ==
  /\ \A t, u \in Thread : Pc(t) = "counted" /\ t \notin raced /\ Pc(u) = "counted" => u = t
  /\ \A i \in DOMAIN draws : ~draws[i].raced =>
       /\ draws[i].count < g_fallback_counter
       /\ \A t \in Thread : Pc(t) = "counted" => draws[i].count < req[t].mine
  /\ FallbackDistinct

RngInv ==
  /\ RngTypeOK
  /\ \A t \in Thread : RequestOK(req[t]) /\ NullSeen(req[t])
  /\ CounterInv

\* The lists of sources are of two or three entries.
LEMMA SourceLists ==
  ASSUME NEW os \in Platforms
  PROVE  /\ Len(Sources(os)) \in Nat \ {0}
         /\ \A i \in 1 .. Len(Sources(os)) : Sources(os)[i] \in Cell
  BY DEF Platforms, Sources, Cell

\* A buffer filled from one source is a buffer.
LEMMA WholeType ==
  ASSUME NEW c \in Cell
  PROVE  Whole(c) \in [1 .. Size -> Cell]
  BY DEF Whole

\* A step of one thread t, which turns its request into r and leaves the
\* provider and the others' requests alone, keeps what is said of each request.
LEMMA OneRequest ==
  ASSUME RngTypeOK, \A u \in Thread : RequestOK(req[u]) /\ NullSeen(req[u]),
         NEW t \in Thread, NEW r \in Req, Update(t, r),
         platform' = platform, provider' = provider,
         RequestOK(r), NullSeen(r)
  PROVE  /\ req' \in [Thread -> Req]
         /\ req'[t] = r /\ \A u \in Thread \ {t} : req'[u] = req[u]
         /\ \A u \in Thread : RequestOK(req[u])' /\ NullSeen(req[u])'
<1>1. req \in [Thread -> Req] /\ req' = [req EXCEPT ![t] = r]
  BY DEF RngTypeOK, Update
<1>2. req' \in [Thread -> Req] /\ req'[t] = r /\ \A u \in Thread \ {t} : req'[u] = req[u]
  BY <1>1
<1>3. ASSUME NEW u \in Thread PROVE RequestOK(req[u])' /\ NullSeen(req[u])'
  <2>1. RequestOK(req'[u]) /\ NullSeen(req'[u])
    BY <1>2
  <2> QED
    BY <2>1 DEF RequestOK, NullSeen, Whole
<1> QED
  BY <1>2, <1>3

\* A step that leaves the counter, the draws and the threads that are between
\* its read and its write alone keeps the counter's part.
LEMMA CounterUntouched ==
  ASSUME CounterInv, NEW t \in Thread,
         UNCHANGED <<g_fallback_counter, draws, raced>>,
         \A u \in Thread \ {t} : req'[u] = req[u],
         req'[t].pc # "counted"
  PROVE  CounterInv'
  BY DEF CounterInv, FallbackDistinct, Pc

\* What all but two of a request's steps do: nothing to the counter or the draws.
LEMMA QuietStep ==
  ASSUME RngInv, NEW t \in Thread, NEW r \in Req, Update(t, r),
         UNCHANGED <<platform, provider, g_fallback_counter, draws, raced>>,
         RequestOK(r), NullSeen(r), r.pc # "counted"
  PROVE  RngInv'
<1>1. /\ req' \in [Thread -> Req]
      /\ req'[t] = r /\ \A u \in Thread \ {t} : req'[u] = req[u]
      /\ \A u \in Thread : RequestOK(req[u])' /\ NullSeen(req[u])'
  BY OneRequest DEF RngInv
<1>2. CounterInv'
  BY <1>1, CounterUntouched DEF RngInv
<1>3. RngTypeOK'
  BY <1>1 DEF RngInv, RngTypeOK
<1> QED
  BY <1>1, <1>2, <1>3 DEF RngInv

\* The getter and the call of what it returned.
LEMMA ProviderSteps ==
  ASSUME RngInv, NEW t \in Thread, TestProvider(t) \/ ReadProvider(t) \/ CallProvider(t)
  PROVE  RngInv'
<1>0. /\ req[t] \in Req /\ RequestOK(req[t]) /\ NullSeen(req[t])
      /\ provider \in {"null", "custom", "system"} /\ platform \in Platforms
      /\ UNCHANGED <<platform, provider, g_fallback_counter, draws, raced>>
  BY DEF RngInv, RngTypeOK, TestProvider, ReadProvider, CallProvider
<1>1. CASE TestProvider(t)
  <2> DEFINE r == IF provider # "null" THEN [req[t] EXCEPT !.pc = "get"]
                  ELSE [req[t] EXCEPT !.pc = "provider", !.seen = "system"]
  <2>1. Update(t, r) /\ req[t].pc = "called"
    BY <1>1 DEF TestProvider, Pc
  <2>2. r \in Req
    BY <1>0 DEF Req
  <2>3. r.pc # "counted" /\ NullSeen(r)
    BY <1>0, <2>1 DEF Req, NullSeen
  <2>4. RequestOK(r)
    BY <1>0, <2>1 DEF Req, RequestOK
  <2> QED
    BY <1>0, <2>1, <2>2, <2>3, <2>4, QuietStep
<1>2. CASE ReadProvider(t)
  <2> DEFINE r == [req[t] EXCEPT !.pc = "provider", !.seen = provider]
  <2>1. Update(t, r) /\ req[t].pc = "get"
    BY <1>2 DEF ReadProvider, Pc
  <2>2. r \in Req
    BY <1>0 DEF Req
  <2>3. r.pc # "counted" /\ NullSeen(r)
    BY <1>0, <2>1 DEF Req, NullSeen
  <2>4. RequestOK(r)
    BY <1>0, <2>1 DEF Req, RequestOK
  <2> QED
    BY <1>0, <2>1, <2>2, <2>3, <2>4, QuietStep
<1>3. CASE CallProvider(t)
  <2> DEFINE r == CASE req[t].seen = "system" -> [req[t] EXCEPT !.pc = "system"]
                    [] req[t].seen = "custom" ->
                         [req[t] EXCEPT !.pc = "done", !.rc = "OK", !.buf = Whole("custom")]
                    [] req[t].seen = "null" /\ req[t].entry = "csm" ->
                         [req[t] EXCEPT !.pc = "done", !.rc = "ERR_RANDOM_PROVIDER"]
                    [] req[t].seen = "null" /\ req[t].entry = "fill" ->
                         [req[t] EXCEPT !.pc = "crashed"]
  <2>1. Update(t, r) /\ req[t].pc = "provider"
    BY <1>3 DEF CallProvider, Pc
  <2>2. Whole("custom") \in [1 .. Size -> Cell]
    BY WholeType DEF Cell
  <2>3. CASE req[t].seen = "system"
    <3>1. r = [req[t] EXCEPT !.pc = "system"]
      BY <2>3
    <3> HIDE DEF r
    <3>2. r \in Req
      BY <1>0, <3>1 DEF Req
    <3>3. r.pc # "counted" /\ NullSeen(r)
      BY <1>0, <3>1 DEF Req, NullSeen
    <3>4. RequestOK(r)
      BY <1>0, <2>1, <3>1, SourceLists, SizeAssumption DEF Req, RequestOK
    <3> QED
      BY <1>0, <2>1, <3>2, <3>3, <3>4, QuietStep
  <2>4. CASE req[t].seen = "custom"
    <3>1. r = [req[t] EXCEPT !.pc = "done", !.rc = "OK", !.buf = Whole("custom")]
      BY <2>4
    <3> HIDE DEF r
    <3>2. r \in Req
      BY <1>0, <2>2, <3>1 DEF Req
    <3>3. r.pc # "counted" /\ NullSeen(r)
      BY <1>0, <3>1 DEF Req, NullSeen
    <3>4. RequestOK(r)
      BY <1>0, <3>1 DEF Req, RequestOK
    <3> QED
      BY <1>0, <2>1, <3>2, <3>3, <3>4, QuietStep
  <2>5. CASE req[t].seen = "null"
    <3>1. r = IF req[t].entry = "csm"
              THEN [req[t] EXCEPT !.pc = "done", !.rc = "ERR_RANDOM_PROVIDER"]
              ELSE [req[t] EXCEPT !.pc = "crashed"]
      BY <1>0, <2>5 DEF Req
    <3> HIDE DEF r
    <3>2. r \in Req
      BY <1>0, <3>1 DEF Req
    <3>3. r.pc # "counted" /\ NullSeen(r)
      BY <1>0, <2>1, <2>5, <3>1 DEF Req, NullSeen
    <3>4. RequestOK(r)
      BY <1>0, <3>1 DEF Req, RequestOK
    <3> QED
      BY <1>0, <2>1, <3>2, <3>3, <3>4, QuietStep
  <2> QED
    BY <1>0, <2>3, <2>4, <2>5 DEF Req
<1> QED
  BY <1>1, <1>2, <1>3

\* The loop over the platform's sources.
LEMMA SourceSteps ==
  ASSUME RngInv, NEW t \in Thread,
         SourceReads(t) \/ SourceFails(t) \/ SystemSucceeds(t) \/ SystemFails(t)
  PROVE  RngInv'
<1>0. /\ req[t] \in Req /\ RequestOK(req[t]) /\ NullSeen(req[t])
      /\ platform \in Platforms
      /\ UNCHANGED <<platform, provider, g_fallback_counter, draws, raced>>
  BY DEF RngInv, RngTypeOK, SourceReads, SourceFails, SystemSucceeds, SystemFails
<1> DEFINE n == Len(Sources(platform))
<1>1. /\ n \in Nat \ {0} /\ Size \in Nat \ {0} /\ Chunk \in Nat \ {0}
      /\ \A i \in 1 .. n : Sources(platform)[i] \in Cell
  BY <1>0, SourceLists, SizeAssumption
<1>2. CASE SourceReads(t)
  <2>1. PICK k \in Delivers(t) :
          Update(t, [req[t] EXCEPT
                       !.off = @ + k,
                       !.buf = [i \in 1 .. Size |->
                                  IF i \in req[t].off + 1 .. req[t].off + k
                                  THEN Source(t) ELSE @[i]]])
    BY <1>2 DEF SourceReads
  <2>2. /\ req[t].pc = "system" /\ req[t].off < Size
        /\ req[t].src \in 1 .. n /\ req[t].off \in Nat
        /\ \A i \in 1 .. req[t].off : req[t].buf[i] = Source(t)
    BY <1>0, <1>2 DEF SourceReads, Pc, RequestOK, Req, Source
  <2>3. k \in Nat /\ req[t].off + k <= Size
    <3>1. Source(t) \in {"getrandom", "urandom", "random", "arc4random", "bcrypt", "advapi"}
      BY <1>0, <2>2 DEF Source, Sources, Platforms
    <3>2. Delivers(t) \subseteq 0 .. Size - req[t].off
      BY <1>1, <2>2, <3>1 DEF Delivers
    <3> QED
      BY <1>1, <2>2, <3>2
  <2>4. Source(t) \in Cell
    BY <1>1, <2>2 DEF Source
  <2> DEFINE b == [i \in 1 .. Size |-> IF i \in req[t].off + 1 .. req[t].off + k
                                       THEN Source(t) ELSE req[t].buf[i]]
             r == [req[t] EXCEPT !.off = req[t].off + k, !.buf = b]
  <2>5. b \in [1 .. Size -> Cell]
    BY <1>0, <2>4 DEF Req
  <2>6. \A i \in 1 .. req[t].off + k : b[i] = Source(t)
    BY <1>1, <2>2, <2>3
  <2>7. Update(t, r)
    BY <2>1
  <2> HIDE DEF b
  <2>8. r \in Req
    <3>1. req[t].off + k \in Nat
      BY <2>2, <2>3
    <3> QED
      BY <1>0, <2>5, <3>1 DEF Req
  <2>9. r.pc # "counted" /\ NullSeen(r)
    BY <1>0, <2>2 DEF Req, NullSeen
  <2>10. RequestOK(r)
    <3>1. /\ r.pc = "system" /\ r.src = req[t].src /\ r.off = req[t].off + k
          /\ r.buf = b
      BY <1>0, <2>2 DEF Req
    <3> HIDE DEF r
    <3> QED
      BY <2>2, <2>3, <2>6, <3>1 DEF RequestOK, Source
  <2> QED
    BY <1>0, <2>7, <2>8, <2>9, <2>10, QuietStep
<1>3. CASE SourceFails(t)
  <2> DEFINE r == [req[t] EXCEPT !.off = 0, !.src = req[t].src + 1,
                     !.pc = IF req[t].src < n THEN req[t].pc ELSE "failed"]
  <2>1. /\ Update(t, r) /\ req[t].pc = "system"
        /\ req[t].src \in 1 .. n
    BY <1>0, <1>3 DEF SourceFails, Pc, RequestOK
  <2>2. r \in Req
    <3>1. req[t].src + 1 \in Nat /\ 0 \in Nat
      BY <1>0 DEF Req
    <3>2. (IF req[t].src < n THEN req[t].pc ELSE "failed") \in {req[t].pc, "failed"}
      OBVIOUS
    <3> QED
      BY <1>0, <3>1, <3>2 DEF Req
  <2>3. r.pc # "counted" /\ NullSeen(r)
    BY <1>0, <2>1 DEF Req, NullSeen
  <2>4. RequestOK(r)
    <3>1. /\ r.pc = IF req[t].src < n THEN "system" ELSE "failed"
          /\ r.src = req[t].src + 1 /\ r.off = 0
      BY <1>0, <2>1 DEF Req
    <3> HIDE DEF r
    <3> QED
      BY <1>1, <2>1, <3>1 DEF RequestOK
  <2> QED
    BY <1>0, <2>1, <2>2, <2>3, <2>4, QuietStep
<1>4. CASE SystemSucceeds(t)
  <2> DEFINE r == [req[t] EXCEPT !.pc = "done", !.rc = "OK"]
  <2>1. /\ Update(t, r) /\ req[t].pc = "system" /\ req[t].off = Size
    BY <1>4 DEF SystemSucceeds, Pc
  <2>2. r \in Req
    BY <1>0 DEF Req
  <2>3. r.pc # "counted" /\ NullSeen(r)
    BY <1>0, <2>1 DEF Req, NullSeen
  <2>4. /\ req[t].src <= n
        /\ req[t].buf = Whole(Sources(platform)[req[t].src])
    BY <1>0, <1>1, <2>1 DEF RequestOK, Req, Whole
  <2>5. RequestOK(r)
    BY <1>0, <2>4 DEF Req, RequestOK
  <2> QED
    BY <1>0, <2>1, <2>2, <2>3, <2>5, QuietStep
<1>5. CASE SystemFails(t)
  <2> DEFINE r == IF req[t].entry = "csm" THEN [req[t] EXCEPT !.pc = "done", !.rc = "OK"]
                  ELSE [req[t] EXCEPT !.pc = "fallback"]
  <2>1. Update(t, r) /\ req[t].pc = "failed"
    BY <1>5 DEF SystemFails, Pc
  <2>2. r \in Req
    BY <1>0, <2>1 DEF Req
  <2>3. r.pc # "counted" /\ NullSeen(r)
    BY <1>0, <2>1 DEF Req, NullSeen
  <2>4. RequestOK(r)
    BY <1>0, <2>1 DEF Req, RequestOK
  <2> QED
    BY <1>0, <2>1, <2>2, <2>3, <2>4, QuietStep
<1> QED
  BY <1>2, <1>3, <1>4, <1>5

\* g_fallback_counter++, its read and its write.
LEMMA FallbackSteps ==
  ASSUME RngInv, NEW t \in Thread, FallbackReads(t) \/ FallbackFills(t)
  PROVE  RngInv'
<1>0. /\ req[t] \in Req /\ RequestOK(req[t]) /\ NullSeen(req[t])
      /\ platform \in Platforms /\ g_fallback_counter \in Nat
      /\ draws \in Seq([count : Nat, raced : BOOLEAN]) /\ raced \subseteq Thread
      /\ UNCHANGED <<platform, provider>>
  BY DEF RngInv, RngTypeOK, FallbackReads, FallbackFills
<1>1. CASE FallbackReads(t)
  <2> DEFINE r == [req[t] EXCEPT !.pc = "counted", !.mine = g_fallback_counter]
  <2>1. /\ Update(t, r) /\ req[t].pc = "fallback"
        /\ raced \subseteq raced'
        /\ \A u \in Thread \ {t} : req[u].pc = "counted" => u \in raced' /\ t \in raced'
        /\ raced' \subseteq Thread
        /\ UNCHANGED <<g_fallback_counter, draws>>
    <3> DEFINE others == {u \in Thread \ {t} : Pc(u) = "counted"}
               met == IF others = {} THEN {} ELSE {t}
    <3>1. /\ Update(t, r) /\ req[t].pc = "fallback"
          /\ UNCHANGED <<g_fallback_counter, draws>> /\ raced' = (raced \cup others) \cup met
      BY <1>1 DEF FallbackReads, Pc
    <3>2. raced' \subseteq Thread /\ raced \subseteq raced'
      BY <1>0, <3>1
    <3>3. ASSUME NEW u \in Thread \ {t}, req[u].pc = "counted"
          PROVE  u \in raced' /\ t \in raced'
      <4>1. u \in others
        BY <3>3 DEF Pc
      <4>2. t \in met
        BY <4>1
      <4> QED
        BY <3>1, <4>1, <4>2
    <3> QED
      BY <3>1, <3>2, <3>3
  <2>2. r \in Req
    BY <1>0 DEF Req
  <2>3. NullSeen(r)
    BY <1>0, <2>1 DEF Req, NullSeen
  <2>4. RequestOK(r)
    BY <1>0, <2>1 DEF Req, RequestOK
  <2>5. r.pc = "counted" /\ r.mine = g_fallback_counter
    BY <1>0 DEF Req
  <2> HIDE DEF r
  <2>6. /\ req' \in [Thread -> Req]
        /\ req'[t] = r /\ \A u \in Thread \ {t} : req'[u] = req[u]
        /\ \A u \in Thread : RequestOK(req[u])' /\ NullSeen(req[u])'
    BY <1>0, <2>1, <2>2, <2>3, <2>4, OneRequest DEF RngInv
  <2>7. CounterInv'
    <3>1. ASSUME NEW v \in Thread, NEW u \in Thread, req'[v].pc = "counted", v \notin raced',
                 req'[u].pc = "counted"
          PROVE  u = v
      BY <2>1, <2>6, <3>1
    <3>2. ASSUME NEW i \in DOMAIN draws, ~draws[i].raced, NEW u \in Thread,
                 req'[u].pc = "counted"
          PROVE  draws[i].count < req'[u].mine
      BY <2>1, <2>5, <2>6, <3>2 DEF RngInv, CounterInv, Pc
    <3>3. FallbackDistinct'
      BY <2>1 DEF RngInv, CounterInv, FallbackDistinct
    <3>4. \A i \in DOMAIN draws : ~draws[i].raced => draws[i].count < g_fallback_counter
      BY DEF RngInv, CounterInv
    <3> QED
      BY <2>1, <3>1, <3>2, <3>3, <3>4 DEF CounterInv, Pc
  <2>8. RngTypeOK'
    BY <1>0, <2>1, <2>6 DEF RngInv, RngTypeOK
  <2> QED
    BY <2>6, <2>7, <2>8 DEF RngInv
<1>2. CASE FallbackFills(t)
  <2> DEFINE r == [req[t] EXCEPT !.pc = "done", !.rc = "OK", !.buf = Whole("fallback")]
  <2>1. /\ Update(t, r) /\ req[t].pc = "counted"
        /\ g_fallback_counter' = req[t].mine + 1
        /\ draws' = Append(draws, [count |-> req[t].mine, raced |-> t \in raced])
        /\ raced' = raced \ {t}
    BY <1>2 DEF FallbackFills, Pc
  <2>2. r \in Req
    <3>1. Whole("fallback") \in [1 .. Size -> Cell]
      BY WholeType DEF Cell
    <3> QED
      BY <1>0, <3>1 DEF Req
  <2>3. NullSeen(r)
    BY <1>0, <2>1 DEF Req, NullSeen
  <2>4. RequestOK(r)
    BY <1>0, <2>1 DEF Req, RequestOK
  <2>5. r.pc = "done" /\ req[t].mine \in Nat
    BY <1>0 DEF Req
  <2> HIDE DEF r
  <2>6. /\ req' \in [Thread -> Req]
        /\ req'[t] = r /\ \A u \in Thread \ {t} : req'[u] = req[u]
        /\ \A u \in Thread : RequestOK(req[u])' /\ NullSeen(req[u])'
    BY <1>0, <2>1, <2>2, <2>3, <2>4, OneRequest DEF RngInv
  <2>7. CounterInv'
    <3>0. g_fallback_counter' = req[t].mine + 1 /\ req[t].mine \in Nat
      BY <2>1, <2>5
    <3>e. PICK e, n : e = [count |-> req[t].mine, raced |-> t \in raced] /\ n = Len(draws)
      OBVIOUS
    <3>f. e.count = req[t].mine /\ (e.raced <=> t \in raced)
      BY <3>e
    <3>g. e \in [count : Nat, raced : BOOLEAN] /\ draws' = Append(draws, e)
      BY <2>1, <2>5, <3>e
    <3>1. /\ n \in Nat /\ DOMAIN draws = 1 .. n /\ DOMAIN draws' = 1 .. n + 1
          /\ \A i \in 1 .. n : draws'[i] = draws[i] /\ draws[i].count \in Nat
          /\ draws'[n + 1] = e
      <4> DEFINE Draw == [count : Nat, raced : BOOLEAN]
      <4>1. draws \in Seq(Draw) /\ e \in Draw
        BY <1>0, <3>g
      <4>2. \A d \in Draw : d.count \in Nat
        OBVIOUS
      <4> HIDE DEF Draw
      <4>3. /\ n \in Nat /\ DOMAIN draws = 1 .. n
            /\ \A i \in 1 .. n : draws[i] \in Draw
        BY <3>e, <4>1
      <4>4. /\ DOMAIN draws' = 1 .. n + 1 /\ draws'[n + 1] = e
            /\ \A i \in 1 .. n : draws'[i] = draws[i]
        BY <3>e, <3>g, <4>1, <4>3
      <4> QED
        BY <4>2, <4>3, <4>4
    <3>2. /\ draws'[n + 1].count = req[t].mine
          /\ draws'[n + 1].raced <=> t \in raced
      BY <3>1, <3>f
    <3>3. \A u, v \in Thread : req[u].pc = "counted" /\ u \notin raced /\ req[v].pc = "counted"
                               => v = u
      BY DEF RngInv, CounterInv, Pc
    <3>4. \A i \in 1 .. n : ~draws[i].raced =>
            /\ draws[i].count < g_fallback_counter
            /\ \A u \in Thread : req[u].pc = "counted" => draws[i].count < req[u].mine
      BY <3>1 DEF RngInv, CounterInv, Pc
    <3>5. ASSUME NEW u \in Thread, req'[u].pc = "counted"
          PROVE  u # t /\ req[u].pc = "counted" /\ req'[u].mine = req[u].mine
      BY <2>5, <2>6, <3>5
    <3>6. ASSUME NEW v \in Thread, NEW u \in Thread, req'[v].pc = "counted", v \notin raced',
                 req'[u].pc = "counted"
          PROVE  u = v
      BY <2>1, <3>3, <3>5, <3>6
    <3>7. ASSUME NEW i \in 1 .. n + 1, ~draws'[i].raced
          PROVE  /\ draws'[i].count < g_fallback_counter'
                 /\ \A u \in Thread : req'[u].pc = "counted" => draws'[i].count < req'[u].mine
      <4>1. CASE i = n + 1
        <5>1. t \notin raced /\ draws'[i].count = req[t].mine
          BY <3>2, <3>7, <4>1
        <5>2. \A u \in Thread : req'[u].pc # "counted"
          BY <2>1, <3>3, <3>5, <5>1
        <5>3. draws'[i].count < g_fallback_counter'
          BY <3>0, <5>1
        <5> QED
          BY <5>2, <5>3
      <4>2. CASE i # n + 1
        <5>1. i \in 1 .. n /\ draws'[i] = draws[i] /\ draws[i].count \in Nat /\ ~draws[i].raced
          BY <3>1, <3>7, <4>2
        <5>2. /\ draws[i].count < req[t].mine
              /\ \A u \in Thread : req[u].pc = "counted" => draws[i].count < req[u].mine
          BY <2>1, <3>4, <5>1
        <5>3. draws'[i].count < g_fallback_counter'
          BY <3>0, <5>1, <5>2
        <5> QED
          BY <3>5, <5>1, <5>2, <5>3
      <4> QED
        BY <4>1, <4>2
    <3>8. ASSUME NEW i \in 1 .. n + 1, NEW j \in 1 .. n + 1, i < j,
                 draws'[i].count = draws'[j].count
          PROVE  draws'[i].raced
      <4>1. i \in 1 .. n /\ draws'[i] = draws[i] /\ draws[i].count \in Nat
        BY <3>1, <3>8
      <4>2. CASE j = n + 1
        <5>1. draws[i].count = req[t].mine
          BY <3>2, <3>8, <4>1, <4>2
        <5>2. ~draws[i].raced => draws[i].count < req[t].mine
          BY <2>1, <3>4, <4>1
        <5>3. ~(draws[i].count < req[t].mine)
          BY <2>5, <5>1
        <5> QED
          BY <4>1, <5>2, <5>3
      <4>3. CASE j # n + 1
        <5>1. j \in 1 .. n /\ draws'[j] = draws[j]
          BY <3>1, <3>8, <4>3
        <5> QED
          BY <3>1, <3>8, <4>1, <5>1 DEF RngInv, CounterInv, FallbackDistinct
      <4> QED
        BY <4>2, <4>3
    <3>9. FallbackDistinct'
      BY <3>1, <3>8 DEF FallbackDistinct
    <3> QED
      BY <3>1, <3>6, <3>7, <3>9 DEF CounterInv, Pc
  <2>8. RngTypeOK'
    BY <1>0, <2>1, <2>5, <2>6 DEF RngInv, RngTypeOK
  <2> QED
    BY <2>6, <2>7, <2>8 DEF RngInv
<1> QED
  BY <1>1, <1>2

\* A thread asks; another sets the provider.
LEMMA EnvironmentSteps ==
  ASSUME RngInv,
         \/ \E p \in {"null", "custom", "system"} : SetProvider(p)
         \/ \E t \in Thread, entry \in {"fill", "csm"} : Request(t, entry)
  PROVE  RngInv'
<1>1. ASSUME NEW p \in {"null", "custom", "system"}, SetProvider(p) PROVE RngInv'
  <2>1. /\ provider' = p /\ req \in [Thread -> Req]
        /\ req' = [t \in Thread |-> IF req[t].pc = "get" /\ p = "null"
                                    THEN [req[t] EXCEPT !.reset = TRUE] ELSE req[t]]
        /\ UNCHANGED <<platform, g_fallback_counter, draws, raced>>
    BY <1>1 DEF SetProvider, Pc, RngInv, RngTypeOK
  <2>2. ASSUME NEW t \in Thread
        PROVE  /\ req'[t] \in Req /\ req'[t].pc = req[t].pc /\ req'[t].mine = req[t].mine
               /\ RequestOK(req'[t]) /\ NullSeen(req[t])'
    <3>1. /\ req[t] \in Req /\ RequestOK(req[t]) /\ NullSeen(req[t])
          /\ req'[t] = IF req[t].pc = "get" /\ p = "null"
                       THEN [req[t] EXCEPT !.reset = TRUE] ELSE req[t]
      BY <2>1 DEF RngInv
    <3>2. CASE req[t].pc = "get" /\ p = "null"
      <4>1. req'[t] = [req[t] EXCEPT !.reset = TRUE]
        BY <3>1, <3>2
      <4>2. req'[t] \in Req /\ req'[t].pc = req[t].pc /\ req'[t].mine = req[t].mine
        BY <3>1, <4>1 DEF Req
      <4>3. RequestOK(req'[t])
        BY <3>1, <3>2, <4>1 DEF Req, RequestOK
      <4>4. NullSeen(req[t])'
        BY <3>1, <4>1 DEF Req, NullSeen
      <4> QED
        BY <4>2, <4>3, <4>4
    <3>3. CASE ~(req[t].pc = "get" /\ p = "null")
      <4>1. req'[t] = req[t]
        BY <3>1, <3>3
      <4>2. NullSeen(req[t])'
        BY <2>1, <3>1, <3>3, <4>1 DEF NullSeen
      <4> QED
        BY <3>1, <4>1, <4>2
    <3> QED
      BY <3>2, <3>3
  <2>3. ASSUME NEW t \in Thread PROVE RequestOK(req[t])'
    <3>1. RequestOK(req'[t]) /\ platform' = platform
      BY <2>1, <2>2
    <3> QED
      BY <3>1 DEF RequestOK, Whole
  <2>4. CounterInv'
    BY <2>1, <2>2 DEF RngInv, CounterInv, FallbackDistinct, Pc
  <2>5. RngTypeOK'
    BY <2>1, <2>2 DEF RngInv, RngTypeOK
  <2> QED
    BY <2>2, <2>3, <2>4, <2>5 DEF RngInv
<1>2. ASSUME NEW t \in Thread, NEW entry \in {"fill", "csm"}, Request(t, entry) PROVE RngInv'
  <2> DEFINE r == [NoRequest EXCEPT !.pc = "called", !.entry = entry]
  <2>1. /\ Update(t, r)
        /\ UNCHANGED <<platform, provider, g_fallback_counter, draws, raced>>
    BY <1>2 DEF Request
  <2>2. NoRequest \in Req
    BY DEF NoRequest, Req, Cell
  <2>3. r \in Req
    BY <2>2 DEF Req
  <2>4. r.pc = "called" /\ r.src = 1 /\ r.off = 0
    BY <2>2 DEF NoRequest, Req
  <2> HIDE DEF r
  <2>5. r.pc # "counted" /\ RequestOK(r) /\ NullSeen(r)
    BY <2>4 DEF RequestOK, NullSeen
  <2> QED
    BY <2>1, <2>3, <2>5, QuietStep
<1> QED
  BY <1>1, <1>2

\* The inductive invariant.
THEOREM RngInvariant == RngSpec => []RngInv
<1>1. RngInit => RngInv
  <2> SUFFICES ASSUME RngInit PROVE RngInv
    OBVIOUS
  <2>1. NoRequest \in Req /\ RequestOK(NoRequest) /\ NullSeen(NoRequest)
        /\ NoRequest.pc = "idle"
    BY DEF NoRequest, Req, Cell, RequestOK, NullSeen
  <2>2. /\ req = [t \in Thread |-> NoRequest] /\ draws = <<>>
        /\ raced = {} /\ g_fallback_counter = 0 /\ provider = "null"
        /\ platform \in Platforms
    BY DEF RngInit
  <2>3. RngTypeOK
    <3>1. req \in [Thread -> Req]
      BY <2>1, <2>2
    <3>2. draws \in Seq([count : Nat, raced : BOOLEAN])
      BY <2>2
    <3> QED
      BY <2>2, <3>1, <3>2 DEF RngTypeOK
  <2>4. CounterInv
    BY <2>1, <2>2 DEF CounterInv, FallbackDistinct, Pc
  <2> QED
    BY <2>1, <2>2, <2>3, <2>4 DEF RngInv
<1>2. RngInv /\ [RngNext]_rngVars => RngInv'
  <2> SUFFICES ASSUME RngInv, [RngNext]_rngVars PROVE RngInv'
    OBVIOUS
  <2>1. CASE UNCHANGED rngVars
    <3>1. UNCHANGED <<platform, provider, g_fallback_counter, req, draws, raced>>
      BY <2>1 DEF rngVars
    <3>2. ASSUME NEW t \in Thread PROVE (RequestOK(req[t]) /\ NullSeen(req[t]))'
      <4>1. RequestOK(req[t]) /\ NullSeen(req[t])
        BY DEF RngInv
      <4> QED
        BY <3>1, <4>1 DEF RequestOK, NullSeen, Whole
    <3>3. RngTypeOK'
      BY <3>1 DEF RngInv, RngTypeOK
    <3>4. CounterInv'
      BY <3>1 DEF RngInv, CounterInv, FallbackDistinct, Pc
    <3> QED
      BY <3>2, <3>3, <3>4 DEF RngInv
  <2>2. CASE \E t \in Thread : RequestStep(t)
    BY <2>2, ProviderSteps, SourceSteps, FallbackSteps DEF RequestStep
  <2>3. CASE \/ \E p \in {"null", "custom", "system"} : SetProvider(p)
             \/ \E t \in Thread, entry \in {"fill", "csm"} : Request(t, entry)
    BY <2>3, EnvironmentSteps
  <2> QED
    BY <2>1, <2>2, <2>3 DEF RngNext
<1> QED
  BY <1>1, <1>2, PTL DEF RngSpec

\* However the sources fail, a buffer fill_random reports as filled is from one
\* source that delivered all of it, the fallback only after all others.
THEOREM FillsFromOneSource == RngSpec => []FilledFromOneSource
<1>1. RngInv => FilledFromOneSource
  BY DEF RngInv, RequestOK, FilledFromOneSource, Finished, Pc, Source
<1> QED
  BY <1>1, RngInvariant, PTL

\* A counter value is used again only if its first draw met another thread between
\* the read and the write of g_fallback_counter++.
THEOREM FallbackDrawsDistinct == RngSpec => []FallbackDistinct
<1>1. RngInv => FallbackDistinct
  BY DEF RngInv, CounterInv, FallbackDistinct
<1> QED
  BY <1>1, RngInvariant, PTL

\* A null provider is called only after a reset between the getter's two reads.
THEOREM NullProviderOnlyByReset == RngSpec => []NullOnlyByReset
<1>1. RngInv => NullOnlyByReset
  BY DEF RngInv, NullSeen, NullOnlyByReset, Pc
<1> QED
  BY <1>1, RngInvariant, PTL

=============================================================================
