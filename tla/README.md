# TLA+ verification of cpl

`cpl` is a header-only C++/C collection: **naion** (a single-header replacement
for the parts of libsodium it needs, with three message protocols on top, and
ports of it to Go and Python), and a set of utility headers (base, strings, net,
crypto, plugins, Windows). This directory holds TLA+ modules that model its
stateful parts, TLC configurations that check them on small instances, and
TLAPS proofs for every instance.

    tlc -workers 2 -config csm_session.cfg MCCsmSession.tla
    tlapm CsmSessionProofs.tla

1. [Inventory](#1-inventory)
2. [Modules and the code](#2-modules-and-the-code)
3. [Runs, bounds, fairness](#3-runs-bounds-fairness)
4. [Proofs](#4-proofs)
5. [Where code and comments disagree](#5-where-code-and-comments-disagree)
6. [Not modelled](#6-not-modelled)
7. [Plan](#7-plan)

## 1. Inventory

| component | source | state it keeps | operations | hard behaviour | module |
|---|---|---|---|---|---|
| CSM-Session (L5) | `naion.h` 693-753, 5771-6251 | client struct, server struct: session key pair, peer, derived key, `handshake_complete` | create, wipe, `client_hello`, `server_handshake`, `client_finish`, encrypt/decrypt on each side | lost, repeated, reordered, damaged messages; interleaved handshakes on one server; a derivation that fails halfway | CsmSession |
| CSM, CSM-CA (L3, L4) | `naion.h` 526-640, 5075-5750 | client struct (server's key, `server_verified`); server struct (client's key, `client_known`) | create, wipe, encrypt/decrypt on each side, `handshake_response`, `handshake_verify` | a server learns its client from the packets it opens; a copy in/copy back of the struct | CsmDatagram |
| `naion.hpp` | `naion.hpp` 220-470 | an L3 struct and a copy of the client's key and flag | construction, destruction, Encrypt, Decrypt | two copies of one fact | CsmDatagram |
| Go and Python ports | `naion/go`, `naion/python` | as L3 and L4 (neither has an L5) | as L3 and L4 | state guards that the C code has and they have not; other error codes; random sources that fail; verification under a key that is still zero | CsmPorts |
| L1 primitives | `naion.h` 855-2860 | buffers and counters of BLAKE2b, SHA-512, Poly1305; stream counters | init, update, final; stream loops | block boundaries, carries | StreamingHash, SecretStream |
| L2 calls, selector | `naion.h` 3430-4860 | the selected family, cached keys | secretbox, AEAD, box, sealed box, kx, sign; select | overlapping buffers, order of error exits, a selector that changes between two calls | SecretStream, BoxCalls |
| random numbers | `naion.h` 2860-3390 | provider pointer, fallback counter | fill, set and get the provider | partial reads, fallback, an unlocked static | RandomSource |
| crypto | `crypto.hpp` | SHA-256 buffer, HMAC object, RC4 state | update/summary, encrypt and decrypt an envelope | block boundaries; an object used after a failure | StreamingHash, HmacSha256, Rc4Envelope |
| Windows service | `win32/service.hpp` | `SERVICE_STATUS`, stop event, SCM registration | Install, Uninstall, Run, ServiceMain, ControlHandler | two threads, no lock; reports arriving out of order; a stop that comes too early | WindowsService |
| Windows libraries | `win32/sys.hpp` 136-404, `win32/api.hpp` | two process-wide caches, handle and pointers per object, `API`'s flag | Load, Unload, LoadFunction, `API::Load` | objects that share a library; a Load that fails halfway; an unlocked flag | DynamicModules |
| Windows threads, log gates | `win32/thread.hpp`, `base.hpp` 300-350 | thread handle; `log::once`/`limit` statics | Start, StartEx, destructor; log | handles lost; unlocked statics with a callback between two accesses | ThreadObject |
| plugins | `plugins.hpp` | a loaded package | check the trailer, verify, read the configuration | arithmetic on offsets from a file | PluginPackage |
| strings | `strings.hpp` | none | `Length`, `Leb128`, `Hex`, `Base64`, `Split`, `Join`, `ReplaceAll` | boundaries of integer widths, cut buffers, damaged texts, a delimiter at the end | Codecs, TextCalls |
| net | `net.hpp` | an address range | set it from addresses, masks, text; membership | byte orders, masks of 0 and 32 bits | AddressRange |
| sodium, utility, the rest of Windows | `sodium.hpp`, `utility/`, `win32/*.hpp` | none between calls | single library or system calls | none | - |

How they interact. The session and datagram layers call L2 (`box`, `kx`,
`aead`) and Ed25519, which call L1; key generation calls the random provider.
L4 embeds an L3 struct and calls L3; `naion.hpp` wraps L3. L5 shares only the
sign/verify helpers with L3. Client and server meet only through byte buffers
the application transports, and the two ends may be different implementations.
`plugins.hpp` verifies a signature with naion. `crypto.hpp`'s envelope uses its
own HMAC, RC4 and the `Length` codec. The service calls the application back
(`EventLoop`) on one thread and is called by the SCM on another; they share
members of one object. All objects of `api.hpp` share the caches of `sys.hpp`.

What makes each correct: L5 - both ends of a completed session hold the same
key and know who the other is, whatever the transport did; nothing is delivered
that was not sealed in that session; a failed call moves nobody to another
session. L3/L4 - a server answers only who spoke to it, an L4 client talks only
to certified servers, failures teach nothing, on every mixture of
implementations. L1/L2 - a digest does not depend on how the input was cut, no
keystream is used twice, no plaintext leaves before it was verified, a box opens
for its two parties only. Random numbers - a filled buffer is filled from one
source. Service - the SCM's view agrees with what the threads do, and a stop
ends the service. Codecs - decode after encode is the identity and no read
leaves the buffer. Handles - none dangles that nobody released.

`PROJECT.json` lists the hazards at their lines with the property for each.

## 2. Modules and the code

```
AuthChannel                     abstract: what a message layer promises
  ^ refined by        ^ refined by
CsmSession  (L5)      CsmDatagram (L3, L4, naion.hpp)      WindowsService
  |                     CsmPorts  (+ Go, Python)             |
  MCCsmSession          MCCsmDatagram                        MCWindowsService, MCPlatform
  CsmSessionProofs      CsmDatagramProofs                    Win32Proofs

StreamingHash  HmacSha256  Rc4Envelope  SecretStream  BoxCalls
  MCNaionCalls      (one of the five per behaviour)
  StreamingHashProofs
  CryptoProofs          (HmacSha256, Rc4Envelope)
  NaionCallsProofs      (BoxCalls, SecretStream)

RandomSource  DynamicModules  Codecs  PluginPackage  AddressRange  ThreadObject  TextCalls
  MCPlatform            (one of the seven, or WindowsService, per behaviour)
  RandomSourceProofs
  Win32Proofs           (ThreadObject, DynamicModules, and WindowsService above)
  FormatProofs          (AddressRange, PluginPackage, Codecs, TextCalls)
```

### Protocols

**AuthChannel** is an abstract specification with two variables: the set of
messages ever handed to an encrypt call, and what the last call returned. A
message has a sender, a receiver and a session; `Deliver(m)` needs `m` to have
been sent. It promises nothing about loss, order or repetition, because
`naion/plan03.md` section 5.2 leaves replay to the application.

**CsmSession.** `st[e]` is the struct of endpoint `e`: `xsk` is the session key
pair (`session_x_sk`/`session_x_pk`), `peer_xpk`, `peer`
(`peer_ed_public_key`), `complete`, `aead` (`session_aead_key`). A client and a
server struct have the same fields. `hellos`, `replies` and `packets` are what
ever reached the transport. Each exported function is one action that includes
its error exits in the order of the code: `ServerHandshake` is a buffer that is
too small, a hello that fails (`RejectHello`), one that succeeds (`AcceptHello`)
and one whose key cannot be derived after the key pair was made (`FailHello`,
which leaves the struct as the error path at 5950 does). Cryptography is symbolic: a key pair is an
element of `Key`, a shared secret is the set of the two keys, a signature is a
record of who signed what, verification compares, the zero buffer is `NoKey` or
`Zeroed`. `LowKey` stands for a public key of small order: X25519 refuses it,
which is how a derivation fails. `for` in a response is a history field that is
not on the wire. The transport is a growing set: not taking a message is loss,
taking it twice repetition, taking it late reordering; damage replaces one field
by that of another message or by zeros.

**CsmDatagram.** `cl[c]` and `sv[s]` are the structs; L4's `verified` and L3's
learnt client are fields. `mirror[s]` is a `naion.hpp` `Server` object owning
the struct of an L3 server, with its copy of the client's key. A packet has the
body that is in the sealed box (addressee, the signer's key a client carries,
payload) and a signature over it. L4 calls are the L3 calls behind their state
checks, plus what they copy back. `ForeignPackets` are packets of other
software that holds a client's keys.

**CsmPorts** puts three implementations on one transport. `impl[e]` says which
one endpoint `e` runs ("none": its program does not run), and never changes. The
ports' structs, packets and certificates are those of CsmDatagram, so only their
calls are new. They differ in their errors (Go reports a body that opens with a
signature that fails as `VERIFY_FAILED` where C says `CRYPTO`; Python raises what
its libraries raise), in the random sources that can fail, and in that their
Layer 4 calls test neither `server_key_verified` nor `client_key_verified`. A
call that comes too early works with a key that is zero (None in Python).
Nothing can be sealed under it: the box refuses the point of small order it maps
to, and Python raises. Verifying is another matter. C refuses keys of small order
and Python raises, but Go's `crypto/ed25519` takes the zero key for the point of
order 4 it encodes, and whether a packet verifies under it depends on a hash of
its body. So a Go client without a server's key returns the payload of some
packets (`GoClientDecrypt`, which is also `CSMCAClient.Decrypt`), a Go server may
learn the zero key from a packet that carries it (`GoServerDecrypt`), and a wiped
Go client's zero CA key may verify a zero signature (`GoHandshakeVerify`). Such a
packet is `TakenForNobodys`: its maker needs no secret key, so what is returned is
attributed to `Nobody`. `ImplementsChannel` speaks of what is attributed to a
peer; `CaClientsHearCertified` says what a Layer 4 client should be able to count
on, and is violated.

### Cryptographic calls

**StreamingHash** is one object of BLAKE2b, SHA-512, Poly1305 (`naion.h`) or
SHA-256 (`crypto.hpp`). `ctx` is the object with its buffer, fill and counter; a
byte of the input is its position, so a byte that is lost, repeated or misplaced
shows; `ctx.h` is the sequence of blocks the compression function was given, with
the counter it was given. An update is a call and one step for each iteration
of its loop. `Spells` is the reference: the padded message, cut into blocks.

**HmacSha256** is the HMAC object over two SHA-256 objects; an object is the
sequence of pieces absorbed since its reset, which StreamingHash justifies. Keys
come in the classes the constructor tells apart. Every size of the caller's
buffer that `Summary` tells apart is an input, so a Summary can fail after it has
consumed the inner object.

**Rc4Envelope** is `Encrypt` and `Decrypt` of the envelope `signE signL nonce
length encrypted`. `Arriving` recombines the fields of all envelopes made so far
and cuts or extends the body. RC4 is a keystream indexed by key and position.

**SecretStream** runs one L2 call on a memory of cells, a block, a MAC or a copy
at a time, with any distance between input and output. A cell is a value and the
set of keystream bytes xored into it. The layouts `BoxOf`, `AeadOf` and `SignedOf`
are the references.

**BoxCalls** is two processes (any number in the proof), each with a key pair,
the global selector and a key cached by `beforenm`. A box stays in `boxes` and can
be opened by anyone at any later setting of the selectors. Key exchange is the
other half of `BoxNext`.

### Around the operating system

**RandomSource**: `req[t]` is the request of thread `t` with its buffer, the
source it is at and its offset. The getter is two reads of the global, as
written; `g_fallback_counter++` is a read and a write; each call of a source
delivers some bytes (`Delivers` says how many each source may) or fails.
`draws`, `raced` and `reset` are history: `raced` has the threads that are between
their read and their write of the counter and met another one there, and each draw
keeps whether its thread was one of them.

**DynamicModules**: `moduleMap` and `functionMap` are the two caches, which the
code never erases, `obj[o]` an object's name, handle and function pointers, and
`call` the Load in progress, one round of the generated loop over library names
per step. `refs` and `exports` are the operating system's. One thread loads and
unloads, since two at once would change the two maps without a lock, which is
undefined; but another may call `API::Load` meanwhile (`LoadApiMeanwhile`), finds the
flag set and is answered success before anything has been loaded.

**Codecs**: a writer appends encoded values to one buffer, which may then be cut
or be junk from the start, and a reader decodes until it is told to stop.
**TextCalls**: data is written as hexadecimal, Base64 or URL-safe Base64, the text
may lose its end or have one symbol changed, and is decoded; or a text is typed and
one `ReplaceAll` is made on it. Digits are numbers, of the code's widths times
`Unit` over 2; `Split` is a recursive function over the position in the text.
**PluginPackage**:
any trailer in any small file; `size_t` is as narrow as the trailer's numbers.
**AddressRange**: every setter, the text forms included, and the membership
test. **ThreadObject**: the handle a thread object keeps, and `log::once` and
`log::limit` called from the threads. `log::once` is a test and a clear.
`log::limit` is its test, with the time it read (`LimitTests`), the clearing of
`first` with the callback (`LimitLogs`) and the store of that time (`LimitStores`);
any other thread may come between them. `crowded`, `refused` and `outputs` are
history.

An operator whose name says what is wrong with it (`HelloStatusUnverified`,
`SignalStopOnly`, ...), placed before the operator it varies, is a mutant: a
plausible bug that the property it is listed with in `PROJECT.json` detects.

## 3. Runs, bounds, fairness

| run | result | shows |
|---|---|---|
| `csm_session` | holds, about 10^5 states | `KeyAgreement`: two ends share a key exactly when each is the other's peer with the other's session key. `HandshakeBindsIdentity`: the stored peer made the stored session key; a client's peer is certified. `ServerNeverReopensASession`: a repeated hello never brings back a key that sealed packets. `FailedCallInstallsNothing`. `ImplementsChannel`: refinement of AuthChannel |
| `csm_session_zeroed` | violated | a struct that is `complete` can hold the zero key |
| `csm_session_stale` | violated | a client can complete with the answer to another hello |
| `csm_datagram` | holds, about 3.1*10^5 states | on three mixtures of the C, Go and Python implementations: `AnswersOnlySpeakers`, `CaClientsAddressCertified`, `MirrorAgrees`, `FailureTeachesNothing`, `ImplementsChannel` |
| `csm_first_client` | violated | a server replaces the client it has learnt |
| `csm_unverified_server` | violated | a Layer 4 client of the Go port returns a payload before it has verified a server |
| `service_stopped_early` | violated | STOPPED is shown while EventLoop runs |
| `service_lost_stop` | violated | a stop before CreateEvent is lost |
| `naion_calls` | holds, about 1.1*10^5 states | `DigestIsOfInput`, `CountersExact`: however input is cut, the compression function gets the padded message and its count. `MacCoversUpdates`, `ObjectsInStep`: what a reused HMAC object covers. `EnvelopeAuthentic`, `EnvelopeRoundTrip`. `OutputRight`, `NothingBeforeVerified`, `KeystreamOnce`: the L2 calls on overlapping memory. `BoxOpens`, `KxAgree` |
| `platform` | holds, about 6.5*10^5 states | `FilledFromOneSource`, `FallbackDistinct`, `NullOnlyByReset`, `RequestEnds`: random sources that fail anywhere under two threads. `DanglingOnlyAfterRelease`, `LoadedOnce`, `ApiComplete`: shared libraries. `StoppedHasCause`; `FinishedIsReported`: after ServiceMain and the handler the SCM shows STOPPED in every interleaving; `StopEndsLoop`: the Windows service. `CodecsAgree`, `TextsSurvive`, `PackageSound`, `RangeIsWhatWasMeant`, `ThreadsAccounted` |
| `replace_all` | violated | ReplaceAll deletes an occurrence at the end of a text |
| `rng_failure` | violated | a CSM call whose random sources all failed answers OK |

`MCNaionCalls` and `MCPlatform` hold components that share no state. `subject`
picks the one a behaviour is about and the others stay in an initial state, so
the run is the sum of its components and not their product.

Bounds. *csm_session*: two clients and two servers, one of them certified, so
that handshakes cross, interleave on one server and reach a server without a
certificate; three keys are enough for a session, one that replaces it and a
second client's; two packets are enough to swap signatures and to compare an old
with a new session; one payload is enough because a payload that is delivered
wrongly is told apart by its sealer, receiver or session. Of client 2 and of server 2
nothing is on the wire at first; of client 1 and server 1 there is a message
with a small-order key, as other implementations may send. *csm_datagram*: two
L3 clients and one server, one L4 client, a certified and an uncertified L4
server; `MCDeployments` lets each implementation take each of the four roles once
and each pair of them meet, in three deployments; where a second L3 client adds nothing
to a deployment its program does not run. *csm_unverified_server* has the same
bounds, the two runs of the service count controls like *platform*.

*naion_calls*: a block of 4 bytes with 2 kept for the length and counter words of
16 values have every edge of 128, 16 and 2^64: inputs of up to 18 bytes fill four
blocks, end on both sides of a block boundary and of the padding's, and carry
from one word into the next. Two pieces and two summaries are enough to use an
HMAC object again, after a success and after a failure. Two envelopes under two
nonces can be recombined; the keys are two good ones, one too long and an empty
one. For the stream calls a block is 4 bytes, a counter word has 3 values and
the lengths are those around one half, one and two blocks, at every distance from
one before to one behind where loops overlap. One box suffices for BoxCalls,
since a box is only compared with itself. *platform*: two threads share three
requests, so that they meet in every pair of steps, one comes after the other, and
one can finish two requests inside another (a write that comes late sets the
counter back); two bytes in chunks of one make a source
stop midway; the three platforms differ in their sources. Five public calls load,
unload and load again two of four objects of `api.hpp` chosen because they share
a library, try two, or are necessary. Bytes of 5 bits have headers and
continuation bits of the same shape; the values include both sides of each
change of length. The word of 8 values makes offset + size of a trailer wrap.
Texts of up to four bytes, of the real 8 bits, have every kind of last Base64 block;
three byte values set no bit, alternate bits and all bits. Delimiters of one and
two letters, one of which overlaps itself, meet in all texts of six letters of two.
Addresses of 4 bits have every mask, from none to all of them, and one above, and
two byte orders. Two threads meet at every access of the log gates' statics; three
ticks with a timeout of two let an output come one tick after another, on the
timeout and behind it. Three controls let a stop overtake another and an ignored
control come between.

The proofs of section 4 cover every value of these constants for the properties
listed there.

Symmetry is used for clients and keys in `csm_session` only: the runs state no
liveness there. The constant `Foreign` names one client, so the initial state
is not symmetric; but only `Init` reads it, and the actions and the properties
treat all clients alike, so the image of a reachable state under a permutation
has the images of its steps and satisfies the same properties. The proofs use
neither symmetry nor view. `VIEW WithoutRet` drops the last call's result: no guard
reads it and every property reads it only as the result of a step, which TLC
evaluates for every step it generates.

Deadlock is not checked: the CSM models stop when keys and packets run out, the
service when its process has ended, a call when it has returned and the other
components when their bounds are reached, and all of these are legitimate ends.

Fairness. The CSM modules state safety only: the code retries nothing and the
transport owes nothing. `WindowsService` assumes weak fairness of ServiceMain's
steps, of the handler's steps and of the dispatcher's return: the operating
system runs both threads, and no step of theirs waits for another except
`EventLoop` for the event. That the loop returns once the event is set is the
contract of `IServiceEventLoop`. A loop that ends by itself, the delivery of a
control, the start and the exit of the process are not fair. `PromptSpec` adds
the exit of the process after Run, so that the counterexample of
`service_lost_stop` is not just a process that was never ended. `RngFairness` is
weak fairness of each thread's steps within a request: the scheduler runs every
thread, and the kernel does not interrupt one call for ever (the code repeats an
interrupted call without a limit; such a call is a stutter of the model). A new
request and a change of the provider are not fair. `RequestEnds` then says that
the order of sources, each tried from the start, and the fallback end.

## 4. Proofs

`tlapm` checks eight modules, to the last leaf. Every safety property of a
passing run is a theorem. The theorems hold for
every value of the constants that satisfies the assumptions named in the modules,
and use nothing about the size of a set:

| assumption | what it says, and why the code justifies it |
|---|---|
| `ConstantsDistinct`, `DeploymentsAssumption` | the sets of endpoints are disjoint, the special keys are no keys, a deployment gives each endpoint an implementation |
| `MaxControlsAssumption`, `SizeAssumption`, `ThreadAssumption`, `EnvAssumption` | numbers are in their ranges |
| `BoxAssumption` | no generated key pair is of small order: naion's secret keys are clamped |
| `BlockAssumption`, `WordAssumption` | the length field is shorter than a block; one block is not more than a word counts (128 bytes, 64 bits), which is what the code's one-step carry needs |
| `StreamAssumption` | a message is not longer than both counter words together count (a `size_t` of bytes against 2^64 blocks), and buffers do not reach into what `malloc` returned |
| `BitsAssumption` | a byte has at least five bits (eight), and the values are signed numbers of as many bytes as a byte has bits: `int64_t` |
| `TextAssumption` | a byte has four or more bits in four equal parts (`Unit` of them, 2 in the code), data is made of bytes, delimiters and replacements of the characters of texts |
| `RangeAssumption` | the host counts of the masks divide the number of addresses: they are powers of two, `utility`'s table in `net.hpp` |
| `PackageAssumption` | a `size_t` is at least as wide as the trailer's numbers and counts every file, as on the 32- and 64-bit targets; the default interval is positive |
| `ModuleAssumption` | facts of `api.hpp`'s tables: each object lists a library, each necessary one is loaded, and an object that tries a second library gives up one that the process keeps, or one of which nobody takes functions |

**CsmSessionProofs** proves `TypeOK`, `HandshakeBindsIdentity`, `KeyAgreement`,
`ServerNeverReopensASession`, `FailedCallInstallsNothing` and
`ImplementsChannel`. None of them is inductive. `IInv` adds that handshake
messages on the transport are what their signer made (`HellosGenuine`,
`RepliesGenuine`), that a struct's secret was made by its endpoint
(`OwnSecrets`), that the key of a complete session is derived from the struct's
own fields (`KeysDerived`) and that the halves of the key that sealed a packet
belong to its two ends (`PacketsGenuine`). The argument: a verified hello or
response, damaged or not, names the owner of its key (`DamagedHello`,
`DamagedReply`); so both halves of a session key have known owners; a client's
key has one half of a server, which leaves one pair of endpoints for each key;
and a server always derives with a key it has just generated, so no packet was
sealed under the result.

**CsmDatagramProofs** proves the six properties of `csm_datagram` for `PortsSpec`,
that is for every assignment of implementations to endpoints. `IInv` adds
what a packet says of its signer (`PacketsGenuine`), that only certified servers
hold a CA signature (`CertsGenuine`), that a server's view names a client only
after a packet of that client (`KnowsSpeakers`) and that a Layer 4 client holds a
certified server's key or none (`VerifiedServers`); `PInv` adds that objects of
`naion.hpp` live in C programs. `KnowsSpeakers` and `VerifiedServers` speak of the
key, not of the flag next to it: a key that is not zero was learnt properly, and
with a zero key nothing is sealed. In C and in Python nothing verifies under it
either, and C's flags are a second line of defence. In Go packets may verify under
it, so there the refinement is of what is attributed to a peer (`Attributed`), and
the flag that `CSMCAClient.Decrypt` does not test would be the only defence.

**Win32Proofs** proves `TypeOK`, `StoppedHasCause` and
`FinishedIsReported` for any number of controls. The last needs `ReportInv`:
once both threads have made their last assignment, `dwCurrentState` is STOPPED
and a report that has read STOPPED, or is still to read, is under way or was
taken. It holds because each thread's last assignment is STOPPED, the later of
the two is followed by a read, and the SCM keeps STOPPED once it has it. The
mutant `SignalStopOnly` shows that it is no accident: dropping the handler's own
report of STOPPED (the obvious repair of the first finding below) lets the
handler's STOP_PENDING overwrite ServiceMain's STOPPED before it is read, and a
finished service is shown as stopping for ever. The shared status needs a lock.

It also proves `ThreadsAccounted`, from what holds while nobody met in `log::once`
(`OnceInv`) and while nobody was let into `log::limit` with another inside
(`LimitInv`): then whoever is inside is alone, the output comes before its timestamp
is stored, and outside of that the last output is not later than the timestamp the
next test compares with. And it proves the three properties of the dynamic modules, for any number of objects that share
libraries in any way the tables allow. `ModulesInv` says that references are held
to cached libraries only, and that a freed library stays in the cache and is never
mapped again (`CacheInv`); that a handle is one of a library its object lists
(`HandleOfList`); that a library which is gone, and a cached function that points
into it, has an excuse: some object listing it was released, or nobody takes
functions from it (`ExcuseInv`); and that the objects `API::Load` has been
through have what they need, unless a call was answered an error (`ApiInv`): what
the last call was answered says nothing, since another thread's call is answered
success at any time. The state in the middle of a Load is
where it is hard: between an object's giving up one library and loading the next,
other objects' pointers rest on the excuse alone.

**StreamingHashProofs** proves `HashTypeOK` (its range of `buflen` says that no
update and no final writes past its buffer, and that between calls only BLAKE2b's
buffer may be full), `DigestIsOfInput` and `CountersExact`, for every block size,
counter width, length field, input and cut. The inductive invariant is the
abstraction function one would write down for the code: the blocks compressed so far are
the input from its start (`InputBlocks`), each with the counter it needs
(`BlockCounters`), the buffer holds the bytes after them (`Holds`), and the pair
of words is the number of bytes or bits, modulo both words (`Counted`). From
there each of the four finals is followed block by block: one block or two, with the
length in the last.

**RandomSourceProofs** proves `FilledFromOneSource`, `FallbackDistinct` and
`NullOnlyByReset` for any number of threads, size and chunk. `RngInv` adds, for
each request, that the bytes up to the offset are those of the source it is at
(`RequestOK`: a failed source sets the offset back), that a thread has seen NULL
only after a reset (`NullSeen`), and (`CounterInv`) that a thread which met no
other is alone between the read and the write of the counter, and that the count of
every draw which ran alone is below the counter and below whatever any thread has
read. The last part is what survives late writes: one that sets the counter back
was read after, or together with, every draw that ran alone.

**CryptoProofs** proves `MacCoversUpdates` and `ObjectsInStep` of the HMAC object;
the second is what makes the first inductive. Of the envelope it proves
`EnvelopeAuthentic` and `EnvelopeRoundTrip` for every alphabet, key set and length.
`EnvInv` says only that what was kept of an envelope is what `Encrypt` made of
some nonce; that no recombination opens follows from the MAC that covers nonce,
length and body.

**NaionCallsProofs** proves `BoxOpens` and `KxAgree`: `BoxInv` adds that a box and
a cached key are derived as their history fields say, and the two directions of
`BoxOpens` follow because a derivation is injective in its family and its pair of
keys and an ephemeral key has one maker. Of the symmetric calls and signatures on
overlapping memory it proves, for every block size, MAC size, counter width, set
of lengths and set of distances, three properties, each with an invariant of its
own:

* `NothingBeforeVerified` from `VerifyInv`: the phases each operation goes through
  (`StreamShape`), that the input is what a call of the other side made, perhaps
  with one byte changed (`InputMade`), and that until the verification the memory
  holds that input where the code will read it;
* `KeystreamOnce` from `UsedInv`: the positions of the keystream used so far are
  exactly those of the bytes done so far, and the counter stands at the block of the
  next byte. It needs that the message is no longer than the counter's words
  count, which is the arithmetic of `EnoughBlocks`;
* `OutputRight` from `OutputInv`: for each phase, what of the output is written
  (`Written`), what of the input is still unread and unharmed (`Unread`) and where
  the loop's two pointers are (`LoopPlace`). Which distances keep unread input
  unharmed is the content of `LayoutAllowed`. Inside one block the byte loop is a
  recursive function, `XorRun`; what it has done after k bytes is shown by a least
  counterexample, since the theorem of induction takes an operator and is out of reach.

**FormatProofs** proves `RangeIsWhatWasMeant`, `PackageSound`, `CodecsAgree` and
`TextsSurvive`. The first
rests on arithmetic of networks and hosts (a network is its base and the
numbers up to its host count, for any table of host counts that divide each
other's whole); `RangeTypeOK` is inductive. The second rests on `WrappedSum`: a
sum of two numbers of a trailer that is taken modulo `size_t` and gives an offset
inside the file did not wrap. `PackageInv` adds that a file is accepted once and
for all.

`CodecsAgree` holds for every width of a byte above four bits. `CodecInv` says what
the buffer is at any moment (`BufferOK`): the encodings of the values still to be
read, one after the other, at places given by a function (`Layout`), and then at
most the beginning of one more, or bytes nobody encoded. Three lemmas of each codec
carry the reading: a buffer that begins with an encoding decodes to its value and
length (`LengthRoundTrip`, `LebRoundTrip`), a beginning of an encoding is refused
(`LengthCut`, `LebCut`), and no buffer makes a decoder claim more than it was given
(`LengthJunk`, `LebJunk`). They need what the provers do not know, the arithmetic of
powers of two: that 2^(n+1) is twice 2^n comes from the number of subsets of a set
(`PowerStep`), sums of exponents from an induction which, since the theorem of
induction is out of reach, is a well-founded minimum (`LeastNumber`,
`SetInduction`); digits and header bits follow. `LengthOk` shows what
`Length` really encodes, from the place where its loop stops; the property asks only
that these values (31 bits of the 64 in the code) are among those it accepts, and
that it accepts nothing beyond its range check (section 5).

`TextsSurvive` holds for bytes of any number of parts, data of any length, texts and
delimiters over any characters. It is not inductive: `TextInv` adds, for a text that
is on its way, that it is the encoding of the data, or that with the one damage the
history names (`Carried`). What is then decoded is `Promised`, form by form and damage
by damage. Below that:

* a byte is the quotient and the remainder of the parts a block cuts it into
  (`ByteParts`), a block of three bytes is written with digits (`DigitsOfBlock`), and
  each byte is put together again from the two digits it went into (`ByteBack`);
* the shape of what an encoder writes, how many digits and how much padding
  (`Base64Shape`, `UrlSafeShape`, `HexShape`), and what a decoder accepts and refuses
  by shape alone (`DigitsAccepted`, `EarlyPadRefused`, `HexAccepted`). A loss that
  leaves a legal shape gives all bytes but the last, and that is the case in which
  unpadded Base64 cannot notice it;
* `Split` and `Replaced` are recursive functions. TLA+ defines a recursive function by
  CHOOSE, so that it unfolds only if one exists: `ForwardExists` builds it from the end
  of the text and `AddedExists` `Join`'s buffer from the beginning, by induction on sets
  of numbers (`SetInduction`, `BackwardInduction`). Joining one part more puts it and the
  separator in front (`JoinMore`), and `ReplaceAllReplaces` compares the parts with the
  replacement from delimiter to delimiter. One case of that step is a delimiter that reaches the end of
  the text, where `Split` stops and one `to` is missing; the property leaves such texts
  out, and `replace_all` shows one.

Only model-checked: `StopEndsLoop` and `RequestEnds`, since liveness under
fairness is out of the prover's reach, and the violations.

## 5. Where code and comments disagree

* `csm_session_zeroed` - the error paths of `server_handshake` (5950) and
  `client_finish` (5998) zero the session key and leave `handshake_complete` of
  an earlier handshake at 1; `naion.h:731` says 1 means ready for traffic.
* `csm_session_stale` - a response does not say which hello it answers;
  `client_finish` completes on a response to an earlier hello with a key that no
  server holds. Such a client fails on its first packet, and the comment at 5959
  says "matching".
* `csm_first_client` - PROTOCOL.md and three comments say the server learns its
  client from the *first* packet; `server_decrypt` learns from every packet.
* `csm_unverified_server` - `PROTOCOL.md:220` says that a client whose verification
  failed must not go on to communicate. `CSMCAClient.Decrypt` of the Go port
  (`naion.go` 1797-1816) does not test `ServerKeyVerified` and verifies with the zero
  key, under which `crypto/ed25519` accepts some packets that no server signed. The C
  code answers `NAION_CSM_ERR_STATE` (5680).
* `service_stopped_early` - ControlHandler reports STOPPED (224) before
  EventLoop has returned.
* `service_lost_stop` - the first report accepts stop (173) before the event
  exists (182).
* `replace_all` - `strings.hpp.md:355` says ReplaceAll replaces all occurrences;
  `Split` (653) drops the empty token after a delimiter at the end, so an occurrence
  there is deleted and not replaced.
* `rng_failure` - the system provider drops its result (2993) and CSM's own call
  (4970) answers OK after any provider; `naion/plan03.md:384` says a failure is
  reported as `NAION_CSM_ERR_RANDOM_PROVIDER`.

Seen on the way, with no run of their own. Where a property could speak of one of
them it leaves the case out (the calls after a refused or half-failed `Summary` are
exempt from `DigestIsOfInput`, `MacCoversUpdates` and `ObjectsInStep`, those after a
failed `API::Load` from `ApiComplete`) or, for the second MAC of one object, says what the code does:

* `crypto.hpp`: an HMAC key of more than 64 bytes never initialises the object
  (`crypto.hpp.md` says it is hashed first), because `sha256()` refuses the
  64-byte buffer; a second MAC of one object is computed without the key; a
  `Summary` refused for a buffer that is too large leaves the SHA-256 object
  padded, and the next one digests other data; an HMAC `Summary` that fails at its
  last step has consumed the inner object, and a retry authenticates nothing of what
  was fed. Envelopes with an empty key or payload always fail.
* `naion.h`: BLAKE2b's final clears the flag by which a second final would be
  refused; the ietf stream's counter is one word and no call limits the length;
  boxes sealed in place and signatures with the message ahead of them are right only for
  the distances `LayoutAllowed` names.
* `base.hpp`: `log::limit`'s counter is never incremented, so nothing is ever output
  because of the limit; `base.hpp.md:392-395` lists "超过次数限制（limit）" (the limit
  exceeded) among the reasons for output. `LimitSpacing` allows such an output. Both
  log gates' statics are unsynchronised.
* `strings.hpp`: `Length::Encode`'s range check lets numbers up to 2^42 through, of
  which the last check refuses all beyond 31 bits; `crypto.hpp.md:75` gives 1 << 42 as
  the maximum and `test/test_strings.cpp:120` calls it "the documented maximum
  (exclusive)". `CodecsAgree` says nothing of the values in between. Both decoders
  accept overlong encodings. `Split` keeps empty tokens except the one after a
  delimiter at the end; `strings.hpp.md:305` and `:662` say it filters them.
  `net.hpp`: `SetAddressAny`
  stores the DHCP flag also when it refuses the text.
* `win32/sys.hpp`: a library that does not load counts as success for an object
  that is not necessary; loading an object a second time frees its library and
  takes the dead handle from the cache. `win32/api.hpp`: `API::Load` called again
  after a failure, or by another thread before the first call has finished, answers
  success. `win32/service.hpp`: `Uninstall` prints success (85) and never calls
  `DeleteService`.
* `naion/go/naion.go:1822`: two empty blocks where the comment says they "mirror
  CSM state guard"; the Go and Python ports report a server's failed verification
  as VERIFY_FAILED, the C code as CRYPTO; the Go port draws its session keys from
  `crypto/rand`, whatever provider is set.

## 6. Not modelled

* The arithmetic of curves, ciphers and compression functions: the primitives
  are their own specification, and no finite instance says anything of them.
* NULL arguments and other misuse that returns before anything is read.
* Failure of `naion_box_keypair` in the C protocols: `fill_random` (3233-3250)
  falls back to another generator and reports success, so key generation never
  fails; RandomSource models why.
* Concurrency on one CSM struct: the structs have no lock and the tests use one
  thread for each; calls on different structs interleave in the model.
* Two threads that load or unload dynamic modules at once, or call `API::Load` before
  either has set its flag: they would change two `std::unordered_map`s without a lock, which is
  undefined.
* Layers 1 and 2 of the Go and Python ports: calls of the languages' libraries,
  or the functions of `naion.h` once more. Neither port has a Layer 5.
* `SetServiceStatus` failing for other reasons than a closed handle: its result
  is not looked at.
* Case, trimming, searching, URL and CIDR parsing: one pass over a string with no
  state and no partner to disagree with. `Defer`, `StartupTime` and the error
  types: one assignment each.
* `sodium.hpp`, `utility/` and the Windows headers for network, files, DNS,
  hardware, cryptography, utilities and logging: each function is one library or
  system call, or a fixed sequence of them, with no state between calls. Of
  `api.hpp` the Load and Unload loops and `API` are modelled on four objects; the
  tables of names and types are generated data.
* `vendor/`, doctest, code under `#if 0` or commented out.

## 7. Plan

All components with state of their own are modelled, and the safety properties of every
passing run are proved. What is left:

* the composition of RandomSource with the protocols: a CSM struct whose session
  key comes from a source that failed.
