# Nen: TLA+ models and proofs

Nen (`packages/*`) encrypts an application's HTTP traffic end to end. A client
and a server agree on two keys in a post-quantum handshake; from then on every
request carries a nonce, a timestamp and an HMAC, bodies and answers are
encrypted, and the keys can be ratcheted, replaced, resumed from a ticket or
destroyed. The cryptography is sound library code. What is hard is the
protocol state around it: two copies of the keys that must change together
over an unreliable network, handlers that are suspended between reading a
session and acting on it, a client object shared by overlapping calls. Around
that core lie envelopes that are sealed without a session, the generated glue
to the cryptography in WebAssembly, and a demo site whose components run
asynchronous plays over shared state. That is what these modules model, check
with TLC and prove with TLAPS.

## Components of the system

| Component | State | Operations | Correct when |
|---|---|---|---|
| Request authentication, `withNen` (`nen-server/src/middleware.ts`, `wrapper.ts`) | the session fetched for a request | `verifyRequest` (session, nonce, HMAC, time window, replay), `decryptBody`, the application's handler, `encryptResponse` | only authentic requests are executed, repeated ones are refused, the caller can read the answer |
| Session lifecycle endpoints (`middleware.ts`) | none of their own | handshake, resume, rekey, rotate, terminate, status | both sides' keys change together, keys never go back, a destroyed session stays destroyed, status tells the truth |
| Session stores (`store.ts`, `store/redis.ts`, `store/upstash.ts`) | keys and used nonces for each session id, under a TTL | get, set, delete, exists, hasNonce, trackNonce | as above, although calls of the Redis stores may be late or rejected and some are not awaited |
| Tickets (`resumption.ts`) | the process's ticket key | `sealTicket`, `openTicket` | a ticket opens to the psk its client would resume with |
| Client (`nen-client/src/index.ts`) | session id, keys, psk, ticket, rotation flag | handshake, resume, nenFetch, nenStream, rekey, rotate, terminate, status | a request reaches a handler at most once, calls settle, fields stay consistent when calls overlap |
| Encrypted streams (`stream-wrapper.ts`, `nenStream`) | a chunk counter at each end | one SSE event per chunk, an end marker | what is yielded is a prefix of what was sent |
| Factories and AI adapter (`createNenFetch`, `createNenStream`, `packages/ai`) | one client; a factory also a handshake promise | the first call connects | both sides derive the same keys, a checked identity belongs to the server that answered, every caller gets an answer or an error of its own |
| Sealed envelopes (`nen-seal`), attestations (`middleware.ts`) | none; items lie in storage | seal/open, frames, fields, webhooks; issue/verify | opening inverts sealing, and what opens was sealed by whom and for whom it says |
| Cryptographic core (Rust, `core-crypto`) | none | KEM, key derivation, signatures, AEAD | taken as ideal; how its parts are combined is modelled |
| Wasm bridge (`src/pkg`) | wasm memory and cached views of it, stack pointer, slab of handles, wrappers | 21 functions, getters and setters, imports, finalizers | bytes arrive as they left, everything taken is given back unless an exception leaves the call, nothing twice |
| Demo site (`apps/www`) | React state, refs, localStorage, a Redis hash | AI demo, dashboard, upload demo, feedback widget, documentation sidebar | what a component shows belongs together |
| Static pages, menus, scaffolding tool, benchmarks, error texts | - | - | not modelled (see the end) |

The client calls the server by HTTP; `withNen` and the endpoints call the
active store; a store call that is awaited suspends the handler, and other
handlers run meanwhile. Calls of one client share its fields in the same way.
The hard behaviours are thus interleavings at awaits, state read before an
await and used after it, lost and repeated requests, store writes nobody waits
for, restarts and expiry. PROJECT.json lists them one by one under `hazards`,
at the line where each bites and with the properties that watch it.

## Modules

| Module | Models |
|---|---|
| `NenServer` | stores, `verifyRequest`, `withNen`, all lifecycle endpoints, requests that are delayed or repeated, expiry, restart |
| `Ratchet` | what rekey promises for the keys of each session, implemented by `NenServer` |
| `MCServer` | instances of `NenServer` for TLC |
| `NenServerProofs` | theorems about it, the refinement included |
| `Expiry`, `MCExpiry` | TTLs, the timestamp window, late copies and the sweep, with a clock |
| `ExpiryProofs` | theorems about it |
| `NenClient` | one `NenClient` with overlapping calls against a server, over a network that loses messages |
| `MCClient` | instances of it for TLC |
| `NenClientProofs` | theorems about it |
| `NenConnect`, `MCConnect` | the first calls of a wrapper: racing handshakes, the key schedule, the identity check |
| `NenConnectProofs` | theorems about it |
| `NenStream` | one encrypted stream: `withNenStream`, `nenStream` and the body between them |
| `PrefixStream` | what a stream promises, implemented by `NenStream` |
| `MCStream` | instances of `NenStream` for TLC |
| `NenStreamProofs` | theorems about it, the refinement included |
| `Seal`, `MCSeal` | envelopes, frames, webhooks, sealed fields, attestations, and the storage between sender and reader |
| `SealProofs` | theorems about it |
| `CryptoBridge`, `MCBridge` | the generated glue between JavaScript and the wasm core |
| `CryptoBridgeProofs` | theorems about it |
| `SecureAIDemo`, `InteractiveDemo`, `SealDemo`, `Feedback`, `DocsSidebar` | one component of the site each |
| `Site` | the five together: they share nothing, so a behaviour of it is one of one component |
| `MCSite` | an instance of it for TLC |
| `SiteProofs` | theorems about the five |

### NenServer

Keys are abstracted to their ratchet epoch. `sess[s]` is the epoch the store
holds for session `s` (`NoKeys` when it holds none), `ckey[s]` the epoch of the
client of `s`. A signature or ciphertext made at an epoch verifies exactly at
that epoch. `used[s]` is the set of tracked nonces. A request goes on `wire`
when it is signed and stays there, so it can be delivered late, repeatedly or
never; a nonce names one request.

A handler invocation `p` has a program counter `pc[p]` naming the await it is
suspended at:

    Receive ("get") GetSession ("hasNonce") HasNonce ("track") TrackNonce
       fetch: ("body") ReadBody ("handler") Handler
       rekey: ("store") StoreRekey ("ack") AnswerRekey

One action is one store call and the synchronous code after it, up to the next
await. `read[p]` is the session it fetched, which the code goes on using.
`status` and `terminate` do not await anything and are single actions;
`rotate` suspends once, to read the handshake's request, after it has deleted
the old session. A full handshake and a resume both end in one un-awaited
`storeSession` of a fresh id, so they are one action, `Handshake`.

`Backend` selects the store. With `"memory"` a store call takes effect at once
and `set` replaces the nonce set with the entry; with `"redis"` nonces live
under a key of their own, calls that are not awaited (`storeSession` in a
handshake, `deleteSession`, `sessionExists`) go to `writes` and are executed
later in any order, and any awaited call may reject (`StoreFault`), possibly
after it has been executed; a `SET` whose promise has rejected may also be executed
later, but not under `Serial` (below), where an application would have to wait for it
before the next key change. `Missing`, `Bodies` and `Strict` are what requests
may lack or carry and the wrapper's `strict` option.

With the in-memory store a handler's awaits only yield to the microtask queue:
two handlers interleave only when they are resumed in the same turn. The model
lets them interleave freely, so what holds in it holds in the code.
`server_status` therefore uses an asynchronous store, where the interleavings
are ordinary.

`Serial = TRUE` is an assumption about the environment: a session's rekey is
not overlapped with another rekey, a terminate or a rotate of that session
(fetches overlap freely, old copies of requests still arrive at any time), and a
rekey's write that was rejected is not executed after the answer. It
is what an application gets by awaiting `rekey()` before the next key change,
and what the runs and theorems about the ratchet need (see *Behaviours met while
modelling* for what happens without it).

`Ratchet` is what this comes to for one session: `stored` is the server's epoch
or `Gone`, `held` its client's, and `phase` the ratchet under way. The server
advances only by one, only from the client's epoch and only in a ratchet that
began when both sides had the same keys; the client follows each advance once
or misses it, and then no further ratchet begins. `NenServer` implements it
(`RatchetKept`) with `stored` mapped to `sess`, `held` to `ckey` and `phase` to
`RatchetPhase`, which reads the phase off the handlers: `"begun"` while one has
fetched the keys and not yet stored their ratchet, `"due"` while the answer is
on its way. `End` may leave the phase: an expiry does not stop a rekey past its
fetch, whose store then revives the session; a restart takes the handlers with it.
Nothing but such a store brings a session back.

### Expiry

`NenServer` has no clock: there a session expires at any step and nonce sets
outlive their session. `Expiry` puts the clock in and takes the interleaving
out: one session, requests that are verified one at a time, each step of a
verification a store call, between which time passes (in Redis; nothing is
awaited from outside with the in-memory store). A request may be delivered any
number of times from when it is signed. Time is counted in ticks, `Second` of
them to a second, because the Redis stores round TTLs down to seconds
(`Seconds`). `session.life` and `nonces.life` are the TTLs of the two Redis
keys; `overran` collects the requests during whose verification Redis dropped
one of them, the one case in which a copy is let through again.

### NenClient

The client's fields are variables of the same names (`encKey` and `macKey`
always change together and are one variable, `keys`). Keys are named by the
session, the psk they derive from and the ratchet epoch, so that keys derived
from different secrets differ. A call `c` of a method is split at its awaits:
`Call` is the code before the first, `Serve` the server's answer, and one
action for each continuation (`FetchRotates`, `FetchRetries`,
`HandshakeInstalls`, `RekeyAccepted`, ...). `NetworkFails` is a request or an
answer that never arrives; if it is the answer, `Serve` was taken before.

A fetch that gets a 401 takes the flag, handshakes, starts the request again
and releases the flag without waiting for the second answer. The turns between
the handshake's end and the caller's continuation (`"rotated"`,
`"unwinding"`) are states of their own, because other calls can be resumed in
them. The server is a single step here: its inner interleavings are
`NenServer`'s subject.

### NenConnect

The other modules take a handshake's result for granted; here it is worked out.
Key pairs are named after the handshake they are generated for and a key is the
record of what was put into its derivation (`Encapsulate`, `Decapsulate` with
its implicit rejection, `Dh`, `HybridCombine`, `Derive`), so that two keys are
equal when both sides fed the same secrets to the same labels. `Signed` and
`Trusted` are the two ends of the identity check, over the same transcript.
`Alter` replaces a part of an answer on its way (`Parts`: the session id, the key
exchange, what the identity check reads) by that of another answer, of one made
without a server for the client's public keys, or of one that cannot be used.
Several servers, with different identities, answer for one URL, as in a
deployment that is being changed.

`call[c]` is a call of the wrapper: it finds a session id (`CallConnected`),
handshakes (`CallHandshakes`) or waits for the promise of another
(`CallJoins`); `CallProceeds` is the code after its await, `CallThrows` a
rejection. A handshake that fails before line 101 leaves the client as it was
(`Throw`), one that fails after it leaves the new session id (`Reject`). The factories share `handshakePromise`, the AI adapter's
`ensureConnected` shares nothing (`Shares`). `hs[h]` goes through unused, sent,
answered or broken, done or failed.

### NenStream and PrefixStream

The server numbers the chunks of a response from zero and seals each under a
nonce made from its number (`xorNonce`: the base nonce with the number XORed
into its last 32 bits, so different numbers give different nonces); the client
counts what it opens. Nothing but the order of the bytes keeps the two counters
together. `out` is the body, one event for each chunk and one for the marker;
an event opens exactly under its keys and its number. The body reaches the
client in reads that may end inside an event: `received` counts half events,
so an odd number leaves the beginning of one in the client's buffer. `Advance`
is the code from one `yield` or `read` to the next: take a complete line, open
it, then yield it, end, or go back to reading. `Transform`, `Flush`,
`FlushFails` and `SourceFails` are the server's transform stream, which goes on
after the client has left (`releaseLock` does not cancel the body).

Keys are numbered as the client comes to have them. The server keeps those of
the session it verified the request with; the client uses those it has when it
opens a chunk, so `KeysChange` (another call of the client) can make the rest
of a stream unreadable. A stream that gets a 401 takes the rotation flag and
runs its retry inside the `try` (`yield*`), so that it holds the flag until the
retried stream is over; `holds` says that it does. `OtherRotates` and
`OtherReleases` are the client's other calls using the flag.

`PrefixStream` has three variables, what was put in, what was given out, and
whether it is over; `PrefixDelivered` is its specification with
`over <- (gen = "over")`.

### Seal

One behaviour has items of one kind. A sender makes them (`SealMedia` and
`SealFrame` for each turn of `sealFramed`'s loop, `SealSigned`, `SealFields`
and `SealField` for each path, `IssueAttestation`), `Alter` is storage that
loses, repeats, exchanges or mixes parts of items, and a reader opens or
verifies them (`OpenMedia`, `OpenFrame`, `OpenWebhook`, `OpenFields`,
`OpenFieldsAgain`, `VerifyAttestation`). A content key is the record of the
encapsulation, the secret key and the context, so it is equal on both sides
exactly when the code's derivation is. Fields work on a document of objects,
strings, Dates and an undefined value: `Json` is what `JSON.stringify` and
`JSON.parse` make of them and `Walk` what `openFields` does.

### CryptoBridge

wasm memory is a set of blocks under an allocator that may grow it; growing
replaces the buffer, which `buffer` numbers, and every cached view of an older
one is detached. `call` is the exported function under way, through passing its
arguments (`PassBytes`, `PassString`, `RefuseArg`), `Enter`, what Rust does
with imports (`CallImport`), `Return`, `ReturnErr` or `Trap`, taking the
result (`TakeBytes`, `TakeString`, `Wrap`, `TakeNumber`, `Throw`) and
`Finally`. `stack` counts the frames below the stack pointer: JavaScript's, for a
result, which `Finally` takes off, and Rust's, which only a call that returns does.
`EnterNull` and `FreeAgain` are the exceptions thrown through wasm
(`__wbindgen_throw`). What a call left by an exception does not give back is kept in
`lost` (frames), `leaked` (slots) and `abandoned` (blocks, and the struct of a method
that trapped, which stays borrowed). `heap` is the slab as the code has it, a free list linked in its own
slots. `ptr` and `registered` are a wrapper's pointer and what its finalizer
will free.

### The site's components

`SecureAIDemo` and `InteractiveDemo` are asynchronous plays suspended at their
delays; one action is the code from one delay to the next. `SealDemo` has the
two ways an image gets in, with the object URLs each closes over. `Feedback`
has tabs that share localStorage, the route that counts answers and the metrics
made from it. `DocsSidebar` has the links, the version switch and the search.
The actions have the handlers' names. `Site` declares the constants and the
variables of all five and says of the constants what the repository's files say:
every example answer is made of non-empty chunks, and the directories under
`app/docs` hold the pages of the sidebar, and a question has finitely many options.

## Runs

| Run | Expect | Checks | Instance |
|---|---|---|---|
| `server_memory` | pass | `TypeOK`, `AtMostOneAhead`, `TerminatedStaysDead`, `RatchetKept` | memory, serial key changes, 2 sessions, 3 nonces, 3 handlers |
| `server_redis` | pass | `ExecutedIsAuthentic`, `ResponseReadable`, `SequentialReplayRejected` | redis, overlapping key changes, not strict, all missing headers, the five kinds of body, 1 session, 2 nonces, 3 handlers |
| `server_status` | violation | `StatusTruthful` | redis |
| `ttl` | pass | `AcceptedOnce`, `TtlHonoured`, `NonceSetsEnd` | 2 requests, 10 ticks of half a second, TTLs below a second, around the window and above the default |
| `client_concurrent` | pass | `HandlerAtMostOnce`, `KeysBelongToSession`, `FlagHeldByRotation`, `CallsSettle` | 3 overlapping calls, 5 session ids, 1 fault, a clock in the window |
| `client_serial` | pass | `FetchTransparent`, `TicketMatchesPsk`, `KeysAgree` | 4 calls one after the other, 3 session ids, 2 faults, identity checks that fail, ticket key lost in a restart |
| `client_rotation` | violation | `RotatesAtMostOnce` | a skewed clock, no faults |
| `connect` | pass | `KeysAgree`, `OwnerServedHandshake`, `LostOnlyToSecondHandshake`, `CallsEnd` | 2 calls, 2 handshakes, 3 servers (no identity, a right one, a mismatched one), 2 failed exchanges or replaced parts, all options |
| `stream` | pass | `TypeOK`, `UnreadableOnlyAfterKeyChange`, `MarkedEndIsWhole`, `RequestedAtMostTwice`, `PrefixDelivered`, `FlagReleased` | 3 chunks, of which any may read like the marker, 2 key changes |
| `seal` | pass | `OpensAsSealed`, `FrameKeysUsedOnce`, `FieldsHidden`, `RoundTrip` | 2 readers, 2 signers, 2 items (1 document), payloads of 0 and 3 bytes in frames of 0 to 2, 9 paths of which up to 3 are sealed, 2 alterations (1 of an attestation) |
| `bridge` | pass | `BytesIntact`, `Balanced`, `SlabSound`, `OneOwner` | 5 blocks, 1 growth, 1 frame lost to an exception, 2 wrappers, 2 constants and 2 values on the slab |
| `site` | pass | `ShowsOneRun`, `PanelsMatchLog`, `ImagesAgree`, `AnsweredOnce`, `LinksLeadToPages` | 2 runs of the AI demo, 3 of the dashboard, 4 uploads, 2 tabs and 3 answers, every page of the documentation |

**Bounds.** Three nonces give a session a rekey, a second rekey and a fetch, or
one request with a copy next to another; three handlers give two copies of a
request and a key change that overlaps them. Epochs are bounded by the number
of nonces, since a ratchet takes a request. A second session is needed in
`server_memory` for `rotate`, which replaces one by another. `server_redis`
needs only one session: its properties relate a handler to its own session. In
the client runs, three overlapping calls are a handshake and two calls that
use its session; four calls one after the other are a handshake, a lost rekey
and a fetch that repairs it, with one more before or after; three ids allow the handshake and two rotations, and with five of them three
overlapping calls leave one unused; `MaxFaults` bounds expiries
and restarts. In the stream runs three chunks and the marker give a yield with
lines left over, a read in the middle of the body and a cut inside an event;
two key changes are a retry's rotation and another change on top of it, or the
second rotation that the flag prevents. In `connect` two handshakes are a race and
two calls put a waiter on each, or both on one promise or on what it leaves behind; two
faults replace two parts of one answer, or a part of each. In `ttl` two
requests are a rekey and a fetch around it, and the horizon lets every TTL end
and the window pass after it. Two items are what it takes to mix parts of two,
two alterations to do and partly undo something, three bytes in frames of two
give a last frame that is not full, three paths an object, its field and the
object again. Five blocks in `bridge` hold the four arguments of the longest function
and its result, or fewer of them next to wrappers and to what a broken call left; one
broken call is enough to upset those after it; one growth is enough to detach a view, and
with two constants and two values slots are reused in either order. In `site`
two runs overlap, and of three answers one is an answer given again and one
after a reset. Symmetry is used where there is no liveness property. Deadlock is
not checked: a run stops when all handlers or calls have been used.

**Fairness.** `CallsSettle`, `FlagReleased` and `CallsEnd` need it. `NenClient`'s `FairSpec`
assumes that each call's
next step is eventually taken if it stays possible: the network delivers the
request and the answer or reports a failure (`fetch` times out), and the event
loop resumes a call whose promise has settled. Nothing is assumed about
expiries and restarts except that `MaxFaults` bounds them. `CallsSettle` is claimed for a
clock in the server's window (`~Skewed`) only: with one that is off, a fetch rotates
without end (`client_rotation`). So that it is not the bound on session ids that ends a
loop, the property asks that a call settles while one is left: each rotation takes one. `NenStream`'s `FairSpec` assumes that the
handler's stream goes on to its end or fails, that requests and reads are
answered or fail, that the consumer asks for the next chunk or leaves (a `for
await` loop; a generator that is simply dropped keeps the flag for ever), and
that other calls let go of the flag. `NenConnect` assumes the same of exchanges
and of calls under way; nothing makes the application call. No fairness is assumed of a cut, of the
consumer leaving, or of key changes.

**What the violations show.** `server_status`: `handleStatus` tests a promise,
not its value. `client_rotation`: the retry inside `nenFetch` is returned, not
awaited, so the guard against loops is released too early. Each is set against
the document it contradicts under `findings` in PROJECT.json.

Each property of a passing run has a mutant, an operator named after the
definition it changes and commented "Mutated form of": with it in place of the
original TLC finds the property violated.

## Theorems

`NenServerProofs` proves, for every set of sessions, nonces and handlers:

| Theorem | States | Assumes |
|---|---|---|
| `TypeCorrect` | `[]TypeOK` | - |
| `ExecutionAuthentic` | `[]ExecutedIsAuthentic` | - |
| `ResponsesReadable` | `[]ResponseReadable` | - |
| `ReplaysRejected` | `SequentialReplayRejected` | `Backend = "redis"` |
| `ServerAtMostOneAhead` | `[]AtMostOneAhead` | `Serial` |
| `ServerKeysNeverRollBack` | `KeysNeverRollBack` | `Serial` |
| `ServerKeepsRatchet` | `RatchetKept`: `NenServer` implements `Ratchet` | `Serial` |
| `TerminateIsFinal` | `[]TerminatedStaysDead` | `Serial`, `Backend = "memory"` |

The arguments, in the order they build on each other:

- `AuthenticInv`: from the fetch to the last await, a handler's request is
  verified against `read[p]`, the very session it goes on with, and each
  handler runs the steps of its own kind. `ExecutedIsAuthentic` is the part of
  it about executing handlers; `ResponseReadable` is inductive only with it,
  since the answer uses `read[p]`.
- `TrackedInv`: an accepted request's nonce is in `used`. It is not inductive
  for the in-memory store, where a rekey replaces the nonce set; hence the
  assumption of `ReplaysRejected`.
- `RekeyInv`: `AtMostOneAhead` alone says nothing about a rekey that has
  fetched the keys and will store their ratchet later. `RekeyPhases` adds where
  each rekey stands: at most one of a session is in flight, the store is at the
  client's epoch until it has stored and one ahead until the client has
  ratcheted, and an unacknowledged rekey excludes another that could still
  store. `FreshSids`, `SignedInPast` and `PendingHandshake` exclude the other
  ways keys could change: an id handed out twice, a request signed with keys
  from the future, a late handshake write over a session already in use.
- The refinement rests on the same invariant. Each handler has a stage (`Stage`);
  by `RekeyPhases` at most one of a session is not at `"none"`, so the session's
  phase is that handler's (`PhaseIsStage`). Each step of the server then moves
  each session by one step of `Ratchet` or by none (`StepMoves`, `NextMoves`).
  `KeysNeverRollBack` is a weaker statement, proved on its own and not run.
- `TerminatedInv`: no write and no rekey that has fetched the session is on its
  way to a terminated session.

`NenStreamProofs` proves, for any set of chunks (with or without the marker's
text), any number of them and any number of key changes:

| Theorem | States |
|---|---|
| `StreamTypeCorrect` | `[]TypeOK` |
| `ReadableUnlessKeysChange` | `[]UnreadableOnlyAfterKeyChange` |
| `MarkerEndsWholeStream` | `[]MarkedEndIsWhole` |
| `TwoRequests` | `[]RequestedAtMostTwice` |
| `DeliversPrefix` | `PrefixDelivered`: `NenStream` implements `PrefixStream` |

The invariant is `StreamInv`. `BodyInv` says what the body is (event `i` seals
chunk `i` under the number `i - 1`, and nothing follows the marker) and
`ReaderInv` where the reader stands in it (the client's counter is the number of
lines taken, one less while it is suspended at a `yield`). None of the safety
properties is inductive without both: that the next line carries the number the
client expects follows only from the two together (`AdvanceOutcomes`). `EndInv`
adds that keys only go forward, without which a stream that ended on older keys
could be contradicted later. The refinement maps each step to a step of the
promise or to none (`StepPromise`). `TwoRequests` rests on `RequestInv`: a
stream that waits for a rotation, or retries after it, holds the flag.

`ExpiryProofs` proves, for any number of requests, any TTLs, windows and clock
skews:

| Theorem | States |
|---|---|
| `RequestsAcceptedOnce` | `[]AcceptedOnce` |
| `SessionsHonourTtl` | `[]TtlHonoured` |
| `NoncesOutliveSession` | `[]NonceSetsEnd` |

`ExpiryInv` says when the entry of the session was stored and until when it
lives (`EntryInv`, `FoundInv`). `KeptInv` is what makes acceptance unique: while
the session lives whose keys a request was signed with, a request let through is
in the nonce set and the set outlives the session, because it gets its whole TTL
after the session got its own. `CheckInv` is the same for the request being
verified, which is past the replay check but not yet in the set; it has the
exception `overran` stands for. `MemoryInv` and `EndsInv` are the in-memory
store's side, where session and nonces are one entry.

`NenClientProofs` proves, for any number of calls and session ids, any choice of
methods and any number of restarts and expiries:

| Theorem | States | Assumes |
|---|---|---|
| `TypeCorrect` | `[](TypeOK /\ LegInv)` | - |
| `HandlerRunsAtMostOnce` | `[]HandlerAtMostOnce` | - |
| `FlagFollowsRotation` | `[]FlagHeldByRotation` | - |
| `KeysFollowSession` | `[]KeysBelongToSession` | `IdentityFails = FALSE` |
| `SequentialFetchTransparent` | `[]FetchTransparent` | `Serial` |
| `SequentialTicketMatchesPsk` | `[]TicketMatchesPsk` | `Serial` |
| `SequentialKeysAgree` | `[]KeysAgree` | `Serial` |

`LegInv` says what each suspended call waits for; without it nothing links an
answer that arrives to the request it answers. `HandlerInv` says that once the
handler has run for a call, the call is over or its answer, which is no 401, is on
the way: only a 401 is sent again. `FlagInv` has every way a rotation can be under way, the turns in which other calls run between
the end of its handshake and its own continuation included. `SerialInv` and
`AgreeInv` are for an application that awaits each call before the next (`Serial`,
as in `client_serial`): nothing changes under a request in flight, and the two
sides' keys are equal or the server's are one ratchet ahead after a rekey's answer
was lost. `IdentityFails = FALSE` is needed because a handshake whose identity check
fails leaves the new session id with the old keys (see below); the condition holds
in `identityMode: "none"` and whenever the servers are the owner's.

`NenConnectProofs` proves, for any number of calls, handshakes and servers, any
identities and any pinned keys:

| Theorem | States |
|---|---|
| `ClientKeysAgree` | `[]KeysAgree` |
| `OwnerServed` | `[]OwnerServedHandshake` |
| `LostToSecondHandshake` | `[]LostOnlyToSecondHandshake` |

The key schedule comes in by one lemma: what a client derives from an answer to
its own request is what the server derived exactly if the key exchange arrived as the
server sent it (`ExchangeShared`, where `Decapsulate`'s implicit rejection and both
orders of the hybrid combination meet). `AnswerOK` is what every answer satisfies,
whatever parts it is put together from (`MixedAnswer`): a signature in it was made by
the server of some handshake over that handshake's own transcript. One that verifies is
therefore of this handshake and its session id (`SignedByServer`). `HandshakeInv` says
so of all answers and that every one that is accepted passed the check, `ClientInv` that
the client's keys are those of one such handshake, `CallInv` that those a call was made
with were too, and `PromiseInv` that a wrapper that shares its promise starts no second
handshake.

`SealProofs` proves, for any readers, signers, items and alterations and payloads
and frames of any size:

| Theorem | States | Assumes |
|---|---|---|
| `OpensOnlyAsSealed` | `[]OpensAsSealed` | - |
| `FrameKeysNeverReused` | `[]FrameKeysUsedOnce` | - |
| `OpeningInvertsSealing` | `[]RoundTrip` | - |
| `FieldsStayHidden` | `[]FieldsHidden` | `TextsDiffer` |

Storage can lose, repeat and mix parts, but every part it holds was made by a
sender: `SignedInv` and `AttestedInv` derive from that what a signature that
verifies was made over. A frame's key names its envelope and its
position, so a reader who has opened `n` frames has opened the first
`n` of one item (`OpeningInv`), and a finished sender has cut the whole payload
(`Cut`, `SealingInv`). For documents, `DocumentInv` says that a path once sealed
holds an envelope or lies in an object that does (`Covered`), through every later
path of `sealFields`. `MovedInv` is about documents that were altered: each sealed field,
wherever it lies, is one that was sealed at the path its envelope names (`SealedAt`) and
opens as it would have there, since the walk of `openFields` looks at nothing but the
field. `FieldsHidden` looks for a sealed path's text anywhere in the
document; two fields with equal texts, of which one is sealed, leave the text where
it was not to be sealed, so `TextsDiffer` lets each text occur once, as in the
document of the run. `DocumentAssumption` bounds documents to two levels, enough
for a path, its object and the order of the two; field names are strings, and the
fields of an object are a function.

`RoundTrip` is the hardest for documents. A path given twice, or an object's path after
that of a field in it, seals what is sealed already, so a value may lie in any number of
envelopes, and each `openFields` takes one off. To prove this without an induction over
the layers, `Layers` names a set that holds a value, the value inside its envelope, and
so on down to the original: each member is either the original or an envelope around
another member. Sealing adds a member and opening moves to one, and since the numbers of
the envelopes fall from the inside out, none is around itself. `DocumentForm` says for
each field of a document whether it is as it was, an object some fields of which are
sealed, or in envelopes; `LayerInv` says it of the documents in storage, the one being
sealed (of the paths passed so far, `ReachedNext`) and the one being opened
(`DocumentRead`). `Reached` are the paths that were sealed at the end: not those of
fields in an object that was sealed before. When no envelope is left, `AllRestored`
gives back every field, the sealed ones as JSON restores them; an opening that throws
was of a document with a sealed field that held `undefined` (`Lost`).

`CryptoBridgeProofs` proves, for any number of wrappers, blocks, handles and
reserved slots and any growth of the memory:

| Theorem | States |
|---|---|
| `BytesReachRust` | `[]BytesIntact` |
| `CallsBalance` | `[]Balanced` |
| `SlabStaysSound` | `[]SlabSound` |
| `StructsHaveOneOwner` | `[]OneOwner` |

None of the four is inductive: that a slot taken from the list is free needs the
list to be one, and that a block freed in `Finally` is not a wrapper's needs to
know whose each block is; and the stack is short of exactly the frames lost only if every
other exit of a call is known to give back what the call had taken (`ShapeOK`). `Linked` states the list without following it: the `next`
fields and `heapNext` are the free slots and the end, each once, which
`addHeapObject` and `dropObject` keep (`AddLinked`, `DropLinked`); `BlockInv` gives
every used block to a wrapper, an argument, the result or what broken calls abandoned
(`AbandonedInv`), and those that are not abandoned to one of them.
`PassedInv` and `ResultInv` say what is in those blocks from when they are taken
until they are freed.

`SiteProofs` proves, for any answer, any payloads, files, tabs, pages of the site and
queries, and any number of runs, uploads and answers:

| Theorem | States |
|---|---|
| `CardShowsOneRun` | `[]ShowsOneRun` |
| `DashboardPanelsMatchLog` | `[]PanelsMatchLog` |
| `UploadImagesAgree` | `[]ImagesAgree` |
| `SidebarLeadsToPages` | `[]LinksLeadToPages` |
| `WidgetAnsweredOnce` | `[]AnsweredOnce` |

`CardInv` is what makes the first inductive: every run but the last is over, and the
last waits at a delay with exactly the phase, traffic and tokens on the card that it
left there (`Shows`, `WaitsWith`), until a second run crosses it; a card that was
reset holds nothing but what a run still in its first delays adds (`LeftInv`).
`DashboardInv` says the same of a play, which shows its last part and the level and
payload it was started with. `UploadInv` has two parts, since the URLs are sound even
when calls overlap (`UrlInv`) while what is shown agrees only when none do
(`AloneInv`). `WidgetInv` follows each first answer to the other tabs: its question is
stored, and its own tab no longer shows it (`AskedInv`). `CountInv` says that what the
metrics count and what is still on its way to them is at most what was given. The
metrics are sums over the stored hash, computed by a fold, and a fact about a sum over a
finite set is proved without induction: the sums exist as a function on the subsets,
since of the sizes at which they do not there is a least (`SumsExist`), and a sum in
which one entry grew by one has grown by one whatever order the entries are taken in,
since of the subsets that disagree there is one that contains no other (`SumSplits`,
`CountedOnce`). `OptionsAssumption` makes the options of a question finite; there are
four. `SidebarInv` bounds the
marked search result by the results there are and keeps pages without a version out of
`v2`. The answers of the demos have any length: no theorem expands `Response`.

TLC checked each inductive invariant on the instance of its run before it was proved
(those of media and signed items only to a depth of 13 steps; `LayerInv`, which
quantifies over all sets, through the `RoundTrip` it proves). Nothing is assumed of fairness or bounds; the constants' assumptions give
their types, and in `Seal`, `Expiry` and `Site` what is said above.

Model-checked only: liveness (`CallsSettle`, `FlagReleased`, `CallsEnd`), which is out
of the prover's reach.

## Behaviours met while modelling

What the code does at edges the properties had to step around. Each is stated in
the model, by the guard or the exception in the property that names it.

*Server and client*
- With an asynchronous store two overlapping copies of a request both pass the
  replay check, which is a check and an act with an await in between
  (`middleware.ts:376`); `SequentialReplayRejected` is what does hold.
- Two overlapping rekeys are verified against the same epoch; the server ends
  one epoch on, the client two (`middleware.ts:216`). A session terminated while a rekey
  of it is under way is stored again (`:218`), and a rekey that was answered with an error
  because its `SET` was rejected may take effect later. Hence `Serial`.
- The identity check is made over the client's public keys, the server's nonce and the
  session id (`middleware.ts:103`, `nen-client/src/index.ts:131`). The signature does not
  cover `ct` and `pk_x_server`, so a verified answer says who served the handshake and
  not, by itself, with whom the keys are shared; `OwnerServedHandshake` says what it does
  give. `PROTOCOL.md:243-244` ("authenticates the *server* and closes
  MITM-on-first-contact") and `THREAT_MODEL.md:38` claim more.
- A handshake that finishes while a `resume` waits replaces the psk from which the resumed
  keys are then derived, while the server has that of the ticket
  (`nen-client/src/index.ts:189`); `TicketMatchesPsk` and `KeysAgree` of `NenClient` are
  about calls that do not overlap. The same goes for a rekey's answer that ratchets keys
  another call has replaced (`:476`), for an answer that is opened with keys another call
  has changed (`:275`), and for a 401 that arrives while another fetch rotates (`:250`).
- A session whose TTL is shorter than the timestamp window may end between
  `getSession` and `hasNonce`, and a copy of the request is let through once
  more when a rekey stores it again; an `EXPIRE` that finds no set leaves the
  nonce without one (`Expiry`'s `overran`).
- The sweep measures by the default TTL and takes sessions of a store with a
  longer one early (`store.ts:141`).
- `terminate` keeps the psk and the ticket, so `resume` starts a session after
  it (`nen-client/src/index.ts:410`).
- A body that ends without the marker ends the generator as if it were whole
  (`nen-client/src/index.ts:364`).
- A failed first handshake of a factory fails every later call too, since its
  promise is never cleared (`nen-client/src/index.ts:516`); if it failed in the
  identity check, the session id is set and later calls throw for want of keys
  (`:101`).
- Two first calls through the AI adapter handshake twice, and the first to be
  answered may find its answer unreadable (`ai/src/client.ts:20`).

*Sealing*
- `sealFramed` with `frameSize: 0` never ends.
- `size` is under no key, although it is there "so truncation/extension is detectable"
  (`nen-seal/src/index.ts:206`): an envelope that lost its last frames and says the size
  that is left opens to a prefix, and one that lost its only frame and says size 0 opens
  for anyone, as nothing is left to check.
- A sealed field that was moved to another place of its document opens there, as
  `openFields` derives the key from the context in the field's own envelope
  (`fields.ts:79-81`); `fields.ts:10-11` says that it cannot. `DocumentAsSealed` says what
  does hold: it opens as the value of the path it was sealed at.
- `openFields` turns unsealed Dates and other objects without enumerable
  properties into `{}`, and throws for a field that held `undefined` and was sealed on
  its own (in an object sealed as a whole, JSON drops it). A path inside a sealed
  path is skipped or sealed depending on their order, and takes one more
  `openFields` to open.
- An attestation is verified over `JSON.stringify`: one whose fields a database
  has put in another order no longer verifies.

*Bridge*
- An argument that is refused after others were passed, a trap and an exception thrown
  through wasm leave the blocks of that call allocated (`abandoned`).
- After a trap or such an exception the `finally` gives back JavaScript's stack frame
  only: Rust's stays taken (`lost`), and so do the slots it held (`leaked`) and, if a
  method trapped, the borrow of its struct, which `free()` then cannot take back.

*Site*
- The AI demo's reset followed by Send, while the first run is still in its
  delay, lets both runs write to one answer (`crossed`).
- A sample that arrives while a file is sealed revokes the wrong URLs, which are
  never revoked then (`overlapped`); a failed one shows nothing.
- A tab that keeps showing a question another tab has answered posts every click
  on it again.
- The documentation's search results always lead to the latest version.

## What is left out

- *Interleavings together with time.* `NenServer` interleaves handlers without a
  clock, `Expiry` has a clock and one verification at a time.
- *Late effects of a rejected `SADD`.* A rejected call of a store has its effect at once,
  never or, for `SET`, later; a `SADD` that is executed after its rejection only makes
  the replay check refuse more.
- *Sealed fields moved between documents or levels.* An alteration exchanges two sealed
  fields of one document and keeps its two levels.
- *The primitives* of `packages/core-crypto` are ideal: what was made under a key
  verifies under exactly that key.
- *Wire formats, error texts, HTTP details* are left out, except for which code
  a request is refused with.
- An application handler that itself throws a `NenError` of status 401 is not
  modelled: the client would take it for an expired session.
- *Text decoding in streams.* A chunk is opened to the text the handler gave; a
  handler that cuts a multi-byte character in two gives the client two chunks
  with replacement characters. A stream started before any handshake fails at
  once (`SESSION_NOT_INITIALIZED`) and is not modelled.
- *Streams of 2^32 chunks*, where the chunk index wraps in the nonce.
- *Static pages, menus and animations*, the notes table and the scaffolding tool
  hold no state that two things change; the *benchmarks* time the library from
  outside.

## Plan

1. Action properties beside the state invariants, stated and proved where the order of
   steps matters more than what a state shows: what a rotation may never undo in
   `NenClient`, and that an opened frame is never taken back in `Seal`.
2. What a client sees of the server's promise: the sessions of `NenClient` as a
   refinement of `Ratchet`, as those of `NenServer` are.
