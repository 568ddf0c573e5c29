------------------------------ MODULE NenServer ------------------------------
(***************************************************************************)
(* The server half of NEN-PROTOCOL-V3 (packages/nen-server): the session   *)
(* store, verifyRequest, the withNen wrapper and the rekey, rotate,        *)
(* terminate, status and handshake handlers, at the grain of their awaits. *)
(* JavaScript runs one handler at a time between two awaits, and every     *)
(* store call of verifyRequest and handleRekey is awaited, so each step    *)
(* below is one store operation with the synchronous code that follows it. *)
(* Handlers of different requests interleave between these steps.          *)
(*                                                                         *)
(* Keys are abstracted to their ratchet epoch: a session's enc and mac     *)
(* keys are both at epoch e after e ratchets, keys of different sessions   *)
(* are never compared, and a signature or ciphertext made at epoch e       *)
(* verifies exactly at epoch e.  A nonce identifies the request it was     *)
(* generated for; copies of a request carry the same nonce.                *)
(***************************************************************************)
EXTENDS Integers, FiniteSets

CONSTANTS
  Sids,      \* session ids that crypto.randomUUID may produce
  Nonces,    \* nonces that clients generate, one for each request they send
  Procs,     \* handler invocations, each serves one request
  Backend,   \* "memory": InMemorySessionStore; "redis": Redis or Upstash
  Strict,    \* the strict option of withNen
  Missing,   \* what a request may lack: "nothing", or one of its headers
  Bodies,    \* request bodies: none, the sealed payload, one that is not JSON
             \* or has no ct, one whose ct is not base64, a sealed text not JSON
  Serial     \* TRUE: the environment never overlaps two key-changing calls,
             \* and no rejected write of one takes effect after its answer

ASSUME BackendAssumption == Backend \in {"memory", "redis"}
ASSUME StrictAssumption == Strict \in BOOLEAN
ASSUME SerialAssumption == Serial \in BOOLEAN
ASSUME MissingAssumption ==
         Missing \subseteq {"nothing", "session", "nonce", "signature"}
ASSUME BodiesAssumption ==
         Bodies \subseteq {"none", "ct", "garbled", "unencoded", "text"}

VARIABLES
  sess,        \* sess[s]: key epoch stored for s, or NoKeys
  used,        \* used[s]: nonces tracked for s
  issued,      \* session ids handed out so far
  writes,      \* store writes issued and not awaited, still on their way
  terminated,  \* sessions for which terminate or rotate was called
  wire,        \* requests clients have signed and sent; copies may arrive
  ckey,        \* ckey[s]: key epoch of the client that holds s
  pc,          \* pc[p]: the await handler p is suspended at
  req,         \* req[p]: the request p serves
  read,        \* read[p]: the session verifyRequest fetched for p
  reply        \* reply[p]: the outcome p answered with

store == <<sess, used, writes>>
procs == <<pc, req, read, reply>>
vars == <<sess, used, issued, writes, terminated, wire, ckey,
          pc, req, read, reply>>

NoKeys == -1
Keys == Nat \cup {NoKeys}

Request ==
  [kind : {"fetch", "rekey", "rotate", "status"}, sid : Sids,
   nonce : Nonces, epoch : Nat, missing : Missing, body : Bodies]

NoRequest == [kind |-> "none"]

Codes ==
  {"none", "ok", "valid", "invalid", "ISO-2002", "ISO-2003", "ISO-3001",
   "ISO-3002", "ISO-3003", "ISO-3005", "ISO-4001", "ISO-4003", "ISO-5001", "ISO-6001",
   "ISO-9000", "ISO-1002"}

Write == [sid : Sids, keys : Keys]

\* Where a handler can be suspended.
Waiting ==
  {"get", "hasNonce", "track", "body", "handler", "store", "ack", "handshake"}
PcValues == Waiting \cup {"idle", "done", "over"}

-----------------------------------------------------------------------------
(***************************************************************************)
(* The two kinds of store.                                                 *)
(***************************************************************************)

Live(s) == sess[s] # NoKeys

Async == Backend = "redis"

\* Mutated form of NoncesAfterWrite: every write forgets the nonces.
NoncesForgotten(s) == {}

\* The nonces known for s once keys k are stored for it, or s is deleted.
\* InMemorySessionStore keeps them inside the entry, which set() replaces
\* and delete() drops; the Redis stores keep them under a key of their own.
NoncesAfterWrite(s) == IF Async THEN used[s] ELSE {}

\* The effect of storing keys k for s; k = NoKeys deletes s.
Stored(s, k) ==
  /\ sess' = [sess EXCEPT ![s] = k]
  /\ used' = [used EXCEPT ![s] = NoncesAfterWrite(s)]

\* A write whose promise is not awaited: done at once by the in-memory store,
\* left on its way by an asynchronous one.
StoreNoAwait(s, k) ==
  IF Async
    THEN /\ writes' = writes \cup {[sid |-> s, keys |-> k]}
         /\ UNCHANGED <<sess, used>>
    ELSE Stored(s, k) /\ UNCHANGED writes

\* Mutated form of NoncesAfterTrack: the arguments of trackNonce swapped.
NoncesAfterTrackSwapped(s, n) ==
  IF Async \/ Live(s) THEN used[s] \cup {s} ELSE used[s]

\* trackNonce: the in-memory store has nowhere to put it when s is gone.
NoncesAfterTrack(s, n) ==
  IF Async \/ Live(s) THEN used[s] \cup {n} ELSE used[s]

-----------------------------------------------------------------------------
Init ==
  /\ sess = [s \in Sids |-> NoKeys]
  /\ used = [s \in Sids |-> {}]
  /\ issued = {}
  /\ writes = {}
  /\ terminated = {}
  /\ wire = {}
  /\ ckey = [s \in Sids |-> 0]
  /\ pc = [p \in Procs |-> "idle"]
  /\ req = [p \in Procs |-> NoRequest]
  /\ read = [p \in Procs |-> NoKeys]
  /\ reply = [p \in Procs |-> [code |-> "none", key |-> NoKeys]]

\* Handler p suspends at await l.
Goto(p, l) == pc' = [pc EXCEPT ![p] = l]

\* Handler p answers with code c, its payload encrypted at epoch k.
Answer(p, c, k) ==
  /\ pc' = [pc EXCEPT ![p] = "done"]
  /\ reply' = [reply EXCEPT ![p] = [code |-> c, key |-> k]]

Refuse(p, c) == Answer(p, c, NoKeys)

\* A rekey of s that has been received and not yet finished.
Rekeying(s) ==
  \E q \in Procs : /\ pc[q] \in Waiting
                   /\ req[q].kind = "rekey"
                   /\ req[q].sid = s

-----------------------------------------------------------------------------
(***************************************************************************)
(* Clients and transport.                                                  *)
(***************************************************************************)

\* A client that holds session s signs a request with its current keys under
\* a nonce of its own and sends it.  The request stays on the wire: it may be
\* delivered late, more than once, or never.
Send(r) ==
  /\ r.sid \in issued
  /\ r.epoch = ckey[r.sid]
  /\ \A m \in wire : m.nonce # r.nonce
  /\ wire' = wire \cup {r}
  /\ UNCHANGED <<sess, used, issued, writes, terminated, ckey, procs>>

\* The answer to an accepted rekey reaches its client, which ratchets its own
\* keys.  An answer that never arrives is one this step is never taken for.
ClientRatchet(p) ==
  /\ pc[p] = "done"
  /\ req[p].kind = "rekey"
  /\ reply[p].code = "ok"
  /\ ckey' = [ckey EXCEPT ![req[p].sid] = @ + 1]
  /\ pc' = [pc EXCEPT ![p] = "over"]
  /\ UNCHANGED <<store, issued, terminated, wire, req, read, reply>>

-----------------------------------------------------------------------------
(***************************************************************************)
(* Handlers.                                                               *)
(***************************************************************************)

\* Mutated form of Handshake: the client proposes the id of its session.
HandshakeReusingId(s) ==
  /\ issued' = issued \cup {s}
  /\ StoreNoAwait(s, 0)
  /\ UNCHANGED <<terminated, wire, ckey, procs>>

\* A full handshake stores a fresh session at epoch 0 and answers with its
\* id; the promise of the store write is not awaited.
Handshake(s) ==
  /\ s \notin issued
  /\ issued' = issued \cup {s}
  /\ StoreNoAwait(s, 0)
  /\ UNCHANGED <<terminated, wire, ckey, procs>>

\* handleTerminate deletes the session without awaiting and answers 200.
Terminate(s) ==
  /\ s \in issued
  /\ Serial => ~Rekeying(s)
  /\ terminated' = terminated \cup {s}
  /\ StoreNoAwait(s, NoKeys)
  /\ UNCHANGED <<issued, wire, ckey, procs>>

\* handleStatus does not await sessionExists: with an asynchronous store the
\* promise it tests is always truthy.
Status(p, r) ==
  /\ r.kind = "status"
  /\ Answer(p, IF r.missing # "session" /\ (Async \/ Live(r.sid))
                 THEN "valid" ELSE "invalid", NoKeys)
  /\ UNCHANGED <<store, terminated>>

\* Mutated form of Rotate: the old session is left to its TTL.
RotateKeepingOld(p, r) ==
  /\ r.kind = "rotate"
  /\ Serial => ~Rekeying(r.sid)
  /\ terminated' = IF r.missing = "session" THEN terminated
                   ELSE terminated \cup {r.sid}
  /\ Goto(p, "handshake")
  /\ UNCHANGED <<store, reply>>

\* handleRotate deletes the old session, not awaiting that, before the
\* handshake has read its request.
Rotate(p, r) ==
  /\ r.kind = "rotate"
  /\ Serial => ~Rekeying(r.sid)
  /\ IF r.missing = "session"
       THEN UNCHANGED <<store, terminated>>
       ELSE /\ StoreNoAwait(r.sid, NoKeys)
            /\ terminated' = terminated \cup {r.sid}
  /\ Goto(p, "handshake")
  /\ UNCHANGED reply

\* withNen and handleRekey, up to the await of getSession.
Authenticated(p, r) ==
  /\ r.kind \in {"fetch", "rekey"}
  /\ Serial /\ r.kind = "rekey" => ~Rekeying(r.sid)
  /\ IF r.missing = "session"
       THEN Refuse(p, "ISO-2003")
       ELSE Goto(p, "get") /\ UNCHANGED reply
  /\ UNCHANGED <<store, terminated>>

\* A copy of a request reaches the server and a handler starts on it.
Receive(p, r) ==
  /\ pc[p] = "idle"
  /\ req' = [req EXCEPT ![p] = r]
  /\ Status(p, r) \/ Rotate(p, r) \/ Authenticated(p, r)
  /\ UNCHANGED <<issued, wire, ckey, read>>

\* Mutated form of SignatureRequired: the strict option governs rekey too.
SignatureRequiredIfStrict(r) == Strict

\* The signature is mandatory: withNen passes its strict option on, and
\* handleRekey leaves the default, TRUE.
SignatureRequired(r) == Strict \/ r.kind = "rekey"

\* Mutated form of Checked: a signature is demanded and never compared.
CheckedPresenceOnly(r, k, inWindow) ==
  CASE k = NoKeys -> "ISO-2002"
    [] k # NoKeys /\ r.missing = "nonce" -> "ISO-3005"
    [] k # NoKeys /\ r.missing = "signature" ->
         IF SignatureRequired(r) THEN "ISO-3001" ELSE "ok"
    [] k # NoKeys /\ r.missing \notin {"nonce", "signature"} ->
         IF ~inWindow THEN "ISO-3003" ELSE "ok"

\* verifyRequest, the checks between the first and the second await, against
\* the keys k fetched and with inWindow telling whether the timestamp is
\* within 30 seconds of the server's clock.  "ok" lets the request go on.
Checked(r, k, inWindow) ==
  CASE k = NoKeys -> "ISO-2002"
    [] k # NoKeys /\ r.missing = "nonce" -> "ISO-3005"
    [] k # NoKeys /\ r.missing = "signature" ->
         IF SignatureRequired(r) THEN "ISO-3001" ELSE "ok"
    [] k # NoKeys /\ r.missing \notin {"nonce", "signature"} ->
         IF r.epoch # k THEN "ISO-3002"
         ELSE IF ~inWindow THEN "ISO-3003" ELSE "ok"

GetSession(p) ==
  /\ pc[p] = "get"
  /\ \E inWindow \in BOOLEAN :
       LET c == Checked(req[p], sess[req[p].sid], inWindow)
       IN  IF c = "ok"
             THEN /\ Goto(p, "hasNonce")
                  /\ read' = [read EXCEPT ![p] = sess[req[p].sid]]
                  /\ UNCHANGED reply
             ELSE Refuse(p, c) /\ UNCHANGED read
  /\ UNCHANGED <<store, issued, terminated, wire, ckey, req>>

HasNonce(p) ==
  /\ pc[p] = "hasNonce"
  /\ IF req[p].nonce \in used[req[p].sid]
       THEN Refuse(p, "ISO-5001")
       ELSE Goto(p, "track") /\ UNCHANGED reply
  /\ UNCHANGED <<store, issued, terminated, wire, ckey, req, read>>

\* trackNonce, after which handleRekey ratchets and issues its write, and withNen
\* awaits the body, unless the method (GET, HEAD) has none.
TrackNonce(p) ==
  LET r == req[p]
  IN  /\ pc[p] = "track"
      /\ used' = [used EXCEPT ![r.sid] = NoncesAfterTrack(r.sid, r.nonce)]
      /\ \/ r.kind = "rekey" /\ Goto(p, "store")
         \/ r.kind # "rekey" /\ Goto(p, "body")
         \/ r.kind # "rekey" /\ r.body = "none" /\ Goto(p, "handler")
      /\ UNCHANGED <<sess, writes, issued, terminated, wire, ckey, req, read, reply>>

\* What withNen answers for the body of r when the session's keys are k.
BodyChecked(r, k) ==
  CASE r.body = "none" -> "ok"
    [] r.body = "garbled" -> "ISO-6001"
    [] r.body = "unencoded" -> "ISO-9000"
    [] r.body = "ct" -> IF r.epoch = k THEN "ok" ELSE "ISO-4001"
    [] r.body = "text" -> IF r.epoch = k THEN "ISO-4003" ELSE "ISO-4001"

\* The body has arrived, and the application's handler starts if it opens; or
\* req.text() rejects.
ReadBody(p) ==
  LET b == BodyChecked(req[p], read[p])
  IN  /\ pc[p] = "body"
      /\ \/ b = "ok" /\ Goto(p, "handler") /\ UNCHANGED reply
         \/ b # "ok" /\ Refuse(p, b)
         \/ Refuse(p, "ISO-9000")
      /\ UNCHANGED <<store, issued, terminated, wire, ckey, req, read>>

\* Mutated form of Handler: the response is encrypted through encryptPayload,
\* which fetches the session again.
HandlerFetchingAgain(p) ==
  /\ pc[p] = "handler"
  /\ \/ Live(req[p].sid) /\ Answer(p, "ok", sess[req[p].sid])
     \/ Refuse(p, "ISO-9000")
  /\ UNCHANGED <<store, issued, terminated, wire, ckey, req, read>>

\* The application's handler returns, and its result is encrypted with the
\* session fetched at the start, or it throws.
Handler(p) ==
  /\ pc[p] = "handler"
  /\ Answer(p, "ok", read[p]) \/ Refuse(p, "ISO-9000")
  /\ UNCHANGED <<store, issued, terminated, wire, ckey, req, read>>

\* handleRekey stores the keys it read, ratcheted once, and awaits the write.
StoreRekey(p) ==
  /\ pc[p] = "store"
  /\ Stored(req[p].sid, read[p] + 1)
  /\ Goto(p, "ack")
  /\ UNCHANGED <<writes, issued, terminated, wire, ckey, req, read, reply>>

AnswerRekey(p) ==
  /\ pc[p] = "ack"
  /\ Answer(p, "ok", NoKeys)
  /\ UNCHANGED <<store, issued, terminated, wire, ckey, req, read>>

\* A call of an asynchronous store rejects, and the catch of the handler
\* answers ISO-9000.  SADD or SET may have been executed all the same, and the
\* SET may yet be; SADD certainly has when it is the EXPIRE after it that fails.
StoreFault(p) ==
  LET r == req[p]
  IN  /\ Async
      /\ \/ /\ pc[p] \in {"get", "hasNonce", "track", "store", "ack"}
            /\ UNCHANGED <<used, writes>>
         \/ /\ pc[p] = "track"
            /\ used' = [used EXCEPT ![r.sid] = @ \cup {r.nonce}]
            /\ UNCHANGED writes
         \/ /\ pc[p] = "store" /\ ~Serial
            /\ writes' = writes \cup {[sid |-> r.sid, keys |-> read[p] + 1]}
            /\ UNCHANGED used
      /\ Refuse(p, "ISO-9000")
      /\ UNCHANGED <<sess, issued, terminated, wire, ckey, req, read>>

\* The second half of handleRotate: a handshake, which may be refused.
RotateHandshake(p) ==
  /\ pc[p] = "handshake"
  /\ \/ \E s \in Sids \ issued : /\ issued' = issued \cup {s}
                                 /\ StoreNoAwait(s, 0)
                                 /\ Answer(p, "ok", NoKeys)
     \/ Refuse(p, "ISO-1002") /\ UNCHANGED <<store, issued>>
  /\ UNCHANGED <<terminated, wire, ckey, req, read>>

-----------------------------------------------------------------------------
(***************************************************************************)
(* The rest of the server.                                                 *)
(***************************************************************************)

\* A write that was not awaited reaches the store, in no particular order.
Flush(w) ==
  /\ writes' = writes \ {w}
  /\ Stored(w.sid, w.keys)
  /\ UNCHANGED <<issued, terminated, wire, ckey, procs>>

\* A session outlives its TTL and get, exists, the sweep or Redis removes it.
Expire(s) ==
  /\ Live(s)
  /\ Stored(s, NoKeys)
  /\ UNCHANGED <<writes, issued, terminated, wire, ckey, procs>>

\* The server process restarts: handlers and writes on their way are lost,
\* and so is everything the in-memory store holds.
Restart ==
  /\ pc' = [p \in Procs |-> IF pc[p] \in Waiting THEN "over" ELSE pc[p]]
  /\ writes' = {}
  /\ IF Async
       THEN UNCHANGED <<sess, used>>
       ELSE /\ sess' = [s \in Sids |-> NoKeys]
            /\ used' = [s \in Sids |-> {}]
  /\ UNCHANGED <<issued, terminated, wire, ckey, req, read, reply>>

-----------------------------------------------------------------------------
\* Requests a client can send now.  Only withNen's requests carry a body, and
\* only the session header matters to status and rotate.
Sendable ==
  { r \in [kind : {"fetch", "rekey", "rotate", "status"}, sid : issued,
           nonce : Nonces, epoch : {ckey[s] : s \in issued},
           missing : Missing, body : Bodies] :
      /\ r.epoch = ckey[r.sid]
      /\ r.kind # "fetch" => r.body = "none"
      /\ r.kind \in {"rotate", "status"} => r.missing \in {"nothing", "session"} }

Step(p) ==
  \/ GetSession(p)
  \/ HasNonce(p)
  \/ TrackNonce(p)
  \/ ReadBody(p)
  \/ Handler(p)
  \/ StoreRekey(p)
  \/ AnswerRekey(p)
  \/ StoreFault(p)
  \/ RotateHandshake(p)

Next ==
  \/ \E r \in Sendable : Send(r)
  \/ \E s \in Sids : Handshake(s) \/ Terminate(s) \/ Expire(s)
  \/ \E p \in Procs : Step(p) \/ ClientRatchet(p)
  \/ \E p \in Procs : \E r \in wire : Receive(p, r)
  \/ \E w \in writes : Flush(w)
  \/ Restart

Spec == Init /\ [][Next]_vars

-----------------------------------------------------------------------------
(***************************************************************************)
(* Properties.                                                             *)
(***************************************************************************)

\* Type correctness of the store, the handlers and the transport.
TypeOK ==
  /\ sess \in [Sids -> Keys]
  /\ used \in [Sids -> SUBSET Nonces]
  /\ issued \subseteq Sids
  /\ writes \subseteq Write
  /\ terminated \subseteq Sids
  /\ wire \subseteq Request
  /\ ckey \in [Sids -> Nat]
  /\ pc \in [Procs -> PcValues]
  /\ req \in [Procs -> Request \cup {NoRequest}]
  /\ \A p \in Procs : pc[p] # "idle" => req[p] \in Request
  /\ read \in [Procs -> Keys]
  /\ reply \in [Procs -> [code : Codes, key : Keys]]

\* Handler p got a request past verifyRequest: its nonce is tracked.
Accepted(p) == \/ pc[p] \in {"body", "handler", "store", "ack"}
               \/ pc[p] = "done" /\ reply[p].code = "ok"
                                 /\ req[p].kind \in {"fetch", "rekey"}

SameRequest(p, q) == /\ req[p].nonce = req[q].nonce
                     /\ req[p].sid = req[q].sid

\* withNen runs the application's handler, and handleRekey changes keys, only
\* for a request signed with the very keys that verifyRequest fetched, unless
\* withNen was told strict: false (wrapper.ts:31, middleware.ts:353-370).
ExecutedIsAuthentic ==
  \A p \in Procs :
    pc[p] \in {"handler", "store", "ack"} =>
      /\ req[p].missing = "nothing" => req[p].epoch = read[p]
      /\ req[p].missing # "nothing" => /\ req[p].missing = "signature"
                                      /\ req[p].kind = "fetch"
                                      /\ ~Strict

\* The answer to a signed request is encrypted with the keys the client signed
\* it with, whatever rekey, terminate or expiry happened while the handler
\* ran: withNen fetches the session once and keeps it.
ResponseReadable ==
  \A p \in Procs :
    (/\ pc[p] = "done" /\ reply[p].code = "ok"
     /\ req[p].kind = "fetch" /\ req[p].missing = "nothing")
      => reply[p].key = req[p].epoch

\* A copy of a request whose nonce check comes after another copy was tracked
\* and accepted is refused with ISO-5001, whatever happened to the session in
\* between (verifyRequest step 5).
SequentialReplayRejected ==
  [][\A p, q \in Procs :
       (/\ pc[p] = "hasNonce" /\ pc'[p] = "track"
        /\ q # p /\ Accepted(q))
         => ~SameRequest(p, q)]_vars

\* Client and server keys of a live session differ by at most the one ratchet
\* whose answer the client has not seen: "both sides stay in lockstep"
\* (middleware.ts:193-195).
AtMostOneAhead ==
  \A s \in Sids : Live(s) => sess[s] \in {ckey[s], ckey[s] + 1}

\* The ratchet is one-way on the server: while a session lives its keys never
\* go back to an earlier epoch, also when rekeys are delayed or repeated.
KeysNeverRollBack ==
  [][\A s \in Sids : (Live(s) /\ sess'[s] # NoKeys) => sess'[s] >= sess[s]]_vars

\* handleTerminate and handleRotate destroy the session's keys for good
\* (middleware.ts:155): nothing stores keys for that id again.
TerminatedStaysDead == \A s \in terminated : ~Live(s)

\* A session reported "valid" is live, or its first write is on its way:
\* "Liveness check for a session id" (PROTOCOL.md:68).
StatusTruthful ==
  [][\A p \in Procs :
       (reply[p].code # "valid" /\ reply'[p].code = "valid")
         => LET s == req'[p].sid
            IN  Live(s) \/ \E w \in writes : w.sid = s /\ w.keys # NoKeys]_vars

-----------------------------------------------------------------------------
(***************************************************************************)
(* Inductive strengthenings of the safety properties.                      *)
(***************************************************************************)

\* The request of p passed the checks that depend on the session's keys.
Verified(p) ==
  \/ req[p].missing = "nothing" /\ req[p].epoch = read[p]
  \/ req[p].missing = "signature" /\ req[p].kind = "fetch" /\ ~Strict

\* Every handler past getSession holds the keys its request was signed with,
\* and runs the steps of its own kind.
AuthenticInv ==
  /\ \A p \in Procs :
       pc[p] \in {"hasNonce", "track", "body", "handler", "store", "ack"} => Verified(p)
  /\ \A p \in Procs :
       pc[p] \in {"get", "hasNonce", "track"} =>
         req[p].kind \in {"fetch", "rekey"} /\ req[p].missing # "session"
  /\ \A p \in Procs : pc[p] \in {"body", "handler"} => req[p].kind = "fetch"
  /\ \A p \in Procs : pc[p] \in {"store", "ack"} => req[p].kind = "rekey"
  /\ \A p \in Procs : pc[p] = "handshake" => req[p].kind = "rotate"
  /\ ResponseReadable

\* The nonce of every accepted request is among the tracked ones.
TrackedInv ==
  \A p \in Procs : Accepted(p) => req[p].nonce \in used[req[p].sid]

Rekey(p, s) == pc[p] # "idle" /\ req[p].kind = "rekey" /\ req[p].sid = s

\* p is a rekey of s that has read the session and not stored its ratchet.
Ratcheting(p, s) == Rekey(p, s) /\ pc[p] \in {"hasNonce", "track", "store"}

\* p is a rekey of s that has stored its ratchet and not answered.
Ratcheted(p, s) == Rekey(p, s) /\ pc[p] = "ack"

\* p is a rekey of s whose acceptance the client has not seen.
Unacked(p, s) == Rekey(p, s) /\ pc[p] = "done" /\ reply[p].code = "ok"

\* A session id that was never handed out appears nowhere.
FreshSids ==
  \A s \in Sids \ issued :
    /\ ~Live(s) /\ ckey[s] = 0
    /\ \A w \in writes : w.sid # s
    /\ \A r \in wire : r.sid # s
    /\ \A p \in Procs : pc[p] # "idle" => req[p].sid # s

\* Nobody signs with keys from beyond its client's epoch.
SignedInPast ==
  /\ \A r \in wire : r.epoch <= ckey[r.sid]
  /\ \A p \in Procs : pc[p] # "idle" => req[p].epoch <= ckey[req[p].sid]

\* A handshake's write that is still on its way finds its session untouched.
PendingHandshake ==
  \A w \in writes : w.keys # NoKeys =>
    /\ w.keys = 0 /\ ~Live(w.sid) /\ ckey[w.sid] = 0
    /\ \A p \in Procs : ~Ratcheting(p, w.sid) /\ ~Ratcheted(p, w.sid)
                         /\ ~Unacked(p, w.sid)

\* With serialised key changes, at most one rekey of a session is in flight,
\* the store is at the client's epoch until that rekey has stored its ratchet,
\* and one ahead from then until the client has ratcheted.
RekeyPhases ==
  \A s \in Sids, p, q \in Procs :
    /\ Rekey(p, s) /\ Rekey(q, s) /\ pc[p] \in Waiting /\ pc[q] \in Waiting
         => p = q
    /\ Unacked(p, s) /\ Unacked(q, s) => p = q
    /\ Unacked(q, s) => ~Ratcheting(p, s) /\ ~Ratcheted(p, s)
    /\ Ratcheting(p, s) => read[p] = ckey[s] /\ sess[s] \in {NoKeys, ckey[s]}
    /\ Ratcheted(p, s) \/ Unacked(p, s)
         => sess[s] \in {NoKeys, ckey[s] + 1}

RekeyInv ==
  /\ AtMostOneAhead
  /\ FreshSids
  /\ SignedInPast
  /\ PendingHandshake
  /\ RekeyPhases

\* In-memory store: nothing is on its way to a terminated session, neither a
\* write nor a rekey that has read it.
TerminatedInv ==
  /\ writes = {}
  /\ terminated \subseteq issued
  /\ \A s \in terminated : ~Live(s) /\ \A p \in Procs : ~Ratcheting(p, s)

-----------------------------------------------------------------------------
(***************************************************************************)
(* What rekey promises, and that it is kept.                               *)
(***************************************************************************)

\* Where the rekey of s stands that has not come to its end on both sides.
RatchetPhase(s) ==
  IF \E p \in Procs : Ratcheting(p, s) THEN "begun"
  ELSE IF \E p \in Procs : Ratcheted(p, s) \/ Unacked(p, s) THEN "due"
  ELSE "none"

Promise == INSTANCE Ratchet WITH
  stored <- sess, held <- ckey, phase <- [s \in Sids |-> RatchetPhase(s)]

\* The server keeps to the ratchet both ends count on: its keys move one epoch
\* at a time, from where the client is, and not again before the client has
\* followed; nothing else moves or brings back keys, whatever is lost, delayed
\* or repeated (middleware.ts:191-231, "both sides stay in lockstep").
RatchetKept == Promise!Spec
=============================================================================
