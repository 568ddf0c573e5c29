------------------------------ MODULE NenClient ------------------------------
(***************************************************************************)
(* The client half of NEN-PROTOCOL-V3 (packages/nen-client): the methods   *)
(* of one NenClient, split at their awaits, against a server reached over  *)
(* a network that may lose a request or its answer.  Several calls of the  *)
(* same client may be in progress: each runs alone between two awaits and  *)
(* reads and writes the client's fields when it runs.                      *)
(*                                                                         *)
(* The server answers each request in one step: what its handlers do       *)
(* between their own awaits, and copies of requests, is NenServer's        *)
(* subject.  A pair of keys is named by the session it was derived for,    *)
(* the psk it was derived from (the session's own full handshake, or the   *)
(* handshake whose psk a ticket carries) and its ratchet epoch.            *)
(***************************************************************************)
EXTENDS Integers, FiniteSets

CONSTANTS
  Sids,           \* session ids that crypto.randomUUID may produce
  NoSid,          \* null
  Calls,          \* calls of the client's methods, each made once
  Ops,            \* the methods that may be called
  Serial,         \* TRUE: the application awaits each call before the next
  Skewed,         \* TRUE: the client's clock is off by more than 30 seconds
  IdentityFails,  \* TRUE: verification of the server's answer may fail
  TicketKeyPinned,\* TRUE: setTicketKey was called with the same key at boot
  MaxFaults       \* bound on the number of restarts and expiries

ASSUME SerialAssumption == Serial \in BOOLEAN
ASSUME OpsAssumption ==
         Ops \subseteq {"fetch", "rekey", "resume", "terminate", "status", "handshake"}
ASSUME NoSidAssumption == NoSid \notin Sids
ASSUME MaxFaultsAssumption == MaxFaults \in Nat

VARIABLES
  sessionId, keys, psk, ticket,   \* fields of the client
  rotating,                       \* _rotationInProgress
  live,      \* live[s]: the keys the server stores for s, or NoKey
  issued,    \* session ids handed out so far
  gen,       \* generation of the server's ticket key
  faults,    \* restarts and expiries so far
  op,        \* op[c]: the method c is a call of
  pc,        \* pc[c]: what c is waiting for
  msg,       \* msg[c]: the request c sent last
  resp,      \* resp[c]: the answer to it
  result,    \* result[c]: what the call returned or threw
  ran,       \* ran[c]: how often the server ran the handler for c
  rotations  \* rotations[c]: how often c rotated the session

client == <<sessionId, keys, psk, ticket, rotating>>
server == <<live, issued, gen, faults>>
vars == <<client, server, op, pc, msg, resp, result, ran, rotations>>

Sid == Sids \cup {NoSid}
Key == [s : Sid, src : Sid, e : Nat]
NoKey == [s |-> NoSid, src |-> NoSid, e |-> 0]
Ticket == [psk : Sid, gen : Nat]
NoTicket == [psk |-> NoSid, gen |-> 0]

\* nen_ratchet_key
Ratchet(k) == [k EXCEPT !.e = @ + 1]

Legs == {"none", "fetch", "rekey", "resume", "terminate", "status", "handshake"}
Msg == [leg : Legs, sid : Sid, key : Key, ticket : Ticket]
NoMsg == [leg |-> "none", sid |-> NoSid, key |-> NoKey, ticket |-> NoTicket]

Status == {"none", "200", "401", "409", "500"}
Resp == [status : Status, sid : Sid, key : Key, ticket : Ticket]
NoResp == [status |-> "none", sid |-> NoSid, key |-> NoKey, ticket |-> NoTicket]

Init ==
  /\ sessionId = NoSid
  /\ keys = NoKey
  /\ psk = NoSid
  /\ ticket = NoTicket
  /\ rotating = FALSE
  /\ live = [s \in Sids |-> NoKey]
  /\ issued = {}
  /\ gen = 0
  /\ faults = 0
  /\ op = [c \in Calls |-> "none"]
  /\ pc = [c \in Calls |-> "idle"]
  /\ msg = [c \in Calls |-> NoMsg]
  /\ resp = [c \in Calls |-> NoResp]
  /\ result = [c \in Calls |-> "none"]
  /\ ran = [c \in Calls |-> 0]
  /\ rotations = [c \in Calls |-> 0]

\* c waits for its request or for the answer; a fetch also for the promise of
\* the rotation it started to settle, which takes two turns of the microtask
\* queue after the handshake has: "rotated" or, if it threw, "unwinding".
InFlight(c) == pc[c] \in {"out", "in"}
Busy(c) == InFlight(c) \/ pc[c] \in {"rotated", "unwinding"}

-----------------------------------------------------------------------------
(***************************************************************************)
(* Starting a call: its code up to the first await.                        *)
(***************************************************************************)

\* The request of leg l, made from the client's fields as they are now:
\* fetch and rekey sign with the current keys, resume carries the ticket.
Request(l) ==
  [leg |-> l,
   sid |-> IF l \in {"resume", "handshake"} THEN NoSid ELSE sessionId,
   key |-> IF l \in {"fetch", "rekey"} THEN keys ELSE NoKey,
   ticket |-> IF l = "resume" THEN ticket ELSE NoTicket]

\* Call c waits at l, with nothing in flight any more.
Settle(c, l) ==
  /\ pc' = [pc EXCEPT ![c] = l]
  /\ msg' = [msg EXCEPT ![c] = NoMsg]
  /\ resp' = [resp EXCEPT ![c] = NoResp]

\* Call c ends with r.
Return(c, r) == Settle(c, "done") /\ result' = [result EXCEPT ![c] = r]

\* Call c sends m and waits for the answer.
SendRequest(c, m) ==
  /\ msg' = [msg EXCEPT ![c] = m]
  /\ resp' = [resp EXCEPT ![c] = NoResp]
  /\ pc' = [pc EXCEPT ![c] = "out"]
  /\ UNCHANGED result

\* The guards the methods begin with, and what they do when one fails.
Guard(l) ==
  CASE l \in {"fetch", "rekey"} -> keys # NoKey /\ sessionId # NoSid
    [] l = "resume" -> psk # NoSid /\ ticket # NoTicket
    [] l \in {"terminate", "status"} -> sessionId # NoSid
    [] l = "handshake" -> TRUE

GuardFails(l) ==
  CASE l \in {"fetch", "rekey"} -> "not initialized"
    [] l \in {"resume", "status"} -> "false"
    [] l = "terminate" -> "ok"

Call(c, o) ==
  /\ pc[c] = "idle"
  /\ Serial => \A d \in Calls : ~Busy(d)
  /\ op' = [op EXCEPT ![c] = o]
  /\ IF Guard(o) THEN SendRequest(c, Request(o)) ELSE Return(c, GuardFails(o))
  /\ UNCHANGED <<client, server, ran, rotations>>

-----------------------------------------------------------------------------
(***************************************************************************)
(* The server.                                                             *)
(***************************************************************************)

\* verifyRequest: the session is live, the signature was made with its keys,
\* and the timestamp is in the window.
Authentic(m) == live[m.sid] # NoKey /\ m.key = live[m.sid] /\ ~Skewed

Respond(c, r) ==
  /\ resp' = [resp EXCEPT ![c] = r]
  /\ pc' = [pc EXCEPT ![c] = "in"]

Refusal(st) == [NoResp EXCEPT !.status = st]

\* A new session s whose keys derive from psk q; its ticket seals q.
Establish(c, s, q) ==
  /\ s \notin issued
  /\ issued' = issued \cup {s}
  /\ live' = [live EXCEPT ![s] = [s |-> s, src |-> q, e |-> 0]]
  /\ Respond(c, [status |-> "200", sid |-> s, key |-> NoKey,
                 ticket |-> [psk |-> q, gen |-> gen]])

\* withNen: the handler runs for an authentic request only; it may throw.
ServeFetch(c) ==
  /\ IF Authentic(msg[c])
       THEN /\ ran' = [ran EXCEPT ![c] = @ + 1]
            /\ \/ Respond(c, [Refusal("200") EXCEPT !.key = live[msg[c].sid]])
               \/ Respond(c, Refusal("500"))
       ELSE Respond(c, Refusal("401")) /\ UNCHANGED ran
  /\ UNCHANGED <<live, issued>>

ServeRekey(c) ==
  /\ IF Authentic(msg[c])
       THEN /\ live' = [live EXCEPT ![msg[c].sid] = Ratchet(@)]
            /\ Respond(c, Refusal("200"))
       ELSE Respond(c, Refusal("401")) /\ UNCHANGED live
  /\ UNCHANGED <<issued, ran>>

ServeHandshake(c) ==
  /\ \/ \E s \in Sids : Establish(c, s, s)
     \/ Respond(c, Refusal("500")) /\ UNCHANGED <<live, issued>>
  /\ UNCHANGED ran

\* openTicket gives the psk back for a ticket sealed with the current ticket key,
\* which it may refuse all the same: it expires.
OpensTicket(t) == t.gen = gen

ServeResume(c) ==
  /\ \/ /\ OpensTicket(msg[c].ticket)
        /\ \E s \in Sids : Establish(c, s, msg[c].ticket.psk)
     \/ Respond(c, Refusal("409")) /\ UNCHANGED <<live, issued>>
  /\ UNCHANGED ran

ServeTerminate(c) ==
  /\ live' = [live EXCEPT ![msg[c].sid] = NoKey]
  /\ Respond(c, Refusal("200"))
  /\ UNCHANGED <<issued, ran>>

ServeStatus(c) ==
  /\ Respond(c, Refusal(IF live[msg[c].sid] # NoKey THEN "200" ELSE "401"))
  /\ UNCHANGED <<live, issued, ran>>

Serve(c) ==
  /\ pc[c] = "out"
  /\ \/ msg[c].leg = "fetch" /\ ServeFetch(c)
     \/ msg[c].leg = "rekey" /\ ServeRekey(c)
     \/ msg[c].leg = "handshake" /\ ServeHandshake(c)
     \/ msg[c].leg = "resume" /\ ServeResume(c)
     \/ msg[c].leg = "terminate" /\ ServeTerminate(c)
     \/ msg[c].leg = "status" /\ ServeStatus(c)
  /\ UNCHANGED <<client, gen, faults, op, msg, result, rotations>>

\* A session outlives its TTL.
Expire(s) ==
  /\ faults < MaxFaults
  /\ live[s] # NoKey
  /\ live' = [live EXCEPT ![s] = NoKey]
  /\ faults' = faults + 1
  /\ UNCHANGED <<client, issued, gen, op, pc, msg, resp, result, ran, rotations>>

\* The server process restarts: the in-memory sessions are gone, and so is
\* the random ticket key unless the application pins one.
Restart ==
  /\ faults < MaxFaults
  /\ live' = [s \in Sids |-> NoKey]
  /\ gen' = IF TicketKeyPinned THEN gen ELSE gen + 1
  /\ faults' = faults + 1
  /\ UNCHANGED <<client, issued, op, pc, msg, resp, result, ran, rotations>>

-----------------------------------------------------------------------------
(***************************************************************************)
(* The code after an await of fetch.                                       *)
(***************************************************************************)

\* nenFetch, an answer other than the 401 that makes it rotate.  The payload
\* is decrypted with the keys the client has by now.
FetchAnswered(c) ==
  /\ msg[c].leg = "fetch"
  /\ \/ resp[c].status = "200" /\ resp[c].key = keys /\ Return(c, "ok")
     \/ resp[c].status = "200" /\ resp[c].key # keys /\ Return(c, "undecryptable")
     \/ resp[c].status = "500" /\ Return(c, "raw")
     \/ resp[c].status = "401" /\ rotating /\ Return(c, "raw401")
  /\ UNCHANGED <<client, rotations>>

\* Mutated form of FetchRotates: a 500 is retried like a 401.
FetchRotatesOnError(c) ==
  /\ msg[c].leg = "fetch"
  /\ resp[c].status \in {"401", "500"}
  /\ ~rotating
  /\ rotating' = TRUE
  /\ rotations' = [rotations EXCEPT ![c] = @ + 1]
  /\ SendRequest(c, Request("handshake"))
  /\ UNCHANGED <<sessionId, keys, psk, ticket>>

\* nenFetch, a 401 while no other fetch rotates: take the flag, handshake.
FetchRotates(c) ==
  /\ msg[c].leg = "fetch"
  /\ resp[c].status = "401"
  /\ ~rotating
  /\ rotating' = TRUE
  /\ rotations' = [rotations EXCEPT ![c] = @ + 1]
  /\ SendRequest(c, Request("handshake"))
  /\ UNCHANGED <<sessionId, keys, psk, ticket>>

\* Mutated form of HandshakeInstalls: a psk once derived is kept.
HandshakeInstallsKeepingPsk(c) ==
  /\ msg[c].leg = "handshake"
  /\ resp[c].status = "200"
  /\ sessionId' = resp[c].sid
  /\ keys' = [s |-> resp[c].sid, src |-> resp[c].sid, e |-> 0]
  /\ psk' = IF psk = NoSid THEN resp[c].sid ELSE psk
  /\ ticket' = resp[c].ticket
  /\ IF op[c] = "fetch"
       THEN Settle(c, "rotated") /\ UNCHANGED result
       ELSE Return(c, "ok")
  /\ UNCHANGED <<rotating, rotations>>

\* A handshake succeeded: install the session.
HandshakeInstalls(c) ==
  /\ msg[c].leg = "handshake"
  /\ resp[c].status = "200"
  /\ sessionId' = resp[c].sid
  /\ keys' = [s |-> resp[c].sid, src |-> resp[c].sid, e |-> 0]
  /\ psk' = resp[c].sid
  /\ ticket' = resp[c].ticket
  /\ IF op[c] = "fetch"
       THEN Settle(c, "rotated") /\ UNCHANGED result
       ELSE Return(c, "ok")
  /\ UNCHANGED <<rotating, rotations>>

\* The handshake of c throws r; in a fetch, the finally block is yet to run.
HandshakeThrows(c, r) ==
  /\ result' = [result EXCEPT ![c] = r]
  /\ Settle(c, IF op[c] = "fetch" THEN "unwinding" ELSE "done")
  /\ UNCHANGED <<keys, psk, ticket, rotating, rotations>>

\* The answer fails a check made after the session id was taken from it.
HandshakeUnverified(c) ==
  /\ IdentityFails
  /\ msg[c].leg = "handshake"
  /\ resp[c].status = "200"
  /\ sessionId' = resp[c].sid
  /\ HandshakeThrows(c, "unverified")

\* Mutated form of HandshakeRefused: tried again until it succeeds.
HandshakeRefusedRetrying(c) ==
  /\ msg[c].leg = "handshake"
  /\ resp[c].status # "200"
  /\ SendRequest(c, Request("handshake"))
  /\ UNCHANGED <<client, rotations>>

HandshakeRefused(c) ==
  /\ msg[c].leg = "handshake"
  /\ resp[c].status # "200"
  /\ HandshakeThrows(c, "error")
  /\ UNCHANGED sessionId

\* nenFetch after its rotation: the request is made again from the fields as
\* they are now, and the finally block runs as soon as it is on its way, for
\* the promise of the second nenFetch is returned, not awaited.
FetchRetries(c) ==
  /\ pc[c] = "rotated"
  /\ rotating' = FALSE
  /\ IF Guard("fetch")
       THEN SendRequest(c, Request("fetch"))
       ELSE Return(c, "not initialized")
  /\ UNCHANGED <<sessionId, keys, psk, ticket, server, op, ran, rotations>>

\* Mutated form of FetchUnwinds: without the finally block.
FetchUnwindsNoFinally(c) ==
  /\ pc[c] = "unwinding"
  /\ pc' = [pc EXCEPT ![c] = "done"]
  /\ UNCHANGED <<client, server, op, msg, resp, result, ran, rotations>>

\* The finally block of a fetch whose rotation threw.
FetchUnwinds(c) ==
  /\ pc[c] = "unwinding"
  /\ rotating' = FALSE
  /\ pc' = [pc EXCEPT ![c] = "done"]
  /\ UNCHANGED <<sessionId, keys, psk, ticket, server, op, msg, resp, result,
                 ran, rotations>>

\* Mutated form of RekeyAccepted: the ratchet is applied twice.
RekeyAcceptedTwice(c) ==
  /\ msg[c].leg = "rekey"
  /\ resp[c].status = "200"
  /\ IF keys = NoKey
       THEN Return(c, "error") /\ UNCHANGED keys
       ELSE Return(c, "ok") /\ keys' = Ratchet(Ratchet(keys))
  /\ UNCHANGED <<sessionId, psk, ticket, rotating, rotations>>

\* rekey: ratchet the keys the client has by now; there may be none.
RekeyAccepted(c) ==
  /\ msg[c].leg = "rekey"
  /\ resp[c].status = "200"
  /\ IF keys = NoKey
       THEN Return(c, "error") /\ UNCHANGED keys
       ELSE Return(c, "ok") /\ keys' = Ratchet(keys)
  /\ UNCHANGED <<sessionId, psk, ticket, rotating, rotations>>

\* Mutated form of RekeyRotates: it takes the flag that only fetches release.
RekeyRotatesTakingFlag(c) ==
  /\ msg[c].leg = "rekey"
  /\ resp[c].status # "200"
  /\ rotating' = TRUE
  /\ rotations' = [rotations EXCEPT ![c] = @ + 1]
  /\ SendRequest(c, Request("handshake"))
  /\ UNCHANGED <<sessionId, keys, psk, ticket>>

\* rekey, refused: fall back to a full rotation.
RekeyRotates(c) ==
  /\ msg[c].leg = "rekey"
  /\ resp[c].status # "200"
  /\ rotations' = [rotations EXCEPT ![c] = @ + 1]
  /\ SendRequest(c, Request("handshake"))
  /\ UNCHANGED client

\* Mutated form of ResumeAnswered: the id of the new session is not kept.
ResumeAnsweredOldId(c) ==
  /\ msg[c].leg = "resume"
  /\ IF resp[c].status = "200"
       THEN /\ keys' = [s |-> resp[c].sid, src |-> psk, e |-> 0]
            /\ ticket' = resp[c].ticket
            /\ Return(c, "true")
       ELSE Return(c, "false") /\ UNCHANGED <<keys, ticket>>
  /\ UNCHANGED <<sessionId, psk, rotating, rotations>>

\* resume: derive the new keys from the psk the client has by now.
ResumeAnswered(c) ==
  /\ msg[c].leg = "resume"
  /\ IF resp[c].status = "200"
       THEN /\ sessionId' = resp[c].sid
            /\ keys' = [s |-> resp[c].sid, src |-> psk, e |-> 0]
            /\ ticket' = resp[c].ticket
            /\ Return(c, "true")
       ELSE Return(c, "false") /\ UNCHANGED <<sessionId, keys, ticket>>
  /\ UNCHANGED <<psk, rotating, rotations>>

\* terminate clears the session, not the psk and the ticket.
Clear(c) ==
  /\ sessionId' = NoSid
  /\ keys' = NoKey
  /\ Return(c, "ok")
  /\ UNCHANGED <<psk, ticket, rotating, rotations>>

TerminateAnswered(c) == msg[c].leg = "terminate" /\ Clear(c)

StatusAnswered(c) ==
  /\ msg[c].leg = "status"
  /\ Return(c, IF resp[c].status = "200" THEN "true" ELSE "false")
  /\ UNCHANGED <<client, rotations>>

Continue(c) ==
  /\ pc[c] = "in"
  /\ \/ FetchAnswered(c)
     \/ FetchRotates(c)
     \/ HandshakeInstalls(c)
     \/ HandshakeUnverified(c)
     \/ HandshakeRefused(c)
     \/ RekeyAccepted(c)
     \/ RekeyRotates(c)
     \/ ResumeAnswered(c)
     \/ TerminateAnswered(c)
     \/ StatusAnswered(c)
  /\ UNCHANGED <<server, op, ran>>

\* The request or its answer is lost and fetch rejects: handshake, nenFetch
\* and rekey throw, resume and status return false, terminate goes on.
NetworkFails(c) ==
  /\ InFlight(c)
  /\ \/ /\ msg[c].leg \in {"fetch", "rekey"}
        /\ Return(c, "error")
        /\ UNCHANGED <<client, rotations>>
     \/ /\ msg[c].leg = "handshake"
        /\ HandshakeThrows(c, "error")
        /\ UNCHANGED sessionId
     \/ /\ msg[c].leg \in {"resume", "status"}
        /\ Return(c, "false")
        /\ UNCHANGED <<client, rotations>>
     \/ msg[c].leg = "terminate" /\ Clear(c)
  /\ UNCHANGED <<server, op, ran>>

-----------------------------------------------------------------------------
Step(c) ==
  Serve(c) \/ Continue(c) \/ FetchRetries(c) \/ FetchUnwinds(c) \/ NetworkFails(c)

Next ==
  \/ \E c \in Calls : \E o \in Ops : Call(c, o)
  \/ \E c \in Calls : Step(c)
  \/ \E s \in Sids : Expire(s)
  \/ Restart

Spec == Init /\ [][Next]_vars

\* The network delivers a request or an answer, or reports its loss, and the
\* event loop resumes a call whose promise has settled.
FairSpec == Spec /\ \A c \in Calls : WF_vars(Step(c))

-----------------------------------------------------------------------------
(***************************************************************************)
(* Properties.                                                             *)
(***************************************************************************)

\* One call of nenFetch makes the server run the handler at most once, however
\* often it rotates and sends the request again (index.ts:250-259): only a 401
\* is retried, and withNen answers 401 before it runs the handler.
HandlerAtMostOnce == \A c \in Calls : ran[c] <= 1

\* The keys the client signs with always belong to the session id it sends,
\* also when handshakes, resumes, rekeys and terminates overlap, as long as
\* the server's answers verify.
KeysBelongToSession == keys # NoKey => keys.s = sessionId

\* The rotation flag is held exactly while a fetch is rotating: it is never
\* leaked by a handshake that fails, nor dropped by another fetch.
FlagHeldByRotation ==
  rotating <=> \E c \in Calls :
                 /\ op[c] = "fetch"
                 /\ \/ pc[c] \in {"rotated", "unwinding"}
                    \/ InFlight(c) /\ msg[c].leg = "handshake"

\* A fetch that is not overlapped with other calls never surfaces a 401 or an
\* answer it cannot decrypt, whatever sessions expire, servers restart or
\* answers are lost: "the client transparently re-handshakes on a 401 and
\* retries" (README.md:28).
FetchTransparent ==
  \A c \in Calls : result[c] \notin {"raw401", "undecryptable"}

\* The ticket the client would resume with seals the psk it would derive the
\* new keys from; if not, every resumed session starts with different keys on
\* the two sides (index.ts:155-156, 188-197).
TicketMatchesPsk == ticket # NoTicket => ticket.psk = psk

\* Between calls, the client and the server agree on the keys of the session
\* the client's keys belong to, or the server is ahead by the one ratchet whose
\* answer was lost.
KeysAgree ==
  (keys # NoKey /\ \A c \in Calls : ~Busy(c)) =>
    live[keys.s] \in {NoKey, keys, Ratchet(keys)}

\* nenFetch rotates at most once for one call: "the client auto-rotates once
\* and retries (_rotationInProgress guards against loops)" (PROTOCOL.md:264-266).
RotatesAtMostOnce == \A c \in Calls : op[c] = "fetch" => rotations[c] <= 1

\* With a clock in the server's window, every call settles once sessions stop
\* expiring and servers restarting: a 401 that a rotation does not cure cannot come
\* again and again.  Each rotation takes a session id, so the calls are to settle
\* while one is left; it is then the code that ends them and never the want of ids.
\* A client whose clock is off rotates without end (RotatesAtMostOnce).
CallsSettle ==
  ~Skewed => \A c \in Calls : Busy(c) ~> (pc[c] = "done" /\ issued # Sids)
=============================================================================
