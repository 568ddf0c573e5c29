--------------------------- MODULE NenClientProofs ---------------------------
(***************************************************************************)
(* Proofs about NenClient, for any number of calls and session ids, any    *)
(* choice of methods and any number of restarts and expiries.              *)
(*                                                                         *)
(* The invariants are proved in the order in which they lean on each       *)
(* other: types; what a waiting call waits for (LegInv); who holds the     *)
(* rotation flag (FlagInv); then, for an application that awaits each call *)
(* before the next, that nothing changes under a request in flight         *)
(* (SerialInv) and where the two sides' keys are (AgreeInv).               *)
(***************************************************************************)
EXTENDS NenClient, TLAPS

-----------------------------------------------------------------------------
(***************************************************************************)
(* The inductive invariants.                                               *)
(***************************************************************************)

PcValues == {"idle", "out", "in", "rotated", "unwinding", "done"}
Results ==
  {"none", "ok", "undecryptable", "raw", "raw401", "not initialized",
   "unverified", "error", "true", "false"}

ClientOK ==
  /\ sessionId \in Sid
  /\ keys \in Key
  /\ psk \in Sid
  /\ ticket \in Ticket
  /\ rotating \in BOOLEAN

ServerOK ==
  /\ live \in [Sids -> Key]
  /\ issued \subseteq Sids
  /\ gen \in Nat
  /\ faults \in Nat

CallsOK ==
  /\ op \in [Calls -> Ops \cup {"none"}]
  /\ pc \in [Calls -> PcValues]
  /\ msg \in [Calls -> Msg]
  /\ resp \in [Calls -> Resp]
  /\ result \in [Calls -> Results]
  /\ ran \in [Calls -> Nat]
  /\ rotations \in [Calls -> Nat]

TypeOK == ClientOK /\ ServerOK /\ CallsOK

\* A request in flight is of the method that was called, or is a handshake
\* made by a method that may need one; one made in a session names it.  Only a
\* fetch waits for a rotation.
LegInv ==
  \A c \in Calls :
    /\ InFlight(c) =>
         IF msg[c].leg = "handshake"
           THEN op[c] \in {"fetch", "rekey", "handshake"}
           ELSE msg[c].leg = op[c] /\ op[c] \in Ops
    /\ InFlight(c) /\ msg[c].leg \notin {"handshake", "resume"} => msg[c].sid \in Sids
    /\ pc[c] \in {"rotated", "unwinding"} => op[c] = "fetch"

\* Once the handler has run for a call, its answer is on the way or the call
\* has ended: the answer is never a 401, so it is not sent again.
HandlerInv ==
  \A c \in Calls :
    /\ ran[c] \in {0, 1}
    /\ ran[c] = 1 =>
         \/ pc[c] = "done"
         \/ pc[c] = "in" /\ msg[c].leg = "fetch" /\ resp[c].status # "401"

\* Call c is a fetch between taking the rotation flag and clearing it.
HoldsFlag(c) ==
  /\ op[c] = "fetch"
  /\ \/ pc[c] \in {"rotated", "unwinding"}
     \/ InFlight(c) /\ msg[c].leg = "handshake"

\* The flag is held exactly by one such fetch, or by none.
FlagInv ==
  /\ rotating <=> \E c \in Calls : HoldsFlag(c)
  /\ \A c, d \in Calls : HoldsFlag(c) /\ HoldsFlag(d) => c = d

OneBusy == \A c, d \in Calls : Busy(c) /\ Busy(d) => c = d

\* What a request in flight was made from is still what the client has.
RequestCurrent(c) ==
  InFlight(c) =>
    /\ msg[c].leg \in {"fetch", "rekey"} =>
         msg[c].key = keys /\ keys # NoKey /\ msg[c].sid = sessionId
    /\ msg[c].leg = "resume" => msg[c].ticket.psk = psk

\* So is what its answer was made from.
AnswerCurrent(c) ==
  pc[c] = "in" /\ resp[c].status = "200" =>
    /\ msg[c].leg = "fetch" => resp[c].key = keys
    /\ msg[c].leg = "handshake" => resp[c].ticket.psk = resp[c].sid
    /\ msg[c].leg = "resume" => resp[c].ticket.psk = psk

Transparent(c) == result[c] \notin {"raw401", "undecryptable"}

\* An application that awaits each call before the next.
SerialInv ==
  /\ OneBusy
  /\ TicketMatchesPsk
  /\ \A c \in Calls : RequestCurrent(c) /\ AnswerCurrent(c) /\ Transparent(c)

\* What the server may store for a session that the client holds k for.
InStep(k) == live[k.s] \in {NoKey, k, Ratchet(k)}

\* What an answer that succeeded leaves the server with.
AnswerInStep(c) ==
  pc[c] = "in" /\ resp[c].status = "200" =>
    /\ msg[c].leg = "rekey" => live[keys.s] \in {NoKey, Ratchet(keys)}
    /\ msg[c].leg \in {"handshake", "resume"} => resp[c].sid \in issued
    /\ msg[c].leg = "handshake" =>
         live[resp[c].sid] \in {NoKey, [s |-> resp[c].sid, src |-> resp[c].sid, e |-> 0]}
    /\ msg[c].leg = "resume" =>
         live[resp[c].sid] \in {NoKey, [s |-> resp[c].sid, src |-> psk, e |-> 0]}

\* The keys stored for a session are its own; those of the client, and those
\* it is about to install, belong to a session handed out before.
AgreeInv ==
  /\ \A s \in Sids : live[s] # NoKey => live[s].s = s
  /\ keys # NoKey => keys.s \in issued /\ InStep(keys)
  /\ \A c \in Calls : AnswerInStep(c)

-----------------------------------------------------------------------------
(***************************************************************************)
(* Type correctness, and what a waiting call waits for.                    *)
(***************************************************************************)

LEMMA NullValues ==
  /\ NoSid \in Sid /\ NoKey \in Key /\ NoTicket \in Ticket
  /\ NoMsg \in Msg /\ NoResp \in Resp
  BY DEF Sid, Key, NoKey, Ticket, NoTicket, Msg, NoMsg, Legs, Resp, NoResp, Status

LEMMA InitTypeOK == Init => TypeOK /\ LegInv
<1>1. Init => ClientOK
  BY NullValues DEF Init, ClientOK
<1>2. Init => ServerOK
  BY NullValues DEF Init, ServerOK
<1>3. Init => CallsOK
  BY NullValues DEF Init, CallsOK, PcValues, Results
<1>4. Init => LegInv
  BY DEF Init, LegInv, InFlight
<1>5. QED BY <1>1, <1>2, <1>3, <1>4 DEF TypeOK

\* A ratcheted key is a key of the same session.
LEMMA RatchetKey ==
  ASSUME NEW k \in Key
  PROVE  Ratchet(k) \in Key /\ Ratchet(k).s = k.s /\ Ratchet(k) # k /\ Ratchet(k) # NoKey
  BY DEF Key, Ratchet, NoKey

\* A request is made of fields of the client, of the session it is in.
LEMMA RequestType ==
  ASSUME TypeOK, NEW l \in Legs
  PROVE  /\ Request(l) \in Msg
         /\ Request(l).leg = l
         /\ l \in Ops /\ Guard(l) /\ l \notin {"handshake", "resume"} => Request(l).sid \in Sids
  BY OpsAssumption, NullValues DEF TypeOK, ClientOK, Request, Msg, Sid, Guard

\* The four ways to go on keep the calls typed.
LEMMA SettleType ==
  ASSUME TypeOK, NEW c \in Calls, NEW l \in PcValues, Settle(c, l)
  PROVE  /\ pc' \in [Calls -> PcValues]
         /\ msg' \in [Calls -> Msg]
         /\ resp' \in [Calls -> Resp]
  BY NullValues DEF TypeOK, CallsOK, Settle

LEMMA ReturnType ==
  ASSUME TypeOK, NEW c \in Calls, NEW r \in Results, Return(c, r)
  PROVE  /\ pc' \in [Calls -> PcValues]
         /\ msg' \in [Calls -> Msg]
         /\ resp' \in [Calls -> Resp]
         /\ result' \in [Calls -> Results]
  BY SettleType DEF TypeOK, CallsOK, Return, PcValues

LEMMA SendRequestType ==
  ASSUME TypeOK, NEW c \in Calls, NEW m \in Msg, SendRequest(c, m)
  PROVE  /\ pc' \in [Calls -> PcValues]
         /\ msg' \in [Calls -> Msg]
         /\ resp' \in [Calls -> Resp]
         /\ result' \in [Calls -> Results]
  BY NullValues DEF TypeOK, CallsOK, SendRequest, PcValues

LEMMA RespondType ==
  ASSUME TypeOK, NEW c \in Calls, NEW r \in Resp, Respond(c, r)
  PROVE  /\ pc' \in [Calls -> PcValues]
         /\ resp' \in [Calls -> Resp]
  BY DEF TypeOK, CallsOK, Respond, PcValues

LEMMA RefusalType ==
  ASSUME NEW st \in Status
  PROVE  /\ Refusal(st) \in Resp
         /\ \A k \in Key : [Refusal(st) EXCEPT !.key = k] \in Resp
  BY NullValues DEF Refusal, Resp, NoResp

LEMMA RefusalFields ==
  ASSUME NEW st, NEW k
  PROVE  /\ Refusal(st).status = st
         /\ [Refusal(st) EXCEPT !.key = k].status = st
         /\ [Refusal(st) EXCEPT !.key = k].key = k
  BY DEF Refusal, NoResp

\* What Establish leaves behind.
LEMMA EstablishType ==
  ASSUME TypeOK, NEW c \in Calls, NEW s \in Sids, NEW q \in Sid, Establish(c, s, q)
  PROVE  /\ issued' \subseteq Sids
         /\ live' \in [Sids -> Key]
         /\ pc' \in [Calls -> PcValues]
         /\ resp' \in [Calls -> Resp]
<1>1. [s |-> s, src |-> q, e |-> 0] \in Key
  BY DEF Key, Sid
<1>2. [status |-> "200", sid |-> s, key |-> NoKey, ticket |-> [psk |-> q, gen |-> gen]] \in Resp
  BY NullValues DEF TypeOK, ServerOK, Resp, Status, Sid, Ticket
<1>3. QED BY <1>1, <1>2, RespondType DEF TypeOK, ServerOK, Establish

\* Serving touches one call's pc and answer, the sessions and the handler count.
LEMMA ServeChanges ==
  ASSUME TypeOK, LegInv, NEW c \in Calls, Serve(c)
  PROVE  /\ live' \in [Sids -> Key] /\ issued' \subseteq Sids /\ ran' \in [Calls -> Nat]
         /\ resp' \in [Calls -> Resp]
         /\ pc[c] = "out" /\ pc' = [pc EXCEPT ![c] = "in"]
<1>1. /\ pc[c] = "out" /\ msg[c] \in Msg
      /\ msg[c].leg \notin {"handshake", "resume"} => msg[c].sid \in Sids
  BY DEF Serve, TypeOK, CallsOK, LegInv, InFlight
<1>2. pc' = [pc EXCEPT ![c] = "in"]
  BY DEF Serve, ServeFetch, ServeRekey, ServeHandshake, ServeResume, ServeTerminate,
         ServeStatus, Respond, Establish
<1>3. {"200", "401", "409", "500"} \subseteq Status
  BY DEF Status
<1> USE DEF TypeOK, ServerOK, CallsOK
<1>4. CASE msg[c].leg = "fetch" /\ ServeFetch(c)
  <2>1. live[msg[c].sid] \in Key
    BY <1>1, <1>4
  <2>2. resp' \in [Calls -> Resp]
    BY <1>3, <1>4, <2>1, RespondType, RefusalType DEF ServeFetch
  <2>3. ran' \in [Calls -> Nat]
    <3>1. ran[c] + 1 \in Nat
      OBVIOUS
    <3>2. QED BY <1>4, <3>1 DEF ServeFetch
  <2>4. QED BY <1>1, <1>2, <1>4, <2>2, <2>3 DEF ServeFetch
<1>5. CASE msg[c].leg = "rekey" /\ ServeRekey(c)
  <2>1. Ratchet(live[msg[c].sid]) \in Key
    BY <1>1, <1>5, RatchetKey
  <2>2. resp' \in [Calls -> Resp]
    BY <1>3, <1>5, RespondType, RefusalType DEF ServeRekey
  <2>3. QED BY <1>1, <1>2, <1>5, <2>1, <2>2 DEF ServeRekey
<1>6. CASE msg[c].leg = "handshake" /\ ServeHandshake(c)
  <2>1. CASE \E s \in Sids : Establish(c, s, s)
    BY <1>2, <1>1, <1>6, <2>1, EstablishType DEF ServeHandshake, Sid
  <2>2. CASE Respond(c, Refusal("500")) /\ UNCHANGED <<live, issued>>
    BY <1>2, <1>1, <1>3, <1>6, <2>2, RespondType, RefusalType DEF ServeHandshake
  <2>3. QED BY <1>6, <2>1, <2>2 DEF ServeHandshake
<1>7. CASE msg[c].leg = "resume" /\ ServeResume(c)
  <2>1. CASE \E s \in Sids : Establish(c, s, msg[c].ticket.psk)
    <3>1. msg[c].ticket.psk \in Sid
      BY <1>1 DEF Msg, Ticket
    <3>2. QED BY <1>2, <1>1, <1>7, <2>1, <3>1, EstablishType DEF ServeResume
  <2>2. CASE Respond(c, Refusal("409")) /\ UNCHANGED <<live, issued>>
    BY <1>2, <1>1, <1>3, <1>7, <2>2, RespondType, RefusalType DEF ServeResume
  <2>3. QED BY <1>7, <2>1, <2>2 DEF ServeResume
<1>8. CASE msg[c].leg = "terminate" /\ ServeTerminate(c)
  BY <1>1, <1>2, <1>3, <1>8, NullValues, RespondType, RefusalType DEF ServeTerminate
<1>9. CASE msg[c].leg = "status" /\ ServeStatus(c)
  BY <1>1, <1>2, <1>3, <1>9, RespondType, RefusalType DEF ServeStatus
<1>10. QED BY <1>4, <1>5, <1>6, <1>7, <1>8, <1>9 DEF Serve

LEMMA ServeTypeOK ==
  ASSUME TypeOK, LegInv, NEW c \in Calls, Serve(c)
  PROVE  TypeOK' /\ LegInv'
<1>1. UNCHANGED <<client, gen, faults, op, msg, result, rotations>>
  BY DEF Serve
<1>2. TypeOK'
  BY <1>1, ServeChanges DEF TypeOK, ClientOK, ServerOK, CallsOK, client, PcValues
<1>3. LegInv'
  BY <1>1, ServeChanges DEF TypeOK, CallsOK, LegInv, InFlight
<1>4. QED BY <1>2, <1>3

\* Continuing, or failing, touches the client's fields and one call.
LEMMA ContinueTypeOK ==
  ASSUME TypeOK, LegInv, NEW c \in Calls, Continue(c)
  PROVE  TypeOK' /\ LegInv'
<1>1. pc[c] = "in" /\ UNCHANGED <<server, op, ran>>
  BY DEF Continue
<1>2. /\ resp[c].sid \in Sid /\ resp[c].ticket \in Ticket
      /\ [s |-> resp[c].sid, src |-> resp[c].sid, e |-> 0] \in Key
      /\ [s |-> resp[c].sid, src |-> psk, e |-> 0] \in Key
  BY DEF TypeOK, CallsOK, ClientOK, Resp, Key
<1> DEFINE Fields == ClientOK' /\ rotations' \in [Calls -> Nat]
           Waits == /\ pc' \in [Calls -> PcValues] /\ msg' \in [Calls -> Msg]
                    /\ resp' \in [Calls -> Resp] /\ result' \in [Calls -> Results]
<1>3. ASSUME Fields, Waits PROVE TypeOK'
  BY <1>1, <1>3 DEF TypeOK, ClientOK, ServerOK, CallsOK, server
<1>4. CASE FetchAnswered(c)
  <2>1. Fields
    BY <1>4 DEF FetchAnswered, TypeOK, ClientOK, CallsOK, client
  <2>2. Waits
    BY <1>4, ReturnType DEF FetchAnswered, Results
  <2>3. LegInv'
    BY <1>1, <1>4 DEF FetchAnswered, Return, Settle, LegInv, InFlight, TypeOK, CallsOK
  <2>4. QED BY <1>3, <2>1, <2>2, <2>3
<1>5. CASE FetchRotates(c)
  <2>1. Fields
    BY <1>5 DEF FetchRotates, TypeOK, ClientOK, CallsOK
  <2>2. Waits
    BY <1>5, SendRequestType, RequestType DEF FetchRotates, Legs
  <2>3. LegInv'
    BY <1>1, <1>5, RequestType DEF FetchRotates, SendRequest, LegInv, InFlight, TypeOK, CallsOK, Legs
  <2>4. QED BY <1>3, <2>1, <2>2, <2>3
<1>6. CASE HandshakeInstalls(c)
  <2>1. Fields
    BY <1>2, <1>6 DEF HandshakeInstalls, TypeOK, ClientOK, CallsOK
  <2>2. Waits
    <3>1. CASE op[c] = "fetch"
      BY <1>6, <3>1, SettleType DEF HandshakeInstalls, PcValues, TypeOK, CallsOK
    <3>2. CASE op[c] # "fetch"
      BY <1>6, <3>2, ReturnType DEF HandshakeInstalls, Results
    <3>3. QED BY <3>1, <3>2
  <2>3. LegInv'
    BY <1>1, <1>6 DEF HandshakeInstalls, Return, Settle, LegInv, InFlight, TypeOK, CallsOK
  <2>4. QED BY <1>3, <2>1, <2>2, <2>3
<1>7. ASSUME NEW r \in {"unverified", "error"}, HandshakeThrows(c, r)
      PROVE  Waits /\ LegInv'
  <2>1. Waits
    BY <1>7, SettleType DEF HandshakeThrows, PcValues, Results, TypeOK, CallsOK
  <2>2. LegInv'
    BY <1>1, <1>7 DEF HandshakeThrows, Settle, LegInv, InFlight, TypeOK, CallsOK
  <2>3. QED BY <2>1, <2>2
<1>8. CASE HandshakeUnverified(c) \/ HandshakeRefused(c)
  <2>1. Fields
    BY <1>2, <1>8 DEF HandshakeUnverified, HandshakeRefused, HandshakeThrows, TypeOK,
                      ClientOK, CallsOK
  <2>2. QED BY <1>3, <1>7, <1>8, <2>1 DEF HandshakeUnverified, HandshakeRefused
<1>9. CASE RekeyAccepted(c)
  <2>1. Fields
    BY <1>9, RatchetKey DEF RekeyAccepted, TypeOK, ClientOK, CallsOK
  <2>2. Waits
    BY <1>9, ReturnType DEF RekeyAccepted, Results
  <2>3. LegInv'
    BY <1>1, <1>9 DEF RekeyAccepted, Return, Settle, LegInv, InFlight, TypeOK, CallsOK
  <2>4. QED BY <1>3, <2>1, <2>2, <2>3
<1>10. CASE RekeyRotates(c)
  <2>1. Fields
    BY <1>10 DEF RekeyRotates, TypeOK, ClientOK, CallsOK, client
  <2>2. Waits
    BY <1>10, SendRequestType, RequestType DEF RekeyRotates, Legs
  <2>3. LegInv'
    BY <1>1, <1>10, RequestType DEF RekeyRotates, SendRequest, LegInv, InFlight, TypeOK, CallsOK, Legs
  <2>4. QED BY <1>3, <2>1, <2>2, <2>3
<1>11. CASE ResumeAnswered(c)
  <2>1. Fields
    BY <1>2, <1>11 DEF ResumeAnswered, TypeOK, ClientOK, CallsOK
  <2>2. Waits
    BY <1>11, ReturnType DEF ResumeAnswered, Results
  <2>3. LegInv'
    BY <1>1, <1>11 DEF ResumeAnswered, Return, Settle, LegInv, InFlight, TypeOK, CallsOK
  <2>4. QED BY <1>3, <2>1, <2>2, <2>3
<1>12. CASE TerminateAnswered(c) \/ StatusAnswered(c)
  <2>1. Fields
    BY <1>12, NullValues DEF TerminateAnswered, Clear, StatusAnswered, TypeOK, ClientOK, CallsOK, client
  <2>2. Waits
    BY <1>12, ReturnType DEF TerminateAnswered, Clear, StatusAnswered, Results
  <2>3. LegInv'
    BY <1>1, <1>12 DEF TerminateAnswered, Clear, StatusAnswered, Return, Settle, LegInv,
                       InFlight, TypeOK, CallsOK
  <2>4. QED BY <1>3, <2>1, <2>2, <2>3
<1>13. QED
  BY <1>4, <1>5, <1>6, <1>8, <1>9, <1>10, <1>11, <1>12 DEF Continue

LEMMA NetworkFailsTypeOK ==
  ASSUME TypeOK, LegInv, NEW c \in Calls, NetworkFails(c)
  PROVE  TypeOK' /\ LegInv'
<1>1. InFlight(c) /\ UNCHANGED <<server, op, ran>>
  BY DEF NetworkFails
<1>2. ClientOK' /\ rotations' \in [Calls -> Nat]
  BY NullValues DEF NetworkFails, HandshakeThrows, Clear, TypeOK, ClientOK, CallsOK, client
<1>3. /\ pc' \in [Calls -> PcValues] /\ msg' \in [Calls -> Msg]
      /\ resp' \in [Calls -> Resp] /\ result' \in [Calls -> Results]
  <2>1. CASE msg[c].leg = "handshake" /\ HandshakeThrows(c, "error")
    BY <2>1, SettleType DEF HandshakeThrows, PcValues, Results, TypeOK, CallsOK
  <2>2. CASE \E r \in {"error", "false", "ok"} : Return(c, r)
    BY <2>2, ReturnType DEF Results
  <2>3. QED BY <2>1, <2>2 DEF NetworkFails, Clear
<1>4. LegInv'
  <2>1. CASE msg[c].leg = "handshake" /\ HandshakeThrows(c, "error")
    BY <1>1, <2>1 DEF HandshakeThrows, Settle, LegInv, InFlight, TypeOK, CallsOK
  <2>2. CASE \E r \in {"error", "false", "ok"} : Return(c, r)
    BY <1>1, <2>2 DEF Return, Settle, LegInv, InFlight, TypeOK, CallsOK
  <2>3. QED BY <2>1, <2>2 DEF NetworkFails, Clear
<1>5. QED BY <1>1, <1>2, <1>3, <1>4 DEF TypeOK, ServerOK, CallsOK, server

LEMMA CallTypeOK ==
  ASSUME TypeOK, LegInv, NEW c \in Calls, NEW o \in Ops, Call(c, o)
  PROVE  TypeOK' /\ LegInv'
<1>1. /\ pc[c] = "idle" /\ op' = [op EXCEPT ![c] = o]
      /\ UNCHANGED <<client, server, ran, rotations>>
  BY DEF Call
<1>2. o \in Legs
  BY OpsAssumption DEF Legs
<1>3. CASE Guard(o) /\ SendRequest(c, Request(o))
  <2>1. /\ pc' \in [Calls -> PcValues] /\ msg' \in [Calls -> Msg]
        /\ resp' \in [Calls -> Resp] /\ result' \in [Calls -> Results]
    BY <1>2, <1>3, SendRequestType, RequestType
  <2>2. LegInv'
    BY <1>1, <1>2, <1>3, RequestType DEF SendRequest, LegInv, InFlight, TypeOK, CallsOK
  <2>3. QED BY <1>1, <2>1, <2>2 DEF TypeOK, ClientOK, ServerOK, CallsOK, client, server
<1>4. CASE ~Guard(o) /\ Return(c, GuardFails(o))
  <2>1. GuardFails(o) \in Results
    BY <1>4, OpsAssumption DEF GuardFails, Guard, Results
  <2>2. /\ pc' \in [Calls -> PcValues] /\ msg' \in [Calls -> Msg]
        /\ resp' \in [Calls -> Resp] /\ result' \in [Calls -> Results]
    BY <1>4, <2>1, ReturnType
  <2>3. LegInv'
    BY <1>1, <1>4 DEF Return, Settle, LegInv, InFlight, TypeOK, CallsOK
  <2>4. QED BY <1>1, <2>2, <2>3 DEF TypeOK, ClientOK, ServerOK, CallsOK, client, server
<1>5. QED BY <1>3, <1>4 DEF Call

LEMMA FetchRetriesTypeOK ==
  ASSUME TypeOK, LegInv, NEW c \in Calls, FetchRetries(c)
  PROVE  TypeOK' /\ LegInv'
<1>1. /\ pc[c] = "rotated" /\ op[c] = "fetch" /\ op[c] \in Ops
      /\ rotating' = FALSE
      /\ UNCHANGED <<sessionId, keys, psk, ticket, server, op, ran, rotations>>
  BY DEF FetchRetries, LegInv, TypeOK, CallsOK
<1>2. CASE Guard("fetch") /\ SendRequest(c, Request("fetch"))
  <2>1. /\ pc' \in [Calls -> PcValues] /\ msg' \in [Calls -> Msg]
        /\ resp' \in [Calls -> Resp] /\ result' \in [Calls -> Results]
    BY <1>2, SendRequestType, RequestType DEF Legs
  <2>2. LegInv'
    BY <1>1, <1>2, RequestType DEF SendRequest, LegInv, InFlight, TypeOK, CallsOK, Legs
  <2>3. QED BY <1>1, <2>1, <2>2 DEF TypeOK, ClientOK, ServerOK, CallsOK, server
<1>3. CASE ~Guard("fetch") /\ Return(c, "not initialized")
  <2>1. /\ pc' \in [Calls -> PcValues] /\ msg' \in [Calls -> Msg]
        /\ resp' \in [Calls -> Resp] /\ result' \in [Calls -> Results]
    BY <1>3, ReturnType DEF Results
  <2>2. LegInv'
    BY <1>1, <1>3 DEF Return, Settle, LegInv, InFlight, TypeOK, CallsOK
  <2>3. QED BY <1>1, <2>1, <2>2 DEF TypeOK, ClientOK, ServerOK, CallsOK, server
<1>4. QED BY <1>2, <1>3 DEF FetchRetries

LEMMA NextTypeOK == TypeOK /\ LegInv /\ [Next]_vars => TypeOK' /\ LegInv'
<1> SUFFICES ASSUME TypeOK, LegInv, [Next]_vars PROVE TypeOK' /\ LegInv'
  OBVIOUS
<1>1. ASSUME NEW c \in Calls, NEW o \in Ops, Call(c, o) PROVE TypeOK' /\ LegInv'
  BY <1>1, CallTypeOK
<1>2. ASSUME NEW c \in Calls, Step(c) PROVE TypeOK' /\ LegInv'
  <2>1. CASE FetchUnwinds(c)
    BY <2>1 DEF FetchUnwinds, TypeOK, ClientOK, ServerOK, CallsOK, server, PcValues,
                LegInv, InFlight
  <2>2. QED
    BY <1>2, <2>1, ServeTypeOK, ContinueTypeOK, NetworkFailsTypeOK, FetchRetriesTypeOK
       DEF Step
<1>3. ASSUME NEW s \in Sids, Expire(s) PROVE TypeOK' /\ LegInv'
  BY <1>3, NullValues DEF Expire, TypeOK, ClientOK, ServerOK, CallsOK, client, LegInv, InFlight
<1>4. CASE Restart
  BY <1>4, NullValues DEF Restart, TypeOK, ClientOK, ServerOK, CallsOK, client, LegInv, InFlight
<1>5. CASE UNCHANGED vars
  BY <1>5 DEF vars, TypeOK, ClientOK, ServerOK, CallsOK, client, server, LegInv, InFlight
<1>6. QED BY <1>1, <1>2, <1>3, <1>4, <1>5 DEF Next

\* The client's fields, the server's and the calls keep their types, and every
\* answer is read by the code that waits for it.
THEOREM TypeCorrect == Spec => [](TypeOK /\ LegInv)
  BY InitTypeOK, NextTypeOK, PTL DEF Spec

-----------------------------------------------------------------------------
(***************************************************************************)
(* The handler runs at most once.                                          *)
(***************************************************************************)

LEMMA NextHandler ==
  TypeOK /\ LegInv /\ HandlerInv /\ [Next]_vars => HandlerInv'
<1> SUFFICES ASSUME TypeOK, LegInv, HandlerInv, [Next]_vars PROVE HandlerInv'
  OBVIOUS
<1> USE DEF TypeOK, CallsOK, HandlerInv
<1>1. ASSUME NEW c \in Calls, NEW o \in Ops, Call(c, o) PROVE HandlerInv'
  BY <1>1 DEF Call, SendRequest, Return, Settle
<1>2. ASSUME NEW c \in Calls, Serve(c) PROVE HandlerInv'
  <2>1. /\ pc[c] = "out" /\ pc' = [pc EXCEPT ![c] = "in"] /\ msg' = msg
        /\ resp' \in [Calls -> Resp]
    BY <1>2, ServeChanges DEF Serve
  <2>2. \A d \in Calls : d # c => ran'[d] = ran[d] /\ resp'[d] = resp[d]
    BY <1>2 DEF Serve, ServeFetch, ServeRekey, ServeHandshake, ServeResume, ServeTerminate,
                ServeStatus, Respond, Establish
  <2>3. ran[c] = 0
    BY <2>1
  <2>4. ran'[c] = 1 => msg[c].leg = "fetch" /\ resp'[c].status # "401"
    <3>1. CASE msg[c].leg = "fetch" /\ ServeFetch(c)
      <4>1. CASE Authentic(msg[c])
        <5>1. PICK r : Respond(c, r) /\ r.status # "401"
          <6>1. \/ Respond(c, [Refusal("200") EXCEPT !.key = live[msg[c].sid]])
                \/ Respond(c, Refusal("500"))
            BY <3>1, <4>1 DEF ServeFetch
          <6>2. /\ [Refusal("200") EXCEPT !.key = live[msg[c].sid]].status # "401"
                /\ Refusal("500").status # "401"
            BY RefusalFields
          <6>3. QED BY <6>1, <6>2
        <5>2. QED BY <3>1, <5>1 DEF Respond
      <4>2. CASE ~Authentic(msg[c])
        BY <2>3, <3>1, <4>2 DEF ServeFetch
      <4>3. QED BY <4>1, <4>2
    <3>2. CASE ~(msg[c].leg = "fetch")
      BY <1>2, <2>3, <3>2 DEF Serve, ServeRekey, ServeHandshake, ServeResume,
                              ServeTerminate, ServeStatus
    <3>3. QED BY <1>2, <3>1, <3>2 DEF Serve
  <2>5. ran'[c] \in {0, 1}
    BY <1>2, <2>3 DEF Serve, ServeFetch, ServeRekey, ServeHandshake, ServeResume,
                      ServeTerminate, ServeStatus
  <2>6. QED BY <2>1, <2>2, <2>4, <2>5
<1>3. ASSUME NEW c \in Calls, Continue(c) PROVE HandlerInv'
  <2>1. pc[c] = "in" /\ ran' = ran
    BY <1>3 DEF Continue
  <2>2. \A d \in Calls : d # c => pc'[d] = pc[d] /\ msg'[d] = msg[d] /\ resp'[d] = resp[d]
    BY <1>3 DEF Continue, FetchAnswered, FetchRotates, HandshakeInstalls, HandshakeUnverified,
                HandshakeRefused, HandshakeThrows, RekeyAccepted, RekeyRotates, ResumeAnswered,
                TerminateAnswered, Clear, StatusAnswered, Return, Settle, SendRequest
  <2>3. ran[c] = 1 => FetchAnswered(c)
    BY <1>3, <2>1 DEF Continue, FetchRotates, HandshakeInstalls, HandshakeUnverified,
                HandshakeRefused, RekeyAccepted, RekeyRotates, ResumeAnswered,
                TerminateAnswered, StatusAnswered
  <2>4. ran[c] = 1 => pc'[c] = "done"
    BY <2>3 DEF FetchAnswered, Return, Settle
  <2>5. QED BY <2>1, <2>2, <2>4
<1>4. ASSUME NEW c \in Calls, FetchRetries(c) PROVE HandlerInv'
  BY <1>4, ZenonT(60) DEF FetchRetries, SendRequest, Return, Settle
<1>5. ASSUME NEW c \in Calls, FetchUnwinds(c) PROVE HandlerInv'
  BY <1>5 DEF FetchUnwinds
<1>6. ASSUME NEW c \in Calls, NetworkFails(c) PROVE HandlerInv'
  BY <1>6 DEF NetworkFails, HandshakeThrows, Clear, Return, Settle, InFlight
<1>7. CASE (\E s \in Sids : Expire(s)) \/ Restart \/ UNCHANGED vars
  BY <1>7 DEF Expire, Restart, vars
<1>8. QED BY <1>1, <1>2, <1>3, <1>4, <1>5, <1>6, <1>7 DEF Next, Step

\* However the network loses requests and answers, sessions expire, servers
\* restart and other calls of the client interleave, one fetch makes the server
\* run the handler at most once, although it may rotate and be sent many times.
THEOREM HandlerRunsAtMostOnce == Spec => []HandlerAtMostOnce
<1>1. Init => HandlerInv
  BY DEF Init, HandlerInv
<1>2. HandlerInv => HandlerAtMostOnce
  BY DEF HandlerInv, HandlerAtMostOnce
<1>3. QED BY <1>1, <1>2, NextHandler, TypeCorrect, PTL DEF Spec

-----------------------------------------------------------------------------
(***************************************************************************)
(* The rotation flag.                                                      *)
(***************************************************************************)

\* A step of c in which it neither takes nor gives up the flag.
LEMMA FlagUndisturbed ==
  ASSUME FlagInv, NEW c \in Calls, rotating' = rotating,
         HoldsFlag(c)' <=> HoldsFlag(c),
         \A d \in Calls : d # c => (HoldsFlag(d)' <=> HoldsFlag(d))
  PROVE  FlagInv'
  BY DEF FlagInv

\* Calls other than the one that steps hold the flag if they held it.
LEMMA OthersHoldFlag ==
  ASSUME TypeOK, NEW c \in Calls, Step(c) \/ \E o \in Ops : Call(c, o)
  PROVE  \A d \in Calls : d # c => (HoldsFlag(d)' <=> HoldsFlag(d))
<1>1. \A d \in Calls : d # c => op'[d] = op[d] /\ pc'[d] = pc[d] /\ msg'[d] = msg[d]
  <2> USE DEF TypeOK, CallsOK
  <2>1. CASE \E o \in Ops : Call(c, o)
    BY <2>1 DEF Call, SendRequest, Return, Settle
  <2>2. CASE Serve(c)
    BY <2>2 DEF Serve, ServeFetch, ServeRekey, ServeHandshake, ServeResume, ServeTerminate,
                ServeStatus, Respond, Establish
  <2>3. CASE Continue(c)
    BY <2>3 DEF Continue, FetchAnswered, FetchRotates, HandshakeInstalls, HandshakeUnverified,
                HandshakeRefused, HandshakeThrows, RekeyAccepted, RekeyRotates, ResumeAnswered,
                TerminateAnswered, Clear, StatusAnswered, Return, Settle, SendRequest
  <2>4. CASE FetchRetries(c) \/ FetchUnwinds(c) \/ NetworkFails(c)
    BY <2>4 DEF FetchRetries, FetchUnwinds, NetworkFails, HandshakeThrows, Clear, Return,
                Settle, SendRequest
  <2>5. QED BY <2>1, <2>2, <2>3, <2>4 DEF Step
<1>2. QED BY <1>1 DEF HoldsFlag, InFlight

LEMMA NextFlag ==
  TypeOK /\ LegInv /\ FlagInv /\ [Next]_vars => FlagInv'
<1> SUFFICES ASSUME TypeOK, LegInv, FlagInv, [Next]_vars PROVE FlagInv'
  OBVIOUS
<1> USE DEF TypeOK, CallsOK, HoldsFlag, InFlight
<1>1. ASSUME NEW c \in Calls, NEW o \in Ops, Call(c, o) PROVE FlagInv'
  <2>1. ~HoldsFlag(c) /\ rotating' = rotating
    BY <1>1 DEF Call, client
  <2>2. CASE o = "handshake" \/ ~Guard(o)
    <3>1. ~HoldsFlag(c)'
      BY <1>1, <2>2 DEF Call, SendRequest, Return, Settle, Guard
    <3>2. QED BY <1>1, <2>1, <3>1, FlagUndisturbed, OthersHoldFlag
  <2>3. CASE o # "handshake" /\ Guard(o)
    <3>1. ~HoldsFlag(c)'
      BY <1>1, <2>3 DEF Call, SendRequest, Request
    <3>2. QED BY <1>1, <2>1, <3>1, FlagUndisturbed, OthersHoldFlag
  <2>4. QED BY <2>2, <2>3
<1>2. ASSUME NEW c \in Calls, Serve(c) PROVE FlagInv'
  <2>1. /\ rotating' = rotating /\ op' = op /\ msg' = msg
        /\ pc[c] = "out" /\ pc' = [pc EXCEPT ![c] = "in"]
    BY <1>2, ServeChanges DEF Serve, client
  <2>2. HoldsFlag(c)' <=> HoldsFlag(c)
    BY <2>1
  <2>3. QED BY <1>2, <2>1, <2>2, FlagUndisturbed, OthersHoldFlag DEF Step
<1>3. ASSUME NEW c \in Calls, FetchRotates(c), Continue(c) PROVE FlagInv'
  <2>1. ~rotating /\ rotating' = TRUE /\ op[c] = "fetch" /\ op' = op
    BY <1>3 DEF FetchRotates, Continue, LegInv
  <2>2. HoldsFlag(c)'
    BY <1>3, <2>1 DEF FetchRotates, SendRequest, Request
  <2>3. \A d \in Calls : d # c => ~HoldsFlag(d)'
    BY <1>3, <2>1, OthersHoldFlag DEF FlagInv, Step
  <2>4. QED BY <2>1, <2>2, <2>3 DEF FlagInv
<1>4. ASSUME NEW c \in Calls, Continue(c), ~FetchRotates(c) PROVE FlagInv'
  <2>1. rotating' = rotating /\ op' = op /\ pc[c] = "in"
    BY <1>4 DEF Continue, FetchAnswered, HandshakeInstalls, HandshakeUnverified,
                HandshakeRefused, HandshakeThrows, RekeyAccepted, RekeyRotates, ResumeAnswered,
                TerminateAnswered, Clear, StatusAnswered, client
  <2>2. HoldsFlag(c)' <=> HoldsFlag(c)
    <3>1. CASE op[c] # "fetch"
      BY <2>1, <3>1
    <3>2. CASE op[c] = "fetch" /\ msg[c].leg = "handshake"
      BY <1>4, <2>1, <3>2 DEF Continue, FetchAnswered, HandshakeInstalls, HandshakeUnverified,
                HandshakeRefused, HandshakeThrows, RekeyAccepted, RekeyRotates, ResumeAnswered,
                TerminateAnswered, StatusAnswered, Settle
    <3>3. CASE op[c] = "fetch" /\ msg[c].leg = "fetch"
      BY <1>4, <2>1, <3>3 DEF Continue, FetchAnswered, HandshakeInstalls, HandshakeUnverified,
                HandshakeRefused, RekeyAccepted, RekeyRotates, ResumeAnswered,
                TerminateAnswered, StatusAnswered, Return, Settle
    <3>4. QED BY <2>1, <3>1, <3>2, <3>3 DEF LegInv
  <2>3. QED BY <1>4, <2>1, <2>2, FlagUndisturbed, OthersHoldFlag DEF Step
<1>5. ASSUME NEW c \in Calls, FetchRetries(c) \/ FetchUnwinds(c) PROVE FlagInv'
  <2>1. rotating' = FALSE /\ HoldsFlag(c) /\ op' = op
    BY <1>5 DEF FetchRetries, FetchUnwinds, LegInv
  <2>2. ~HoldsFlag(c)'
    <3>1. CASE FetchRetries(c)
      <4>1. Request("fetch").leg = "fetch"
        BY DEF Request
      <4>2. QED BY <2>1, <3>1, <4>1 DEF FetchRetries, SendRequest, Return, Settle
    <3>2. CASE FetchUnwinds(c)
      BY <3>2 DEF FetchUnwinds
    <3>3. QED BY <1>5, <3>1, <3>2
  <2>3. \A d \in Calls : d # c => ~HoldsFlag(d)'
    BY <1>5, <2>1, OthersHoldFlag DEF FlagInv, Step
  <2>4. QED BY <2>1, <2>2, <2>3 DEF FlagInv
<1>6. ASSUME NEW c \in Calls, NetworkFails(c) PROVE FlagInv'
  <2>1. rotating' = rotating /\ op' = op
    BY <1>6 DEF NetworkFails, HandshakeThrows, Clear, client
  <2>2. HoldsFlag(c)' <=> HoldsFlag(c)
    BY <1>6, <2>1 DEF NetworkFails, HandshakeThrows, Clear, Return, Settle, LegInv
  <2>3. QED BY <1>6, <2>1, <2>2, FlagUndisturbed, OthersHoldFlag DEF Step
<1>7. CASE (\E s \in Sids : Expire(s)) \/ Restart \/ UNCHANGED vars
  BY <1>7 DEF Expire, Restart, vars, client, FlagInv
<1>8. QED BY <1>1, <1>2, <1>3, <1>4, <1>5, <1>6, <1>7 DEF Next, Step

\* The flag is set exactly while one fetch rotates: no failure leaks it, and no
\* other call of the client clears it.
THEOREM FlagFollowsRotation == Spec => []FlagHeldByRotation
<1>1. Init => FlagInv
  BY DEF Init, FlagInv, HoldsFlag, InFlight
<1>2. FlagInv => FlagHeldByRotation
  BY DEF FlagInv, HoldsFlag, FlagHeldByRotation
<1>3. QED BY <1>1, <1>2, NextFlag, TypeCorrect, PTL DEF Spec

-----------------------------------------------------------------------------
(***************************************************************************)
(* The keys and the session id.                                            *)
(***************************************************************************)

LEMMA NextKeysBelong ==
  TypeOK /\ ~IdentityFails /\ KeysBelongToSession /\ [Next]_vars => KeysBelongToSession'
<1> SUFFICES ASSUME TypeOK, ~IdentityFails, KeysBelongToSession, [Next]_vars
             PROVE  KeysBelongToSession'
  OBVIOUS
<1> USE DEF TypeOK, ClientOK, KeysBelongToSession
<1>1. ASSUME NEW c \in Calls, Continue(c) PROVE KeysBelongToSession'
  BY <1>1, RatchetKey
     DEF Continue, FetchAnswered, FetchRotates, HandshakeInstalls, HandshakeUnverified,
         HandshakeRefused, HandshakeThrows, RekeyAccepted, RekeyRotates, ResumeAnswered,
         TerminateAnswered, Clear, StatusAnswered, client
<1>2. ASSUME NEW c \in Calls, NetworkFails(c) PROVE KeysBelongToSession'
  BY <1>2 DEF NetworkFails, HandshakeThrows, Clear, client
<1>3. ASSUME NEW c \in Calls, FetchRetries(c) \/ FetchUnwinds(c) PROVE KeysBelongToSession'
  BY <1>3 DEF FetchRetries, FetchUnwinds
<1>4. CASE \/ \E c \in Calls : Serve(c) \/ \E o \in Ops : Call(c, o)
           \/ \E s \in Sids : Expire(s)
           \/ Restart
           \/ UNCHANGED vars
  BY <1>4 DEF Serve, Call, Expire, Restart, vars, client
<1>5. QED BY <1>1, <1>2, <1>3, <1>4 DEF Next, Step

\* As long as answers verify, the keys the client signs with belong to the session
\* it names, however its calls overlap.
THEOREM KeysFollowSession ==
  ASSUME IdentityFails = FALSE
  PROVE  Spec => []KeysBelongToSession
<1>1. Init => KeysBelongToSession
  BY DEF Init, KeysBelongToSession
<1>2. TypeOK /\ KeysBelongToSession /\ [Next]_vars => KeysBelongToSession'
  BY NextKeysBelong
<1>3. QED BY <1>1, <1>2, TypeCorrect, PTL DEF Spec

-----------------------------------------------------------------------------
(***************************************************************************)
(* An application that awaits each call before the next.                   *)
(***************************************************************************)

\* The step of one call is a step of the only busy one, and touches no other.
LEMMA StepAlone ==
  ASSUME TypeOK, OneBusy, NEW c \in Calls, Step(c)
  PROVE  /\ Busy(c)
         /\ \A d \in Calls : d # c =>
              /\ ~Busy(d) /\ ~Busy(d)' /\ result'[d] = result[d]
<1> USE DEF TypeOK, CallsOK
<1>1. Busy(c)
  BY DEF Step, Serve, Continue, FetchRetries, FetchUnwinds, NetworkFails, Busy, InFlight
<1>2. \A d \in Calls : d # c => pc'[d] = pc[d] /\ result'[d] = result[d]
  <2>1. CASE Serve(c)
    BY <2>1, ServeChanges DEF Serve, ServeFetch, ServeRekey, ServeHandshake, ServeResume,
                ServeTerminate, ServeStatus, Respond, Establish
  <2>2. CASE Continue(c)
    BY <2>2 DEF Continue, FetchAnswered, FetchRotates, HandshakeInstalls, HandshakeUnverified,
                HandshakeRefused, HandshakeThrows, RekeyAccepted, RekeyRotates, ResumeAnswered,
                TerminateAnswered, Clear, StatusAnswered, Return, Settle, SendRequest
  <2>3. CASE FetchRetries(c) \/ FetchUnwinds(c) \/ NetworkFails(c)
    BY <2>3 DEF FetchRetries, FetchUnwinds, NetworkFails, HandshakeThrows, Clear, Return,
                Settle, SendRequest
  <2>4. QED BY <2>1, <2>2, <2>3 DEF Step
<1>3. \A d \in Calls : d # c => ~Busy(d)
  BY <1>1 DEF OneBusy
<1>4. QED BY <1>1, <1>2, <1>3 DEF Busy, InFlight

\* It is enough to look at the call that steps.
LEMMA SerialByStep ==
  ASSUME TypeOK, SerialInv, NEW c \in Calls, Step(c),
         TicketMatchesPsk', RequestCurrent(c)', AnswerCurrent(c)', Transparent(c)'
  PROVE  SerialInv'
<1>1. OneBusy'
  BY StepAlone DEF SerialInv, OneBusy
<1>2. ASSUME NEW d \in Calls, d # c
      PROVE  RequestCurrent(d)' /\ AnswerCurrent(d)' /\ Transparent(d)'
  BY <1>2, StepAlone DEF SerialInv, Busy, InFlight, RequestCurrent, AnswerCurrent, Transparent
<1>3. QED BY <1>1, <1>2 DEF SerialInv

\* A call that is no longer in flight promises nothing.
LEMMA NotInFlight ==
  ASSUME NEW c \in Calls, pc'[c] \notin {"out", "in"}
  PROVE  RequestCurrent(c)' /\ AnswerCurrent(c)'
  BY DEF RequestCurrent, AnswerCurrent, InFlight

\* A request as a method makes it is current.
LEMMA SendRequestCurrent ==
  ASSUME TypeOK, TicketMatchesPsk, NEW c \in Calls, NEW l \in Legs, Guard(l),
         SendRequest(c, Request(l)), UNCHANGED <<sessionId, keys, psk, ticket>>
  PROVE  RequestCurrent(c)' /\ AnswerCurrent(c)' /\ (Transparent(c) => Transparent(c)')
<1>1. /\ pc'[c] = "out" /\ msg'[c] = Request(l) /\ result' = result
  BY DEF SendRequest, TypeOK, CallsOK
<1>2. /\ l \in {"fetch", "rekey"} =>
           Request(l).key = keys /\ keys # NoKey /\ Request(l).sid = sessionId
      /\ l = "resume" => Request(l).ticket.psk = psk
      /\ Request(l).leg = l
  BY DEF Request, Guard, TicketMatchesPsk
<1>3. QED BY <1>1, <1>2 DEF RequestCurrent, AnswerCurrent, InFlight, Transparent

LEMMA CallSerial ==
  ASSUME TypeOK, SerialInv, Serial, NEW c \in Calls, NEW o \in Ops, Call(c, o)
  PROVE  SerialInv'
<1> USE DEF TypeOK, CallsOK
<1>1. /\ pc[c] = "idle" /\ \A d \in Calls : ~Busy(d)
      /\ UNCHANGED client /\ o \in Legs
  BY OpsAssumption DEF Call, Legs
<1>2. \A d \in Calls : d # c => pc'[d] = pc[d] /\ result'[d] = result[d]
  BY DEF Call, SendRequest, Return, Settle
<1>3. OneBusy'
  BY <1>1, <1>2 DEF OneBusy, Busy, InFlight
<1>4. TicketMatchesPsk'
  BY <1>1 DEF SerialInv, TicketMatchesPsk, client
<1>5. ASSUME NEW d \in Calls, d # c
      PROVE  RequestCurrent(d)' /\ AnswerCurrent(d)' /\ Transparent(d)'
  BY <1>1, <1>2, <1>5 DEF SerialInv, Busy, InFlight, RequestCurrent, AnswerCurrent, Transparent
<1>6. RequestCurrent(c)' /\ AnswerCurrent(c)' /\ Transparent(c)'
  <2>1. CASE Guard(o) /\ SendRequest(c, Request(o))
    BY <1>1, <2>1, SendRequestCurrent DEF SerialInv, client
  <2>2. CASE ~Guard(o) /\ Return(c, GuardFails(o))
    <3>1. GuardFails(o) \notin {"raw401", "undecryptable"}
      BY <2>2, OpsAssumption DEF GuardFails, Guard
    <3>2. QED BY <2>2, <3>1, NotInFlight DEF Return, Settle, Transparent
  <2>3. QED BY <2>1, <2>2 DEF Call
<1>7. QED BY <1>3, <1>4, <1>5, <1>6 DEF SerialInv

LEMMA ServeSerial ==
  ASSUME TypeOK, LegInv, SerialInv, NEW c \in Calls, Serve(c)
  PROVE  SerialInv'
<1>1. /\ UNCHANGED client /\ msg' = msg /\ result' = result
      /\ pc[c] = "out" /\ pc' = [pc EXCEPT ![c] = "in"] /\ c \in DOMAIN resp
  BY ServeChanges DEF Serve, TypeOK, CallsOK
<1>2. TicketMatchesPsk' /\ RequestCurrent(c)' /\ Transparent(c)'
  BY <1>1 DEF SerialInv, TicketMatchesPsk, RequestCurrent, Transparent, InFlight, client
<1>3. AnswerCurrent(c)'
  <2>1. CASE msg[c].leg = "fetch"
    <3>1. ASSUME resp'[c].status = "200" PROVE resp'[c].key = keys
      <4>1. Authentic(msg[c]) /\ live[msg[c].sid] = keys
        <5>1. ServeFetch(c)
          BY <2>1 DEF Serve
        <5>2. Authentic(msg[c])
          <6>1. ~Authentic(msg[c]) => resp'[c] = Refusal("401")
            BY <1>1, <5>1 DEF ServeFetch, Respond
          <6>2. QED BY <3>1, <6>1, RefusalFields
        <5>3. QED BY <1>1, <2>1, <5>2 DEF Authentic, SerialInv, RequestCurrent, InFlight
      <4>2. resp'[c] \in {[Refusal("200") EXCEPT !.key = keys], Refusal("500")}
        BY <1>1, <2>1, <4>1 DEF Serve, ServeFetch, Respond
      <4>3. /\ [Refusal("200") EXCEPT !.key = keys].key = keys
            /\ Refusal("500").status = "500"
        BY RefusalFields
      <4>4. QED BY <3>1, <4>2, <4>3
    <3>2. QED BY <1>1, <2>1, <3>1 DEF AnswerCurrent, client
  <2>2. CASE msg[c].leg = "handshake"
    <3>1. CASE \E s \in Sids : Establish(c, s, s)
      <4>1. PICK s \in Sids : resp'[c] = [status |-> "200", sid |-> s, key |-> NoKey,
                                          ticket |-> [psk |-> s, gen |-> gen]]
        BY <1>1, <3>1 DEF Establish, Respond
      <4>2. QED BY <1>1, <2>2, <4>1 DEF AnswerCurrent
    <3>2. CASE Respond(c, Refusal("500"))
      BY <1>1, <3>2, RefusalFields DEF Respond, AnswerCurrent
    <3>3. QED BY <2>2, <3>1, <3>2 DEF Serve, ServeHandshake
  <2>3. CASE msg[c].leg = "resume"
    <3>1. msg[c].ticket.psk = psk
      BY <1>1, <2>3 DEF SerialInv, RequestCurrent, InFlight
    <3>2. CASE \E s \in Sids : Establish(c, s, psk)
      <4>1. PICK s \in Sids : resp'[c] = [status |-> "200", sid |-> s, key |-> NoKey,
                                          ticket |-> [psk |-> psk, gen |-> gen]]
        BY <1>1, <3>2 DEF Establish, Respond
      <4>2. QED BY <1>1, <2>3, <4>1 DEF AnswerCurrent, client
    <3>3. CASE Respond(c, Refusal("409"))
      BY <1>1, <3>3, RefusalFields DEF Respond, AnswerCurrent
    <3>4. QED BY <2>3, <3>1, <3>2, <3>3 DEF Serve, ServeResume
  <2>4. CASE msg[c].leg \notin {"fetch", "handshake", "resume"}
    BY <1>1, <2>4 DEF AnswerCurrent
  <2>5. QED BY <2>1, <2>2, <2>3, <2>4
<1>4. QED BY <1>2, <1>3, SerialByStep DEF Step

\* Sequential calls find the flag free: a fetch that is refused always rotates.
LEMMA RefusedFetchRotates ==
  ASSUME TypeOK, FlagInv, OneBusy, NEW c \in Calls, pc[c] = "in", msg[c].leg = "fetch"
  PROVE  ~rotating
<1>1. \A d \in Calls : HoldsFlag(d) => d = c
  BY DEF HoldsFlag, OneBusy, Busy, InFlight
<1>2. ~HoldsFlag(c)
  BY DEF HoldsFlag, InFlight
<1>3. QED BY <1>1, <1>2 DEF FlagInv

LEMMA ContinueSerial ==
  ASSUME TypeOK, LegInv, FlagInv, SerialInv, NEW c \in Calls, Continue(c)
  PROVE  SerialInv'
<1> USE DEF TypeOK, CallsOK
<1>1. /\ pc[c] = "in" /\ RequestCurrent(c) /\ AnswerCurrent(c) /\ Transparent(c)
      /\ TicketMatchesPsk
  BY DEF Continue, SerialInv
<1>2. SUFFICES TicketMatchesPsk' /\ RequestCurrent(c)' /\ AnswerCurrent(c)' /\ Transparent(c)'
  BY SerialByStep DEF Step
<1>3. CASE FetchAnswered(c)
  <2>1. TicketMatchesPsk'
    BY <1>1, <1>3 DEF FetchAnswered, TicketMatchesPsk, client
  <2>2. pc'[c] = "done" /\ result'[c] \in {"ok", "raw"}
    BY <1>1, <1>3, RefusedFetchRotates
       DEF FetchAnswered, AnswerCurrent, Return, Settle, SerialInv
  <2>3. QED BY <2>1, <2>2, NotInFlight DEF Transparent
<1>4. CASE FetchRotates(c)
  <2>1. TicketMatchesPsk'
    BY <1>1, <1>4 DEF FetchRotates, TicketMatchesPsk
  <2>2. Guard("handshake") /\ "handshake" \in Legs
    BY DEF Guard, Legs
  <2>3. QED BY <1>1, <1>4, <2>1, <2>2, SendRequestCurrent DEF FetchRotates
<1>5. CASE HandshakeInstalls(c)
  <2>1. TicketMatchesPsk'
    BY <1>1, <1>5 DEF HandshakeInstalls, TicketMatchesPsk, AnswerCurrent
  <2>2. pc'[c] \in {"rotated", "done"} /\ result'[c] \in {result[c], "ok"}
    BY <1>5 DEF HandshakeInstalls, Return, Settle
  <2>3. QED BY <1>1, <2>1, <2>2, NotInFlight DEF Transparent
<1>6. CASE HandshakeUnverified(c) \/ HandshakeRefused(c)
  <2>1. TicketMatchesPsk'
    BY <1>1, <1>6 DEF HandshakeUnverified, HandshakeRefused, HandshakeThrows, TicketMatchesPsk
  <2>2. pc'[c] \in {"unwinding", "done"} /\ result'[c] \in {"unverified", "error"}
    BY <1>6 DEF HandshakeUnverified, HandshakeRefused, HandshakeThrows, Settle
  <2>3. QED BY <2>1, <2>2, NotInFlight DEF Transparent
<1>7. CASE RekeyAccepted(c) \/ ResumeAnswered(c) \/ TerminateAnswered(c) \/ StatusAnswered(c)
  <2>1. TicketMatchesPsk'
    BY <1>1, <1>7 DEF RekeyAccepted, ResumeAnswered, TerminateAnswered, Clear, StatusAnswered,
                      TicketMatchesPsk, AnswerCurrent, client
  <2>2. pc'[c] = "done" /\ result'[c] \in {"error", "ok", "true", "false"}
    BY <1>7 DEF RekeyAccepted, ResumeAnswered, TerminateAnswered, Clear, StatusAnswered,
                Return, Settle
  <2>3. QED BY <2>1, <2>2, NotInFlight DEF Transparent
<1>8. CASE RekeyRotates(c)
  <2>1. TicketMatchesPsk'
    BY <1>1, <1>8 DEF RekeyRotates, TicketMatchesPsk, client
  <2>2. Guard("handshake") /\ "handshake" \in Legs
    BY DEF Guard, Legs
  <2>3. QED BY <1>1, <1>8, <2>1, <2>2, SendRequestCurrent DEF RekeyRotates, client
<1>9. QED BY <1>3, <1>4, <1>5, <1>6, <1>7, <1>8 DEF Continue

LEMMA NextSerial ==
  Serial /\ TypeOK /\ LegInv /\ FlagInv /\ SerialInv /\ [Next]_vars => SerialInv'
<1> SUFFICES ASSUME Serial, TypeOK, LegInv, FlagInv, SerialInv, [Next]_vars
             PROVE  SerialInv'
  OBVIOUS
<1> USE DEF TypeOK, CallsOK
<1>1. ASSUME NEW c \in Calls, FetchRetries(c) PROVE SerialInv'
  <2>1. TicketMatchesPsk' /\ Transparent(c)
    BY <1>1 DEF FetchRetries, SerialInv, TicketMatchesPsk
  <2>2. CASE Guard("fetch") /\ SendRequest(c, Request("fetch"))
    <3>1. RequestCurrent(c)' /\ AnswerCurrent(c)' /\ (Transparent(c) => Transparent(c)')
      BY <1>1, <2>2, SendRequestCurrent DEF FetchRetries, SerialInv, Legs
    <3>2. QED BY <1>1, <2>1, <3>1, SerialByStep DEF Step
  <2>3. CASE Return(c, "not initialized")
    <3>1. pc'[c] = "done" /\ result'[c] = "not initialized"
      BY <2>3 DEF Return, Settle
    <3>2. QED BY <1>1, <2>1, <3>1, NotInFlight, SerialByStep DEF Step, Transparent
  <2>4. QED BY <1>1, <2>2, <2>3 DEF FetchRetries
<1>2. ASSUME NEW c \in Calls, FetchUnwinds(c) PROVE SerialInv'
  <2>1. TicketMatchesPsk' /\ Transparent(c)' /\ pc'[c] = "done"
    BY <1>2 DEF FetchUnwinds, SerialInv, TicketMatchesPsk, Transparent
  <2>2. QED BY <1>2, <2>1, NotInFlight, SerialByStep DEF Step
<1>3. ASSUME NEW c \in Calls, NetworkFails(c) PROVE SerialInv'
  <2>1. TicketMatchesPsk'
    BY <1>3 DEF NetworkFails, HandshakeThrows, Clear, SerialInv, TicketMatchesPsk, client
  <2>2. pc'[c] \in {"unwinding", "done"} /\ result'[c] \in {"error", "false", "ok"}
    BY <1>3 DEF NetworkFails, HandshakeThrows, Clear, Return, Settle
  <2>3. QED BY <1>3, <2>1, <2>2, NotInFlight, SerialByStep DEF Step, Transparent
<1>4. CASE (\E s \in Sids : Expire(s)) \/ Restart \/ UNCHANGED vars
  BY <1>4 DEF Expire, Restart, vars, client, SerialInv, OneBusy, Busy, InFlight,
              TicketMatchesPsk, RequestCurrent, AnswerCurrent, Transparent
<1>5. QED BY <1>1, <1>2, <1>3, <1>4, CallSerial, ServeSerial, ContinueSerial DEF Next, Step

LEMMA SerialCorrect ==
  ASSUME Serial = TRUE
  PROVE  Spec => []SerialInv
<1>1. Init => SerialInv /\ FlagInv
  BY NullValues DEF Init, SerialInv, OneBusy, Busy, InFlight, TicketMatchesPsk, RequestCurrent,
         AnswerCurrent, Transparent, FlagInv, HoldsFlag
<1>2. TypeOK /\ LegInv /\ FlagInv /\ SerialInv /\ [Next]_vars => SerialInv'
  BY NextSerial
<1>3. QED BY <1>1, <1>2, NextFlag, TypeCorrect, PTL DEF Spec

\* If calls are awaited, no fetch surfaces a 401 or an answer it cannot decrypt,
\* whatever expires, restarts or is lost and however wrong answers to handshakes
\* may be.
THEOREM SequentialFetchTransparent ==
  ASSUME Serial = TRUE
  PROVE  Spec => []FetchTransparent
<1>1. SerialInv => FetchTransparent
  BY DEF SerialInv, Transparent, FetchTransparent
<1>2. Spec => []SerialInv
  BY SerialCorrect
<1>3. QED BY <1>1, <1>2, PTL

\* If calls are awaited, the ticket always seals the psk the client would derive
\* the resumed keys from.
THEOREM SequentialTicketMatchesPsk ==
  ASSUME Serial = TRUE
  PROVE  Spec => []TicketMatchesPsk
<1>1. SerialInv => TicketMatchesPsk
  BY DEF SerialInv
<1>2. Spec => []SerialInv
  BY SerialCorrect
<1>3. QED BY <1>1, <1>2, PTL

-----------------------------------------------------------------------------
(***************************************************************************)
(* The keys of the two sides.                                              *)
(***************************************************************************)

\* What a handshake or a resume leaves at the server: the new session, which
\* is not the one the client has keys of, and its answer.
LEMMA EstablishAgrees ==
  ASSUME TypeOK, AgreeInv, NEW c \in Calls, NEW s \in Sids, NEW q \in Sid,
         Establish(c, s, q), UNCHANGED client
  PROVE  /\ \A t \in Sids : live'[t] # NoKey => live'[t].s = t
         /\ keys # NoKey => keys.s \in issued' /\ live'[keys.s] = live[keys.s]
         /\ resp'[c].sid = s /\ s \in issued'
         /\ live'[s] = [s |-> s, src |-> q, e |-> 0]
<1>1. /\ s \notin issued /\ issued' = issued \cup {s}
      /\ live' = [live EXCEPT ![s] = [s |-> s, src |-> q, e |-> 0]]
      /\ resp'[c].sid = s
  BY DEF Establish, Respond, TypeOK, CallsOK
<1>2. \A t \in Sids : live'[t] # NoKey => live'[t].s = t
  BY <1>1 DEF TypeOK, ServerOK, AgreeInv
<1>3. keys # NoKey => keys.s \in issued' /\ live'[keys.s] = live[keys.s]
  BY <1>1 DEF TypeOK, ServerOK, AgreeInv
<1>4. QED BY <1>1, <1>2, <1>3 DEF TypeOK, ServerOK

LEMMA AgreeByStep ==
  ASSUME TypeOK, SerialInv, AgreeInv, NEW c \in Calls, Step(c),
         \A s \in Sids : live'[s] # NoKey => live'[s].s = s,
         keys' # NoKey => keys'.s \in issued' /\ InStep(keys)',
         AnswerInStep(c)'
  PROVE  AgreeInv'
<1>1. ASSUME NEW d \in Calls, d # c PROVE AnswerInStep(d)'
  BY <1>1, StepAlone DEF SerialInv, Busy, InFlight, AnswerInStep
<1>2. QED BY <1>1 DEF AgreeInv

LEMMA ServeAgrees ==
  ASSUME TypeOK, LegInv, SerialInv, AgreeInv, NEW c \in Calls, Serve(c)
  PROVE  AgreeInv'
<1> USE DEF TypeOK, ServerOK
<1>1. /\ UNCHANGED client /\ keys' = keys /\ psk' = psk /\ msg' = msg
      /\ pc[c] = "out" /\ pc' = [pc EXCEPT ![c] = "in"] /\ c \in DOMAIN resp
      /\ keys \in Key /\ RequestCurrent(c) /\ msg[c].leg \in Legs
      /\ msg[c].leg \notin {"handshake", "resume"} => msg[c].sid \in Sids
  BY ServeChanges DEF Serve, CallsOK, ClientOK, client, SerialInv, LegInv, InFlight, Msg
<1> DEFINE Goal ==
      /\ \A s \in Sids : live'[s] # NoKey => live'[s].s = s
      /\ keys # NoKey =>
           keys.s \in issued' /\ live'[keys.s] \in {NoKey, keys, Ratchet(keys)}
      /\ AnswerInStep(c)'
<1>2. SUFFICES Goal
  BY <1>1, AgreeByStep DEF Step, InStep
<1>3. CASE msg[c].leg \in {"fetch", "status"}
  <2>1. UNCHANGED <<live, issued>>
    BY <1>3 DEF Serve, ServeFetch, ServeStatus
  <2>2. QED BY <1>1, <1>3, <2>1 DEF AgreeInv, InStep, AnswerInStep
<1>4. CASE msg[c].leg = "rekey"
  <2>1. msg[c].key = keys /\ keys # NoKey
    BY <1>1, <1>4 DEF RequestCurrent, InFlight
  <2>2. CASE Authentic(msg[c])
    <3>1. live[msg[c].sid] = keys /\ msg[c].sid = keys.s
      BY <1>1, <1>4, <2>1, <2>2 DEF Authentic, AgreeInv
    <3>2. issued' = issued /\ live' = [live EXCEPT ![keys.s] = Ratchet(keys)]
      BY <1>4, <2>2, <3>1 DEF Serve, ServeRekey
    <3>3. Ratchet(keys).s = keys.s
      BY <1>1, RatchetKey
    <3>4. live'[keys.s] = Ratchet(keys)
      BY <1>1, <1>4, <3>1, <3>2
    <3>5. \A s \in Sids : live'[s] # NoKey => live'[s].s = s
      BY <3>2, <3>3 DEF AgreeInv
    <3>6. QED BY <1>1, <1>4, <2>1, <3>2, <3>4, <3>5 DEF AgreeInv, AnswerInStep
  <2>3. CASE ~Authentic(msg[c])
    <3>1. resp'[c] = Refusal("401") /\ UNCHANGED <<live, issued>>
      BY <1>1, <1>4, <2>3 DEF Serve, ServeRekey, Respond
    <3>2. resp'[c].status # "200"
      BY <3>1, RefusalFields
    <3>3. QED BY <3>1, <3>2 DEF AgreeInv, InStep, AnswerInStep
  <2>4. QED BY <2>2, <2>3
<1>5. CASE msg[c].leg = "handshake"
  <2>1. ASSUME NEW s \in Sids, Establish(c, s, s) PROVE Goal
    <3>1. s \in Sid
      BY DEF Sid
    <3>2. /\ \A t \in Sids : live'[t] # NoKey => live'[t].s = t
          /\ keys # NoKey => keys.s \in issued' /\ live'[keys.s] = live[keys.s]
          /\ resp'[c].sid = s /\ s \in issued'
          /\ live'[s] = [s |-> s, src |-> s, e |-> 0]
      BY <1>1, <2>1, <3>1, EstablishAgrees
    <3>3. AnswerInStep(c)'
      BY <1>1, <1>5, <3>2 DEF AnswerInStep
    <3>4. QED BY <3>2, <3>3 DEF AgreeInv, InStep
  <2>2. CASE Respond(c, Refusal("500")) /\ UNCHANGED <<live, issued>>
    BY <1>1, <2>2, RefusalFields DEF Respond, AgreeInv, InStep, AnswerInStep
  <2>3. QED BY <1>5, <2>1, <2>2 DEF Serve, ServeHandshake
<1>6. CASE msg[c].leg = "resume"
  <2>1. msg[c].ticket.psk = psk /\ psk \in Sid
    BY <1>1, <1>6 DEF RequestCurrent, InFlight, ClientOK
  <2>2. ASSUME NEW s \in Sids, Establish(c, s, psk) PROVE Goal
    <3>1. /\ \A t \in Sids : live'[t] # NoKey => live'[t].s = t
          /\ keys # NoKey => keys.s \in issued' /\ live'[keys.s] = live[keys.s]
          /\ resp'[c].sid = s /\ s \in issued'
          /\ live'[s] = [s |-> s, src |-> psk, e |-> 0]
      BY <1>1, <2>1, <2>2, EstablishAgrees
    <3>2. AnswerInStep(c)'
      BY <1>1, <1>6, <3>1 DEF AnswerInStep
    <3>3. QED BY <3>1, <3>2 DEF AgreeInv, InStep
  <2>3. CASE Respond(c, Refusal("409")) /\ UNCHANGED <<live, issued>>
    BY <1>1, <2>3, RefusalFields DEF Respond, AgreeInv, InStep, AnswerInStep
  <2>4. QED BY <1>6, <2>1, <2>2, <2>3 DEF Serve, ServeResume
<1>7. CASE msg[c].leg = "terminate"
  <2>1. live' = [live EXCEPT ![msg[c].sid] = NoKey] /\ issued' = issued
    BY <1>7 DEF Serve, ServeTerminate
  <2>2. QED BY <1>1, <1>7, <2>1 DEF AgreeInv, InStep, AnswerInStep
<1>8. QED
  BY <1>3, <1>4, <1>5, <1>6, <1>7 DEF Serve

LEMMA ContinueAgrees ==
  ASSUME TypeOK, SerialInv, AgreeInv, NEW c \in Calls, Continue(c)
  PROVE  AgreeInv'
<1> USE DEF TypeOK, CallsOK
<1>1. /\ pc[c] = "in" /\ UNCHANGED <<live, issued>> /\ AnswerInStep(c) /\ keys \in Key
  BY DEF Continue, server, AgreeInv, ClientOK
<1>2. AnswerInStep(c)'
  <2>1. pc'[c] # "in"
    BY <1>1 DEF Continue, FetchAnswered, FetchRotates, HandshakeInstalls, HandshakeUnverified,
                HandshakeRefused, HandshakeThrows, RekeyAccepted, RekeyRotates, ResumeAnswered,
                TerminateAnswered, Clear, StatusAnswered, Return, Settle, SendRequest
  <2>2. QED BY <2>1 DEF AnswerInStep
<1>3. SUFFICES keys' # NoKey => keys'.s \in issued /\ InStep(keys)'
  BY <1>1, <1>2, AgreeByStep DEF Step, AgreeInv
<1>4. CASE keys' = keys
  BY <1>1, <1>4 DEF AgreeInv, InStep
<1>5. CASE HandshakeInstalls(c) \/ (ResumeAnswered(c) /\ resp[c].status = "200")
  BY <1>1, <1>5 DEF HandshakeInstalls, ResumeAnswered, AnswerInStep, InStep
<1>6. CASE RekeyAccepted(c) /\ keys # NoKey
  <2>1. keys' = Ratchet(keys) /\ Ratchet(keys).s = keys.s
    BY <1>1, <1>6, RatchetKey DEF RekeyAccepted
  <2>2. live[keys.s] \in {NoKey, Ratchet(keys)}
    BY <1>1, <1>6 DEF RekeyAccepted, AnswerInStep
  <2>3. QED BY <1>1, <1>6, <2>1, <2>2 DEF AgreeInv, InStep
<1>7. CASE TerminateAnswered(c)
  BY <1>7 DEF TerminateAnswered, Clear
<1>8. QED
  BY <1>4, <1>5, <1>6, <1>7
     DEF Continue, FetchAnswered, FetchRotates, HandshakeUnverified, HandshakeRefused,
         HandshakeThrows, RekeyAccepted, RekeyRotates, ResumeAnswered, StatusAnswered, client

LEMMA NextAgree ==
  Serial /\ TypeOK /\ LegInv /\ SerialInv /\ AgreeInv /\ [Next]_vars => AgreeInv'
<1> SUFFICES ASSUME Serial, TypeOK, LegInv, SerialInv, AgreeInv, [Next]_vars
             PROVE  AgreeInv'
  OBVIOUS
<1> USE DEF TypeOK, ServerOK, CallsOK
<1>1. ASSUME NEW c \in Calls, NEW o \in Ops, Call(c, o) PROVE AgreeInv'
  <2>1. UNCHANGED <<keys, psk, live, issued>>
    BY <1>1 DEF Call, client, server
  <2>2. \A d \in Calls : pc'[d] = "in" => pc[d] = "in" /\ msg'[d] = msg[d] /\ resp'[d] = resp[d]
    BY <1>1 DEF Call, SendRequest, Return, Settle
  <2>3. QED BY <2>1, <2>2 DEF AgreeInv, InStep, AnswerInStep
<1>2. ASSUME NEW c \in Calls, FetchRetries(c) \/ FetchUnwinds(c) PROVE AgreeInv'
  <2>1. UNCHANGED <<keys, live, issued>> /\ pc'[c] # "in"
    BY <1>2 DEF FetchRetries, FetchUnwinds, SendRequest, Return, Settle, server
  <2>2. QED BY <1>2, <2>1, AgreeByStep DEF Step, AgreeInv, InStep, AnswerInStep
<1>3. ASSUME NEW c \in Calls, NetworkFails(c) PROVE AgreeInv'
  <2>1. UNCHANGED <<live, issued>> /\ keys' \in {keys, NoKey} /\ pc'[c] # "in"
    BY <1>3 DEF NetworkFails, HandshakeThrows, Clear, Return, Settle, server, client
  <2>2. QED BY <1>3, <2>1, AgreeByStep DEF Step, AgreeInv, InStep, AnswerInStep
<1>4. ASSUME NEW s \in Sids, Expire(s) \/ Restart PROVE AgreeInv'
  <2>1. /\ UNCHANGED <<keys, psk, issued, pc, msg, resp>>
        /\ \A t \in Sids : live'[t] \in {live[t], NoKey}
    BY <1>4 DEF Expire, Restart, client
  <2>2. ASSUME NEW c \in Calls PROVE AnswerInStep(c)'
    <3>1. pc[c] = "in" /\ msg[c].leg = "rekey" => keys.s \in Sids
      BY DEF SerialInv, RequestCurrent, InFlight, AgreeInv
    <3>2. QED BY <2>1, <3>1 DEF AgreeInv, AnswerInStep
  <2>3. QED BY <2>1, <2>2 DEF AgreeInv, InStep
<1>5. CASE UNCHANGED vars
  BY <1>5 DEF vars, client, server, AgreeInv, InStep, AnswerInStep
<1>6. CASE Restart /\ Sids = {}
  BY <1>6 DEF Restart, client, AgreeInv, InStep, AnswerInStep
<1>7. QED
  BY <1>1, <1>2, <1>3, <1>4, <1>5, <1>6, ServeAgrees, ContinueAgrees DEF Next, Step

\* If calls are awaited, the two sides agree on the keys of the session between
\* any two calls, or the server is ahead by the one ratchet whose answer was lost.
THEOREM SequentialKeysAgree ==
  ASSUME Serial = TRUE
  PROVE  Spec => []KeysAgree
<1>1. Init => AgreeInv
  BY DEF Init, AgreeInv, AnswerInStep
<1>2. TypeOK /\ LegInv /\ SerialInv /\ AgreeInv /\ [Next]_vars => AgreeInv'
  BY NextAgree
<1>3. AgreeInv => KeysAgree
  BY DEF AgreeInv, InStep, KeysAgree
<1>4. Spec => []SerialInv
  BY SerialCorrect
<1>5. QED BY <1>1, <1>2, <1>3, <1>4, TypeCorrect, PTL DEF Spec

=============================================================================
