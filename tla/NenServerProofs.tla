--------------------------- MODULE NenServerProofs ---------------------------
(***************************************************************************)
(* Proofs about NenServer, for any number of sessions, nonces and handler  *)
(* invocations, for both kinds of store.                                   *)
(***************************************************************************)
EXTENDS NenServer, TLAPS

-----------------------------------------------------------------------------
(***************************************************************************)
(* Type correctness.                                                       *)
(***************************************************************************)

\* The initial state is well typed.
LEMMA InitTypeOK == Init => TypeOK
  BY DEF Init, TypeOK, Keys, NoKeys, PcValues, Codes, NoRequest

\* What the two kinds of write leave behind is well typed: the shapes of
\* Stored and StoreNoAwait, used by every handler that writes.
LEMMA StoredType ==
  ASSUME TypeOK, NEW s \in Sids, NEW k \in Keys, Stored(s, k)
  PROVE  sess' \in [Sids -> Keys] /\ used' \in [Sids -> SUBSET Nonces]
  BY DEF TypeOK, Stored, NoncesAfterWrite

LEMMA StoreNoAwaitType ==
  ASSUME TypeOK, NEW s \in Sids, NEW k \in Keys, StoreNoAwait(s, k)
  PROVE  /\ sess' \in [Sids -> Keys]
         /\ used' \in [Sids -> SUBSET Nonces]
         /\ writes' \subseteq Write
<1>1. CASE Async
  BY <1>1 DEF TypeOK, StoreNoAwait, Write
<1>2. CASE ~Async
  BY <1>2, StoredType DEF TypeOK, StoreNoAwait
<1>3. QED BY <1>1, <1>2

\* Answering, refusing and suspending keep pc and reply well typed.
LEMMA AnswerType ==
  ASSUME TypeOK, NEW p \in Procs, NEW c \in Codes, NEW k \in Keys,
         Answer(p, c, k)
  PROVE  /\ pc' \in [Procs -> PcValues]
         /\ reply' \in [Procs -> [code : Codes, key : Keys]]
         /\ pc' = [pc EXCEPT ![p] = "done"]
  BY DEF TypeOK, Answer, PcValues

LEMMA RefuseType ==
  ASSUME TypeOK, NEW p \in Procs, NEW c \in Codes, Refuse(p, c)
  PROVE  /\ pc' \in [Procs -> PcValues]
         /\ reply' \in [Procs -> [code : Codes, key : Keys]]
         /\ pc' = [pc EXCEPT ![p] = "done"]
  BY AnswerType DEF Refuse, Keys, NoKeys

LEMMA GotoType ==
  ASSUME TypeOK, NEW p \in Procs, NEW l \in PcValues, Goto(p, l)
  PROVE  pc' \in [Procs -> PcValues]
  BY DEF TypeOK, Goto

LEMMA CodesUsed ==
  /\ \A r, k, w : Checked(r, k, w) \in Codes \/ ~(r \in Request)
  /\ \A r, k : BodyChecked(r, k) \in Codes \/ ~(r \in Request)
  BY MissingAssumption, BodiesAssumption
     DEF Checked, BodyChecked, Codes, Request

\* A step of a handler keeps the types.
LEMMA StepTypeOK ==
  ASSUME TypeOK, NEW p \in Procs, Step(p)
  PROVE  TypeOK'
<1> USE DEF TypeOK
<1>0. pc[p] # "idle" /\ req[p] \in Request /\ req[p].sid \in Sids
      /\ req[p].nonce \in Nonces
  <2>1. pc[p] # "idle"
    BY DEF Step, GetSession, HasNonce, TrackNonce, ReadBody, Handler, StoreRekey,
           AnswerRekey, StoreFault, RotateHandshake
  <2>2. QED BY <2>1 DEF Request
<1>1. CASE GetSession(p)
  <2>1. PICK w \in BOOLEAN :
          LET c == Checked(req[p], sess[req[p].sid], w)
          IN  IF c = "ok"
                THEN /\ Goto(p, "hasNonce")
                     /\ read' = [read EXCEPT ![p] = sess[req[p].sid]]
                     /\ UNCHANGED reply
                ELSE Refuse(p, c) /\ UNCHANGED read
    BY <1>1 DEF GetSession
  <2>2. pc' \in [Procs -> PcValues] /\ read' \in [Procs -> Keys]
        /\ reply' \in [Procs -> [code : Codes, key : Keys]]
    <3>1. CASE Checked(req[p], sess[req[p].sid], w) = "ok"
      BY <1>0, <2>1, <3>1, GotoType DEF PcValues, Waiting
    <3>2. CASE Checked(req[p], sess[req[p].sid], w) # "ok"
      BY <1>0, <2>1, <3>2, RefuseType, CodesUsed
    <3>3. QED BY <3>1, <3>2
  <2>3. \A q \in Procs : pc'[q] # "idle" => req'[q] \in Request
    BY <1>0, <1>1, <2>1 DEF GetSession, Goto, Refuse, Answer
  <2>4. QED BY <1>1, <2>2, <2>3 DEF GetSession, store
<1>2. CASE HasNonce(p)
  <2>1. pc' \in [Procs -> PcValues]
        /\ reply' \in [Procs -> [code : Codes, key : Keys]]
    <3>1. CASE req[p].nonce \in used[req[p].sid]
      BY <1>2, <3>1, RefuseType DEF HasNonce, Codes
    <3>2. CASE req[p].nonce \notin used[req[p].sid]
      BY <1>2, <3>2, GotoType DEF HasNonce, PcValues, Waiting
    <3>3. QED BY <3>1, <3>2
  <2>2. \A q \in Procs : pc'[q] # "idle" => req'[q] \in Request
    BY <1>0, <1>2 DEF HasNonce, Goto, Refuse, Answer
  <2>3. QED BY <1>2, <2>1, <2>2 DEF HasNonce, store
<1>3. CASE TrackNonce(p)
  <2>1. used' \in [Sids -> SUBSET Nonces]
    BY <1>0, <1>3 DEF TrackNonce, NoncesAfterTrack
  <2>2. pc' \in [Procs -> PcValues]
        /\ reply' \in [Procs -> [code : Codes, key : Keys]]
    BY <1>3, GotoType DEF TrackNonce, PcValues, Waiting
  <2>3. \A q \in Procs : pc'[q] # "idle" => req'[q] \in Request
    BY <1>0, <1>3 DEF TrackNonce, Goto
  <2>4. QED BY <1>3, <2>1, <2>2, <2>3 DEF TrackNonce
<1>10. CASE ReadBody(p)
  <2>1. pc' \in [Procs -> PcValues]
        /\ reply' \in [Procs -> [code : Codes, key : Keys]]
    <3> DEFINE b == BodyChecked(req[p], read[p])
    <3>1. CASE Goto(p, "handler") /\ UNCHANGED reply
      BY <3>1, GotoType DEF PcValues, Waiting
    <3>2. CASE Refuse(p, b) \/ Refuse(p, "ISO-9000")
      <4>1. b \in Codes /\ "ISO-9000" \in Codes
        BY <1>0, CodesUsed DEF Codes
      <4> HIDE DEF b
      <4>2. QED BY <3>2, <4>1, RefuseType
    <3>3. QED BY <1>10, <3>1, <3>2 DEF ReadBody
  <2>2. \A q \in Procs : pc'[q] # "idle" => req'[q] \in Request
    BY <1>0, <1>10 DEF ReadBody, Goto, Refuse, Answer
  <2>3. QED BY <1>10, <2>1, <2>2 DEF ReadBody, store
<1>4. CASE Handler(p)
  <2>1. pc' \in [Procs -> PcValues]
        /\ reply' \in [Procs -> [code : Codes, key : Keys]]
        /\ pc' = [pc EXCEPT ![p] = "done"]
    <3>1. CASE Answer(p, "ok", read[p])
      BY <3>1, AnswerType DEF Codes
    <3>2. CASE Refuse(p, "ISO-9000")
      BY <3>2, RefuseType DEF Codes
    <3>3. QED BY <1>4, <3>1, <3>2 DEF Handler
  <2>2. QED BY <1>0, <1>4, <2>1 DEF Handler, store
<1>5. CASE StoreRekey(p)
  <2>1. read[p] + 1 \in Keys
    BY DEF Keys, NoKeys
  <2>2. sess' \in [Sids -> Keys] /\ used' \in [Sids -> SUBSET Nonces]
    BY <1>0, <1>5, <2>1, StoredType DEF StoreRekey
  <2>3. pc' \in [Procs -> PcValues]
    BY <1>5, GotoType DEF StoreRekey, PcValues, Waiting
  <2>4. QED BY <1>0, <1>5, <2>2, <2>3 DEF StoreRekey, Goto
<1>6. CASE AnswerRekey(p)
  <2>1. pc' \in [Procs -> PcValues]
        /\ reply' \in [Procs -> [code : Codes, key : Keys]]
        /\ pc' = [pc EXCEPT ![p] = "done"]
    BY <1>6, AnswerType DEF AnswerRekey, Codes, Keys
  <2>2. QED BY <1>0, <1>6, <2>1 DEF AnswerRekey, store
<1>7. CASE StoreFault(p)
  <2>1. pc' \in [Procs -> PcValues]
        /\ reply' \in [Procs -> [code : Codes, key : Keys]]
        /\ pc' = [pc EXCEPT ![p] = "done"]
    BY <1>7, RefuseType DEF StoreFault, Codes
  <2>2. used' \in [Sids -> SUBSET Nonces] /\ writes' \subseteq Write
    <3>1. read[p] + 1 \in Keys
      BY DEF Keys, NoKeys
    <3>2. QED BY <1>0, <1>7, <3>1 DEF StoreFault, Write
  <2>3. QED BY <1>0, <1>7, <2>1, <2>2 DEF StoreFault
<1>8. CASE RotateHandshake(p)
  <2>1. CASE /\ Refuse(p, "ISO-1002")
             /\ UNCHANGED <<store, issued>>
    <3>1. pc' \in [Procs -> PcValues]
          /\ reply' \in [Procs -> [code : Codes, key : Keys]]
          /\ pc' = [pc EXCEPT ![p] = "done"]
      BY <2>1, RefuseType DEF Codes
    <3>2. QED BY <1>0, <1>8, <2>1, <3>1 DEF RotateHandshake, store
  <2>2. ASSUME NEW s \in Sids \ issued, issued' = issued \cup {s},
               StoreNoAwait(s, 0), Answer(p, "ok", NoKeys)
        PROVE  TypeOK'
    <3>1. pc' \in [Procs -> PcValues]
          /\ reply' \in [Procs -> [code : Codes, key : Keys]]
          /\ pc' = [pc EXCEPT ![p] = "done"]
      BY <2>2, AnswerType DEF Codes, Keys
    <3>2. /\ sess' \in [Sids -> Keys]
          /\ used' \in [Sids -> SUBSET Nonces]
          /\ writes' \subseteq Write
      BY <2>2, StoreNoAwaitType DEF Keys
    <3>3. QED BY <1>0, <1>8, <2>2, <3>1, <3>2 DEF RotateHandshake
  <2>3. QED BY <1>8, <2>1, <2>2 DEF RotateHandshake
<1>9. QED BY <1>1, <1>2, <1>3, <1>4, <1>5, <1>6, <1>7, <1>8, <1>10 DEF Step

\* A request a client can send is a request.
LEMMA SendableRequest == TypeOK => Sendable \subseteq Request
  BY DEF TypeOK, Sendable, Request

LEMMA ReceiveTypeOK ==
  ASSUME TypeOK, NEW p \in Procs, NEW r \in wire, Receive(p, r)
  PROVE  TypeOK'
<1> USE DEF TypeOK
<1>1. /\ r \in Request /\ r.sid \in Sids
      /\ req' = [req EXCEPT ![p] = r]
      /\ UNCHANGED <<issued, wire, ckey, read>>
  BY DEF Receive, Request
<1>2. \A q \in Procs : pc'[q] # "idle" => req'[q] \in Request
  <2>1. \A q \in Procs : q # p => pc'[q] = pc[q]
    BY DEF Receive, Status, Rotate, Authenticated, Answer, Refuse, Goto
  <2>2. QED BY <1>1, <2>1
<1>3. CASE Status(p, r)
  <2>1. /\ pc' \in [Procs -> PcValues]
        /\ reply' \in [Procs -> [code : Codes, key : Keys]]
    BY <1>3, AnswerType DEF Status, Codes, Keys
  <2>2. QED BY <1>1, <1>2, <1>3, <2>1 DEF Status, store
<1>4. CASE Rotate(p, r)
  <2>1. pc' \in [Procs -> PcValues]
    BY <1>4, GotoType DEF Rotate, PcValues, Waiting
  <2>2. /\ sess' \in [Sids -> Keys]
        /\ used' \in [Sids -> SUBSET Nonces]
        /\ writes' \subseteq Write
        /\ terminated' \subseteq Sids
    <3>1. CASE r.missing = "session"
      BY <1>4, <3>1 DEF Rotate, store
    <3>2. CASE r.missing # "session"
      BY <1>1, <1>4, <3>2, StoreNoAwaitType DEF Rotate, Keys
    <3>3. QED BY <3>1, <3>2
  <2>3. QED BY <1>1, <1>2, <1>4, <2>1, <2>2 DEF Rotate
<1>5. CASE Authenticated(p, r)
  <2>1. /\ pc' \in [Procs -> PcValues]
        /\ reply' \in [Procs -> [code : Codes, key : Keys]]
    <3>1. CASE r.missing = "session"
      BY <1>5, <3>1, RefuseType DEF Authenticated, Codes
    <3>2. CASE r.missing # "session"
      BY <1>5, <3>2, GotoType DEF Authenticated, PcValues, Waiting
    <3>3. QED BY <3>1, <3>2
  <2>2. QED BY <1>1, <1>2, <1>5, <2>1 DEF Authenticated, store
<1>6. QED BY <1>3, <1>4, <1>5 DEF Receive

\* Every step keeps the types.
LEMMA NextTypeOK == TypeOK /\ [Next]_vars => TypeOK'
<1> SUFFICES ASSUME TypeOK, [Next]_vars PROVE TypeOK'
  OBVIOUS
<1>1. ASSUME NEW r \in Sendable, Send(r) PROVE TypeOK'
  BY <1>1, SendableRequest DEF TypeOK, Send, procs
<1>2. ASSUME NEW s \in Sids, Handshake(s) PROVE TypeOK'
  BY <1>2, StoreNoAwaitType DEF TypeOK, Handshake, procs, Keys
<1>3. ASSUME NEW s \in Sids, Terminate(s) PROVE TypeOK'
  BY <1>3, StoreNoAwaitType DEF TypeOK, Terminate, procs, Keys
<1>4. ASSUME NEW s \in Sids, Expire(s) PROVE TypeOK'
  BY <1>4, StoredType DEF TypeOK, Expire, procs, Keys
<1>5. ASSUME NEW p \in Procs, Step(p) PROVE TypeOK'
  BY <1>5, StepTypeOK
<1>6. ASSUME NEW p \in Procs, ClientRatchet(p) PROVE TypeOK'
  BY <1>6 DEF TypeOK, ClientRatchet, store, Request, PcValues
<1>7. ASSUME NEW p \in Procs, NEW r \in wire, Receive(p, r) PROVE TypeOK'
  BY <1>7, ReceiveTypeOK
<1>8. ASSUME NEW w \in writes, Flush(w) PROVE TypeOK'
  <2>1. w.sid \in Sids /\ w.keys \in Keys
    BY DEF TypeOK, Write
  <2>2. QED BY <1>8, <2>1, StoredType DEF TypeOK, Flush, procs
<1>9. CASE Restart
  BY <1>9 DEF TypeOK, Restart, PcValues, Waiting, Keys
<1>10. CASE UNCHANGED vars
  BY <1>10 DEF TypeOK, vars
<1>11. QED
  BY <1>1, <1>2, <1>3, <1>4, <1>5, <1>6, <1>7, <1>8, <1>9, <1>10 DEF Next

\* The store, the handlers and the transport keep their types.
THEOREM TypeCorrect == Spec => []TypeOK
  BY InitTypeOK, NextTypeOK, PTL DEF Spec

-----------------------------------------------------------------------------
(***************************************************************************)
(* Authenticity of what runs, and readability of what is answered.         *)
(***************************************************************************)

\* A step that leaves every handler as it was, or stops it without an answer,
\* keeps AuthenticInv.
LEMMA AuthenticUndisturbed ==
  ASSUME AuthenticInv, UNCHANGED <<req, read, reply>>,
         \A p \in Procs : pc'[p] \in {pc[p], "over"}
  PROVE  AuthenticInv'
  BY DEF AuthenticInv, Verified, ResponseReadable

LEMMA StepAuthentic ==
  ASSUME TypeOK, AuthenticInv, NEW p \in Procs, Step(p)
  PROVE  AuthenticInv'
<1> USE DEF TypeOK, AuthenticInv, Verified, ResponseReadable
<1>1. CASE GetSession(p)
  <2>1. PICK w \in BOOLEAN :
          LET c == Checked(req[p], sess[req[p].sid], w)
          IN  IF c = "ok"
                THEN /\ Goto(p, "hasNonce")
                     /\ read' = [read EXCEPT ![p] = sess[req[p].sid]]
                     /\ UNCHANGED reply
                ELSE Refuse(p, c) /\ UNCHANGED read
    BY <1>1 DEF GetSession
  <2>2. req[p] \in Request /\ pc[p] = "get" /\ req' = req
    BY <1>1 DEF GetSession
  <2>3. CASE Checked(req[p], sess[req[p].sid], w) = "ok"
    <3>1. \/ req[p].missing = "nothing" /\ req[p].epoch = sess[req[p].sid]
          \/ req[p].missing = "signature" /\ ~SignatureRequired(req[p])
      BY <2>2, <2>3, MissingAssumption DEF Checked, Request
    <3>2. req[p].kind # "rekey" => req[p].kind = "fetch"
      BY <2>2
    <3>3. QED BY <2>1, <2>2, <2>3, <3>1, <3>2 DEF Goto, SignatureRequired
  <2>4. CASE Checked(req[p], sess[req[p].sid], w) # "ok"
    BY <2>1, <2>2, <2>4 DEF Refuse, Answer
  <2>5. QED BY <2>3, <2>4
<1>11. ASSUME NEW l \in {"track", "body", "handler", "store"}, Goto(p, l),
              Verified(p), pc[p] \in {"hasNonce", "track", "body"},
              req[p].kind \in {"fetch", "rekey"}, req[p].missing # "session",
              l \in {"body", "handler"} => req[p].kind = "fetch",
              l = "store" => req[p].kind = "rekey",
              UNCHANGED <<req, read, reply>>
       PROVE  AuthenticInv'
  <2>1. pc'[p] = l /\ \A q \in Procs : q # p => pc'[q] = pc[q]
    BY <1>11 DEF Goto
  <2>2. QED BY <1>11, <2>1
<1>12. ASSUME NEW c, Refuse(p, c), c # "ok", UNCHANGED <<req, read>>
       PROVE  AuthenticInv'
  <2>1. /\ pc'[p] = "done" /\ reply'[p].code = c
        /\ \A q \in Procs : q # p => pc'[q] = pc[q] /\ reply'[q] = reply[q]
    BY <1>12 DEF Refuse, Answer
  <2>2. QED BY <1>12, <2>1
<1>2. CASE HasNonce(p)
  BY <1>2, <1>11, <1>12 DEF HasNonce
<1>3. CASE TrackNonce(p)
  BY <1>3, <1>11 DEF TrackNonce
<1>10. CASE ReadBody(p)
  <2>1. CASE Goto(p, "handler") /\ UNCHANGED reply
    BY <1>10, <1>11, <2>1 DEF ReadBody, Waiting, Request
  <2>2. QED BY <1>10, <1>12, <2>1 DEF ReadBody
<1>4. CASE Handler(p)
  BY <1>4 DEF Handler, Refuse, Answer
<1>5. CASE StoreRekey(p)
  BY <1>5 DEF StoreRekey, Goto
<1>6. CASE AnswerRekey(p)
  BY <1>6 DEF AnswerRekey, Answer
<1>7. CASE StoreFault(p)
  BY <1>7 DEF StoreFault, Refuse, Answer
<1>8. CASE RotateHandshake(p)
  BY <1>8 DEF RotateHandshake, Refuse, Answer
<1>9. QED BY <1>1, <1>2, <1>3, <1>4, <1>5, <1>6, <1>7, <1>8, <1>10 DEF Step

LEMMA ReceiveAuthentic ==
  ASSUME TypeOK, AuthenticInv, NEW p \in Procs, NEW r \in wire, Receive(p, r)
  PROVE  AuthenticInv'
<1> USE DEF TypeOK, AuthenticInv, Verified, ResponseReadable, Receive
<1>1. CASE Status(p, r)
  BY <1>1 DEF Status, Answer
<1>2. CASE Rotate(p, r)
  BY <1>2 DEF Rotate, Goto
<1>3. CASE Authenticated(p, r)
  BY <1>3 DEF Authenticated, Refuse, Answer, Goto
<1>4. QED BY <1>1, <1>2, <1>3

LEMMA NextAuthentic == TypeOK /\ AuthenticInv /\ [Next]_vars => AuthenticInv'
<1> SUFFICES ASSUME TypeOK, AuthenticInv, [Next]_vars PROVE AuthenticInv'
  OBVIOUS
<1>1. ASSUME NEW p \in Procs, Step(p) PROVE AuthenticInv'
  BY <1>1, StepAuthentic
<1>2. ASSUME NEW p \in Procs, NEW r \in wire, Receive(p, r) PROVE AuthenticInv'
  BY <1>2, ReceiveAuthentic
<1>3. CASE \/ \E r \in Sendable : Send(r)
           \/ \E s \in Sids : Handshake(s) \/ Terminate(s) \/ Expire(s)
           \/ \E p \in Procs : ClientRatchet(p)
           \/ \E w \in writes : Flush(w)
           \/ Restart
           \/ UNCHANGED vars
  <2>1. /\ UNCHANGED <<req, read, reply>>
        /\ \A p \in Procs : pc'[p] \in {pc[p], "over"}
    BY <1>3 DEF TypeOK, Send, Handshake, Terminate, Expire, ClientRatchet,
                Flush, Restart, procs, vars
  <2>2. QED BY <2>1, AuthenticUndisturbed
<1>4. QED BY <1>1, <1>2, <1>3 DEF Next

\* Only authentic requests run, in every reachable state.
THEOREM ExecutionAuthentic == Spec => []ExecutedIsAuthentic
<1>1. Init => AuthenticInv
  BY DEF Init, AuthenticInv, ResponseReadable
<1>2. AuthenticInv => ExecutedIsAuthentic
  BY DEF AuthenticInv, Verified, ExecutedIsAuthentic
<1>3. QED BY <1>1, <1>2, NextAuthentic, TypeCorrect, PTL DEF Spec

\* Answers to signed requests are encrypted with the keys they were signed
\* with, although rekeys change the stored keys while the handler runs.
THEOREM ResponsesReadable == Spec => []ResponseReadable
<1>1. Init => AuthenticInv
  BY DEF Init, AuthenticInv, ResponseReadable
<1>2. AuthenticInv => ResponseReadable
  BY DEF AuthenticInv
<1>3. QED BY <1>1, <1>2, NextAuthentic, TypeCorrect, PTL DEF Spec

-----------------------------------------------------------------------------
(***************************************************************************)
(* Replays, for the stores that keep nonces apart from the session.        *)
(***************************************************************************)

\* Nonces are never forgotten.
LEMMA NoncesKept ==
  ASSUME TypeOK, Async, [Next]_vars, NEW s \in Sids
  PROVE  used[s] \subseteq used'[s]
<1> USE DEF TypeOK, Stored, StoreNoAwait, NoncesAfterWrite, NoncesAfterTrack,
            store, procs
<1>1. ASSUME NEW p \in Procs, Step(p) PROVE used[s] \subseteq used'[s]
  BY <1>1 DEF Step, GetSession, HasNonce, TrackNonce, ReadBody, Handler, StoreRekey,
              AnswerRekey, StoreFault, RotateHandshake
<1>2. ASSUME NEW p \in Procs, NEW r \in wire, Receive(p, r)
      PROVE  used[s] \subseteq used'[s]
  BY <1>2 DEF Receive, Status, Rotate, Authenticated
<1>3. CASE \/ \E r \in Sendable : Send(r)
           \/ \E t \in Sids : Handshake(t) \/ Terminate(t) \/ Expire(t)
           \/ \E p \in Procs : ClientRatchet(p)
           \/ \E w \in writes : Flush(w)
           \/ Restart
           \/ UNCHANGED vars
  BY <1>3 DEF Send, Handshake, Terminate, Expire, ClientRatchet, Flush,
              Restart, vars
<1>4. QED BY <1>1, <1>2, <1>3 DEF Next

\* A handler that becomes accepted has just tracked its nonce or had done so
\* before, and nobody changes the request of a handler that is not idle.
LEMMA AcceptedOrigin ==
  ASSUME TypeOK, AuthenticInv, Async, [Next]_vars, NEW p \in Procs, Accepted(p)'
  PROVE  /\ Accepted(p) \/ TrackNonce(p)
         /\ req'[p] = req[p] /\ req[p] \in Request
<1> USE DEF TypeOK, AuthenticInv, Accepted
<1>1. ASSUME NEW q \in Procs, Step(q)
      PROVE  /\ Accepted(p) \/ TrackNonce(p)
             /\ req'[p] = req[p] /\ req[p] \in Request
  <2>1. CASE GetSession(q)
    BY <1>1, <2>1 DEF GetSession, Goto, Refuse, Answer
  <2>2. CASE HasNonce(q)
    BY <2>2 DEF HasNonce, Goto, Refuse, Answer
  <2>3. CASE TrackNonce(q)
    <3>1. /\ \A t \in Procs : t # q => pc'[t] = pc[t] /\ reply'[t] = reply[t]
          /\ req' = req /\ pc[q] # "idle"
      BY <2>3 DEF TrackNonce, Goto, Refuse, Answer
    <3>2. QED BY <2>3, <3>1
  <2>10. CASE ReadBody(q)
    BY <2>10 DEF ReadBody, Refuse, Answer, Goto
  <2>4. CASE Handler(q)
    BY <2>4 DEF Handler, Refuse, Answer
  <2>5. CASE StoreRekey(q)
    BY <2>5 DEF StoreRekey, Goto
  <2>6. CASE AnswerRekey(q)
    BY <2>6 DEF AnswerRekey, Answer
  <2>7. CASE StoreFault(q)
    BY <2>7 DEF StoreFault, Refuse, Answer
  <2>8. CASE RotateHandshake(q)
    BY <2>8 DEF RotateHandshake, Refuse, Answer
  <2>9. QED BY <1>1, <2>1, <2>2, <2>3, <2>4, <2>5, <2>6, <2>7, <2>8, <2>10 DEF Step
<1>2. ASSUME NEW q \in Procs, NEW r \in wire, Receive(q, r)
      PROVE  /\ Accepted(p) \/ TrackNonce(p)
             /\ req'[p] = req[p] /\ req[p] \in Request
  BY <1>2 DEF Receive, Status, Rotate, Authenticated, Goto, Refuse, Answer
<1>3. CASE \/ \E r \in Sendable : Send(r)
           \/ \E t \in Sids : Handshake(t) \/ Terminate(t) \/ Expire(t)
           \/ \E q \in Procs : ClientRatchet(q)
           \/ \E w \in writes : Flush(w)
           \/ Restart
           \/ UNCHANGED vars
  BY <1>3 DEF Send, Handshake, Terminate, Expire, ClientRatchet, Flush,
              Restart, vars, procs
<1>4. QED BY <1>1, <1>2, <1>3 DEF Next

LEMMA NextTracked ==
  ASSUME TypeOK, AuthenticInv, TrackedInv, Async, [Next]_vars
  PROVE  TrackedInv'
<1> SUFFICES ASSUME NEW p \in Procs, Accepted(p)'
             PROVE  req'[p].nonce \in used'[req'[p].sid]
  BY DEF TrackedInv
<1>1. /\ Accepted(p) \/ TrackNonce(p)
      /\ req'[p] = req[p] /\ req[p].sid \in Sids
  BY AcceptedOrigin DEF Request
<1>2. CASE Accepted(p)
  BY <1>1, <1>2, NoncesKept DEF TrackedInv
<1>3. CASE TrackNonce(p)
  BY <1>1, <1>3 DEF TrackNonce, NoncesAfterTrack, TypeOK
<1>4. QED BY <1>1, <1>2, <1>3

\* A copy whose nonce check comes after an accepted copy is refused, if the
\* store keeps its nonces when the session is rewritten or deleted.
THEOREM ReplaysRejected ==
  ASSUME Backend = "redis"
  PROVE  Spec => SequentialReplayRejected
<1>1. Async
  BY DEF Async
<1>2. Init => AuthenticInv /\ TrackedInv
  BY DEF Init, AuthenticInv, ResponseReadable, TrackedInv, Accepted
<1>3. TypeOK /\ AuthenticInv /\ TrackedInv /\ [Next]_vars =>
        /\ TrackedInv'
        /\ [\A p, q \in Procs :
             (/\ pc[p] = "hasNonce" /\ pc'[p] = "track"
              /\ q # p /\ Accepted(q))
               => ~SameRequest(p, q)]_vars
  <2> SUFFICES ASSUME TypeOK, AuthenticInv, TrackedInv, [Next]_vars
               PROVE  /\ TrackedInv'
                      /\ \A p, q \in Procs :
                           (/\ pc[p] = "hasNonce" /\ pc'[p] = "track"
                            /\ q # p /\ Accepted(q))
                             => ~SameRequest(p, q)
    OBVIOUS
  <2>1. TrackedInv'
    BY <1>1, NextTracked
  <2>2. ASSUME NEW p \in Procs, pc[p] = "hasNonce", pc'[p] = "track"
        PROVE  req[p].nonce \notin used[req[p].sid]
    <3>1. HasNonce(p)
      <4>1. ASSUME NEW q \in Procs, Step(q) PROVE HasNonce(p)
        BY <2>2, <4>1
           DEF Step, GetSession, HasNonce, TrackNonce, ReadBody, Handler, StoreRekey,
               AnswerRekey, StoreFault, RotateHandshake, Goto, Refuse, Answer,
               TypeOK
      <4>2. ASSUME NEW q \in Procs, NEW r \in wire, Receive(q, r)
            PROVE  FALSE
        BY <2>2, <4>2 DEF Receive, Status, Rotate, Authenticated, Goto,
                          Refuse, Answer, TypeOK
      <4>3. CASE \/ \E r \in Sendable : Send(r)
                 \/ \E t \in Sids : Handshake(t) \/ Terminate(t) \/ Expire(t)
                 \/ \E q \in Procs : ClientRatchet(q)
                 \/ \E w \in writes : Flush(w)
                 \/ Restart
                 \/ UNCHANGED vars
        BY <2>2, <4>3 DEF Send, Handshake, Terminate, Expire, ClientRatchet,
                          Flush, Restart, vars, procs, TypeOK
      <4>4. QED BY <4>1, <4>2, <4>3 DEF Next
    <3>2. QED BY <2>2, <3>1 DEF HasNonce, Refuse, Answer, TypeOK
  <2>3. QED BY <2>1, <2>2 DEF TrackedInv, SameRequest
<1>4. QED
  BY <1>2, <1>3, NextAuthentic, TypeCorrect, PTL
     DEF Spec, SequentialReplayRejected

-----------------------------------------------------------------------------
(***************************************************************************)
(* Rekey, for clients that do not overlap key-changing calls.              *)
(***************************************************************************)

\* A step that can only remove sessions, and only stop or answer handlers
\* other than rekeys, disturbs nothing.
LEMMA RekeyUndisturbed ==
  ASSUME TypeOK, RekeyInv, UNCHANGED <<ckey, wire, req, read, reply>>,
         issued \subseteq issued',
         \A s \in Sids : sess'[s] \in {sess[s], NoKeys},
         \A w \in writes' : \/ w \in writes
                            \/ w.sid \in issued /\ w.keys = NoKeys,
         \A p \in Procs : \/ pc'[p] = pc[p]
                          \/ pc'[p] = "over" /\ pc[p] # "idle"
  PROVE  RekeyInv'
<1> USE DEF TypeOK, RekeyInv, Live, Rekey, Ratcheting, Ratcheted, Unacked,
            Waiting, Keys, NoKeys
<1>1. AtMostOneAhead'
  BY DEF AtMostOneAhead
<1>2. FreshSids'
  BY DEF FreshSids
<1>3. SignedInPast'
  BY DEF SignedInPast
<1>4. PendingHandshake'
  BY DEF PendingHandshake, Write
<1>5. RekeyPhases'
  BY SMTT(30) DEF RekeyPhases
<1>6. QED BY <1>1, <1>2, <1>3, <1>4, <1>5

LEMMA SendRekeyInv ==
  ASSUME TypeOK, RekeyInv, NEW r \in Sendable, Send(r)
  PROVE  RekeyInv'
<1> USE DEF TypeOK, RekeyInv, Live, Rekey, Ratcheting, Ratcheted, Unacked,
            Send, procs
<1>0. r \in Request
  BY SendableRequest
<1>1. AtMostOneAhead'
  BY DEF AtMostOneAhead
<1>2. FreshSids'
  BY DEF FreshSids
<1>3. SignedInPast'
  BY <1>0 DEF SignedInPast, Request
<1>4. PendingHandshake'
  BY DEF PendingHandshake
<1>5. RekeyPhases'
  BY DEF RekeyPhases
<1>6. QED BY <1>1, <1>2, <1>3, <1>4, <1>5

\* Storing a fresh session at epoch 0, the effect of both handshakes.
LEMMA NewSessionRekeyInv ==
  ASSUME TypeOK, RekeyInv, NEW s \in Sids \ issued,
         issued' = issued \cup {s}, StoreNoAwait(s, 0),
         UNCHANGED <<wire, ckey, req, read>>,
         \A p \in Procs :
           \/ pc'[p] = pc[p] /\ reply'[p] = reply[p]
           \/ pc'[p] = "done" /\ req[p].kind # "rekey" /\ pc[p] # "idle"
  PROVE  RekeyInv'
<1> USE DEF TypeOK, RekeyInv, Live, Rekey, Ratcheting, Ratcheted, Unacked,
            Waiting, Keys, NoKeys
<1>0. /\ sess[s] = NoKeys /\ ckey[s] = 0
      /\ \A w \in writes : w.sid # s
      /\ \A p \in Procs : pc[p] # "idle" => req[p].sid # s
      /\ \/ sess' = [sess EXCEPT ![s] = 0] /\ writes' = writes
         \/ sess' = sess /\ writes' = writes \cup {[sid |-> s, keys |-> 0]}
  BY DEF FreshSids, StoreNoAwait, Stored
<1>1. AtMostOneAhead'
  BY <1>0 DEF AtMostOneAhead
<1>2. FreshSids'
  BY <1>0 DEF FreshSids
<1>3. SignedInPast'
  BY <1>0 DEF SignedInPast
<1>4. PendingHandshake'
  <2>1. CASE sess' = [sess EXCEPT ![s] = 0] /\ writes' = writes
    BY <1>0, <2>1 DEF PendingHandshake, Write
  <2>2. CASE sess' = sess /\ writes' = writes \cup {[sid |-> s, keys |-> 0]}
    BY <1>0, <2>2 DEF PendingHandshake, Write
  <2>3. QED BY <1>0, <2>1, <2>2
<1>5. RekeyPhases'
  BY <1>0 DEF RekeyPhases
<1>6. QED BY <1>1, <1>2, <1>3, <1>4, <1>5

LEMMA ClientRatchetRekeyInv ==
  ASSUME TypeOK, RekeyInv, NEW p \in Procs, ClientRatchet(p)
  PROVE  RekeyInv'
<1> USE DEF TypeOK, RekeyInv, Live, Rekey, Ratcheting, Ratcheted, Unacked,
            Waiting, Keys, NoKeys, ClientRatchet, store, Request
<1>0. req[p] \in Request /\ Unacked(p, req[p].sid) /\ req[p].sid \in Sids
  OBVIOUS
<1>1. AtMostOneAhead'
  BY <1>0 DEF AtMostOneAhead, RekeyPhases
<1>2. FreshSids'
  BY <1>0 DEF FreshSids
<1>3. SignedInPast'
  BY <1>0 DEF SignedInPast
<1>4. PendingHandshake'
  BY <1>0 DEF PendingHandshake, Write
<1>5. RekeyPhases'
  BY <1>0 DEF RekeyPhases
<1>6. QED BY <1>1, <1>2, <1>3, <1>4, <1>5

\* A step of one handler that keeps the store, and that takes a rekey only to
\* an outcome other than "ok".
LEMMA HandlerRekeyInv ==
  ASSUME TypeOK, RekeyInv, NEW p \in Procs,
         pc[p] \in Waiting, pc'[p] \in PcValues \ {"idle"},
         UNCHANGED <<sess, writes, issued, wire, ckey, req>>,
         \A q \in Procs \ {p} :
           pc'[q] = pc[q] /\ reply'[q] = reply[q] /\ read'[q] = read[q],
         \/ req[p].kind # "rekey"
         \/ /\ pc[p] = "get" /\ pc'[p] = "hasNonce"
            /\ read'[p] = sess[req[p].sid] /\ Live(req[p].sid)
            /\ req[p].epoch = sess[req[p].sid]
         \/ /\ pc[p] \in {"hasNonce", "track"} /\ pc'[p] \in {"track", "store"}
            /\ read'[p] = read[p]
         \/ pc'[p] = "done" /\ reply'[p].code # "ok"
         \/ pc[p] = "ack" /\ pc'[p] = "done"
  PROVE  RekeyInv'
<1> USE DEF TypeOK, RekeyInv, Live, Rekey, Ratcheting, Ratcheted, Unacked,
            Waiting, PcValues, Keys, NoKeys, Request
<1>0. req[p] \in Request /\ req[p].sid \in Sids
  OBVIOUS
<1>1. AtMostOneAhead'
  BY DEF AtMostOneAhead
<1>2. FreshSids'
  BY DEF FreshSids
<1>3. SignedInPast'
  BY DEF SignedInPast
<1>4. CASE req[p].kind # "rekey"
  <2>1. PendingHandshake'
    BY <1>4 DEF PendingHandshake, Write
  <2>2. RekeyPhases'
    BY <1>4, SMTT(30) DEF RekeyPhases
  <2>3. QED BY <1>1, <1>2, <1>3, <2>1, <2>2
<1>5. CASE /\ req[p].kind = "rekey"
           /\ pc[p] = "get" /\ pc'[p] = "hasNonce"
           /\ read'[p] = sess[req[p].sid] /\ Live(req[p].sid)
           /\ req[p].epoch = sess[req[p].sid]
  <2>1. sess[req[p].sid] = ckey[req[p].sid]
    BY <1>0, <1>5 DEF AtMostOneAhead, SignedInPast
  <2>2. \A q \in Procs : ~Unacked(q, req[p].sid)
    BY <1>0, <1>5, <2>1 DEF RekeyPhases
  <2>3. PendingHandshake'
    BY <1>0, <1>5 DEF PendingHandshake, Write
  <2>4. RekeyPhases'
    BY <1>0, <1>5, <2>1, <2>2 DEF RekeyPhases
  <2>5. QED BY <1>1, <1>2, <1>3, <2>3, <2>4
<1>6. CASE /\ req[p].kind = "rekey"
           /\ pc[p] \in {"hasNonce", "track"} /\ pc'[p] \in {"track", "store"}
           /\ read'[p] = read[p]
  <2>1. PendingHandshake'
    BY <1>0, <1>6 DEF PendingHandshake, Write
  <2>2. RekeyPhases'
    BY <1>0, <1>6 DEF RekeyPhases
  <2>3. QED BY <1>1, <1>2, <1>3, <2>1, <2>2
<1>7. CASE req[p].kind = "rekey" /\ pc'[p] = "done" /\ reply'[p].code # "ok"
  <2>1. PendingHandshake'
    BY <1>0, <1>7 DEF PendingHandshake, Write
  <2>2. RekeyPhases'
    BY <1>0, <1>7 DEF RekeyPhases
  <2>3. QED BY <1>1, <1>2, <1>3, <2>1, <2>2
<1>8. CASE req[p].kind = "rekey" /\ pc[p] = "ack" /\ pc'[p] = "done"
  <2>1. PendingHandshake'
    BY <1>0, <1>8 DEF PendingHandshake, Write
  <2>2. \A q \in Procs : ~Unacked(q, req[p].sid)
    BY <1>0, <1>8 DEF RekeyPhases
  <2>3. RekeyPhases'
    BY <1>0, <1>8, <2>2 DEF RekeyPhases
  <2>4. QED BY <1>1, <1>2, <1>3, <2>1, <2>3
<1>9. QED BY <1>4, <1>5, <1>6, <1>7, <1>8

LEMMA StoreRekeyRekeyInv ==
  ASSUME TypeOK, AuthenticInv, RekeyInv, NEW p \in Procs, StoreRekey(p)
  PROVE  RekeyInv'
<1> USE DEF TypeOK, RekeyInv, Live, Rekey, Ratcheting, Ratcheted, Unacked,
            Waiting, PcValues, Keys, NoKeys, Request, StoreRekey, Stored, Goto
<1>0. /\ req[p] \in Request /\ req[p].sid \in Sids
      /\ Ratcheting(p, req[p].sid) /\ read[p] = ckey[req[p].sid]
      /\ req[p].sid \in issued
  BY DEF AuthenticInv, RekeyPhases, FreshSids
<1>1. AtMostOneAhead'
  BY <1>0 DEF AtMostOneAhead
<1>2. FreshSids'
  BY <1>0 DEF FreshSids
<1>3. SignedInPast'
  BY DEF SignedInPast
<1>4. PendingHandshake'
  BY <1>0 DEF PendingHandshake, Write
<1>5. RekeyPhases'
  BY <1>0 DEF RekeyPhases
<1>6. QED BY <1>1, <1>2, <1>3, <1>4, <1>5

\* A handshake's write that was on its way reaches the store.
LEMMA FlushRekeyInv ==
  ASSUME TypeOK, RekeyInv, NEW w \in writes, Flush(w)
  PROVE  RekeyInv'
<1>1. CASE w.keys = NoKeys
  <2>1. /\ UNCHANGED <<ckey, wire, issued, req, read, reply, pc>>
        /\ \A s \in Sids : sess'[s] \in {sess[s], NoKeys}
        /\ writes' \subseteq writes
    BY <1>1 DEF TypeOK, Flush, Stored, procs
  <2>2. QED BY <2>1, RekeyUndisturbed
<1>2. CASE w.keys # NoKeys
  <2> USE DEF TypeOK, RekeyInv, Live, Rekey, Ratcheting, Ratcheted, Unacked,
              Keys, NoKeys, Write, Flush, Stored, procs
  <2>0. /\ w.keys = 0 /\ ckey[w.sid] = 0 /\ w.sid \in Sids
        /\ w.sid \in issued
        /\ \A p \in Procs : ~Ratcheting(p, w.sid) /\ ~Ratcheted(p, w.sid)
                             /\ ~Unacked(p, w.sid)
    BY <1>2 DEF PendingHandshake, FreshSids
  <2>1. AtMostOneAhead'
    BY <2>0 DEF AtMostOneAhead
  <2>2. FreshSids'
    BY <2>0 DEF FreshSids
  <2>3. SignedInPast'
    BY DEF SignedInPast
  <2>4. PendingHandshake'
    BY <2>0 DEF PendingHandshake
  <2>5. RekeyPhases'
    BY <2>0 DEF RekeyPhases
  <2>6. QED BY <2>1, <2>2, <2>3, <2>4, <2>5
<1>3. QED BY <1>1, <1>2

LEMMA StepRekeyInv ==
  ASSUME TypeOK, AuthenticInv, RekeyInv, Serial, NEW p \in Procs, Step(p)
  PROVE  RekeyInv'
<1> USE DEF TypeOK
<1>0. ASSUME NEW l \in {"hasNonce", "track", "body", "store", "handler"},
             Goto(p, l), UNCHANGED reply
      PROVE  /\ pc'[p] = l
             /\ \A q \in Procs \ {p} : pc'[q] = pc[q] /\ reply'[q] = reply[q]
  BY <1>0 DEF Goto
<1>1. ASSUME NEW c, NEW k, Answer(p, c, k)
      PROVE  /\ pc'[p] = "done" /\ reply'[p].code = c
             /\ \A q \in Procs \ {p} : pc'[q] = pc[q] /\ reply'[q] = reply[q]
  BY <1>1 DEF Answer
<1>2. CASE GetSession(p)
  <2>1. PICK w \in BOOLEAN :
          LET c == Checked(req[p], sess[req[p].sid], w)
          IN  IF c = "ok"
                THEN /\ Goto(p, "hasNonce")
                     /\ read' = [read EXCEPT ![p] = sess[req[p].sid]]
                     /\ UNCHANGED reply
                ELSE Refuse(p, c) /\ UNCHANGED read
    BY <1>2 DEF GetSession
  <2>2. req[p] \in Request /\ pc[p] = "get" /\ req[p].missing # "session"
        /\ UNCHANGED <<sess, writes, issued, wire, ckey, req>>
    BY <1>2 DEF GetSession, store, AuthenticInv
  <2>3. CASE Checked(req[p], sess[req[p].sid], w) = "ok"
    <3>1. /\ Live(req[p].sid)
          /\ req[p].kind = "rekey" => req[p].epoch = sess[req[p].sid]
      BY <2>2, <2>3, MissingAssumption
         DEF Checked, Request, SignatureRequired, Live
    <3>2. QED
      BY <1>0, <2>1, <2>2, <2>3, <3>1, HandlerRekeyInv
         DEF Goto, Waiting, PcValues
  <2>4. CASE Checked(req[p], sess[req[p].sid], w) # "ok"
    BY <1>1, <2>1, <2>2, <2>4, HandlerRekeyInv DEF Refuse, Waiting, PcValues
  <2>5. QED BY <2>3, <2>4
<1>3. CASE HasNonce(p)
  <2>1. CASE Refuse(p, "ISO-5001")
    BY <1>1, <1>3, <2>1, HandlerRekeyInv
       DEF HasNonce, Refuse, store, Waiting, PcValues
  <2>2. CASE Goto(p, "track") /\ UNCHANGED reply
    BY <1>0, <1>3, <2>2, HandlerRekeyInv
       DEF HasNonce, Goto, store, Waiting, PcValues
  <2>3. QED BY <1>3, <2>1, <2>2 DEF HasNonce
<1>4. CASE TrackNonce(p)
  <2>1. CASE req[p].kind = "rekey" /\ Goto(p, "store")
    BY <1>0, <1>4, <2>1, HandlerRekeyInv DEF TrackNonce, Waiting, PcValues
  <2>2. ASSUME NEW l \in {"body", "handler"}, Goto(p, l), req[p].kind # "rekey"
        PROVE  RekeyInv'
    BY <1>0, <1>4, <2>2, HandlerRekeyInv DEF TrackNonce, Waiting, PcValues
  <2>3. QED BY <1>4, <2>1, <2>2 DEF TrackNonce
<1>11. CASE ReadBody(p)
  <2>1. /\ req[p].kind # "rekey" /\ pc[p] = "body"
        /\ UNCHANGED <<store, issued, wire, ckey, req, read>>
    BY <1>11 DEF ReadBody, AuthenticInv
  <2>2. CASE Goto(p, "handler") /\ UNCHANGED reply
    BY <1>0, <2>1, <2>2, HandlerRekeyInv DEF store, Waiting, PcValues
  <2>3. ASSUME NEW c, Refuse(p, c) PROVE RekeyInv'
    BY <1>1, <2>1, <2>3, HandlerRekeyInv DEF Refuse, store, Waiting, PcValues
  <2>4. QED BY <1>11, <2>2, <2>3 DEF ReadBody
<1>5. CASE Handler(p)
  <2>1. req[p].kind # "rekey"
    BY <1>5 DEF Handler, AuthenticInv
  <2>2. QED
    BY <1>1, <1>5, <2>1, HandlerRekeyInv
       DEF Handler, Refuse, store, Waiting, PcValues
<1>6. CASE StoreRekey(p)
  BY <1>6, StoreRekeyRekeyInv
<1>7. CASE AnswerRekey(p)
  BY <1>1, <1>7, HandlerRekeyInv DEF AnswerRekey, store, Waiting, PcValues
<1>8. CASE StoreFault(p)
  <2>1. UNCHANGED <<sess, writes, issued, wire, ckey, req, read>> /\ pc[p] \in Waiting
    BY <1>8, Serial DEF StoreFault, Waiting
  <2>2. QED BY <1>1, <1>8, <2>1, HandlerRekeyInv DEF StoreFault, Refuse, PcValues
<1>9. CASE RotateHandshake(p)
  <2>1. req[p].kind # "rekey" /\ pc[p] = "handshake"
    BY <1>9 DEF RotateHandshake, AuthenticInv
  <2>2. CASE Refuse(p, "ISO-1002") /\ UNCHANGED <<store, issued>>
    BY <1>1, <1>9, <2>1, <2>2, HandlerRekeyInv
       DEF RotateHandshake, Refuse, store, Waiting, PcValues
  <2>3. ASSUME NEW s \in Sids \ issued, issued' = issued \cup {s},
               StoreNoAwait(s, 0), Answer(p, "ok", NoKeys)
        PROVE  RekeyInv'
    <3>1. \A q \in Procs :
            \/ pc'[q] = pc[q] /\ reply'[q] = reply[q]
            \/ pc'[q] = "done" /\ req[q].kind # "rekey" /\ pc[q] # "idle"
      BY <1>1, <2>1, <2>3
    <3>2. UNCHANGED <<wire, ckey, req, read>>
      BY <1>9 DEF RotateHandshake
    <3>3. QED BY <2>3, <3>1, <3>2, NewSessionRekeyInv
  <2>4. QED BY <1>9, <2>2, <2>3 DEF RotateHandshake
<1>10. QED
  BY <1>2, <1>3, <1>4, <1>5, <1>6, <1>7, <1>8, <1>9, <1>11 DEF Step

\* Deleting a session, at once or later, in the terms of RekeyUndisturbed.
LEMMA DeleteNoAwait ==
  ASSUME TypeOK, NEW s \in issued, StoreNoAwait(s, NoKeys)
  PROVE  /\ \A t \in Sids : sess'[t] \in {sess[t], NoKeys}
         /\ \A w \in writes' : \/ w \in writes
                               \/ w.sid \in issued /\ w.keys = NoKeys
  BY DEF TypeOK, StoreNoAwait, Stored

LEMMA ReceiveRekeyInv ==
  ASSUME TypeOK, RekeyInv, Serial, NEW p \in Procs, NEW r \in wire, Receive(p, r)
  PROVE  RekeyInv'
<1>0. /\ r \in Request /\ r.sid \in Sids /\ r.sid \in issued
      /\ r.epoch <= ckey[r.sid]
      /\ pc[p] = "idle" /\ req' = [req EXCEPT ![p] = r]
      /\ UNCHANGED <<issued, wire, ckey, read>>
  BY DEF TypeOK, Request, RekeyInv, FreshSids, SignedInPast, Receive
<1>1. /\ \A q \in Procs \ {p} :
           pc'[q] = pc[q] /\ reply'[q] = reply[q] /\ req'[q] = req[q]
      /\ req'[p] = r /\ pc'[p] \in {"done", "handshake", "get"}
      /\ r.kind = "rekey" =>
           /\ pc'[p] = "done" => reply'[p].code # "ok"
           /\ ~Rekeying(r.sid)
  <2>1. CASE Status(p, r)
    BY <1>0, <2>1 DEF TypeOK, Status, Answer
  <2>2. CASE Rotate(p, r)
    BY <1>0, <2>2 DEF TypeOK, Rotate, Goto
  <2>3. CASE Authenticated(p, r)
    BY <1>0, <2>3, Serial DEF TypeOK, Authenticated, Refuse, Answer, Goto
  <2>4. QED BY <2>1, <2>2, <2>3 DEF Receive
<1>2. /\ \A t \in Sids : sess'[t] \in {sess[t], NoKeys}
      /\ \A w \in writes' : \/ w \in writes
                            \/ w.sid \in issued /\ w.keys = NoKeys
  <2>1. CASE Status(p, r) \/ Authenticated(p, r)
    BY <2>1 DEF Status, Authenticated, store
  <2>2. CASE Rotate(p, r)
    BY <1>0, <2>2, DeleteNoAwait DEF Rotate, store
  <2>3. QED BY <2>1, <2>2 DEF Receive
<1> USE DEF TypeOK, RekeyInv, Live, Rekey, Ratcheting, Ratcheted, Unacked,
            Waiting, Keys, NoKeys
<1>3. AtMostOneAhead'
  BY <1>0, <1>2 DEF AtMostOneAhead
<1>4. FreshSids'
  BY <1>0, <1>1, <1>2 DEF FreshSids
<1>5. SignedInPast'
  BY <1>0, <1>1 DEF SignedInPast
<1>6. PendingHandshake'
  BY <1>0, <1>1, <1>2 DEF PendingHandshake, Write
<1>7. RekeyPhases'
  BY <1>0, <1>1, <1>2 DEF RekeyPhases, Rekeying
<1>8. QED BY <1>3, <1>4, <1>5, <1>6, <1>7

LEMMA NextRekeyInv ==
  ASSUME TypeOK, AuthenticInv, RekeyInv, Serial, [Next]_vars
  PROVE  RekeyInv'
<1>1. ASSUME NEW r \in Sendable, Send(r) PROVE RekeyInv'
  BY <1>1, SendRekeyInv
<1>2. ASSUME NEW s \in Sids, Handshake(s) PROVE RekeyInv'
  BY <1>2, NewSessionRekeyInv DEF Handshake, procs
<1>3. ASSUME NEW s \in Sids, Terminate(s) PROVE RekeyInv'
  BY <1>3, DeleteNoAwait, RekeyUndisturbed DEF Terminate, procs
<1>4. ASSUME NEW s \in Sids, Expire(s) PROVE RekeyInv'
  <2>1. \A t \in Sids : sess'[t] \in {sess[t], NoKeys}
    BY <1>4 DEF TypeOK, Expire, Stored
  <2>2. QED BY <1>4, <2>1, RekeyUndisturbed DEF Expire, procs
<1>5. ASSUME NEW p \in Procs, Step(p) PROVE RekeyInv'
  BY <1>5, StepRekeyInv
<1>6. ASSUME NEW p \in Procs, ClientRatchet(p) PROVE RekeyInv'
  BY <1>6, ClientRatchetRekeyInv
<1>7. ASSUME NEW p \in Procs, NEW r \in wire, Receive(p, r) PROVE RekeyInv'
  BY <1>7, ReceiveRekeyInv
<1>8. ASSUME NEW w \in writes, Flush(w) PROVE RekeyInv'
  BY <1>8, FlushRekeyInv
<1>9. CASE Restart
  <2>1. /\ \A t \in Sids : sess'[t] \in {sess[t], NoKeys}
        /\ \A p \in Procs : \/ pc'[p] = pc[p]
                            \/ pc'[p] = "over" /\ pc[p] # "idle"
    BY <1>9 DEF TypeOK, Restart, Waiting
  <2>2. QED BY <1>9, <2>1, RekeyUndisturbed DEF Restart
<1>10. CASE UNCHANGED vars
  BY <1>10, RekeyUndisturbed DEF vars
<1>11. QED
  BY <1>1, <1>2, <1>3, <1>4, <1>5, <1>6, <1>7, <1>8, <1>9, <1>10 DEF Next

LEMMA InitRekeyInv == Init => AuthenticInv /\ RekeyInv
  BY DEF Init, AuthenticInv, ResponseReadable, RekeyInv, AtMostOneAhead,
         FreshSids, SignedInPast, PendingHandshake, RekeyPhases, Rekey,
         Ratcheting, Ratcheted, Unacked, Live, Waiting, NoKeys

\* A server whose key-changing calls are not overlapped is never more than the
\* one unacknowledged ratchet ahead of its client, and never behind it,
\* whatever is lost, duplicated or delayed.
THEOREM ServerAtMostOneAhead ==
  ASSUME Serial PROVE Spec => []AtMostOneAhead
<1>1. TypeOK /\ AuthenticInv /\ RekeyInv /\ [Next]_vars => RekeyInv'
  BY Serial, NextRekeyInv
<1>2. RekeyInv => AtMostOneAhead
  BY DEF RekeyInv
<1>3. QED
  BY <1>1, <1>2, InitRekeyInv, NextAuthentic, TypeCorrect, PTL DEF Spec

Forward ==
  \A s \in Sids : (Live(s) /\ sess'[s] # NoKeys) => sess'[s] >= sess[s]

LEMMA NextForward ==
  ASSUME TypeOK, AuthenticInv, RekeyInv, [Next]_vars
  PROVE  Forward
<1> SUFFICES ASSUME NEW s \in Sids, Live(s), sess'[s] # NoKeys
             PROVE  sess'[s] >= sess[s]
  BY DEF Forward
<1> USE DEF TypeOK, Keys, NoKeys, Live, Stored, StoreNoAwait
<1>1. ASSUME sess'[s] = sess[s] PROVE sess'[s] >= sess[s]
  BY <1>1
<1>2. ASSUME NEW p \in Procs, StoreRekey(p) PROVE sess'[s] >= sess[s]
  <2>1. req[p] \in Request /\ Ratcheting(p, req[p].sid)
    BY <1>2 DEF StoreRekey, AuthenticInv, Ratcheting, Rekey
  <2>2. sess[req[p].sid] \in {NoKeys, read[p]}
    BY <2>1 DEF RekeyInv, RekeyPhases, Request
  <2>3. QED BY <1>1, <1>2, <2>1, <2>2 DEF StoreRekey, Request
<1>3. ASSUME NEW p \in Procs, Step(p), ~StoreRekey(p)
      PROVE  sess'[s] >= sess[s]
  BY <1>3 DEF Step, GetSession, HasNonce, TrackNonce, ReadBody, Handler, AnswerRekey,
              StoreFault, RotateHandshake, store, RekeyInv, FreshSids
<1>4. ASSUME NEW p \in Procs, NEW r \in wire, Receive(p, r)
      PROVE  sess'[s] >= sess[s]
  <2>1. r \in Request
    OBVIOUS
  <2>2. QED
    BY <1>4, <2>1 DEF Receive, Status, Rotate, Authenticated, store, Request
<1>5. ASSUME NEW w \in writes, Flush(w) PROVE sess'[s] >= sess[s]
  BY <1>5 DEF Flush, Write, RekeyInv, PendingHandshake
<1>6. CASE \/ \E r \in Sendable : Send(r)
           \/ \E t \in Sids : Handshake(t) \/ Terminate(t) \/ Expire(t)
           \/ \E p \in Procs : ClientRatchet(p)
           \/ Restart
           \/ UNCHANGED vars
  BY <1>6 DEF Send, Handshake, Terminate, Expire, ClientRatchet, Restart,
              vars, store, RekeyInv, FreshSids
<1>7. QED BY <1>2, <1>3, <1>4, <1>5, <1>6 DEF Next

\* Under the same condition the keys of a live session only move forward.
THEOREM ServerKeysNeverRollBack ==
  ASSUME Serial PROVE Spec => KeysNeverRollBack
<1>1. TypeOK /\ AuthenticInv /\ RekeyInv /\ [Next]_vars => RekeyInv'
  BY Serial, NextRekeyInv
<1>2. TypeOK /\ AuthenticInv /\ RekeyInv /\ [Next]_vars => [Forward]_vars
  BY NextForward
<1>3. QED
  BY <1>1, <1>2, InitRekeyInv, NextAuthentic, TypeCorrect, PTL
     DEF Spec, KeysNeverRollBack, Forward

-----------------------------------------------------------------------------
(***************************************************************************)
(* Termination, for the in-memory store.                                   *)
(***************************************************************************)

LEMMA NextTerminated ==
  ASSUME TypeOK, AuthenticInv, RekeyInv, TerminatedInv, Serial,
         Backend = "memory", [Next]_vars
  PROVE  TerminatedInv'
<1> USE DEF TypeOK, TerminatedInv, Live, Ratcheting, Rekey, StoreNoAwait, Stored
<1>0. ~Async
  BY DEF Async
<1>1. ASSUME NEW p \in Procs, Step(p) PROVE TerminatedInv'
  <2>1. CASE GetSession(p)
    <3>1. PICK w \in BOOLEAN :
            LET c == Checked(req[p], sess[req[p].sid], w)
            IN  IF c = "ok"
                  THEN /\ Goto(p, "hasNonce")
                       /\ read' = [read EXCEPT ![p] = sess[req[p].sid]]
                       /\ UNCHANGED reply
                  ELSE Refuse(p, c) /\ UNCHANGED read
      BY <2>1 DEF GetSession
    <3>2. Goto(p, "hasNonce") => Live(req[p].sid) \/ Refuse(p, "ISO-2002")
      BY <3>1 DEF Checked, Refuse, Answer
    <3>3. QED BY <2>1, <3>1, <3>2 DEF GetSession, store, Goto, Refuse, Answer
  <2>2. CASE HasNonce(p) \/ TrackNonce(p)
    <3>1. /\ pc[p] \in {"hasNonce", "track"}
          /\ \A q \in Procs \ {p} : pc'[q] = pc[q]
          /\ UNCHANGED <<sess, writes, issued, terminated, req>>
      BY <2>2 DEF HasNonce, TrackNonce, store, Goto, Refuse, Answer
    <3>2. \A s \in terminated, q \in Procs : ~Ratcheting(q, s)'
      BY <3>1
    <3>3. QED BY <3>1, <3>2
  <2>6. CASE Handler(p) \/ AnswerRekey(p)
    BY <2>6 DEF Handler, AnswerRekey, store, Refuse, Answer
  <2>7. CASE ReadBody(p) \/ StoreFault(p)
    <3>1. /\ \A q \in Procs \ {p} : pc'[q] = pc[q]
          /\ pc'[p] \in {"handler", "done"}
          /\ UNCHANGED <<sess, writes, issued, terminated, req>>
      BY <1>0, <2>7 DEF ReadBody, StoreFault, store, Goto, Refuse, Answer
    <3>2. \A s \in terminated, q \in Procs : ~Ratcheting(q, s)'
      BY <3>1
    <3>3. QED BY <3>1, <3>2
  <2>3. CASE StoreRekey(p)
    <3>1. req[p].sid \notin terminated
      BY <2>3 DEF StoreRekey, AuthenticInv
    <3>2. QED BY <2>3, <3>1 DEF StoreRekey, Goto
  <2>4. CASE RotateHandshake(p)
    <3>1. /\ pc[p] = "handshake" /\ pc' = [pc EXCEPT ![p] = "done"]
          /\ terminated' = terminated /\ req' = req
      BY <2>4 DEF RotateHandshake, Refuse, Answer
    <3>2. \/ \E s \in Sids \ issued : /\ issued' = issued \cup {s} /\ writes' = writes
                                     /\ \A t \in terminated : sess'[t] = sess[t]
          \/ UNCHANGED <<sess, writes, issued>>
      BY <1>0, <2>4, SMTT(30) DEF RotateHandshake, store
    <3>3. \A s \in terminated, q \in Procs : ~Ratcheting(q, s)'
      BY <3>1
    <3> QED BY <3>1, <3>2, <3>3
  <2>5. QED BY <1>1, <2>1, <2>2, <2>3, <2>4, <2>6, <2>7 DEF Step
<1>2. ASSUME NEW p \in Procs, NEW r \in wire, Receive(p, r)
      PROVE  TerminatedInv'
  <2>1. r \in Request /\ r.sid \in Sids /\ r.sid \in issued
    BY DEF Request, RekeyInv, FreshSids
  <2>2. CASE Status(p, r)
    BY <1>2, <2>2 DEF Receive, Status, Answer, store
  <2>3. CASE Rotate(p, r)
    BY <1>0, <1>2, <2>1, <2>3
       DEF Receive, Rotate, Goto, store, Rekeying, Waiting
  <2>4. CASE Authenticated(p, r)
    BY <1>2, <2>4 DEF Receive, Authenticated, Goto, Refuse, Answer, store
  <2>5. QED BY <1>2, <2>2, <2>3, <2>4 DEF Receive
<1>3. ASSUME NEW s \in Sids, Terminate(s) PROVE TerminatedInv'
  BY <1>0, <1>3 DEF Terminate, procs, Rekeying, Waiting
<1>4. CASE \/ \E r \in Sendable : Send(r)
           \/ \E s \in Sids : Handshake(s) \/ Expire(s)
           \/ \E p \in Procs : ClientRatchet(p)
           \/ \E w \in writes : Flush(w)
           \/ Restart
           \/ UNCHANGED vars
  BY <1>0, <1>4 DEF Send, Handshake, Expire, ClientRatchet, Flush, Restart,
                    vars, procs, store
<1>5. QED BY <1>1, <1>2, <1>3, <1>4 DEF Next

\* Terminate and rotate destroy a session of the in-memory store for good,
\* if they are not overlapped with a rekey of the same session.
THEOREM TerminateIsFinal ==
  ASSUME Serial, Backend = "memory" PROVE Spec => []TerminatedStaysDead
<1>1. Init => TerminatedInv
  BY DEF Init, TerminatedInv
<1>2. TypeOK /\ AuthenticInv /\ RekeyInv /\ TerminatedInv /\ [Next]_vars
        => RekeyInv' /\ TerminatedInv'
  BY Serial, NextRekeyInv, NextTerminated
<1>3. TerminatedInv => TerminatedStaysDead
  BY DEF TerminatedInv, TerminatedStaysDead
<1>4. QED
  BY <1>1, <1>2, <1>3, InitRekeyInv, NextAuthentic, TypeCorrect, PTL DEF Spec
-----------------------------------------------------------------------------
(***************************************************************************)
(* The ratchet kept, for both stores: each step of the server is a step of *)
(* Ratchet, or none, for each session.                                     *)
(***************************************************************************)

\* How far rekey p of s has come, of those that count for its ratchet.
Stage(p, s) ==
  IF Ratcheting(p, s) THEN "begun"
  ELSE IF Ratcheted(p, s) \/ Unacked(p, s) THEN "due" ELSE "none"

\* At most one rekey of s has begun and not come to its end; the phase of the
\* ratchet is the stage of that one, if there is one.
OnePhase(s) ==
  /\ \A p, q \in Procs : Stage(p, s) # "none" /\ Stage(q, s) # "none" => p = q
  /\ \A p \in Procs : Stage(p, s) # "none" => RatchetPhase(s) = Stage(p, s)
  /\ (\A p \in Procs : Stage(p, s) = "none") => RatchetPhase(s) = "none"

LEMMA PhaseIsStage ==
  ASSUME NEW s \in Sids
  PROVE  RekeyPhases => OnePhase(s)
<1> SUFFICES ASSUME RekeyPhases PROVE OnePhase(s)
  OBVIOUS
<1>1. \A p \in Procs : /\ Stage(p, s) = "begun" <=> Ratcheting(p, s)
                       /\ Stage(p, s) = "due" <=> ~Ratcheting(p, s) /\ (Ratcheted(p, s) \/ Unacked(p, s))
                       /\ Stage(p, s) \in {"none", "begun", "due"}
  BY DEF Stage, Ratcheting, Ratcheted, Unacked
<1>2. \A p, q \in Procs : Stage(p, s) # "none" /\ Stage(q, s) # "none" => p = q
  BY DEF RekeyPhases, Stage, Ratcheting, Ratcheted, Waiting
<1> QED BY <1>1, <1>2 DEF OnePhase, RatchetPhase

LEMMA PhaseIsStageNext ==
  ASSUME NEW s \in Sids
  PROVE  RekeyPhases' => OnePhase(s)'
<1>1. RekeyPhases => OnePhase(s)
  BY PhaseIsStage
<1> QED BY <1>1, PTL

\* A step of one handler moves the phase as it moves the stage of that handler.
LEMMA StageMoves ==
  ASSUME RekeyPhases, RekeyPhases', NEW s \in Sids, NEW p \in Procs,
         \A q \in Procs \ {p} : Stage(q, s)' = Stage(q, s)
  PROVE  \/ Stage(p, s) = Stage(p, s)' /\ RatchetPhase(s)' = RatchetPhase(s)
         \/ RatchetPhase(s) = Stage(p, s) /\ RatchetPhase(s)' = Stage(p, s)'
<1>1. OnePhase(s) /\ OnePhase(s)'
  BY PhaseIsStage, PhaseIsStageNext
<1>2. CASE \E q \in Procs \ {p} : Stage(q, s) # "none"
  BY <1>1, <1>2 DEF OnePhase
<1>3. CASE \A q \in Procs \ {p} : Stage(q, s) = "none"
  BY <1>1, <1>3 DEF OnePhase
<1> QED BY <1>2, <1>3

\* What session s may do.
Moves(s) ==
  \/ Promise!Open(s) \/ Promise!Begin(s) \/ Promise!Advance(s) \/ Promise!Follow(s)
  \/ Promise!GiveUp(s) \/ Promise!End(s) \/ Promise!Same(s)

\* The terms of the promise are those of the server.
LEMMA BecomesTerms ==
  ASSUME NEW s \in Sids, NEW k, NEW h, NEW ph
  PROVE  Promise!Becomes(s, k, h, ph) <=>
           sess'[s] = k /\ ckey'[s] = h /\ RatchetPhase(s)' = ph
BY DEF Promise!Becomes

LEMMA MovesTerms ==
  ASSUME NEW s \in Sids
  PROVE  Moves(s) <=>
    \/ /\ sess[s] = NoKeys /\ ckey[s] = 0 /\ RatchetPhase(s) = "none"
       /\ sess'[s] = 0 /\ ckey'[s] = 0 /\ RatchetPhase(s)' = "none"
    \/ /\ RatchetPhase(s) = "none" /\ sess[s] = ckey[s]
       /\ sess'[s] = sess[s] /\ ckey'[s] = ckey[s] /\ RatchetPhase(s)' = "begun"
    \/ /\ RatchetPhase(s) = "begun" /\ sess[s] \in {NoKeys, ckey[s]}
       /\ sess'[s] = ckey[s] + 1 /\ ckey'[s] = ckey[s] /\ RatchetPhase(s)' = "due"
    \/ /\ RatchetPhase(s) = "due" /\ sess[s] \in {NoKeys, ckey[s] + 1}
       /\ sess'[s] = sess[s] /\ ckey'[s] = ckey[s] + 1 /\ RatchetPhase(s)' = "none"
    \/ /\ sess'[s] \in {sess[s], NoKeys} /\ ckey'[s] = ckey[s]
       /\ RatchetPhase(s)' \in {RatchetPhase(s), "none"}
<1>1. Promise!Gone = NoKeys
  BY DEF Promise!Gone, NoKeys
<1>2. Promise!Open(s) <=>
        /\ sess[s] = NoKeys /\ ckey[s] = 0 /\ RatchetPhase(s) = "none"
        /\ sess'[s] = 0 /\ ckey'[s] = 0 /\ RatchetPhase(s)' = "none"
  BY <1>1, BecomesTerms DEF Promise!Open
<1>3. Promise!Begin(s) <=>
        /\ RatchetPhase(s) = "none" /\ sess[s] = ckey[s]
        /\ sess'[s] = sess[s] /\ ckey'[s] = ckey[s] /\ RatchetPhase(s)' = "begun"
  BY BecomesTerms DEF Promise!Begin
<1>4. Promise!Advance(s) <=>
        /\ RatchetPhase(s) = "begun" /\ sess[s] \in {NoKeys, ckey[s]}
        /\ sess'[s] = ckey[s] + 1 /\ ckey'[s] = ckey[s] /\ RatchetPhase(s)' = "due"
  BY <1>1, BecomesTerms DEF Promise!Advance
<1>5. Promise!Follow(s) <=>
        /\ RatchetPhase(s) = "due" /\ sess[s] \in {NoKeys, ckey[s] + 1}
        /\ sess'[s] = sess[s] /\ ckey'[s] = ckey[s] + 1 /\ RatchetPhase(s)' = "none"
  BY <1>1, BecomesTerms DEF Promise!Follow
<1>6. Promise!GiveUp(s) <=>
        /\ RatchetPhase(s) # "none"
        /\ sess'[s] = sess[s] /\ ckey'[s] = ckey[s] /\ RatchetPhase(s)' = "none"
  BY BecomesTerms DEF Promise!GiveUp
<1>7. Promise!End(s) <=>
        /\ sess'[s] = NoKeys /\ ckey'[s] = ckey[s]
        /\ RatchetPhase(s)' \in {RatchetPhase(s), "none"}
  BY <1>1, BecomesTerms DEF Promise!End
<1>8. Promise!Same(s) <=>
        sess'[s] = sess[s] /\ ckey'[s] = ckey[s] /\ RatchetPhase(s)' = RatchetPhase(s)
  BY BecomesTerms DEF Promise!Same
<1> QED BY <1>2, <1>3, <1>4, <1>5, <1>6, <1>7, <1>8 DEF Moves

\* A step that moves no handler.
LEMMA PhaseKept ==
  ASSUME UNCHANGED <<pc, req, reply>>, NEW s \in Sids
  PROVE  RatchetPhase(s)' = RatchetPhase(s)
BY DEF RatchetPhase, Ratcheting, Ratcheted, Unacked, Rekey

\* A session that nobody has used yet has no ratchet.
LEMMA UntouchedPhase ==
  ASSUME TypeOK, AuthenticInv, FreshSids, NEW s \in Sids \ issued
  PROVE  sess[s] = NoKeys /\ ckey[s] = 0 /\ RatchetPhase(s) = "none"
BY DEF FreshSids, Live, RatchetPhase, Ratcheting, Ratcheted, Unacked, Rekey

\* Storing a fresh session, at once or later, with no rekey moving.
LEMMA StartMoves ==
  ASSUME TypeOK, AuthenticInv, FreshSids, NEW t \in Sids \ issued, StoreNoAwait(t, 0),
         UNCHANGED ckey, NEW s \in Sids, RatchetPhase(s)' = RatchetPhase(s)
  PROVE  Moves(s)
<1>1. sess'[s] = sess[s] \/ (s = t /\ sess'[s] = 0)
  BY DEF StoreNoAwait, Stored, TypeOK
<1>2. CASE sess'[s] = sess[s]
  BY <1>2, MovesTerms
<1>3. CASE s = t /\ sess'[s] = 0
  BY <1>3, MovesTerms, UntouchedPhase
<1> QED BY <1>1, <1>2, <1>3

\* The handlers other than p stay where they are.
OthersStay(p) ==
  \A q \in Procs \ {p} : pc'[q] = pc[q] /\ req'[q] = req[q] /\ reply'[q] = reply[q]

LEMMA OtherStages ==
  ASSUME NEW p \in Procs, OthersStay(p), NEW s \in Sids
  PROVE  \A q \in Procs \ {p} : Stage(q, s)' = Stage(q, s)
BY DEF OthersStay, Stage, Ratcheting, Ratcheted, Unacked, Rekey

\* A handler's step that changes no session's keys but the way of its rekey.
LEMMA HandlerMoves ==
  ASSUME RekeyPhases, RekeyPhases', NEW p \in Procs, OthersStay(p),
         UNCHANGED ckey, NEW s \in Sids, sess'[s] \in {sess[s], NoKeys},
         \/ Stage(p, s)' \in {Stage(p, s), "none"}
         \/ Stage(p, s) = "none" /\ Stage(p, s)' = "begun" /\ sess[s] = ckey[s] /\ sess'[s] = sess[s]
  PROVE  Moves(s)
<1>1. \/ Stage(p, s) = Stage(p, s)' /\ RatchetPhase(s)' = RatchetPhase(s)
      \/ RatchetPhase(s) = Stage(p, s) /\ RatchetPhase(s)' = Stage(p, s)'
  BY OtherStages, StageMoves
<1> QED BY <1>1, MovesTerms

\* A step of one handler that keeps the store, in the terms of HandlerRekeyInv.
LEMMA HandlerStepMoves ==
  ASSUME TypeOK, RekeyInv, RekeyInv', NEW p \in Procs, NEW s \in Sids,
         pc[p] \in Waiting, pc'[p] \in PcValues \ {"idle"},
         UNCHANGED <<sess, ckey, req>>,
         \A q \in Procs \ {p} : pc'[q] = pc[q] /\ reply'[q] = reply[q],
         \/ req[p].kind # "rekey"
         \/ pc[p] = "get" /\ pc'[p] = "hasNonce" /\ Live(req[p].sid)
         \/ pc[p] \in {"hasNonce", "track"} /\ pc'[p] \in {"track", "store"}
         \/ pc'[p] = "done" /\ reply'[p].code # "ok"
         \/ pc[p] = "ack" /\ pc'[p] = "done"
  PROVE  Moves(s)
<1> USE DEF Stage, Ratcheting, Ratcheted, Unacked, Rekey
<1>1. OthersStay(p) /\ RekeyPhases /\ RekeyPhases' /\ sess'[s] = sess[s]
  BY DEF OthersStay, RekeyInv
<1>2. CASE req[p].kind # "rekey" \/ req[p].sid # s
  <2>1. Stage(p, s)' = Stage(p, s)
    BY <1>2
  <2> QED BY <1>1, <2>1, HandlerMoves
<1>3. CASE /\ req[p].kind = "rekey" /\ req[p].sid = s
           /\ pc[p] = "get" /\ pc'[p] = "hasNonce" /\ Live(req[p].sid)
  <2>1. Stage(p, s) = "none" /\ Stage(p, s)' = "begun"
    BY <1>3
  <2>2. sess'[s] \in {NoKeys, ckey'[s]}
    BY <1>1, <1>3 DEF RekeyPhases
  <2>3. sess[s] = ckey[s]
    BY <1>3, <2>2 DEF Live
  <2> QED BY <1>1, <2>1, <2>3, HandlerMoves
<1>4. CASE /\ req[p].kind = "rekey" /\ req[p].sid = s
           /\ pc[p] \in {"hasNonce", "track"} /\ pc'[p] \in {"track", "store"}
  <2>1. Stage(p, s)' = Stage(p, s)
    BY <1>4
  <2> QED BY <1>1, <2>1, HandlerMoves
<1>5. CASE /\ req[p].kind = "rekey" /\ req[p].sid = s
           /\ pc'[p] = "done" /\ reply'[p].code # "ok"
  <2>1. Stage(p, s)' = "none"
    BY <1>5
  <2> QED BY <1>1, <2>1, HandlerMoves
<1>6. CASE /\ req[p].kind = "rekey" /\ req[p].sid = s
           /\ pc[p] = "ack" /\ pc'[p] = "done"
  <2>1. Stage(p, s)' \in {Stage(p, s), "none"}
    BY <1>6
  <2> QED BY <1>1, <2>1, HandlerMoves
<1> QED BY <1>2, <1>3, <1>4, <1>5, <1>6

\* A rekey stores its ratchet.
LEMMA StoreRekeyMoves ==
  ASSUME TypeOK, AuthenticInv, RekeyInv, RekeyInv', NEW p \in Procs, StoreRekey(p),
         NEW s \in Sids
  PROVE  Moves(s)
<1>1. /\ req[p].kind = "rekey" /\ req[p] \in Request /\ req[p].sid \in Sids
      /\ pc[p] = "store" /\ pc'[p] = "ack" /\ OthersStay(p)
      /\ UNCHANGED <<ckey, req, reply>>
      /\ sess' = [sess EXCEPT ![req[p].sid] = read[p] + 1]
  BY DEF TypeOK, StoreRekey, Stored, Goto, AuthenticInv, Request, OthersStay
<1>2. RekeyPhases /\ RekeyPhases'
  BY DEF RekeyInv
<1>3. CASE req[p].sid # s
  <2>1. Stage(p, s)' = Stage(p, s) /\ sess'[s] = sess[s]
    BY <1>1, <1>3 DEF TypeOK, Stage, Ratcheting, Ratcheted, Unacked, Rekey
  <2> QED BY <1>1, <1>2, <2>1, HandlerMoves
<1>4. CASE req[p].sid = s
  <2>1. Stage(p, s) = "begun" /\ Stage(p, s)' = "due" /\ Ratcheting(p, s)
    BY <1>1, <1>4 DEF Stage, Ratcheting, Ratcheted, Unacked, Rekey
  <2>2. RatchetPhase(s) = "begun" /\ RatchetPhase(s)' = "due"
    BY <1>1, <1>2, <2>1, OtherStages, StageMoves
  <2>3. read[p] = ckey[s] /\ sess[s] \in {NoKeys, ckey[s]}
    BY <1>2, <2>1 DEF RekeyPhases
  <2>4. sess'[s] = ckey[s] + 1
    BY <1>1, <1>4, <2>3 DEF TypeOK
  <2> QED BY <1>1, <2>2, <2>3, <2>4, MovesTerms
<1> QED BY <1>3, <1>4

\* The client follows the ratchet.
LEMMA ClientRatchetMoves ==
  ASSUME TypeOK, RekeyInv, RekeyInv', NEW p \in Procs, ClientRatchet(p), NEW s \in Sids
  PROVE  Moves(s)
<1>1. /\ req[p] \in Request /\ req[p].sid \in Sids /\ Unacked(p, req[p].sid)
      /\ pc'[p] = "over" /\ OthersStay(p) /\ UNCHANGED <<sess, req, reply>>
      /\ ckey' = [ckey EXCEPT ![req[p].sid] = @ + 1]
  BY DEF TypeOK, ClientRatchet, Unacked, Rekey, Request, OthersStay, store
<1>2. RekeyPhases /\ RekeyPhases'
  BY DEF RekeyInv
<1>3. CASE req[p].sid # s
  <2>1. Stage(p, s)' = Stage(p, s) /\ ckey'[s] = ckey[s]
    BY <1>1, <1>3 DEF TypeOK, Stage, Ratcheting, Ratcheted, Unacked, Rekey
  <2>2. RatchetPhase(s)' = RatchetPhase(s)
    BY <1>1, <1>2, <2>1, OtherStages, StageMoves
  <2> QED BY <1>1, <2>1, <2>2, MovesTerms
<1>4. CASE req[p].sid = s
  <2>1. Stage(p, s) = "due" /\ Stage(p, s)' = "none" /\ Unacked(p, s)
    BY <1>1, <1>4 DEF Stage, Ratcheting, Ratcheted, Unacked, Rekey
  <2>2. RatchetPhase(s) = "due" /\ RatchetPhase(s)' = "none"
    BY <1>1, <1>2, <2>1, OtherStages, StageMoves
  <2>3. sess[s] \in {NoKeys, ckey[s] + 1}
    BY <1>2, <2>1 DEF RekeyPhases
  <2>4. ckey'[s] = ckey[s] + 1
    BY <1>1, <1>4 DEF TypeOK
  <2> QED BY <1>1, <2>2, <2>3, <2>4, MovesTerms
<1> QED BY <1>3, <1>4

LEMMA StepMoves ==
  ASSUME TypeOK, AuthenticInv, RekeyInv, RekeyInv', NEW p \in Procs, Step(p), NEW s \in Sids
  PROVE  Moves(s)
<1> USE DEF TypeOK
<1>1. ASSUME NEW l \in Waiting, Goto(p, l), UNCHANGED reply
      PROVE  pc'[p] = l /\ \A q \in Procs \ {p} : pc'[q] = pc[q] /\ reply'[q] = reply[q]
  BY <1>1 DEF Goto
<1>2. ASSUME NEW c, NEW k, Answer(p, c, k)
      PROVE  /\ pc'[p] = "done" /\ reply'[p].code = c
             /\ \A q \in Procs \ {p} : pc'[q] = pc[q] /\ reply'[q] = reply[q]
  BY <1>2 DEF Answer
<1>3. ASSUME NEW c, Refuse(p, c), c # "ok", pc[p] \in Waiting, UNCHANGED <<sess, ckey, req>>
      PROVE  Moves(s)
  BY <1>2, <1>3, HandlerStepMoves DEF Refuse, PcValues
<1>4. CASE GetSession(p)
  <2>1. PICK w \in BOOLEAN :
          LET c == Checked(req[p], sess[req[p].sid], w)
          IN  IF c = "ok" THEN Goto(p, "hasNonce") /\ UNCHANGED reply ELSE Refuse(p, c)
    BY <1>4 DEF GetSession
  <2>2. req[p] \in Request /\ pc[p] = "get" /\ UNCHANGED <<sess, ckey, req>>
    BY <1>4 DEF GetSession, store
  <2>3. CASE Checked(req[p], sess[req[p].sid], w) = "ok"
    <3>1. Live(req[p].sid)
      BY <2>3 DEF Checked, Live
    <3> QED BY <1>1, <2>1, <2>2, <2>3, <3>1, HandlerStepMoves DEF Waiting, PcValues
  <2>4. CASE Checked(req[p], sess[req[p].sid], w) # "ok"
    BY <1>3, <2>1, <2>2, <2>4 DEF Waiting
  <2> QED BY <2>3, <2>4
<1>5. CASE HasNonce(p)
  <2>1. CASE Refuse(p, "ISO-5001")
    BY <1>3, <1>5, <2>1 DEF HasNonce, store, Waiting
  <2>2. CASE Goto(p, "track") /\ UNCHANGED reply
    BY <1>1, <1>5, <2>2, HandlerStepMoves DEF HasNonce, store, Waiting, PcValues
  <2> QED BY <1>5, <2>1, <2>2 DEF HasNonce
<1>6. CASE TrackNonce(p)
  <2>1. CASE req[p].kind = "rekey" /\ Goto(p, "store")
    BY <1>1, <1>6, <2>1, HandlerStepMoves DEF TrackNonce, Waiting, PcValues
  <2>2. ASSUME NEW l \in {"body", "handler"}, Goto(p, l), req[p].kind # "rekey"
        PROVE  Moves(s)
    BY <1>1, <1>6, <2>2, HandlerStepMoves DEF TrackNonce, Waiting, PcValues
  <2> QED BY <1>6, <2>1, <2>2 DEF TrackNonce
<1>12. CASE ReadBody(p)
  <2>1. /\ req[p].kind # "rekey" /\ pc[p] = "body"
        /\ UNCHANGED <<sess, ckey, req>>
    BY <1>12 DEF ReadBody, AuthenticInv, store
  <2>2. CASE Goto(p, "handler") /\ UNCHANGED reply
    BY <1>1, <2>1, <2>2, HandlerStepMoves DEF Waiting, PcValues
  <2>3. ASSUME NEW c, Refuse(p, c) PROVE Moves(s)
    BY <1>2, <2>1, <2>3, HandlerStepMoves DEF Refuse, Waiting, PcValues
  <2> QED BY <1>12, <2>2, <2>3 DEF ReadBody
<1>7. CASE Handler(p)
  <2>1. req[p].kind # "rekey"
    BY <1>7 DEF Handler, AuthenticInv
  <2> QED
    BY <1>2, <1>7, <2>1, HandlerStepMoves DEF Handler, Refuse, store, Waiting, PcValues
<1>8. CASE StoreRekey(p)
  BY <1>8, StoreRekeyMoves
<1>9. CASE AnswerRekey(p)
  BY <1>2, <1>9, HandlerStepMoves DEF AnswerRekey, store, Waiting, PcValues
<1>10. CASE StoreFault(p)
  BY <1>3, <1>10 DEF StoreFault, Waiting
<1>11. CASE RotateHandshake(p)
  <2>1. req[p].kind # "rekey" /\ pc[p] = "handshake" /\ UNCHANGED <<ckey, req>>
    BY <1>11 DEF RotateHandshake, AuthenticInv
  <2>2. CASE Refuse(p, "ISO-1002") /\ UNCHANGED <<store, issued>>
    BY <1>3, <2>1, <2>2 DEF store, Waiting
  <2>3. ASSUME NEW t \in Sids \ issued, StoreNoAwait(t, 0), Answer(p, "ok", NoKeys)
        PROVE  Moves(s)
    <3>1. OthersStay(p) /\ Stage(p, s)' = Stage(p, s)
      BY <1>2, <2>1, <2>3 DEF OthersStay, Stage, Ratcheting, Ratcheted, Unacked, Rekey
    <3>2. RatchetPhase(s)' = RatchetPhase(s)
      BY <3>1, OtherStages, StageMoves DEF RekeyInv
    <3> QED BY <2>1, <2>3, <3>2, StartMoves DEF RekeyInv
  <2> QED BY <1>11, <2>2, <2>3 DEF RotateHandshake
<1> QED
  BY <1>4, <1>5, <1>6, <1>7, <1>8, <1>9, <1>10, <1>11, <1>12 DEF Step

\* A rekey that is received has not read the session yet.
LEMMA ReceiveMoves ==
  ASSUME TypeOK, RekeyInv, RekeyInv', NEW p \in Procs, NEW r \in wire, Receive(p, r),
         NEW s \in Sids
  PROVE  Moves(s)
<1>0. /\ r \in Request /\ r.sid \in Sids /\ r.sid \in issued
      /\ pc[p] = "idle" /\ req' = [req EXCEPT ![p] = r] /\ UNCHANGED ckey
  BY DEF TypeOK, Request, RekeyInv, FreshSids, Receive
<1>1. OthersStay(p) /\ Stage(p, s)' = Stage(p, s)
  <2>1. CASE Status(p, r)
    BY <1>0, <2>1 DEF TypeOK, Status, Answer, OthersStay, Stage, Ratcheting, Ratcheted, Unacked, Rekey
  <2>2. CASE Rotate(p, r)
    BY <1>0, <2>2 DEF TypeOK, Rotate, Goto, OthersStay, Stage, Ratcheting, Ratcheted, Unacked, Rekey
  <2>3. CASE Authenticated(p, r)
    BY <1>0, <2>3 DEF TypeOK, Authenticated, Refuse, Answer, Goto,
                      OthersStay, Stage, Ratcheting, Ratcheted, Unacked, Rekey
  <2> QED BY <2>1, <2>2, <2>3 DEF Receive
<1>2. sess'[s] \in {sess[s], NoKeys}
  <2>1. CASE Status(p, r) \/ Authenticated(p, r)
    BY <2>1 DEF Status, Authenticated, store
  <2>2. CASE Rotate(p, r)
    BY <1>0, <2>2, DeleteNoAwait DEF Rotate, store
  <2> QED BY <2>1, <2>2 DEF Receive
<1> QED BY <1>0, <1>1, <1>2, HandlerMoves DEF RekeyInv

LEMMA FlushMoves ==
  ASSUME TypeOK, RekeyInv, NEW w \in writes, Flush(w), NEW s \in Sids
  PROVE  Moves(s)
<1>1. /\ w.sid \in Sids /\ UNCHANGED ckey /\ RatchetPhase(s)' = RatchetPhase(s)
      /\ sess' = [sess EXCEPT ![w.sid] = w.keys]
  BY PhaseKept DEF TypeOK, Write, Flush, Stored, procs
<1>2. CASE w.sid # s \/ w.keys = NoKeys
  BY <1>1, <1>2, MovesTerms DEF TypeOK
<1>3. CASE w.sid = s /\ w.keys # NoKeys
  <2>1. /\ w.keys = 0 /\ sess[s] = NoKeys /\ ckey[s] = 0
        /\ \A p \in Procs : ~Ratcheting(p, s) /\ ~Ratcheted(p, s) /\ ~Unacked(p, s)
    BY <1>3 DEF RekeyInv, PendingHandshake, Live
  <2>2. RatchetPhase(s) = "none"
    BY <2>1 DEF RatchetPhase
  <2> QED BY <1>1, <1>3, <2>1, <2>2, MovesTerms DEF TypeOK
<1> QED BY <1>2, <1>3

\* A restart ends rekeys, whose answers may be on their way, and in-memory sessions.
LEMMA RestartMoves ==
  ASSUME TypeOK, RekeyInv, RekeyInv', Restart, NEW s \in Sids
  PROVE  Moves(s)
<1>1. UNCHANGED ckey /\ sess'[s] \in {sess[s], NoKeys}
  BY DEF Restart
<1>2. \A p \in Procs : Stage(p, s)' \in {Stage(p, s), "none"}
  BY DEF TypeOK, Restart, Stage, Ratcheting, Ratcheted, Unacked, Rekey, Waiting
<1>3. OnePhase(s) /\ OnePhase(s)'
  BY PhaseIsStage, PhaseIsStageNext DEF RekeyInv
<1>4. RatchetPhase(s)' \in {RatchetPhase(s), "none"}
  BY <1>2, <1>3 DEF OnePhase
<1> QED BY <1>1, <1>4, MovesTerms

LEMMA NextMoves ==
  ASSUME TypeOK, AuthenticInv, RekeyInv, RekeyInv', [Next]_vars, NEW s \in Sids
  PROVE  Moves(s)
<1>1. ASSUME UNCHANGED <<pc, req, reply, ckey>>, sess'[s] \in {sess[s], NoKeys}
      PROVE  Moves(s)
  BY <1>1, PhaseKept, MovesTerms
<1>2. ASSUME NEW r \in Sendable, Send(r) PROVE Moves(s)
  BY <1>1, <1>2 DEF Send, procs
<1>3. ASSUME NEW t \in Sids, Handshake(t) PROVE Moves(s)
  BY <1>3, PhaseKept, StartMoves DEF Handshake, procs, RekeyInv
<1>4. ASSUME NEW t \in Sids, Terminate(t) PROVE Moves(s)
  <2>1. sess'[s] \in {sess[s], NoKeys}
    BY <1>4, DeleteNoAwait DEF Terminate
  <2> QED BY <1>1, <1>4, <2>1 DEF Terminate, procs
<1>5. ASSUME NEW t \in Sids, Expire(t) PROVE Moves(s)
  <2>1. sess'[s] \in {sess[s], NoKeys}
    BY <1>5 DEF TypeOK, Expire, Stored
  <2> QED BY <1>1, <1>5, <2>1 DEF Expire, procs
<1>6. ASSUME NEW p \in Procs, Step(p) PROVE Moves(s)
  BY <1>6, StepMoves
<1>7. ASSUME NEW p \in Procs, ClientRatchet(p) PROVE Moves(s)
  BY <1>7, ClientRatchetMoves
<1>8. ASSUME NEW p \in Procs, NEW r \in wire, Receive(p, r) PROVE Moves(s)
  BY <1>8, ReceiveMoves
<1>9. ASSUME NEW w \in writes, Flush(w) PROVE Moves(s)
  BY <1>9, FlushMoves
<1>10. CASE Restart
  BY <1>10, RestartMoves
<1>11. CASE UNCHANGED vars
  BY <1>1, <1>11 DEF vars
<1> QED
  BY <1>2, <1>3, <1>4, <1>5, <1>6, <1>7, <1>8, <1>9, <1>10, <1>11 DEF Next

\* With serialised key changes the server implements the ratchet that both ends
\* count on, for both stores and whatever is lost, delayed, repeated or fails.
THEOREM ServerKeepsRatchet ==
  ASSUME Serial PROVE Spec => RatchetKept
<1>1. Init => Promise!Init
  BY DEF Init, Promise!Init, Promise!Gone, NoKeys, RatchetPhase, Ratcheting, Ratcheted,
         Unacked, Rekey
<1>2. TypeOK /\ AuthenticInv /\ RekeyInv /\ [Next]_vars => RekeyInv'
  BY Serial, NextRekeyInv
<1>3. TypeOK /\ AuthenticInv /\ RekeyInv /\ RekeyInv' /\ [Next]_vars => Promise!Next
  BY NextMoves DEF Promise!Next, Moves
<1> QED
  BY <1>1, <1>2, <1>3, InitRekeyInv, NextAuthentic, TypeCorrect, PTL
     DEF Spec, RatchetKept, Promise!Spec

=============================================================================
