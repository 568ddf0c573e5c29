-------------------------- MODULE NenConnectProofs --------------------------
(***************************************************************************)
(* Proofs about NenConnect, for any number of calls, handshakes, servers,  *)
(* failed exchanges and replaced parts of answers, any identities and any  *)
(* pinned keys.                                                            *)
(*                                                                         *)
(* The argument: whatever parts an answer is put together from, it names   *)
(* handshakes that were served and a signature in it was made by a server  *)
(* over what that server knew of a handshake (HandshakeInv), so the check  *)
(* finds a signature for this handshake only (SignedByServer); the client  *)
(* derives the server's secret exactly from an exchange that arrived as    *)
(* sent (ExchangeShared); its keys are those of one handshake that is done *)
(* (ClientInv), those a call was made with are too (CallInv), and a        *)
(* wrapper that shares its promise never starts a second handshake         *)
(* (PromiseInv).                                                           *)
(***************************************************************************)
EXTENDS NenConnect, FiniteSetTheorems, TLAPS

-----------------------------------------------------------------------------
(***************************************************************************)
(* The inductive invariants.                                               *)
(***************************************************************************)

\* The secret of handshake h, as the server computes it.
Secret(h) == Agreed(h, X25519("server", h))

\* Every variable has the fields it starts with.
ShapeOK ==
  /\ conf \in Options
  /\ client = [sid |-> client.sid, enc |-> client.enc, mac |-> client.mac,
               psk |-> client.psk, ticket |-> client.ticket]
  /\ client.sid \in Handshakes \cup {0}
  /\ promise \in Handshakes \cup {0}
  /\ hs = [h \in Handshakes |-> [st |-> hs[h].st, resp |-> hs[h].resp]]
  /\ sessions = [h \in Handshakes |-> sessions[h]]
  /\ call = [c \in Calls |-> [pc |-> call[c].pc, on |-> call[c].on, req |-> call[c].req]]

\* A handshake that was sent and answered, or failed on its way.
Left(h) == hs[h].st \notin {"unused", "sent"}

\* What every answer satisfies, whatever parts it is put together from: its session
\* id is that of a handshake on its way or settled, and a signature in it was made
\* by the server of some handshake over that handshake's own transcript.
AnswerOK(r) ==
  /\ r.sid \in Handshakes /\ Left(r.sid)
  /\ r.ct = [kem |-> r.ct.kem, coins |-> r.ct.coins]
  /\ r.sig # None =>
       \E g \in Handshakes, s \in Servers :
         /\ Left(g) /\ sessions[g].by = s /\ Identity[s] # None
         /\ r.sig = Sign(Identity[s].secret, TranscriptHash(g, ClientX(g), g, g))

\* An answer is for a handshake some server stored a session for; a handshake that is
\* done passed the checks.
HandshakeInv ==
  \A h \in Handshakes :
    /\ hs[h].st \in {"answered", "done"} => hs[h].resp # NoAnswer
    /\ hs[h].st = "done" => Usable(hs[h].resp) /\ Trusted(hs[h].resp, h)
    /\ hs[h].resp # NoAnswer =>
         /\ Left(h) /\ AnswerOK(hs[h].resp)
         /\ \E s \in Servers : sessions[h] = Session(s, h)

\* The client's keys, psk and ticket are those of handshake n.
KeysOf(n) ==
  /\ client.enc = EncKey(Combined(n)) /\ client.mac = MacKey(Combined(n))
  /\ client.psk = Psk(Combined(n)) /\ client.ticket = hs[n].resp.ticket

HasKeys == \E n \in Handshakes : hs[n].st = "done" /\ KeysOf(n)

\* While answers arrive as sent, the session id is that of the keys unless a
\* handshake that failed its identity check has replaced it.
ClientInv ==
  /\ client.sid # 0 => Left(client.sid)
  /\ client.enc # None =>
       \E n \in Handshakes :
         /\ hs[n].st = "done" /\ KeysOf(n)
         /\ AllAsSent =>
              \/ client.sid = n
              \/ /\ hs[client.sid].st = "failed" /\ client.sid \in Handshakes
                 /\ conf.identityMode = "pqc"

\* A request was made with the keys of a handshake that is done.
RequestInv(c) ==
  call[c].pc \in {"fetching", "served", "unreadable", "refused"} =>
    /\ HasKeys
    /\ call[c].req.sid \in Handshakes /\ Left(call[c].req.sid)
    /\ \E g \in Handshakes :
         /\ hs[g].st = "done"
         /\ call[c].req.enc = EncKey(Combined(g)) /\ call[c].req.mac = MacKey(Combined(g))
         /\ AllAsSent => call[c].req.sid = g \/ hs[call[c].req.sid].st = "failed"
    /\ call[c].pc = "served" => sessions[call[c].req.sid].enc = call[c].req.enc

\* What has become of calls that ended badly.
LostInv(c) ==
  /\ call[c].pc = "unreadable" =>
       \E g, h \in Handshakes : g # h /\ hs[g].st = "done" /\ hs[h].st = "done"
  /\ call[c].pc = "refused" /\ AllAsSent =>
       \E g, h \in Handshakes :
         hs[g].st = "done" /\ hs[h].st = "failed" /\ call[c].req.sid = h

CallInv == \A c \in Calls : RequestInv(c) /\ LostInv(c)

\* A factory starts one handshake and never another: its promise stands until
\* the handshake it is for has given the client a session id.
PromiseInv ==
  conf.wrapper = "factory" =>
    /\ \A g, h \in Handshakes : hs[g].st # "unused" /\ hs[h].st # "unused" => g = h
    /\ \A h \in Handshakes : hs[h].st # "unused" => promise # 0 \/ client.sid # 0
    /\ \A h \in Handshakes : hs[h].st = "done" => client.sid # 0

WaitInv == \A c \in Calls : call[c].pc = "waiting" => call[c].on \in Handshakes

-----------------------------------------------------------------------------
(***************************************************************************)
(* Lemmas about the operators.                                             *)
(***************************************************************************)

LEMMA NoZero == 0 \notin Handshakes
  BY ConnectAssumption DEF Handshakes

\* Both sides compute the same secret exactly if the key exchange arrived as sent:
\* decapsulating another ciphertext gives a secret of its own, and so does
\* Diffie-Hellman with another X25519 key.
LEMMA ExchangeShared ==
  ASSUME NEW h \in Handshakes, AnswerOK(hs[h].resp)
  PROVE  Exchanged(h) <=> Combined(h) = Secret(h)
<1> DEFINE r == hs[h].resp
           xs == X25519("server", h)
           xc == X25519("client", h)
<1>1. h # 0 /\ r.ct = [kem |-> r.ct.kem, coins |-> r.ct.coins]
  BY NoZero DEF AnswerOK
<1>2. Decapsulate(r.ct, h).coins = h <=> r.ct = Encapsulate(h, h).ct
  BY <1>1 DEF Decapsulate, Encapsulate
<1>3. Dh(xc, r.pkx) = Dh(xs, xc) <=> r.pkx = xs
  <2>1. xs # xc
    BY DEF X25519
  <2>2. QED BY <2>1 DEF Dh
<1>4. CASE conf.hybrid
  <2>1. /\ Combined(h) = [kem |-> h, coins |-> Decapsulate(r.ct, h).coins, dh |-> Dh(xc, r.pkx)]
        /\ Secret(h) = [kem |-> h, coins |-> h, dh |-> Dh(xs, xc)]
    BY <1>4 DEF Combined, Secret, Agreed, HybridCombine, Decapsulate, Encapsulate
  <2>2. Exchanged(h) <=> r.ct = Encapsulate(h, h).ct /\ r.pkx = xs
    BY <1>4 DEF Exchanged
  <2> HIDE DEF r, xs, xc
  <2>3. QED BY <1>2, <1>3, <2>1, <2>2
<1>5. CASE ~conf.hybrid
  <2>1. /\ Combined(h) = [kem |-> h, coins |-> Decapsulate(r.ct, h).coins, dh |-> {}]
        /\ Secret(h) = [kem |-> h, coins |-> h, dh |-> {}]
    BY <1>5 DEF Combined, Secret, Agreed, Decapsulate, Encapsulate
  <2>2. Exchanged(h) <=> r.ct = Encapsulate(h, h).ct
    BY <1>5 DEF Exchanged
  <2> HIDE DEF r
  <2>3. QED BY <1>2, <2>1, <2>2
<1>6. QED BY <1>4, <1>5

\* A secret names the handshake whose ML-KEM key pair it was computed with.
LEMMA SecretNames == \A h : Combined(h).kem = h
  BY DEF Combined, Decapsulate, HybridCombine

\* A derived key has one secret.
LEMMA DerivedFrom == \A secret : /\ EncKey(secret).from = secret
                                 /\ MacKey(secret).from = secret
  BY DEF EncKey, MacKey, Derive

\* A whole answer has the exchange its server made, its own session id, and a ticket
\* that seals the psk.
LEMMA WholeAnswer ==
  ASSUME NEW h \in Handshakes, AsSent(h)
  PROVE  /\ Exchanged(h) /\ hs[h].resp.sid = h /\ Usable(hs[h].resp)
         /\ hs[h].resp.ticket = Psk(Secret(h))
<1>1. PICK s \in Servers : hs[h].resp = Answer(s, h)
  BY DEF AsSent
<1>2. /\ hs[h].resp.ct = Encapsulate(h, h).ct /\ hs[h].resp.sid = h
      /\ conf.hybrid => hs[h].resp.pkx = X25519("server", h)
      /\ hs[h].resp.ticket = Psk(Agreed(h, X25519("server", h)))
  BY <1>1 DEF Answer
<1>3. Encapsulate(h, h).ct.kem = h /\ Garbled.kem = 0
  BY DEF Encapsulate, Garbled
<1>4. QED BY <1>2, <1>3, NoZero DEF Exchanged, Usable, Secret

\* An answer whose signature verifies was signed for this handshake, under its own
\* session id, by the server that stored the session.
LEMMA SignedByServer ==
  ASSUME NEW h \in Handshakes, NEW r, AnswerOK(r), Signature(r, h)
  PROVE  /\ r.sid = h
         /\ \E s \in Servers : /\ sessions[h].by = s
                               /\ Identity[s] # None /\ Identity[s].secret = r.idPk
<1>1. /\ r.sig # None /\ r.sig.by = r.idPk
      /\ r.sig.over = TranscriptHash(h, ClientX(h), r.nonce, r.sid)
  BY DEF Signature, VerifySignature
<1>2. PICK g \in Handshakes, s \in Servers :
        /\ sessions[g].by = s /\ Identity[s] # None
        /\ r.sig = Sign(Identity[s].secret, TranscriptHash(g, ClientX(g), g, g))
  BY <1>1 DEF AnswerOK
<1>3. /\ Identity[s].secret = r.idPk
      /\ TranscriptHash(g, ClientX(g), g, g) = TranscriptHash(h, ClientX(h), r.nonce, r.sid)
  BY <1>1, <1>2 DEF Sign
<1>4. g = h /\ r.sid = g
  BY <1>3 DEF TranscriptHash
<1>5. QED BY <1>2, <1>3, <1>4

\* The answers parts come from are as every answer is, and so is what they make.
LEMMA MixedAnswer ==
  ASSUME HandshakeInv, NEW h \in Handshakes, hs[h].st = "answered",
         NEW F, NEW b \in Sources(h)
  PROVE  AnswerOK(Mix(hs[h].resp, b, F)) /\ Mix(hs[h].resp, b, F) # NoAnswer
<1>1. AnswerOK(hs[h].resp)
  BY DEF HandshakeInv
<1>2. AnswerOK(b)
  <2>1. CASE b \in {Elsewhere(h), Unusable(h)}
    <3>1. b.sid = h /\ b.sig = None /\ b.ct = [kem |-> b.ct.kem, coins |-> b.ct.coins]
      BY <2>1 DEF Elsewhere, Unusable, Garbled, Encapsulate
    <3>2. Left(h)
      BY DEF Left
    <3>3. QED BY <3>1, <3>2 DEF AnswerOK
  <2>2. CASE b \in {hs[g].resp : g \in Handshakes} \ {NoAnswer}
    BY <2>2 DEF HandshakeInv
  <2>3. QED BY <2>1, <2>2 DEF Sources
<1>3. PICK m : m = Mix(hs[h].resp, b, F)
  OBVIOUS
<1>4. /\ m.sid \in {hs[h].resp.sid, b.sid} /\ m.ct \in {hs[h].resp.ct, b.ct}
      /\ m.sig \in {hs[h].resp.sig, b.sig}
  BY <1>3 DEF Mix
<1>5. AnswerOK(m)
  BY <1>1, <1>2, <1>4 DEF AnswerOK
<1>6. m # NoAnswer
  BY <1>5, NoZero DEF AnswerOK, NoAnswer
<1>7. QED BY <1>3, <1>5, <1>6

\* What is computed from the options does not change: they never do.
LEMMA SameTerms ==
  ASSUME conf' = conf
  PROVE  /\ \A h : Secret(h)' = Secret(h) /\ ClientX(h)' = ClientX(h)
         /\ \A s, h : Answer(s, h)' = Answer(s, h) /\ Session(s, h)' = Session(s, h)
         /\ \A r : Usable(r)' = Usable(r)
         /\ \A r, h : Trusted(r, h)' <=> Trusted(r, h)
<1>1. \A h, x : Agreed(h, x)' = Agreed(h, x)
  BY DEF Agreed, HybridCombine, Dh, X25519, Encapsulate
<1>2. \A h : ClientX(h)' = ClientX(h)
  BY DEF ClientX, X25519
<1>3. \A s, h : Signed(s, h)' = Signed(s, h)
  BY <1>2 DEF Signed, Sign, TranscriptHash
<1>4. \A h : Secret(h)' = Secret(h)
  BY <1>1 DEF Secret
<1>5. \A s, h : Session(s, h)' = Session(s, h)
  BY <1>1 DEF Session
<1>6. \A s, h : Answer(s, h)' = Answer(s, h)
  BY <1>1, <1>3 DEF Answer
<1>7. \A r : Usable(r)' = Usable(r)
  BY DEF Usable, Garbled
<1>8. \A r, h : Trusted(r, h)' <=> Trusted(r, h)
  BY <1>2 DEF Trusted, Signature, VerifySignature, TranscriptHash
<1>9. QED BY <1>2, <1>4, <1>5, <1>6, <1>7, <1>8

LEMMA ConfConstant == [Next]_vars => conf' = conf
  BY DEF Next, Exchange, Continue, Start, Step, ServeHandshake, Fail, Alter, Install, Reject, Throw,
         CallConnected, CallHandshakes, CallJoins, CallProceeds, CallThrows, ServeCall, CallEnds,
         vars

\* Two handshakes that are done are more than one.
LEMMA MoreThanOne ==
  ASSUME NEW g \in Handshakes, NEW h \in Handshakes, g # h, hs[g].st = "done", hs[h].st = "done"
  PROVE  Cardinality({i \in Handshakes : hs[i].st = "done"}) > 1
<1> DEFINE Done == {i \in Handshakes : hs[i].st = "done"}
<1>1. IsFiniteSet(Handshakes)
  <2>1. 1 \in Int /\ MaxHandshakes \in Int
    BY ConnectAssumption
  <2>2. IsFiniteSet(1..MaxHandshakes)
    BY <2>1, FS_Interval
  <2>3. QED BY <2>2 DEF Handshakes
<1>2. IsFiniteSet(Done) /\ Cardinality(Done) \in Nat
  BY <1>1, FS_Subset, FS_CardinalityType
<1>3. Cardinality({g}) = 1 /\ IsFiniteSet({g})
  BY FS_Singleton
<1>4. Cardinality({g} \cup {h}) = 2
  BY <1>3, FS_AddElement
<1>5. {g} \cup {h} \subseteq Done
  OBVIOUS
<1>6. QED BY <1>2, <1>4, <1>5, FS_Subset

\* A set of handshakes no two of which differ has at most one member.
LEMMA AtMostOne ==
  ASSUME NEW S \in SUBSET Handshakes, \A g, h \in S : g = h
  PROVE  Cardinality(S) <= 1
<1>1. CASE S = {}
  BY <1>1, FS_EmptySet
<1>2. CASE S # {}
  <2>1. PICK g \in S : S = {g}
    BY <1>2
  <2>2. QED BY <2>1, FS_Singleton
<1>3. QED BY <1>1, <1>2

-----------------------------------------------------------------------------
(***************************************************************************)
(* What the actions assign, field by field.                                *)
(***************************************************************************)

\* The record of handshake h gets a new state; the other handshakes keep theirs.
HandshakeBecomes(h, st, resp) ==
  /\ hs' = [g \in Handshakes |-> [st |-> hs'[g].st, resp |-> hs'[g].resp]]
  /\ hs'[h].st = st /\ hs'[h].resp = resp
  /\ \A g \in Handshakes : g # h => hs'[g] = hs[g]

LEMMA HandshakeSet ==
  ASSUME ShapeOK, NEW h \in Handshakes, NEW st
  PROVE  /\ hs' = [hs EXCEPT ![h].st = st] => HandshakeBecomes(h, st, hs[h].resp)
         /\ \A r : hs' = [hs EXCEPT ![h] = [st |-> st, resp |-> r]] => HandshakeBecomes(h, st, r)
         /\ \A r : hs' = [hs EXCEPT ![h].resp = r] => HandshakeBecomes(h, hs[h].st, r)
<1>1. hs = [g \in Handshakes |-> [st |-> hs[g].st, resp |-> hs[g].resp]]
  BY DEF ShapeOK
<1>2. hs' = [hs EXCEPT ![h].st = st] => HandshakeBecomes(h, st, hs[h].resp)
  BY <1>1 DEF HandshakeBecomes
<1>3. ASSUME NEW r, hs' = [hs EXCEPT ![h] = [st |-> st, resp |-> r]]
      PROVE  HandshakeBecomes(h, st, r)
  BY <1>1, <1>3 DEF HandshakeBecomes
<1>4. ASSUME NEW r, hs' = [hs EXCEPT ![h].resp = r]
      PROVE  HandshakeBecomes(h, hs[h].st, r)
  BY <1>1, <1>4 DEF HandshakeBecomes
<1>5. QED BY <1>2, <1>3, <1>4

\* The record of call c gets new fields; the other calls keep theirs.
CallBecomes(c, pc, on, req) ==
  /\ call' = [d \in Calls |-> [pc |-> call'[d].pc, on |-> call'[d].on, req |-> call'[d].req]]
  /\ call'[c].pc = pc /\ call'[c].on = on /\ call'[c].req = req
  /\ \A d \in Calls : d # c => call'[d] = call[d]

LEMMA CallSet ==
  ASSUME ShapeOK, NEW c \in Calls, NEW pc
  PROVE  /\ call' = [call EXCEPT ![c].pc = pc] => CallBecomes(c, pc, call[c].on, call[c].req)
         /\ \A on, r : call' = [call EXCEPT ![c] = [pc |-> pc, on |-> on, req |-> r]]
                         => CallBecomes(c, pc, on, r)
<1>1. call = [d \in Calls |-> [pc |-> call[d].pc, on |-> call[d].on, req |-> call[d].req]]
  BY DEF ShapeOK
<1>2. call' = [call EXCEPT ![c].pc = pc] => CallBecomes(c, pc, call[c].on, call[c].req)
  BY <1>1 DEF CallBecomes
<1>3. ASSUME NEW on, NEW r, call' = [call EXCEPT ![c] = [pc |-> pc, on |-> on, req |-> r]]
      PROVE  CallBecomes(c, pc, on, r)
  BY <1>1, <1>3 DEF CallBecomes
<1>4. QED BY <1>2, <1>3

\* A request carries what the client holds, if it holds a session and its keys.
LEMMA FetchEffect ==
  ASSUME ShapeOK, NEW c \in Calls, Fetch(c)
  PROVE  \/ CallBecomes(c, "threw", call[c].on, call[c].req)
         \/ /\ client.sid # 0 /\ client.enc # None
            /\ CallBecomes(c, "fetching", call[c].on,
                           [sid |-> client.sid, enc |-> client.enc, mac |-> client.mac])
<1>1. CASE client.sid = 0 \/ client.enc = None
  BY <1>1, CallSet DEF Fetch
<1>2. CASE ~(client.sid = 0 \/ client.enc = None)
  BY <1>2, CallSet DEF Fetch
<1>3. QED BY <1>1, <1>2

\* An installed answer passed the checks, and leaves the client with its session id
\* and the keys of its handshake.
LEMMA InstallEffect ==
  ASSUME ShapeOK, NEW h \in Handshakes, Install(h)
  PROVE  /\ hs[h].st = "answered" /\ HandshakeBecomes(h, "done", hs[h].resp)
         /\ Usable(hs[h].resp) /\ Trusted(hs[h].resp, h)
         /\ client' = [sid |-> hs[h].resp.sid, enc |-> EncKey(Combined(h)),
                       mac |-> MacKey(Combined(h)), psk |-> Psk(Combined(h)),
                       ticket |-> hs[h].resp.ticket]
         /\ UNCHANGED <<conf, promise, sessions, call>>
<1>1. /\ hs[h].st = "answered" /\ hs' = [hs EXCEPT ![h].st = "done"]
      /\ UNCHANGED <<conf, promise, sessions, call>>
  BY DEF Install
<1>2. HandshakeBecomes(h, "done", hs[h].resp)
  BY <1>1, HandshakeSet
<1>3. QED BY <1>1, <1>2 DEF Install

\* A rejected answer leaves its session id; one that arrived as sent is rejected only
\* by a client that checks identities.
LEMMA RejectEffect ==
  ASSUME ShapeOK, NEW h \in Handshakes, Reject(h)
  PROVE  /\ hs[h].st = "answered" /\ HandshakeBecomes(h, "failed", hs[h].resp)
         /\ client' = [sid |-> hs[h].resp.sid, enc |-> client.enc, mac |-> client.mac,
                       psk |-> client.psk, ticket |-> client.ticket]
         /\ AsSent(h) => conf.identityMode = "pqc"
         /\ UNCHANGED <<conf, promise, sessions, call>>
<1>1. /\ hs[h].st = "answered" /\ ~(Usable(hs[h].resp) /\ Trusted(hs[h].resp, h))
      /\ hs' = [hs EXCEPT ![h].st = "failed"]
      /\ client' = [client EXCEPT !.sid = hs[h].resp.sid]
      /\ UNCHANGED <<conf, promise, sessions, call>>
  BY DEF Reject
<1>2. HandshakeBecomes(h, "failed", hs[h].resp)
  BY <1>1, HandshakeSet
<1>3. AsSent(h) => conf.identityMode = "pqc"
  BY <1>1, WholeAnswer DEF Trusted
<1>4. client = [sid |-> client.sid, enc |-> client.enc, mac |-> client.mac,
               psk |-> client.psk, ticket |-> client.ticket]
  BY DEF ShapeOK
<1>5. QED BY <1>1, <1>2, <1>3, <1>4

\* The remaining steps of handshakes.
LEMMA HandshakeEffects ==
  ASSUME ShapeOK, NEW h \in Handshakes
  PROVE  /\ ServeHandshake(h) => \E s \in Servers :
               /\ hs[h].st = "sent" /\ HandshakeBecomes(h, "answered", Answer(s, h))
               /\ sessions' = [sessions EXCEPT ![h] = Session(s, h)]
               /\ UNCHANGED <<conf, client, promise, call>>
         /\ Fail(h) =>
               /\ hs[h].st \in {"sent", "answered"} /\ HandshakeBecomes(h, "broken", NoAnswer)
               /\ UNCHANGED <<conf, client, promise, sessions, call>>
         /\ Alter(h) => \E F \in Parts, b \in Sources(h) :
               /\ hs[h].st = "answered"
               /\ HandshakeBecomes(h, "answered", Mix(hs[h].resp, b, F))
               /\ UNCHANGED <<conf, client, promise, sessions, call>>
         /\ Throw(h) =>
               /\ hs[h].st = "broken" /\ HandshakeBecomes(h, "failed", hs[h].resp)
               /\ UNCHANGED <<conf, client, promise, sessions, call>>
<1>1. ASSUME ServeHandshake(h)
      PROVE  \E s \in Servers :
               /\ hs[h].st = "sent" /\ HandshakeBecomes(h, "answered", Answer(s, h))
               /\ sessions' = [sessions EXCEPT ![h] = Session(s, h)]
               /\ UNCHANGED <<conf, client, promise, call>>
  <2>1. PICK s \in Servers :
          /\ hs[h].st = "sent"
          /\ sessions' = [sessions EXCEPT ![h] = Session(s, h)]
          /\ hs' = [hs EXCEPT ![h] = [st |-> "answered", resp |-> Answer(s, h)]]
          /\ UNCHANGED <<conf, client, promise, call>>
    BY <1>1 DEF ServeHandshake
  <2>2. QED BY <2>1, HandshakeSet
<1>2. Fail(h) => HandshakeBecomes(h, "broken", NoAnswer)
  BY HandshakeSet DEF Fail
<1>3. Throw(h) => HandshakeBecomes(h, "failed", hs[h].resp)
  BY HandshakeSet DEF Throw
<1>4. ASSUME Alter(h)
      PROVE  \E F \in Parts, b \in Sources(h) :
               /\ hs[h].st = "answered"
               /\ HandshakeBecomes(h, "answered", Mix(hs[h].resp, b, F))
               /\ UNCHANGED <<conf, client, promise, sessions, call>>
  <2>1. PICK F \in Parts, b \in Sources(h) :
          /\ hs[h].st = "answered"
          /\ hs' = [hs EXCEPT ![h].resp = Mix(hs[h].resp, b, F)]
          /\ UNCHANGED <<conf, client, promise, sessions, call>>
    BY <1>4 DEF Alter
  <2>2. QED BY <2>1, HandshakeSet
<1>5. QED BY <1>1, <1>2, <1>3, <1>4 DEF Fail, Throw

\* A call's first steps.
LEMMA StartEffects ==
  ASSUME ShapeOK, NEW c \in Calls
  PROVE  /\ CallHandshakes(c) => \E h \in Handshakes :
               /\ call[c].pc = "idle" /\ client.sid = 0 /\ NextHandshake(h)
               /\ Shares => promise = 0 /\ promise' = h
               /\ promise' \in {promise, h}
               /\ HandshakeBecomes(h, "sent", hs[h].resp)
               /\ CallBecomes(c, "waiting", h, NoRequest)
               /\ UNCHANGED <<conf, client, sessions>>
         /\ CallJoins(c) =>
               /\ promise # 0 /\ CallBecomes(c, "waiting", promise, NoRequest)
               /\ UNCHANGED <<conf, client, promise, hs, sessions>>
<1>1. ASSUME CallHandshakes(c)
      PROVE  \E h \in Handshakes :
               /\ call[c].pc = "idle" /\ client.sid = 0 /\ NextHandshake(h)
               /\ Shares => promise = 0 /\ promise' = h
               /\ promise' \in {promise, h}
               /\ HandshakeBecomes(h, "sent", hs[h].resp)
               /\ CallBecomes(c, "waiting", h, NoRequest)
               /\ UNCHANGED <<conf, client, sessions>>
  <2>1. PICK h \in Handshakes :
          /\ call[c].pc = "idle" /\ client.sid = 0 /\ NextHandshake(h)
          /\ Shares => promise = 0
          /\ hs' = [hs EXCEPT ![h].st = "sent"]
          /\ promise' = IF Shares THEN h ELSE promise
          /\ call' = [call EXCEPT ![c] = [pc |-> "waiting", on |-> h, req |-> NoRequest]]
          /\ UNCHANGED <<conf, client, sessions>>
    BY <1>1 DEF CallHandshakes, Started
  <2>2. HandshakeBecomes(h, "sent", hs[h].resp)
    BY <2>1, HandshakeSet
  <2>3. CallBecomes(c, "waiting", h, NoRequest)
    BY <2>1, CallSet
  <2>4. QED BY <2>1, <2>2, <2>3
<1>2. CallJoins(c) => CallBecomes(c, "waiting", promise, NoRequest)
  BY CallSet DEF CallJoins
<1>3. QED BY <1>1, <1>2 DEF CallJoins

\* A call's later steps leave handshakes, sessions and the client alone.
LEMMA CallEffects ==
  ASSUME ShapeOK, NEW c \in Calls
  PROVE  /\ CallConnected(c) \/ CallProceeds(c) =>
               /\ promise' \in {promise, 0}
               /\ \/ CallBecomes(c, "threw", call[c].on, call[c].req)
                  \/ /\ client.sid # 0 /\ client.enc # None
                     /\ CallBecomes(c, "fetching", call[c].on,
                           [sid |-> client.sid, enc |-> client.enc, mac |-> client.mac])
         /\ CallThrows(c) =>
               /\ CallBecomes(c, "threw", call[c].on, call[c].req) /\ UNCHANGED promise
         /\ ServeCall(c) =>
               /\ call[c].pc = "fetching" /\ UNCHANGED promise
               /\ \/ /\ sessions[call[c].req.sid].mac = call[c].req.mac
                     /\ sessions[call[c].req.sid].enc = call[c].req.enc
                     /\ CallBecomes(c, "served", call[c].on, call[c].req)
                  \/ /\ ~(/\ sessions[call[c].req.sid].mac = call[c].req.mac
                          /\ sessions[call[c].req.sid].enc = call[c].req.enc)
                     /\ CallBecomes(c, "refused", call[c].on, call[c].req)
         /\ CallEnds(c) =>
               /\ call[c].pc = "served" /\ UNCHANGED promise
               /\ \/ CallBecomes(c, "ok", call[c].on, call[c].req)
                  \/ /\ sessions[call[c].req.sid].enc # client.enc
                     /\ CallBecomes(c, "unreadable", call[c].on, call[c].req)
         /\ CallConnected(c) \/ CallProceeds(c) \/ CallThrows(c) \/ ServeCall(c) \/ CallEnds(c)
               => UNCHANGED <<conf, client, hs, sessions>>
<1>1. CallConnected(c) \/ CallProceeds(c) => Fetch(c) /\ promise' \in {promise, 0}
  BY DEF CallConnected, CallProceeds
<1>2. CallThrows(c) => CallBecomes(c, "threw", call[c].on, call[c].req)
  BY CallSet DEF CallThrows
<1>3. ASSUME ServeCall(c)
      PROVE  \/ /\ sessions[call[c].req.sid].mac = call[c].req.mac
                /\ sessions[call[c].req.sid].enc = call[c].req.enc
                /\ CallBecomes(c, "served", call[c].on, call[c].req)
             \/ /\ ~(/\ sessions[call[c].req.sid].mac = call[c].req.mac
                     /\ sessions[call[c].req.sid].enc = call[c].req.enc)
                /\ CallBecomes(c, "refused", call[c].on, call[c].req)
  BY <1>3, CallSet DEF ServeCall
<1>4. ASSUME CallEnds(c)
      PROVE  \/ CallBecomes(c, "ok", call[c].on, call[c].req)
             \/ /\ sessions[call[c].req.sid].enc # client.enc
                /\ CallBecomes(c, "unreadable", call[c].on, call[c].req)
  BY <1>4, CallSet DEF CallEnds
<1>5. CallConnected(c) \/ CallProceeds(c) \/ CallThrows(c) \/ ServeCall(c) \/ CallEnds(c)
        => UNCHANGED <<conf, client, hs, sessions>>
  BY DEF CallConnected, CallProceeds, CallThrows, ServeCall, CallEnds
<1>6. QED BY <1>1, <1>2, <1>3, <1>4, <1>5, FetchEffect DEF CallThrows, ServeCall, CallEnds

-----------------------------------------------------------------------------
(***************************************************************************)
(* The inductive invariants hold initially and are preserved.              *)
(***************************************************************************)

ConnectInv == ShapeOK /\ HandshakeInv /\ ClientInv /\ CallInv /\ WaitInv /\ PromiseInv

LEMMA InitInv == Init => ConnectInv
<1> SUFFICES ASSUME Init PROVE ConnectInv
  OBVIOUS
<1>1. ShapeOK
  BY DEF Init, ShapeOK
<1>2. HandshakeInv
  BY DEF Init, HandshakeInv
<1>3. ClientInv
  BY DEF Init, ClientInv
<1>4. CallInv /\ WaitInv
  BY DEF Init, CallInv, RequestInv, LostInv, WaitInv
<1>5. PromiseInv
  BY DEF Init, PromiseInv
<1>6. QED BY <1>1, <1>2, <1>3, <1>4, <1>5 DEF ConnectInv

LEMMA ShapeStep == ShapeOK /\ HandshakeInv /\ [Next]_vars => ShapeOK'
<1> SUFFICES ASSUME ShapeOK, HandshakeInv, [Next]_vars PROVE ShapeOK'
  OBVIOUS
<1>1. ASSUME NEW h \in Handshakes, ServeHandshake(h)
      PROVE  ShapeOK'
  BY <1>1, HandshakeEffects DEF ShapeOK, HandshakeBecomes
<1>2. ASSUME NEW h \in Handshakes, Fail(h) \/ Alter(h) \/ Throw(h)
      PROVE  ShapeOK'
  BY <1>2, HandshakeEffects DEF ShapeOK, HandshakeBecomes
<1>3. ASSUME NEW h \in Handshakes, Install(h) \/ Reject(h)
      PROVE  ShapeOK'
  <2>1. hs[h].resp.sid \in Handshakes
    BY <1>3, InstallEffect, RejectEffect DEF HandshakeInv, AnswerOK
  <2>2. /\ client' = [sid |-> client'.sid, enc |-> client'.enc, mac |-> client'.mac,
                      psk |-> client'.psk, ticket |-> client'.ticket]
        /\ client'.sid = hs[h].resp.sid
    BY <1>3, InstallEffect, RejectEffect
  <2>3. /\ hs' = [g \in Handshakes |-> [st |-> hs'[g].st, resp |-> hs'[g].resp]]
        /\ UNCHANGED <<conf, promise, sessions, call>>
    BY <1>3, InstallEffect, RejectEffect DEF HandshakeBecomes
  <2>4. QED BY <2>1, <2>2, <2>3 DEF ShapeOK
<1>4. ASSUME NEW c \in Calls, CallHandshakes(c) \/ CallJoins(c)
      PROVE  ShapeOK'
  BY <1>4, StartEffects DEF ShapeOK, HandshakeBecomes, CallBecomes
<1>5. ASSUME NEW c \in Calls,
             CallConnected(c) \/ CallProceeds(c) \/ CallThrows(c) \/ ServeCall(c) \/ CallEnds(c)
      PROVE  ShapeOK'
  BY <1>5, CallEffects DEF ShapeOK, CallBecomes
<1>6. CASE UNCHANGED vars
  BY <1>6 DEF vars, ShapeOK
<1>7. QED
  BY <1>1, <1>2, <1>3, <1>4, <1>5, <1>6 DEF Next, Exchange, Continue, Start, Step

\* What no step undoes: a handshake that is done or has failed stays as it is, and
\* the session of one that was served stays as it was stored.
LEMMA Settled ==
  ASSUME ShapeOK, [Next]_vars, NEW h \in Handshakes
  PROVE  /\ hs[h].st \in {"done", "failed"} => hs'[h] = hs[h]
         /\ Left(h) => Left(h)' /\ sessions'[h] = sessions[h]
<1> DEFINE Goal == /\ hs[h].st \in {"done", "failed"} => hs'[h] = hs[h]
                   /\ hs[h].st \notin {"unused", "sent"} =>
                        hs'[h].st \notin {"unused", "sent"} /\ sessions'[h] = sessions[h]
<1>1. ASSUME NEW g \in Handshakes, ServeHandshake(g)
      PROVE  Goal
  BY <1>1, HandshakeEffects DEF ShapeOK, HandshakeBecomes
<1>2. ASSUME NEW g \in Handshakes, Fail(g) \/ Alter(g) \/ Throw(g)
      PROVE  Goal
  BY <1>2, HandshakeEffects DEF HandshakeBecomes
<1>3. ASSUME NEW g \in Handshakes, Install(g) \/ Reject(g)
      PROVE  Goal
  BY <1>3, InstallEffect, RejectEffect DEF HandshakeBecomes
<1>4. ASSUME NEW c \in Calls, CallHandshakes(c) \/ CallJoins(c)
      PROVE  Goal
  BY <1>4, StartEffects DEF HandshakeBecomes, NextHandshake
<1>5. ASSUME NEW c \in Calls,
             CallConnected(c) \/ CallProceeds(c) \/ CallThrows(c) \/ ServeCall(c) \/ CallEnds(c)
      PROVE  Goal
  BY <1>5, CallEffects
<1>6. ASSUME UNCHANGED vars
      PROVE  Goal
  BY <1>6 DEF vars
<1> HIDE DEF Goal
<1>7. Goal
  BY <1>1, <1>2, <1>3, <1>4, <1>5, <1>6 DEF Next, Exchange, Continue, Start, Step
<1>8. QED BY <1>7 DEF Goal, Left

\* An answer goes on being as every answer is.
LEMMA AnswerStays ==
  ASSUME ShapeOK, [Next]_vars, NEW r, AnswerOK(r)
  PROVE  AnswerOK(r)'
<1>1. \A h : ClientX(h)' = ClientX(h)
  BY ConfConstant, SameTerms
<1>2. \A h \in Handshakes : Left(h) => Left(h)' /\ sessions'[h] = sessions[h]
  BY Settled
<1>3. /\ r.sid \in Handshakes /\ Left(r.sid)'
      /\ r.ct = [kem |-> r.ct.kem, coins |-> r.ct.coins]
  BY <1>2 DEF AnswerOK
<1>4. ASSUME r.sig # None
      PROVE  \E g \in Handshakes, s \in Servers :
               /\ Left(g)' /\ sessions'[g].by = s /\ Identity[s] # None
               /\ r.sig = Sign(Identity[s].secret, TranscriptHash(g, ClientX(g)', g, g))
  <2>1. PICK g \in Handshakes, s \in Servers :
          /\ Left(g) /\ sessions[g].by = s /\ Identity[s] # None
          /\ r.sig = Sign(Identity[s].secret, TranscriptHash(g, ClientX(g), g, g))
    BY <1>4 DEF AnswerOK
  <2>2. QED BY <1>1, <1>2, <2>1
<1>5. QED BY <1>3, <1>4 DEF AnswerOK, Sign, TranscriptHash

\* A server's answer is as every answer is.
LEMMA ServedAnswer ==
  ASSUME ShapeOK, NEW h \in Handshakes, NEW s \in Servers, conf' = conf,
         hs'[h].st = "answered", sessions'[h] = Session(s, h)
  PROVE  AnswerOK(Answer(s, h))' /\ Answer(s, h) # NoAnswer
<1>1. /\ Answer(s, h).sid = h /\ Answer(s, h).sig = Signed(s, h).sig
      /\ Answer(s, h).ct = [kem |-> h, coins |-> h]
  BY DEF Answer, Encapsulate
<1>2. Left(h)' /\ sessions'[h].by = s
  BY DEF Left, Session
<1>3. Signed(s, h).sig # None =>
        /\ Identity[s] # None
        /\ Signed(s, h).sig = Sign(Identity[s].secret, TranscriptHash(h, ClientX(h), h, h))
  BY DEF Signed
<1>4. /\ Answer(s, h)' = Answer(s, h) /\ ClientX(h)' = ClientX(h)
  BY SameTerms
<1>5. PICK r : r = Answer(s, h)
  OBVIOUS
<1>6. r.ct = [kem |-> r.ct.kem, coins |-> r.ct.coins]
  BY <1>1, <1>5
<1>7. r.sig # None =>
        /\ Left(h)' /\ sessions'[h].by = s /\ Identity[s] # None
        /\ r.sig = Sign(Identity[s].secret, TranscriptHash(h, ClientX(h)', h, h))
  BY <1>1, <1>2, <1>3, <1>4, <1>5
<1>8. AnswerOK(r)'
  BY <1>1, <1>2, <1>5, <1>6, <1>7 DEF AnswerOK, Sign, TranscriptHash
<1>9. r # NoAnswer
  BY <1>1, <1>5, NoZero DEF NoAnswer
<1>10. QED BY <1>4, <1>5, <1>8, <1>9 DEF AnswerOK

LEMMA HandshakeStep == ShapeOK /\ HandshakeInv /\ [Next]_vars => HandshakeInv'
<1> SUFFICES ASSUME ShapeOK, HandshakeInv, [Next]_vars, NEW h \in Handshakes
             PROVE  /\ hs'[h].st \in {"answered", "done"} => hs'[h].resp # NoAnswer'
                    /\ hs'[h].st = "done" => Usable(hs[h].resp)' /\ Trusted(hs[h].resp, h)'
                    /\ hs'[h].resp # NoAnswer' =>
                         /\ Left(h)' /\ AnswerOK(hs[h].resp)'
                         /\ \E s \in Servers : sessions'[h] = Session(s, h)'
  BY DEF HandshakeInv
<1> DEFINE Sound(st, r) ==
             /\ st \in {"answered", "done"} => r # NoAnswer
             /\ st = "done" => Usable(r) /\ Trusted(r, h)
             /\ r # NoAnswer =>
                  /\ st \notin {"unused", "sent"} /\ AnswerOK(r)'
                  /\ \E s \in Servers : sessions'[h] = Session(s, h)
<1>0. ASSUME NEW r, AnswerOK(r)
      PROVE  AnswerOK(r)'
  BY <1>0, AnswerStays
<1> PICK new : new = hs'[h].resp
  OBVIOUS
<1>1. Sound(hs'[h].st, new)
  <2> PICK old : old = hs[h].resp
    OBVIOUS
  <2>0. ASSUME hs'[h] = hs[h]
        PROVE  Sound(hs'[h].st, new)
    <3>1. old # NoAnswer => sessions'[h] = sessions[h]
      BY Settled DEF HandshakeInv
    <3>2. old # NoAnswer => AnswerOK(old)'
      BY <1>0 DEF HandshakeInv
    <3>3. /\ new = old /\ hs'[h].st = hs[h].st
      BY <2>0
    <3>4. QED BY <3>1, <3>2, <3>3 DEF HandshakeInv, Left
  <2> HIDE DEF Sound
  <2>1. ASSUME NEW g \in Handshakes, g # h,
               \/ ServeHandshake(g) \/ Fail(g) \/ Alter(g) \/ Throw(g)
               \/ Install(g) \/ Reject(g)
        PROVE  Sound(hs'[h].st, new)
    <3>1. hs'[h] = hs[h]
      BY <2>1, HandshakeEffects, InstallEffect, RejectEffect DEF HandshakeBecomes
    <3>2. QED BY <2>0, <3>1
  <2>2. ASSUME ServeHandshake(h)
        PROVE  Sound(hs'[h].st, new)
    <3>1. PICK s \in Servers :
            /\ HandshakeBecomes(h, "answered", Answer(s, h)) /\ UNCHANGED conf
            /\ sessions' = [sessions EXCEPT ![h] = Session(s, h)]
      BY <2>2, HandshakeEffects
    <3>2. /\ hs'[h].st = "answered" /\ hs'[h].resp = Answer(s, h)
          /\ sessions'[h] = Session(s, h)
      BY <3>1 DEF HandshakeBecomes, ShapeOK
    <3>3. AnswerOK(Answer(s, h))' /\ Answer(s, h) # NoAnswer /\ Answer(s, h)' = Answer(s, h)
      BY <3>1, <3>2, ServedAnswer, SameTerms
    <3>4. PICK r : r = Answer(s, h)
      OBVIOUS
    <3>5. AnswerOK(r)' /\ r # NoAnswer
      BY <3>3, <3>4 DEF AnswerOK
    <3>6. Sound("answered", r)
      BY <3>2, <3>5 DEF Sound
    <3>7. QED BY <3>2, <3>4, <3>6
  <2>3. ASSUME Fail(h)
        PROVE  Sound(hs'[h].st, new)
    <3>1. hs'[h].st = "broken" /\ hs'[h].resp = NoAnswer
      BY <2>3, HandshakeEffects DEF HandshakeBecomes
    <3>2. QED BY <3>1 DEF Sound
  <2>4. ASSUME Alter(h)
        PROVE  Sound(hs'[h].st, new)
    <3>1. PICK F \in Parts, b \in Sources(h) :
            /\ hs[h].st = "answered" /\ UNCHANGED sessions
            /\ HandshakeBecomes(h, "answered", Mix(hs[h].resp, b, F))
      BY <2>4, HandshakeEffects
    <3>2. PICK r : r = Mix(hs[h].resp, b, F)
      OBVIOUS
    <3>3. AnswerOK(r) /\ r # NoAnswer
      BY <3>1, <3>2, MixedAnswer
    <3>4. AnswerOK(r)' /\ \E s \in Servers : sessions'[h] = Session(s, h)
      BY <1>0, <3>1, <3>3 DEF HandshakeInv
    <3>5. Sound("answered", r)
      BY <3>3, <3>4 DEF Sound
    <3>6. QED BY <3>1, <3>2, <3>5 DEF HandshakeBecomes
  <2>5. ASSUME Throw(h) \/ Install(h) \/ Reject(h)
        PROVE  Sound(hs'[h].st, new)
    <3>1. /\ hs'[h].resp = old /\ UNCHANGED sessions
          /\ \/ hs'[h].st = "failed" /\ hs[h].st \in {"broken", "answered"}
             \/ hs'[h].st = "done" /\ hs[h].st = "answered" /\ Usable(old) /\ Trusted(old, h)
      BY <2>5, HandshakeEffects, InstallEffect, RejectEffect DEF HandshakeBecomes
    <3>2. old # NoAnswer => AnswerOK(old)'
      BY <1>0 DEF HandshakeInv
    <3>3. Sound(hs'[h].st, old)
      BY <3>1, <3>2 DEF HandshakeInv, Sound
    <3>4. QED BY <3>1, <3>3
  <2>6. ASSUME NEW c \in Calls, CallHandshakes(c)
        PROVE  Sound(hs'[h].st, new)
    <3>1. PICK g \in Handshakes :
            NextHandshake(g) /\ HandshakeBecomes(g, "sent", hs[g].resp) /\ UNCHANGED sessions
      BY <2>6, StartEffects
    <3>2. CASE g # h
      BY <2>0, <3>1, <3>2 DEF HandshakeBecomes
    <3>3. CASE g = h
      <4>1. hs'[h].st = "sent" /\ hs'[h].resp = NoAnswer
        BY <3>1, <3>3 DEF HandshakeBecomes, NextHandshake, HandshakeInv, Left
      <4>2. QED BY <4>1 DEF Sound
    <3>4. QED BY <3>2, <3>3
  <2>7. ASSUME NEW c \in Calls,
               \/ CallJoins(c) \/ CallConnected(c) \/ CallProceeds(c) \/ CallThrows(c)
               \/ ServeCall(c) \/ CallEnds(c)
        PROVE  Sound(hs'[h].st, new)
    BY <2>0, <2>7, StartEffects, CallEffects
  <2>8. ASSUME UNCHANGED vars
        PROVE  Sound(hs'[h].st, new)
    BY <2>0, <2>8 DEF vars
  <2>9. QED
    BY <2>1, <2>2, <2>3, <2>4, <2>5, <2>6, <2>7, <2>8
    DEF Next, Exchange, Continue, Start, Step
<1>2. /\ conf' = conf /\ NoAnswer' = NoAnswer /\ \A s : Session(s, h)' = Session(s, h)
      /\ Usable(new)' = Usable(new) /\ (Trusted(new, h)' <=> Trusted(new, h))
  BY ConfConstant, SameTerms DEF NoAnswer
<1>3. new # NoAnswer => AnswerOK(hs[h].resp)'
  BY <1>1 DEF AnswerOK
<1>4. hs'[h].st = "done" => Usable(hs[h].resp)' /\ Trusted(hs[h].resp, h)'
  BY <1>1, <1>2 DEF Usable, Trusted, Signature
<1>5. QED BY <1>1, <1>2, <1>3, <1>4 DEF Left

\* What a handshake that is done left in the store.
LEMMA DoneSession ==
  ASSUME HandshakeInv, NEW g \in Handshakes, hs[g].st = "done"
  PROVE  /\ AnswerOK(hs[g].resp)
         /\ \E s \in Servers : sessions[g] = Session(s, g) /\ sessions[g].by = s
         /\ sessions[g].enc = EncKey(Secret(g)) /\ sessions[g].mac = MacKey(Secret(g))
<1>1. PICK s \in Servers : sessions[g] = Session(s, g)
  BY DEF HandshakeInv
<1>2. /\ sessions[g].by = s
      /\ sessions[g].enc = EncKey(Secret(g)) /\ sessions[g].mac = MacKey(Secret(g))
  BY <1>1 DEF Session, Secret
<1>3. AnswerOK(hs[g].resp)
  BY DEF HandshakeInv
<1>4. QED BY <1>1, <1>2, <1>3

\* The client derives the keys of a handshake that is done from what it kept.
LEMMA CombinedStays ==
  ASSUME ShapeOK, [Next]_vars, NEW h \in Handshakes, hs[h].st \in {"done", "failed"}
  PROVE  Combined(h)' = Combined(h) /\ hs'[h] = hs[h]
<1>1. hs'[h] = hs[h] /\ conf' = conf
  BY Settled, ConfConstant
<1>2. QED BY <1>1 DEF Combined, Decapsulate, HybridCombine, Dh, X25519

\* Answers once taken up stay as they were sent, or not.
LEMMA SentBefore ==
  ASSUME ShapeOK, [Next]_vars, AllAsSent'
  PROVE  AllAsSent
<1> SUFFICES ASSUME NEW h \in Handshakes, hs[h].st \in {"done", "failed"}, hs[h].resp # NoAnswer
             PROVE  AsSent(h)
  BY DEF AllAsSent
<1>1. hs'[h] = hs[h] /\ \A s : Answer(s, h)' = Answer(s, h)
  BY Settled, ConfConstant, SameTerms
<1>2. AsSent(h)'
  BY <1>1 DEF AllAsSent, NoAnswer
<1>3. QED BY <1>1, <1>2 DEF AsSent

\* What the client holds changes in two steps only.
LEMMA ClientSame ==
  ASSUME ShapeOK, [Next]_vars, \A h \in Handshakes : ~Install(h) /\ ~Reject(h)
  PROVE  client' = client
  BY DEF Next, Exchange, Continue, Start, Step, ServeHandshake, Fail, Alter, Throw, CallConnected,
         CallHandshakes, CallJoins, CallProceeds, CallThrows, ServeCall, CallEnds, vars

\* An installed answer leaves the client with the keys of its handshake.
LEMMA InstalledKeys ==
  ASSUME ShapeOK, NEW h \in Handshakes, Install(h), [Next]_vars
  PROVE  hs'[h].st = "done" /\ KeysOf(h)'
<1>1. /\ hs'[h].st = "done" /\ hs'[h].resp = hs[h].resp /\ conf' = conf
      /\ client'.enc = EncKey(Combined(h)) /\ client'.mac = MacKey(Combined(h))
      /\ client'.psk = Psk(Combined(h)) /\ client'.ticket = hs[h].resp.ticket
  BY InstallEffect DEF HandshakeBecomes
<1>2. Combined(h)' = Combined(h)
  BY <1>1 DEF Combined, Decapsulate, HybridCombine, Dh, X25519
<1>3. QED BY <1>1, <1>2 DEF KeysOf, EncKey, MacKey, Psk, Derive

\* Keys of a handshake that is done are those of that handshake after the step too.
LEMMA KeptKeys ==
  ASSUME ShapeOK, [Next]_vars, NEW n \in Handshakes, hs[n].st = "done", KeysOf(n),
         client'.enc = client.enc, client'.mac = client.mac,
         client'.psk = client.psk, client'.ticket = client.ticket
  PROVE  hs'[n].st = "done" /\ KeysOf(n)'
<1>1. Combined(n)' = Combined(n) /\ hs'[n] = hs[n]
  BY CombinedStays
<1>2. QED BY <1>1 DEF KeysOf, EncKey, MacKey, Psk, Derive

LEMMA ClientStep == ShapeOK /\ HandshakeInv /\ ClientInv /\ [Next]_vars => ClientInv'
<1> SUFFICES ASSUME ShapeOK, HandshakeInv, ClientInv, [Next]_vars PROVE ClientInv'
  OBVIOUS
<1> DEFINE Named == client'.sid # 0 => Left(client.sid)'
<1>0. conf' = conf /\ \A s, h : Answer(s, h)' = Answer(s, h)
  BY ConfConstant, SameTerms
<1>1. ASSUME NEW h \in Handshakes, Install(h) \/ Reject(h)
      PROVE  client'.sid = hs[h].resp.sid /\ client'.sid \in Handshakes /\ Named
  <2>1. client'.sid = hs[h].resp.sid /\ AnswerOK(hs[h].resp)
    BY <1>1, InstallEffect, RejectEffect DEF HandshakeInv
  <2>2. PICK n : n = client'.sid
    OBVIOUS
  <2>3. n \in Handshakes /\ Left(n)
    BY <2>1, <2>2 DEF AnswerOK
  <2>4. Left(n)'
    BY <2>3, Settled
  <2>5. QED BY <2>1, <2>2, <2>3, <2>4 DEF Left
<1>2. ASSUME NEW h \in Handshakes, Install(h)
      PROVE  ClientInv'
  <2>1. hs'[h].st = "done" /\ KeysOf(h)' /\ hs'[h].resp = hs[h].resp
    BY <1>2, InstalledKeys, InstallEffect DEF HandshakeBecomes
  <2>2. AllAsSent' => client'.sid = h
    <3> SUFFICES ASSUME AllAsSent' PROVE client'.sid = h
      OBVIOUS
    <3>1. hs[h].resp # NoAnswer
      BY <1>2, InstallEffect DEF HandshakeInv
    <3>2. AsSent(h)
      BY <1>0, <2>1, <3>1 DEF AllAsSent, AsSent, NoAnswer
    <3>3. QED BY <1>1, <1>2, <3>2, WholeAnswer
  <2>3. QED BY <1>1, <1>2, <2>1, <2>2 DEF ClientInv
<1>3. ASSUME NEW h \in Handshakes, Reject(h)
      PROVE  ClientInv'
  <2>1. /\ hs'[h].st = "failed" /\ hs'[h].resp = hs[h].resp
        /\ AsSent(h) => conf.identityMode = "pqc"
        /\ client'.enc = client.enc /\ client'.mac = client.mac
        /\ client'.psk = client.psk /\ client'.ticket = client.ticket
    BY <1>3, RejectEffect DEF HandshakeBecomes
  <2>2. AllAsSent' => client'.sid = h /\ conf.identityMode = "pqc"
    <3> SUFFICES ASSUME AllAsSent' PROVE client'.sid = h /\ conf.identityMode = "pqc"
      OBVIOUS
    <3>1. hs[h].resp # NoAnswer
      BY <1>3, RejectEffect DEF HandshakeInv
    <3>2. AsSent(h)
      BY <1>0, <2>1, <3>1 DEF AllAsSent, AsSent, NoAnswer
    <3>3. QED BY <1>1, <1>3, <2>1, <3>2, WholeAnswer
  <2>3. ASSUME client.enc # None
        PROVE  \E n \in Handshakes : hs'[n].st = "done" /\ KeysOf(n)'
    <3>1. PICK n \in Handshakes : hs[n].st = "done" /\ KeysOf(n)
      BY <2>3 DEF ClientInv
    <3>2. QED BY <2>1, <3>1, KeptKeys
  <2>4. QED BY <1>0, <1>1, <1>3, <2>1, <2>2, <2>3 DEF ClientInv
<1>4. ASSUME \A h \in Handshakes : ~Install(h) /\ ~Reject(h)
      PROVE  ClientInv'
  <2>1. client' = client
    BY <1>4, ClientSame
  <2>2. Named
    <3>1. client.sid # 0 => client.sid \in Handshakes /\ Left(client.sid)
      BY DEF ClientInv, ShapeOK
    <3>2. PICK n : n = client.sid
      OBVIOUS
    <3>3. n # 0 => Left(n)'
      BY <3>1, <3>2, Settled
    <3>4. QED BY <2>1, <3>2, <3>3 DEF Left
  <2>3. ASSUME client.enc # None
        PROVE  \E n \in Handshakes :
                 /\ hs'[n].st = "done" /\ KeysOf(n)'
                 /\ AllAsSent' =>
                      \/ client.sid = n
                      \/ /\ hs'[client.sid].st = "failed" /\ client.sid \in Handshakes
                         /\ conf.identityMode = "pqc"
    <3>1. PICK n \in Handshakes :
            /\ hs[n].st = "done" /\ KeysOf(n)
            /\ AllAsSent =>
                 \/ client.sid = n
                 \/ /\ hs[client.sid].st = "failed" /\ client.sid \in Handshakes
                    /\ conf.identityMode = "pqc"
      BY <2>3 DEF ClientInv
    <3>2. hs'[n].st = "done" /\ KeysOf(n)'
      BY <2>1, <3>1, KeptKeys
    <3>3. client.sid \in Handshakes /\ hs[client.sid].st = "failed"
            => hs'[client.sid].st = "failed"
      BY Settled
    <3>4. QED BY <3>1, <3>2, <3>3, SentBefore
  <2>4. QED BY <1>0, <2>1, <2>2, <2>3 DEF ClientInv
<1>5. QED BY <1>2, <1>3, <1>4

\* A client that has keys goes on having those of a handshake that is done.
LEMMA KeysStay == ShapeOK /\ HandshakeInv /\ HasKeys /\ [Next]_vars => HasKeys'
<1> SUFFICES ASSUME ShapeOK, HandshakeInv, HasKeys, [Next]_vars PROVE HasKeys'
  OBVIOUS
<1>1. ASSUME NEW h \in Handshakes, Install(h)
      PROVE  HasKeys'
  BY <1>1, InstalledKeys DEF HasKeys
<1>2. ASSUME \A h \in Handshakes : ~Install(h)
      PROVE  HasKeys'
  <2>1. /\ client'.enc = client.enc /\ client'.mac = client.mac
        /\ client'.psk = client.psk /\ client'.ticket = client.ticket
    BY <1>2, ClientSame, RejectEffect
  <2>2. PICK n \in Handshakes : hs[n].st = "done" /\ KeysOf(n)
    BY DEF HasKeys
  <2>3. hs'[n].st = "done" /\ KeysOf(n)'
    BY <2>1, <2>2, KeptKeys
  <2>4. QED BY <2>3 DEF HasKeys
<1>3. QED BY <1>1, <1>2

\* A call that does not move keeps what is true of its request.
LEMMA RequestStays ==
  ASSUME ShapeOK, HandshakeInv, [Next]_vars, NEW c \in Calls,
         RequestInv(c), LostInv(c), call'[c] = call[c]
  PROVE  RequestInv(c)' /\ LostInv(c)'
<1>1. LostInv(c)'
  BY Settled, SentBefore DEF LostInv
<1>2. RequestInv(c)'
  <2> SUFFICES ASSUME call[c].pc \in {"fetching", "served", "unreadable", "refused"}
               PROVE  /\ HasKeys'
                      /\ call[c].req.sid \in Handshakes /\ Left(call[c].req.sid)'
                      /\ \E g \in Handshakes :
                           /\ hs'[g].st = "done"
                           /\ call[c].req.enc = EncKey(Combined(g)')
                           /\ call[c].req.mac = MacKey(Combined(g)')
                           /\ AllAsSent' =>
                                call[c].req.sid = g \/ hs'[call[c].req.sid].st = "failed"
                      /\ call[c].pc = "served" =>
                           sessions'[call[c].req.sid].enc = call[c].req.enc
    BY DEF RequestInv, EncKey, MacKey, Derive, Left
  <2>1. HasKeys' /\ call[c].req.sid \in Handshakes
    BY KeysStay DEF RequestInv
  <2>2. PICK n : n = call[c].req.sid
    OBVIOUS
  <2>3. Left(n)' /\ sessions'[n] = sessions[n]
    BY <2>1, <2>2, Settled DEF RequestInv
  <2>4. PICK g \in Handshakes :
          /\ hs[g].st = "done"
          /\ call[c].req.enc = EncKey(Combined(g)) /\ call[c].req.mac = MacKey(Combined(g))
          /\ AllAsSent => call[c].req.sid = g \/ hs[call[c].req.sid].st = "failed"
    BY DEF RequestInv
  <2>5. hs'[g].st = "done" /\ Combined(g)' = Combined(g)
    BY <2>4, CombinedStays
  <2>6. AllAsSent' => n = g \/ hs'[n].st = "failed"
    BY <2>1, <2>2, <2>4, Settled, SentBefore
  <2>7. call[c].pc = "served" => sessions[n].enc = call[c].req.enc
    BY <2>2 DEF RequestInv
  <2>8. QED BY <2>1, <2>2, <2>3, <2>4, <2>5, <2>6, <2>7 DEF Left
<1>3. QED BY <1>1, <1>2

\* What depends on the handshakes, the client and the sessions stays with them.
LEMMA SameClient ==
  ASSUME UNCHANGED <<conf, client, hs, sessions>>
  PROVE  /\ \A h : Combined(h)' = Combined(h)
         /\ \A h : KeysOf(h)' <=> KeysOf(h)
         /\ HasKeys' <=> HasKeys
         /\ AllAsSent' <=> AllAsSent
         /\ \A h : Left(h)' <=> Left(h)
<1>1. \A h : Combined(h)' = Combined(h)
  BY DEF Combined, Decapsulate, HybridCombine, Dh, X25519
<1>2. \A h : KeysOf(h)' <=> KeysOf(h)
  BY <1>1 DEF KeysOf, EncKey, MacKey, Psk, Derive
<1>3. HasKeys' <=> HasKeys
  BY <1>2 DEF HasKeys
<1>4. AllAsSent' <=> AllAsSent
  <2>1. \A h : AsSent(h)' <=> AsSent(h)
    BY SameTerms DEF AsSent
  <2>2. QED BY <2>1 DEF AllAsSent, NoAnswer
<1>5. QED BY <1>1, <1>2, <1>3, <1>4 DEF Left

\* A call that sends its request sends it with the keys the client has.
LEMMA RequestSent ==
  ASSUME ShapeOK, HandshakeInv, ClientInv, NEW c \in Calls,
         UNCHANGED <<conf, client, hs, sessions>>,
         \/ CallBecomes(c, "threw", call[c].on, call[c].req)
         \/ /\ client.sid # 0 /\ client.enc # None
            /\ CallBecomes(c, "fetching", call[c].on,
                  [sid |-> client.sid, enc |-> client.enc, mac |-> client.mac])
  PROVE  RequestInv(c)' /\ LostInv(c)'
<1>1. CASE CallBecomes(c, "threw", call[c].on, call[c].req)
  BY <1>1 DEF CallBecomes, RequestInv, LostInv
<1>2. CASE /\ client.sid # 0 /\ client.enc # None
           /\ CallBecomes(c, "fetching", call[c].on,
                 [sid |-> client.sid, enc |-> client.enc, mac |-> client.mac])
  <2>1. PICK n \in Handshakes :
          /\ hs[n].st = "done" /\ KeysOf(n)
          /\ AllAsSent => client.sid = n \/ hs[client.sid].st = "failed"
    BY <1>2 DEF ClientInv
  <2>2. HasKeys' /\ (AllAsSent' <=> AllAsSent) /\ Combined(n)' = Combined(n)
    BY <2>1, SameClient DEF HasKeys
  <2>3. /\ call'[c].pc = "fetching" /\ call'[c].req.sid = client.sid
        /\ call'[c].req.enc = client.enc /\ call'[c].req.mac = client.mac
    BY <1>2 DEF CallBecomes
  <2>4. client.sid \in Handshakes /\ hs[client.sid].st \notin {"unused", "sent"}
    BY <1>2 DEF ShapeOK, ClientInv, Left
  <2>5. /\ hs'[n].st = "done"
        /\ call'[c].req.enc = EncKey(Combined(n)') /\ call'[c].req.mac = MacKey(Combined(n)')
        /\ AllAsSent' => call'[c].req.sid = n \/ hs'[call'[c].req.sid].st = "failed"
    BY <2>1, <2>2, <2>3 DEF KeysOf
  <2>6. RequestInv(c)'
    BY <2>2, <2>3, <2>4, <2>5 DEF RequestInv, Left, EncKey, MacKey, Derive
  <2>7. LostInv(c)'
    BY <2>3 DEF LostInv
  <2>8. QED BY <2>6, <2>7
<1>3. QED BY <1>1, <1>2

\* While answers arrive as sent, a request is refused only if its session id is that
\* of a handshake that failed.
LEMMA RequestServed ==
  ASSUME ShapeOK, HandshakeInv, NEW c \in Calls, RequestInv(c), ServeCall(c)
  PROVE  RequestInv(c)' /\ LostInv(c)'
<1>1. /\ call[c].pc = "fetching" /\ UNCHANGED <<conf, client, hs, sessions>>
      /\ \/ /\ sessions[call[c].req.sid].mac = call[c].req.mac
            /\ sessions[call[c].req.sid].enc = call[c].req.enc
            /\ CallBecomes(c, "served", call[c].on, call[c].req)
         \/ /\ ~(/\ sessions[call[c].req.sid].mac = call[c].req.mac
                 /\ sessions[call[c].req.sid].enc = call[c].req.enc)
            /\ CallBecomes(c, "refused", call[c].on, call[c].req)
  BY CallEffects
<1>2. PICK g \in Handshakes :
        /\ hs[g].st = "done"
        /\ call[c].req.enc = EncKey(Combined(g)) /\ call[c].req.mac = MacKey(Combined(g))
        /\ AllAsSent => call[c].req.sid = g \/ hs[call[c].req.sid].st = "failed"
  BY <1>1 DEF RequestInv
<1>3. /\ HasKeys' /\ call[c].req.sid \in Handshakes /\ Left(call[c].req.sid)
      /\ Combined(g)' = Combined(g) /\ (AllAsSent' <=> AllAsSent)
  BY <1>1, SameClient DEF RequestInv
<1>4. /\ call'[c].req = call[c].req
      /\ call'[c].pc = "served" => sessions[call[c].req.sid].enc = call[c].req.enc
      /\ call'[c].pc # "unreadable"
  BY <1>1 DEF CallBecomes
<1>5. RequestInv(c)'
  <2>1. /\ hs'[g].st = "done"
        /\ call'[c].req.enc = EncKey(Combined(g)') /\ call'[c].req.mac = MacKey(Combined(g)')
        /\ AllAsSent' => call'[c].req.sid = g \/ hs'[call'[c].req.sid].st = "failed"
        /\ call'[c].pc = "served" => sessions'[call'[c].req.sid].enc = call'[c].req.enc
    BY <1>1, <1>2, <1>3, <1>4
  <2>2. QED BY <1>1, <1>3, <1>4, <2>1 DEF RequestInv, EncKey, MacKey, Derive, Left
<1>6. call'[c].pc = "refused" /\ AllAsSent => hs[call[c].req.sid].st = "failed"
  <2> SUFFICES ASSUME call'[c].pc = "refused", AllAsSent, call[c].req.sid = g
               PROVE  FALSE
    BY <1>2
  <2>1. ~(/\ sessions[g].mac = call[c].req.mac /\ sessions[g].enc = call[c].req.enc)
    BY <1>1 DEF CallBecomes
  <2>2. AsSent(g)
    BY <1>2 DEF AllAsSent, HandshakeInv
  <2>3. Combined(g) = Secret(g)
    BY <1>2, <2>2, WholeAnswer, ExchangeShared, DoneSession
  <2>4. QED BY <1>2, <2>1, <2>3, DoneSession
<1>7. LostInv(c)'
  BY <1>1, <1>2, <1>3, <1>4, <1>6 DEF LostInv
<1>8. QED BY <1>5, <1>7

\* An answer cannot be read only if a second handshake has installed its keys.
LEMMA RequestEnds ==
  ASSUME ShapeOK, HandshakeInv, NEW c \in Calls, RequestInv(c), CallEnds(c)
  PROVE  RequestInv(c)' /\ LostInv(c)'
<1>1. /\ call[c].pc = "served" /\ UNCHANGED <<conf, client, hs, sessions>>
      /\ \/ CallBecomes(c, "ok", call[c].on, call[c].req)
         \/ /\ sessions[call[c].req.sid].enc # client.enc
            /\ CallBecomes(c, "unreadable", call[c].on, call[c].req)
  BY CallEffects
<1>2. PICK n \in Handshakes : hs[n].st = "done" /\ KeysOf(n)
  BY <1>1 DEF RequestInv, HasKeys
<1>3. PICK g \in Handshakes :
        /\ hs[g].st = "done"
        /\ call[c].req.enc = EncKey(Combined(g)) /\ call[c].req.mac = MacKey(Combined(g))
        /\ AllAsSent => call[c].req.sid = g \/ hs[call[c].req.sid].st = "failed"
  BY <1>1 DEF RequestInv
<1>4. /\ HasKeys' /\ call[c].req.sid \in Handshakes /\ Left(call[c].req.sid)
      /\ Combined(g)' = Combined(g) /\ (AllAsSent' <=> AllAsSent)
      /\ sessions[call[c].req.sid].enc = call[c].req.enc
  BY <1>1, SameClient DEF RequestInv
<1>5. call'[c].req = call[c].req /\ call'[c].pc \notin {"served", "refused"}
  BY <1>1 DEF CallBecomes
<1>6. RequestInv(c)'
  <2>1. /\ hs'[g].st = "done"
        /\ call'[c].req.enc = EncKey(Combined(g)') /\ call'[c].req.mac = MacKey(Combined(g)')
        /\ AllAsSent' => call'[c].req.sid = g \/ hs'[call'[c].req.sid].st = "failed"
    BY <1>1, <1>3, <1>4, <1>5
  <2>2. QED BY <1>1, <1>4, <1>5, <2>1 DEF RequestInv, EncKey, MacKey, Derive, Left
<1>7. call'[c].pc = "unreadable" => g # n
  BY <1>1, <1>2, <1>3, <1>4 DEF CallBecomes, KeysOf
<1>8. LostInv(c)'
  BY <1>1, <1>2, <1>3, <1>5, <1>7 DEF LostInv
<1>9. QED BY <1>6, <1>8

\* A step of one call leaves the others where they were.
LEMMA CallStep == ShapeOK /\ HandshakeInv /\ ClientInv /\ CallInv /\ [Next]_vars => CallInv'
<1> SUFFICES ASSUME ShapeOK, HandshakeInv, ClientInv, CallInv, [Next]_vars, NEW c \in Calls
             PROVE  RequestInv(c)' /\ LostInv(c)'
  BY DEF CallInv
<1> DEFINE Goal == RequestInv(c)' /\ LostInv(c)'
<1>0. RequestInv(c) /\ LostInv(c)
  BY DEF CallInv
<1>1. ASSUME call'[c] = call[c]
      PROVE  Goal
  BY <1>0, <1>1, RequestStays
<1> HIDE DEF Goal
<1>2. ASSUME NEW h \in Handshakes, ServeHandshake(h) \/ Fail(h) \/ Alter(h) \/ Throw(h)
      PROVE  Goal
  BY <1>1, <1>2, HandshakeEffects
<1>3. ASSUME NEW h \in Handshakes, Install(h) \/ Reject(h)
      PROVE  Goal
  BY <1>1, <1>3, InstallEffect, RejectEffect
<1>4. ASSUME NEW d \in Calls, CallHandshakes(d) \/ CallJoins(d)
      PROVE  Goal
  <2>1. CASE d # c
    BY <1>1, <1>4, <2>1, StartEffects DEF CallBecomes
  <2>2. CASE d = c
    <3>1. call'[c].pc = "waiting"
      BY <1>4, <2>2, StartEffects DEF CallBecomes
    <3>2. QED BY <3>1 DEF Goal, RequestInv, LostInv
  <2>3. QED BY <2>1, <2>2
<1>5. ASSUME NEW d \in Calls,
             CallConnected(d) \/ CallProceeds(d) \/ CallThrows(d) \/ ServeCall(d) \/ CallEnds(d)
      PROVE  Goal
  <2>1. CASE d # c
    BY <1>1, <1>5, <2>1, CallEffects DEF CallBecomes
  <2>2. CASE d = c /\ (CallConnected(c) \/ CallProceeds(c))
    BY <2>2, CallEffects, RequestSent DEF Goal
  <2>3. CASE d = c /\ CallThrows(c)
    <3>1. call'[c].pc = "threw"
      BY <2>3, CallEffects DEF CallBecomes
    <3>2. QED BY <3>1 DEF Goal, RequestInv, LostInv
  <2>4. CASE d = c /\ ServeCall(c)
    BY <1>0, <2>4, RequestServed DEF Goal
  <2>5. CASE d = c /\ CallEnds(c)
    BY <1>0, <2>5, RequestEnds DEF Goal
  <2>6. QED BY <1>5, <2>1, <2>2, <2>3, <2>4, <2>5
<1>6. ASSUME UNCHANGED vars
      PROVE  Goal
  BY <1>1, <1>6 DEF vars
<1>7. Goal
  BY <1>2, <1>3, <1>4, <1>5, <1>6 DEF Next, Exchange, Continue, Start, Step
<1>8. QED BY <1>7 DEF Goal

LEMMA WaitStep == ShapeOK /\ HandshakeInv /\ WaitInv /\ [Next]_vars => WaitInv'
<1> SUFFICES ASSUME ShapeOK, HandshakeInv, WaitInv, [Next]_vars, NEW c \in Calls
             PROVE  call'[c].pc = "waiting" => call'[c].on \in Handshakes
  BY DEF WaitInv
<1>1. CASE UNCHANGED call
  BY <1>1 DEF WaitInv
<1>2. ASSUME NEW h \in Handshakes, Exchange(h) \/ Alter(h) \/ Continue(h)
      PROVE  UNCHANGED call
  BY <1>2 DEF Exchange, Alter, Continue, ServeHandshake, Fail, Install, Reject, Throw
<1>3. ASSUME NEW d \in Calls, CallHandshakes(d) \/ CallJoins(d)
      PROVE  call'[c].pc = "waiting" => call'[c].on \in Handshakes
  BY <1>3, StartEffects DEF CallBecomes, WaitInv, ShapeOK
<1>4. ASSUME NEW d \in Calls,
             CallConnected(d) \/ CallProceeds(d) \/ CallThrows(d) \/ ServeCall(d) \/ CallEnds(d)
      PROVE  call'[c].pc = "waiting" => call'[c].on \in Handshakes
  BY <1>4, CallEffects DEF CallBecomes, WaitInv
<1>5. QED BY <1>1, <1>2, <1>3, <1>4 DEF Next, Start, Step, vars

\* A factory's promise is cleared only when the client has a session id.
LEMMA PromiseStep ==
  ShapeOK /\ HandshakeInv /\ WaitInv /\ PromiseInv /\ [Next]_vars => PromiseInv'
<1> SUFFICES ASSUME ShapeOK, HandshakeInv, WaitInv, PromiseInv, [Next]_vars,
                    conf.wrapper = "factory"
             PROVE  /\ \A g, h \in Handshakes : hs'[g].st # "unused" /\ hs'[h].st # "unused" => g = h
                    /\ \A h \in Handshakes : hs'[h].st # "unused" => promise' # 0 \/ client'.sid # 0
                    /\ \A h \in Handshakes : hs'[h].st = "done" => client'.sid # 0
  BY ConfConstant DEF PromiseInv
<1> DEFINE Goal ==
      /\ \A g, h \in Handshakes : hs'[g].st # "unused" /\ hs'[h].st # "unused" => g = h
      /\ \A h \in Handshakes : hs'[h].st # "unused" => promise' # 0 \/ client'.sid # 0
      /\ \A h \in Handshakes : hs'[h].st = "done" => client'.sid # 0
<1>0. Shares /\ conf.identityMode = "none" /\ 0 \notin Handshakes
  <2>1. Shares
    BY DEF Shares
  <2>2. conf.identityMode = "none"
    BY DEF ShapeOK, Options
  <2>3. 0 \notin Handshakes
    BY ConnectAssumption DEF Handshakes
  <2>4. QED BY <2>1, <2>2, <2>3
<1>p. /\ \A g, h \in Handshakes : hs[g].st # "unused" /\ hs[h].st # "unused" => g = h
      /\ \A h \in Handshakes : hs[h].st # "unused" => promise # 0 \/ client.sid # 0
      /\ \A h \in Handshakes : hs[h].st = "done" => client.sid # 0
  BY DEF PromiseInv
<1>1. ASSUME NEW h \in Handshakes, ServeHandshake(h) \/ Fail(h) \/ Alter(h) \/ Throw(h)
      PROVE  Goal
  <2>1. /\ hs[h].st # "unused" /\ hs'[h].st \notin {"unused", "done"}
        /\ \A g \in Handshakes : g # h => hs'[g] = hs[g]
        /\ UNCHANGED <<client, promise>>
    BY <1>1, HandshakeEffects DEF HandshakeBecomes
  <2>2. QED BY <1>p, <2>1
<1>2. ASSUME NEW h \in Handshakes, Install(h)
      PROVE  Goal
  <2>1. /\ hs[h].st = "answered" /\ client'.sid = hs[h].resp.sid
        /\ \A g \in Handshakes : g # h => hs'[g] = hs[g]
    BY <1>2, InstallEffect DEF HandshakeBecomes
  <2>2. hs[h].resp.sid \in Handshakes
    BY <2>1 DEF HandshakeInv, AnswerOK
  <2>3. QED BY <1>0, <1>p, <2>1, <2>2
<1>3. ASSUME NEW h \in Handshakes, Reject(h)
      PROVE  Goal
  <2>1. /\ hs[h].st = "answered" /\ client'.sid = hs[h].resp.sid
        /\ \A g \in Handshakes : g # h => hs'[g] = hs[g]
    BY <1>3, RejectEffect DEF HandshakeBecomes
  <2>2. hs[h].resp.sid \in Handshakes
    BY <2>1 DEF HandshakeInv, AnswerOK
  <2>3. QED BY <1>0, <1>p, <2>1, <2>2
<1>4. ASSUME NEW c \in Calls, CallHandshakes(c)
      PROVE  Goal
  <2>1. PICK h \in Handshakes :
          /\ client.sid = 0 /\ promise = 0 /\ promise' = h
          /\ HandshakeBecomes(h, "sent", hs[h].resp)
    BY <1>0, <1>4, StartEffects
  <2>2. \A g \in Handshakes : hs[g].st = "unused"
    BY <1>p, <2>1
  <2>3. hs'[h].st = "sent" /\ \A g \in Handshakes : g # h => hs'[g].st = "unused"
    BY <2>1, <2>2 DEF HandshakeBecomes
  <2>4. QED BY <1>0, <2>1, <2>3
<1>5. ASSUME NEW c \in Calls, CallProceeds(c)
      PROVE  Goal
  <2>1. client.sid # 0
    BY <1>5, <1>p DEF CallProceeds, WaitInv
  <2>2. UNCHANGED <<client, hs>>
    BY <1>5 DEF CallProceeds
  <2>3. QED BY <1>p, <2>1, <2>2
<1>6. ASSUME NEW c \in Calls,
             CallJoins(c) \/ CallConnected(c) \/ CallThrows(c) \/ ServeCall(c) \/ CallEnds(c)
      PROVE  Goal
  <2>1. UNCHANGED <<client, hs, promise>>
    BY <1>6 DEF CallJoins, CallConnected, CallThrows, ServeCall, CallEnds
  <2>2. QED BY <1>p, <2>1
<1>7. ASSUME UNCHANGED vars
      PROVE  Goal
  BY <1>p, <1>7 DEF vars
<1> HIDE DEF Goal
<1>8. Goal
  BY <1>1, <1>2, <1>3, <1>4, <1>5, <1>6, <1>7 DEF Next, Exchange, Continue, Start, Step
<1>9. QED BY <1>8 DEF Goal

LEMMA StepInv == ConnectInv /\ [Next]_vars => ConnectInv'
  BY ShapeStep, HandshakeStep, ClientStep, CallStep, WaitStep, PromiseStep DEF ConnectInv

LEMMA Inductive == Spec => []ConnectInv
  BY InitInv, StepInv, PTL DEF Spec

-----------------------------------------------------------------------------
(***************************************************************************)
(* The theorems.                                                           *)
(***************************************************************************)

\* A client's keys are those of a session some server stored, exactly if the key
\* exchange they come from arrived as sent, in every mode, however many handshakes
\* race and whichever parts of answers are replaced (KeysAgree).
THEOREM ClientKeysAgree == Spec => []KeysAgree
<1>1. ConnectInv => KeysAgree
  <2> SUFFICES ASSUME ConnectInv, client.enc # None
               PROVE  LET n == client.enc.from.kem IN
                        /\ sessions[n] # NoSession
                        /\ Exchanged(n) <=> /\ sessions[n].enc = client.enc
                                           /\ sessions[n].mac = client.mac
                        /\ client.psk = Psk(client.enc.from)
                        /\ AsSent(n) => client.ticket = client.psk
                        /\ conf.identityMode = "none" /\ AllAsSent => client.sid = n
    BY DEF KeysAgree
  <2>1. PICK n \in Handshakes :
          /\ hs[n].st = "done" /\ KeysOf(n)
          /\ AllAsSent => client.sid = n \/ conf.identityMode = "pqc"
    BY DEF ConnectInv, ClientInv
  <2>2. client.enc.from = Combined(n) /\ client.enc.from.kem = n
    BY <2>1, DerivedFrom, SecretNames DEF KeysOf
  <2>3. /\ sessions[n].enc = EncKey(Secret(n)) /\ sessions[n].mac = MacKey(Secret(n))
        /\ AnswerOK(hs[n].resp)
        /\ \E s \in Servers : sessions[n].by = s
    BY <2>1, DoneSession DEF ConnectInv
  <2>4. sessions[n] # NoSession
    <3>1. sessions[n].by # None
      BY <2>3, ConnectAssumption
    <3>2. QED BY <3>1 DEF NoSession
  <2>5. Combined(n) = Secret(n) <=> /\ EncKey(Secret(n)) = EncKey(Combined(n))
                                   /\ MacKey(Secret(n)) = MacKey(Combined(n))
    BY DerivedFrom
  <2>6. Exchanged(n) <=> sessions[n].enc = client.enc /\ sessions[n].mac = client.mac
    BY <2>1, <2>3, <2>5, ExchangeShared DEF KeysOf
  <2>7. AsSent(n) => client.ticket = client.psk
    BY <2>1, <2>3, ExchangeShared, WholeAnswer DEF KeysOf
  <2>8. conf.identityMode = "none" /\ AllAsSent => client.sid = n
    BY <2>1
  <2>9. client.psk = Psk(client.enc.from)
    BY <2>1, <2>2 DEF KeysOf
  <2>10. QED BY <2>2, <2>4, <2>6, <2>7, <2>8, <2>9
<1>2. QED BY <1>1, Inductive, PTL

\* Whatever parts answers are put together from, a client that checks identities has
\* its keys from a handshake that was served, under the session id the client took,
\* by a server that holds the secret half of the identity presented, the pinned one
\* if one is pinned; and they are the keys of that server's session if the key
\* exchange arrived as sent (OwnerServedHandshake).
THEOREM OwnerServed == Spec => []OwnerServedHandshake
<1>1. ConnectInv => OwnerServedHandshake
  <2> SUFFICES ASSUME ConnectInv, conf.identityMode = "pqc", client.enc # None
               PROVE  LET n == client.enc.from.kem
                          r == hs[n].resp
                      IN /\ r.sid = n
                         /\ conf.pin # None => r.idPk = conf.pin
                         /\ \E s \in Servers :
                              /\ Identity[s] # None /\ Identity[s].secret = r.idPk
                              /\ sessions[n].by = s
                              /\ Exchanged(n) => client.enc = Session(s, n).enc
    BY DEF OwnerServedHandshake
  <2>1. PICK n \in Handshakes : hs[n].st = "done" /\ KeysOf(n)
    BY DEF ConnectInv, ClientInv
  <2>2. client.enc.from.kem = n
    BY <2>1, DerivedFrom, SecretNames DEF KeysOf
  <2>3. /\ AnswerOK(hs[n].resp) /\ Signature(hs[n].resp, n)
        /\ conf.pin # None => hs[n].resp.idPk = conf.pin
    BY <2>1, DoneSession DEF ConnectInv, HandshakeInv, Trusted
  <2>4. PICK s \in Servers :
          /\ sessions[n].by = s /\ Identity[s] # None
          /\ Identity[s].secret = hs[n].resp.idPk
    BY <2>3, SignedByServer
  <2>5. hs[n].resp.sid = n
    BY <2>3, SignedByServer
  <2>6. Exchanged(n) => client.enc = Session(s, n).enc
    BY <2>1, <2>3, ExchangeShared DEF KeysOf, Session, Secret
  <2>7. QED BY <2>2, <2>3, <2>4, <2>5, <2>6
<1>2. QED BY <1>1, Inductive, PTL

\* A wrapper that shares its promise handshakes once at a time and succeeds at
\* most once; a call is lost only to a second handshake (LostOnlyToSecondHandshake).
THEOREM LostToSecondHandshake == Spec => []LostOnlyToSecondHandshake
<1>1. ConnectInv => LostOnlyToSecondHandshake
  <2> SUFFICES ASSUME ConnectInv PROVE LostOnlyToSecondHandshake
    OBVIOUS
  <2>1. ASSUME conf.wrapper = "factory"
        PROVE  /\ Cardinality({h \in Handshakes : hs[h].st \in {"sent", "answered", "broken"}}) <= 1
               /\ Cardinality({h \in Handshakes : hs[h].st = "done"}) <= 1
    <3>1. \A g, h \in Handshakes : hs[g].st # "unused" /\ hs[h].st # "unused" => g = h
      BY <2>1 DEF ConnectInv, PromiseInv
    <3>2. Cardinality({h \in Handshakes : hs[h].st \in {"sent", "answered", "broken"}}) <= 1
      BY <3>1, AtMostOne
    <3>3. Cardinality({h \in Handshakes : hs[h].st = "done"}) <= 1
      BY <3>1, AtMostOne
    <3>4. QED BY <3>2, <3>3
  <2>2. ASSUME NEW c \in Calls, call[c].pc = "unreadable"
        PROVE  Cardinality({h \in Handshakes : hs[h].st = "done"}) > 1
    <3>1. PICK g, h \in Handshakes : g # h /\ hs[g].st = "done" /\ hs[h].st = "done"
      BY <2>2 DEF ConnectInv, CallInv, LostInv
    <3>2. QED BY <3>1, MoreThanOne
  <2>3. ASSUME NEW c \in Calls, call[c].pc = "refused", AllAsSent
        PROVE  \E g, h \in Handshakes :
                 hs[g].st = "done" /\ hs[h].st = "failed" /\ call[c].req.sid = h
    BY <2>3 DEF ConnectInv, CallInv, LostInv
  <2>4. QED BY <2>1, <2>2, <2>3 DEF LostOnlyToSecondHandshake
<1>2. QED BY <1>1, Inductive, PTL
=============================================================================
