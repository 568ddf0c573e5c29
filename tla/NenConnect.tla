---------------------------- MODULE NenConnect ----------------------------
(***************************************************************************)
(* Connecting a client: the wrappers that make the first call handshake    *)
(* (createNenFetch and createNenStream in packages/nen-client/src/index.ts *)
(* and ensureConnected in packages/ai/src/client.ts) over NenClient        *)
(* .handshake and handleHandshake, with the key schedule and the identity  *)
(* check of packages/core-crypto spelled out as terms.                     *)
(*                                                                         *)
(* Key pairs are named after the handshake they are generated for, a       *)
(* session after the handshake that created it.  A derived key is the      *)
(* record of what went into it; two keys are equal when their derivations  *)
(* are.  Everything after the first request (401, rotation, rekey) is in   *)
(* NenClient.                                                              *)
(***************************************************************************)
EXTENDS Integers, FiniteSets

CONSTANTS
    Calls,          \* calls made through one wrapper, each at most once
    Servers,        \* server processes behind the URL, sharing one session store
    Identity,       \* Identity[s]: the ML-DSA pair given to setServerIdentity, or None
    Pins,           \* values of options.serverIdentityKey to try
    MaxHandshakes,  \* bound on handshakes sent
    MaxFaults,      \* bound on failed exchanges and parts of answers replaced
    None

ASSUME ConnectAssumption ==
    /\ MaxHandshakes \in Nat /\ MaxFaults \in Nat
    /\ None \notin Servers

Handshakes == 1..MaxHandshakes

VARIABLES
    conf,        \* which wrapper, and the options of its client
    client,      \* the NenClient behind the wrapper
    promise,     \* handshakePromise of a factory
    hs,          \* the handshakes sent so far and their answers
    sessions,    \* the servers' session store
    call,        \* where each call is
    faults       \* failed exchanges and replaced parts so far

vars == <<conf, client, promise, hs, sessions, call, faults>>

-----------------------------------------------------------------------------
\* The key schedule.

\* A secret is what went into it: the ML-KEM key it was encapsulated to, the
\* coins of the encapsulation and, once combined, the X25519 pair.
Encapsulate(pk, coins) ==
    [secret |-> [kem |-> pk, coins |-> coins, dh |-> {}],
     ct     |-> [kem |-> pk, coins |-> coins]]

\* Implicit rejection: a ciphertext for another key gives a secret nobody shares.
Decapsulate(ct, sk) ==
    [kem |-> sk, coins |-> IF ct.kem = sk THEN ct.coins ELSE 0, dh |-> {}]

X25519(owner, h) == [owner |-> owner, of |-> h]

Dh(sk, pk) == {sk, pk}

HybridCombine(x, m) == [m EXCEPT !.dh = x]

Derive(info, secret) == [info |-> info, from |-> secret]

EncKey(secret) == Derive("nen/v3 enc", secret)
MacKey(secret) == Derive("nen/v3 mac", secret)
Psk(secret)    == Derive("nen/v3 resume", secret)

\* The hash is the tuple of its length-prefixed fields.
TranscriptHash(pk, pkx, nonce, sid) == <<pk, pkx, nonce, sid>>

Sign(sk, message) == [by |-> sk, over |-> message]

VerifySignature(pk, message, sig) == sig.by = pk /\ sig.over = message

-----------------------------------------------------------------------------
\* The server.

\* Mutated form of Agreed: the combiner's classical half is left out.
AgreedWithoutX25519(h, x) == Encapsulate(h, h).secret

\* The secret the server computes for handshake h.
Agreed(h, x) ==
    LET m == Encapsulate(h, h).secret IN
    IF conf.hybrid THEN HybridCombine(Dh(x, X25519("client", h)), m) ELSE m

\* The client's X25519 public key as both sides hash it: empty without hybrid.
ClientX(h) == IF conf.hybrid THEN X25519("client", h) ELSE None

Signed(s, h) ==
    IF Identity[s] = None
    THEN [nonce |-> None, sig |-> None, idPk |-> None]
    ELSE [nonce |-> h,
          sig   |-> Sign(Identity[s].secret, TranscriptHash(h, ClientX(h), h, h)),
          idPk  |-> Identity[s].public]

Answer(s, h) ==
    LET x == X25519("server", h)
        signed == Signed(s, h)
    IN [sid |-> h, ct |-> Encapsulate(h, h).ct, ticket |-> Psk(Agreed(h, x)),
        pkx |-> IF conf.hybrid THEN x ELSE None,
        nonce |-> signed.nonce, sig |-> signed.sig, idPk |-> signed.idPk]

NoAnswer == [sid |-> 0]

\* The store has no entry for a handshake that was not served.
NoSession == [by |-> None, enc |-> None, mac |-> None]

\* What storeSession stores for handshake h, served by s.
Session(s, h) ==
    LET secret == Agreed(h, X25519("server", h))
    IN [by |-> s, enc |-> EncKey(secret), mac |-> MacKey(secret)]

ServeHandshake(h) == \E s \in Servers :
    /\ hs[h].st = "sent"
    /\ sessions' = [sessions EXCEPT ![h] = Session(s, h)]
    /\ hs' = [hs EXCEPT ![h] = [st |-> "answered", resp |-> Answer(s, h)]]
    /\ UNCHANGED <<conf, client, promise, call, faults>>

\* The exchange fails: no connection (with or without the server having
\* served the request), a status that is not 2xx, a body without sid or ct.
Fail(h) ==
    /\ hs[h].st \in {"sent", "answered"} /\ faults < MaxFaults
    /\ faults' = faults + 1
    /\ hs' = [hs EXCEPT ![h] = [st |-> "broken", resp |-> NoAnswer]]
    /\ UNCHANGED <<conf, client, promise, sessions, call>>

\* The parts of an answer: the session id, the key exchange and what the identity
\* check reads.  The signature covers the session id and its own nonce; nothing
\* covers the key exchange.
Parts == {{"sid"}, {"ct", "pkx", "ticket"}, {"nonce", "sig", "idPk"}}

\* A key exchange the client cannot use: ct is not base64 or not a ciphertext, or
\* pk_x_server is missing.
Garbled == [kem |-> 0, coins |-> 0]

\* An answer made without the server, for the client's public keys, and one whose
\* key exchange cannot be used.
Elsewhere(h) ==
    [sid |-> h, ct |-> Encapsulate(h, -1).ct, pkx |-> X25519("elsewhere", h),
     ticket |-> None, nonce |-> None, sig |-> None, idPk |-> None]

Unusable(h) == [Elsewhere(h) EXCEPT !.ct = Garbled]

Sources(h) ==
    ({hs[g].resp : g \in Handshakes} \ {NoAnswer}) \cup {Elsewhere(h), Unusable(h)}

\* Answer a with the fields F of answer b.
Mix(a, b, F) ==
    LET Of(f) == IF f \in F THEN b ELSE a
    IN [sid |-> Of("sid").sid, ct |-> Of("ct").ct, pkx |-> Of("pkx").pkx,
        ticket |-> Of("ticket").ticket, nonce |-> Of("nonce").nonce,
        sig |-> Of("sig").sig, idPk |-> Of("idPk").idPk]

\* A part of an answer on its way is replaced by that of another answer.
Alter(h) == \E F \in Parts, b \in Sources(h) :
    /\ hs[h].st = "answered" /\ faults < MaxFaults
    /\ faults' = faults + 1
    /\ hs' = [hs EXCEPT ![h].resp = Mix(hs[h].resp, b, F)]
    /\ UNCHANGED <<conf, client, promise, sessions, call>>

-----------------------------------------------------------------------------
\* NenClient.handshake.

\* A handshake starts: fresh key pairs and the request, up to its await.
Started(h) == [hs EXCEPT ![h].st = "sent"]

NextHandshake(h) == hs[h].st = "unused" /\ \A i \in 1..(h - 1) : hs[i].st # "unused"

Combined(h) ==
    LET r == hs[h].resp
        m == Decapsulate(r.ct, h)
    IN IF conf.hybrid THEN HybridCombine(Dh(X25519("client", h), r.pkx), m) ELSE m

\* No step from the base64 of ct to the combined secret throws.
Usable(r) == r.ct # Garbled

\* The server's signature over the transcript as the client saw it.
Signature(r, h) ==
    r.sig # None
    /\ VerifySignature(r.idPk, TranscriptHash(h, ClientX(h), r.nonce, r.sid), r.sig)

\* Mutated form of Trusted: the pinned key is not compared.
TrustedUnpinned(r, h) == conf.identityMode = "pqc" => Signature(r, h)

\* The identity check of identityMode 'pqc'.
Trusted(r, h) ==
    conf.identityMode = "pqc" =>
        /\ Signature(r, h)
        /\ conf.pin # None => r.idPk = conf.pin

\* An answer that passes: session id, keys, psk and ticket are installed.
Install(h) ==
    LET r == hs[h].resp
        secret == Combined(h)
    IN /\ hs[h].st = "answered" /\ Usable(r) /\ Trusted(r, h)
       /\ client' = [sid |-> r.sid, enc |-> EncKey(secret), mac |-> MacKey(secret),
                     psk |-> Psk(secret), ticket |-> r.ticket]
       /\ hs' = [hs EXCEPT ![h].st = "done"]
       /\ UNCHANGED <<conf, promise, sessions, call, faults>>

\* An answer whose key exchange cannot be used or that fails the identity check:
\* the session id is already set.
Reject(h) ==
    /\ hs[h].st = "answered" /\ ~(Usable(hs[h].resp) /\ Trusted(hs[h].resp, h))
    /\ client' = [client EXCEPT !.sid = hs[h].resp.sid]
    /\ hs' = [hs EXCEPT ![h].st = "failed"]
    /\ UNCHANGED <<conf, promise, sessions, call, faults>>

\* HANDSHAKE_NETWORK, or HANDSHAKE_BAD_RESPONSE before the session id is taken.
Throw(h) ==
    /\ hs[h].st = "broken"
    /\ hs' = [hs EXCEPT ![h].st = "failed"]
    /\ UNCHANGED <<conf, client, promise, sessions, call, faults>>

-----------------------------------------------------------------------------
\* The wrappers.

NoRequest == [sid |-> 0, enc |-> None, mac |-> None]

\* nenFetch and nenStream from their guard to their first await.
Fetch(c) ==
    IF client.sid = 0 \/ client.enc = None
    THEN call' = [call EXCEPT ![c].pc = "threw"]
    ELSE call' = [call EXCEPT ![c] = [pc |-> "fetching", on |-> @.on,
                     req |-> [sid |-> client.sid, enc |-> client.enc, mac |-> client.mac]]]

\* A call finds a session id: no handshake.
CallConnected(c) ==
    /\ call[c].pc = "idle" /\ client.sid # 0
    /\ Fetch(c)
    /\ UNCHANGED <<conf, client, promise, hs, sessions, faults>>

\* Mutated form of Shares: every first call handshakes for itself.
SharesNothing == FALSE

\* A factory keeps one promise for all its calls, ensureConnected none.
Shares == conf.wrapper = "factory"

\* A first call sends a handshake and waits for it.
CallHandshakes(c) == \E h \in Handshakes :
    /\ call[c].pc = "idle" /\ client.sid = 0
    /\ Shares => promise = 0
    /\ NextHandshake(h)
    /\ hs' = Started(h)
    /\ promise' = IF Shares THEN h ELSE promise
    /\ call' = [call EXCEPT ![c] = [pc |-> "waiting", on |-> h, req |-> NoRequest]]
    /\ UNCHANGED <<conf, client, sessions, faults>>

\* A call of a factory that has a promise waits for that.
CallJoins(c) ==
    /\ call[c].pc = "idle" /\ client.sid = 0 /\ Shares /\ promise # 0
    /\ call' = [call EXCEPT ![c] = [pc |-> "waiting", on |-> promise, req |-> NoRequest]]
    /\ UNCHANGED <<conf, client, promise, hs, sessions, faults>>

\* Mutated form of CallProceeds: a call that finds the promise cleared waits on.
CallProceedsWhilePromised(c) ==
    /\ call[c].pc = "waiting" /\ hs[call[c].on].st = "done" /\ (Shares => promise # 0)
    /\ promise' = IF Shares THEN 0 ELSE promise
    /\ Fetch(c)
    /\ UNCHANGED <<conf, client, hs, sessions, faults>>

\* The awaited handshake resolves: the promise is cleared, the request sent.
CallProceeds(c) ==
    /\ call[c].pc = "waiting" /\ hs[call[c].on].st = "done"
    /\ promise' = IF Shares THEN 0 ELSE promise
    /\ Fetch(c)
    /\ UNCHANGED <<conf, client, hs, sessions, faults>>

\* The awaited handshake rejects: the call throws, the promise stays.
CallThrows(c) ==
    /\ call[c].pc = "waiting" /\ hs[call[c].on].st = "failed"
    /\ call' = [call EXCEPT ![c].pc = "threw"]
    /\ UNCHANGED <<conf, client, promise, hs, sessions, faults>>

\* The server verifies the request against its session and answers it.
ServeCall(c) ==
    LET r == call[c].req IN
    /\ call[c].pc = "fetching"
    /\ call' = [call EXCEPT ![c].pc =
                   IF sessions[r.sid].mac = r.mac /\ sessions[r.sid].enc = r.enc
                   THEN "served" ELSE "refused"]
    /\ UNCHANGED <<conf, client, promise, hs, sessions, faults>>

\* The answer is decrypted with the keys the client has by now.
CallEnds(c) ==
    /\ call[c].pc = "served"
    /\ call' = [call EXCEPT ![c].pc =
                   IF sessions[call[c].req.sid].enc = client.enc THEN "ok" ELSE "unreadable"]
    /\ UNCHANGED <<conf, client, promise, hs, sessions, faults>>

-----------------------------------------------------------------------------
\* A factory makes its client itself, with the default options; the adapter
\* may be given a client with options of its own.
Options ==
    [wrapper : {"factory"}, hybrid : {TRUE}, identityMode : {"none"}, pin : {None}]
    \cup [wrapper : {"adapter"}, hybrid : BOOLEAN, identityMode : {"none"}, pin : {None}]
    \cup [wrapper : {"adapter"}, hybrid : BOOLEAN, identityMode : {"pqc"},
          pin : Pins \cup {None}]

Init ==
    /\ conf \in Options
    /\ client = [sid |-> 0, enc |-> None, mac |-> None, psk |-> None, ticket |-> None]
    /\ promise = 0
    /\ hs = [h \in Handshakes |-> [st |-> "unused", resp |-> NoAnswer]]
    /\ sessions = [h \in Handshakes |-> NoSession]
    /\ call = [c \in Calls |-> [pc |-> "idle", on |-> 0, req |-> NoRequest]]
    /\ faults = 0

Exchange(h) == ServeHandshake(h) \/ Fail(h)
Continue(h) == Install(h) \/ Reject(h) \/ Throw(h)
Start(c)    == CallConnected(c) \/ CallHandshakes(c) \/ CallJoins(c)
Step(c)     == CallProceeds(c) \/ CallThrows(c) \/ ServeCall(c) \/ CallEnds(c)

Next ==
    \/ \E h \in Handshakes : Exchange(h) \/ Alter(h) \/ Continue(h)
    \/ \E c \in Calls : Start(c) \/ Step(c)

\* Every exchange is answered or fails (HTTP gives up in the end) and the event
\* loop runs what can run.  Nothing makes the application call.
Fairness ==
    /\ \A h \in Handshakes : WF_vars(Exchange(h)) /\ WF_vars(Continue(h))
    /\ \A c \in Calls : WF_vars(Step(c))

Spec == Init /\ [][Next]_vars /\ Fairness
-----------------------------------------------------------------------------
\* Properties.

\* The key exchange of handshake h is as its server made it; so is its whole answer.
Exchanged(h) ==
    /\ hs[h].resp.ct = Encapsulate(h, h).ct
    /\ conf.hybrid => hs[h].resp.pkx = X25519("server", h)

AsSent(h) == \E s \in Servers : hs[h].resp = Answer(s, h)

\* Every answer the client has taken up is as its server sent it.
AllAsSent ==
    \A h \in Handshakes :
        hs[h].st \in {"done", "failed"} /\ hs[h].resp # NoAnswer => AsSent(h)

\* Whatever the mode, however many handshakes race and whichever parts of answers
\* are replaced: a client that holds keys has them from a handshake some server
\* stored a session for, and they are the keys of that session if and only if the
\* key exchange arrived as it was sent; the ticket then seals the psk the client
\* derived.  Without an identity check that may throw after the session id was set,
\* and without replaced parts, it is the session the client names.
KeysAgree ==
    client.enc # None =>
        LET n == client.enc.from.kem IN
        /\ sessions[n] # NoSession
        /\ Exchanged(n) <=> sessions[n].enc = client.enc /\ sessions[n].mac = client.mac
        /\ client.psk = Psk(client.enc.from)
        /\ AsSent(n) => client.ticket = client.psk
        /\ conf.identityMode = "none" /\ AllAsSent => client.sid = n

\* What the check of identityMode 'pqc' gives (index.ts:126-147, middleware.ts:103),
\* however parts of answers are mixed: the handshake a client has its keys from was
\* served by a server that holds the secret half of the identity presented, which
\* is the pinned one if a key is pinned, under the session id the client took; and
\* if the key exchange arrived as sent, the keys are that server's.  It does not
\* give more: the signature covers neither ct nor pk_x_server.
OwnerServedHandshake ==
    conf.identityMode = "pqc" /\ client.enc # None =>
        LET n == client.enc.from.kem
            r == hs[n].resp
        IN /\ r.sid = n
           /\ conf.pin # None => r.idPk = conf.pin
           /\ \E s \in Servers :
                 /\ Identity[s] # None /\ Identity[s].secret = r.idPk
                 /\ sessions[n].by = s
                 /\ Exchanged(n) => client.enc = Session(s, n).enc

\* A wrapper that shares its promise has at most one handshake under way and
\* succeeds at most once.  The adapter's calls may each handshake; so an answer is
\* unreadable only if a second handshake installed its keys, and, as long as answers
\* arrive as sent, a request is refused only if one handshake had installed its keys
\* and another had set its session id and thrown: with a shared promise neither
\* happens (ai/src/client.ts:20).
LostOnlyToSecondHandshake ==
    /\ conf.wrapper = "factory" =>
          /\ Cardinality({h \in Handshakes : hs[h].st \in {"sent", "answered", "broken"}}) <= 1
          /\ Cardinality({h \in Handshakes : hs[h].st = "done"}) <= 1
    /\ \A c \in Calls :
          /\ call[c].pc = "unreadable" => Cardinality({h \in Handshakes : hs[h].st = "done"}) > 1
          /\ call[c].pc = "refused" /\ AllAsSent => \E g, h \in Handshakes :
                hs[g].st = "done" /\ hs[h].st = "failed" /\ call[c].req.sid = h

Ended(c) == call[c].pc \in {"ok", "unreadable", "refused", "threw"}

\* Every call that starts ends: no waiter is left on a handshake that settled.
CallsEnd == \A c \in Calls : call[c].pc # "idle" ~> Ended(c)
=============================================================================
