------------------------------- MODULE Expiry -------------------------------
(***************************************************************************)
(* What the passage of time does to a session and to its used nonces:      *)
(* verifyRequest's timestamp window, the TTLs of the in-memory store and   *)
(* of the Redis and Upstash stores, the sweep, and copies of a request     *)
(* that arrive late.  NenServer has the interleavings of many handlers and *)
(* no clock; here requests are verified one at a time and a clock runs.    *)
(*                                                                         *)
(* Time is counted in ticks, Second of them to a second, because the Redis *)
(* stores round their TTL down to seconds.  A copy is the request itself   *)
(* arriving again: each request has a nonce of its own.                    *)
(***************************************************************************)
EXTENDS Naturals

CONSTANTS
    Requests,    \* signed requests of one session
    Ttls,        \* values of expiryMs, in ticks
    DefaultTtl,  \* DEFAULT_EXPIRY_MS
    Window,      \* how far a timestamp may be from the server's clock
    Skew,        \* how far the client's clock may be from the server's
    Second,      \* ticks in a second
    Horizon,     \* bound on the clock
    MaxEpoch,    \* bound on rekeys
    MaxFailures, \* bound on failed store calls and restarts
    None

Lives == [ends : BOOLEAN, at : Nat]

\* A session as a store keeps it.
Entries == [epoch : Nat, createdAt : Nat, life : Lives]

ASSUME ExpiryAssumption ==
    /\ Ttls \subseteq Nat /\ DefaultTtl \in Nat /\ Window \in Nat /\ Skew \in Nat
    /\ None \notin Entries
    /\ Second \in Nat \ {0} /\ Horizon \in Nat /\ MaxEpoch \in Nat /\ MaxFailures \in Nat

VARIABLES
    now,       \* Date.now() of the server
    conf,      \* the store and its expiryMs
    session,   \* the session's entry, or None
    nonces,    \* its used nonces and when Redis drops them
    epoch,     \* ratchets of the session's keys so far
    req,       \* requests as signed
    stored,    \* when the session was last stored
    lost,      \* a restart has lost it since
    check,     \* the verification under way
    accepted,  \* how many times each request was let through
    overran,   \* requests whose verification outlasted the session or the set
    found,     \* whether the last fetch found the session, and its age then
    failures

vars == <<now, conf, session, nonces, epoch, req, stored, lost, check, accepted, overran, found, failures>>

\* Times a clock may show.
Times == 0..(Horizon + Skew)

Idle == [step |-> "idle"]

\* The life of a key that has no TTL.
Forever == [ends |-> FALSE, at |-> 0]
Until(t) == [ends |-> TRUE, at |-> t]
Over(life) == life.ends /\ life.at <= now

-----------------------------------------------------------------------------
\* The stores.

\* Math.floor(expiryMs / 1000), in ticks.
Seconds(ticks) == (ticks \div Second) * Second

Redis == conf.backend = "redis"

\* Redis refuses SET with EX 0.
SetRefused == Redis /\ Seconds(conf.ttl) = 0

\* GET and EXISTS of Redis, over its protocol or over REST: the key is there or not.
Dropped == Over(session.life)

\* Mutated form of Expired: a session does not live to the end of its TTL.
ExpiredEarly == IF Redis THEN Dropped ELSE now - session.createdAt >= conf.ttl

\* get and exists of the in-memory store compare the age; Redis has dropped the key.
Expired == IF Redis THEN Dropped ELSE now - session.createdAt > conf.ttl

Live == session # None /\ ~Expired

\* Mutated form of Set: a rekey stores the keys it fetched.
SetUnratcheted(e) ==
    /\ session' = [epoch |-> 0, createdAt |-> now, life |-> Until(now + Seconds(conf.ttl))]
    /\ nonces' = IF Redis THEN nonces ELSE [seen |-> {}, life |-> Forever]

\* set: an entry in memory takes its nonces with it, in Redis they are a key of their own.
Set(e) ==
    /\ session' = [epoch |-> e, createdAt |-> now, life |-> Until(now + Seconds(conf.ttl))]
    /\ nonces' = IF Redis THEN nonces ELSE [seen |-> {}, life |-> Forever]

Seen == IF Over(nonces.life) THEN {} ELSE nonces.seen

\* SADD keeps the TTL of a set that is there and creates one without.
Add(r) == [seen |-> Seen \cup {r},
           life |-> IF Over(nonces.life) \/ nonces.seen = {} THEN Forever ELSE nonces.life]

\* Mutated form of ExpireSet: only a set without a TTL is given one.
ExpireSetNew == IF nonces.life.ends THEN nonces
                ELSE [nonces EXCEPT !.life = Until(now + Seconds(conf.ttl))]

\* EXPIRE: the set gets its whole TTL again; a set that is gone stays gone.
ExpireSet == IF Over(nonces.life) THEN nonces
             ELSE [nonces EXCEPT !.life = Until(now + Seconds(conf.ttl))]

Forget == session' = None /\ nonces' = IF Redis THEN nonces ELSE [seen |-> {}, life |-> Forever]

-----------------------------------------------------------------------------
\* Verifying a request, one step per store call.

Unsigned == [signed |-> FALSE]

\* The client signs with its own clock and the keys it has.
Sign(r) == \E rekey \in BOOLEAN, ts \in Times :
    /\ req[r] = Unsigned
    /\ ts <= now + Skew /\ now <= ts + Skew
    /\ req' = [req EXCEPT ![r] = [signed |-> TRUE, ts |-> ts, epoch |-> epoch, rekey |-> rekey]]
    /\ UNCHANGED <<now, conf, session, nonces, epoch, stored, lost, check, accepted, overran, found>>
    /\ UNCHANGED failures

InWindow(ts) == now <= ts + Window /\ ts <= now + Window

Authentic(r) == req[r].epoch = session.epoch /\ InWindow(req[r].ts)

\* A copy of r arrives: getSession, the signature and the timestamp.
Fetch(r) ==
    /\ check = Idle /\ req[r] # Unsigned
    /\ found' = [yes |-> Live, age |-> now - stored, lost |-> lost]
    /\ IF Live /\ Authentic(r)
       THEN check' = [step |-> "has", r |-> r]
       ELSE UNCHANGED check
    /\ IF session # None /\ Expired THEN Forget ELSE UNCHANGED <<session, nonces>>
    /\ UNCHANGED <<now, conf, epoch, req, stored, lost, accepted, overran, failures>>

Step(from, to) == check.step = from /\ check' = [check EXCEPT !.step = to]

HasNonce ==
    /\ check.step = "has"
    /\ check' = IF check.r \in Seen THEN Idle ELSE [check EXCEPT !.step = "add"]
    /\ overran' = IF Live THEN overran ELSE overran \cup {check.r}
    /\ UNCHANGED <<now, conf, session, nonces, epoch, req, stored, lost, accepted, found, failures>>

\* trackNonce, its first command; in memory a session that is gone takes no nonce.
AddNonce ==
    /\ Step("add", "expire")
    /\ nonces' = IF Redis \/ session # None THEN Add(check.r) ELSE nonces
    /\ UNCHANGED <<now, conf, session, epoch, req, stored, lost, accepted, overran, found, failures>>

\* Its second command, after which verifyRequest returns the session.
ExpireNonces ==
    /\ check.step = "expire"
    /\ check' = IF req[check.r].rekey THEN [check EXCEPT !.step = "store"] ELSE Idle
    /\ nonces' = IF Redis THEN ExpireSet ELSE nonces
    /\ accepted' = [accepted EXCEPT ![check.r] = @ + 1]
    /\ overran' = IF Redis /\ Over(nonces.life) THEN overran \cup {check.r} ELSE overran
    /\ UNCHANGED <<now, conf, session, epoch, req, stored, lost, found, failures>>

\* handleRekey stores the ratcheted keys.
StoreRekey ==
    /\ check.step = "store" /\ epoch < MaxEpoch
    /\ check' = Idle
    /\ epoch' = epoch + 1
    /\ Set(epoch + 1)
    /\ stored' = now /\ lost' = FALSE
    /\ UNCHANGED <<now, conf, req, accepted, overran, found, failures>>

-----------------------------------------------------------------------------
\* Time and failures.

\* Nothing is awaited from outside with the in-memory store: time stands still.
Tick ==
    /\ now < Horizon
    /\ Redis \/ check = Idle
    /\ now' = now + 1
    /\ UNCHANGED <<conf, session, nonces, epoch, req, stored, lost, check, accepted, overran, found, failures>>

\* The sweep measures every session by the default TTL, not by the store's own.
Sweep ==
    /\ ~Redis /\ check = Idle
    /\ session # None /\ now - session.createdAt > DefaultTtl
    /\ Forget
    /\ UNCHANGED <<now, conf, epoch, req, stored, lost, check, accepted, overran, found, failures>>

\* A store call rejects (no answer, a status that is not 2xx, an error in the
\* answer: cmd) or the process dies between two of them.
StoreFails ==
    /\ Redis /\ check # Idle /\ failures < MaxFailures
    /\ check' = Idle
    /\ failures' = failures + 1
    /\ UNCHANGED <<now, conf, session, nonces, epoch, req, stored, lost, accepted, overran, found>>

\* A restart of the process loses the sessions in its memory.
Restart ==
    /\ ~Redis /\ check = Idle /\ failures < MaxFailures
    /\ Forget
    /\ lost' = TRUE
    /\ failures' = failures + 1
    /\ UNCHANGED <<now, conf, epoch, req, stored, check, accepted, overran, found>>

\* The handshake has stored the session at time 0, unless Redis refused.
Init ==
    /\ now = 0
    /\ conf \in [backend : {"memory", "redis"}, ttl : Ttls]
    /\ session = IF SetRefused THEN None
                 ELSE [epoch |-> 0, createdAt |-> 0, life |-> Until(Seconds(conf.ttl))]
    /\ nonces = [seen |-> {}, life |-> Forever]
    /\ epoch = 0
    /\ req = [r \in Requests |-> Unsigned]
    /\ stored = 0 /\ lost = FALSE
    /\ check = Idle
    /\ accepted = [r \in Requests |-> 0]
    /\ overran = {}
    /\ found = [yes |-> FALSE, age |-> 0, lost |-> TRUE]
    /\ failures = 0

Next ==
    \/ \E r \in Requests : Sign(r) \/ Fetch(r)
    \/ HasNonce \/ AddNonce \/ ExpireNonces \/ StoreRekey
    \/ Tick \/ Sweep \/ StoreFails \/ Restart

Spec == Init /\ [][Next]_vars

-----------------------------------------------------------------------------
\* Properties.

\* However late its copies arrive, whatever has expired meanwhile, been ratcheted
\* or restarted, a request is let through once (verifyRequest's nonce check over
\* the stores' TTLs), verifications not overlapping.  The exception is one
\* during which Redis drops the nonces, between getSession and hasNonce or between
\* SADD and an EXPIRE that then finds no set.
AcceptedOnce == \A r \in Requests \ overran : accepted[r] <= 1

\* A fetch finds the session exactly while its TTL lasts: never longer than
\* expiryMs after it was last stored, and, rounding to seconds aside, no shorter
\* unless a restart lost it or the sweep took a session of a store whose TTL is
\* longer than the default (get, exists, set, the sweep).
TtlHonoured ==
    /\ found.yes => found.age <= conf.ttl
    /\ ~found.yes /\ ~found.lost =>
        IF Redis THEN found.age >= Seconds(conf.ttl)
        ELSE found.age > conf.ttl \/ found.age > DefaultTtl

\* Between verifications a set of nonces in Redis has a TTL, unless the call that
\* gives it failed; and once a request signed with the session's present keys was
\* let through, the set does not end before the session (trackNonce, set).
NonceSetsEnd ==
    Redis /\ check = Idle =>
        /\ Seen # {} /\ failures = 0 => nonces.life.ends
        /\ Live /\ (\E r \in Requests \ overran : accepted[r] > 0 /\ req[r].epoch = session.epoch)
            /\ nonces.life.ends
           => nonces.life.at >= session.life.at

=============================================================================
