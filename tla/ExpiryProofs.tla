---------------------------- MODULE ExpiryProofs ----------------------------
(***************************************************************************)
(* Proofs about Expiry, for any number of requests, any TTLs, windows and  *)
(* clock skews, and any bounds on the clock, on rekeys and on failures.    *)
(*                                                                         *)
(* The argument: the entry of a session says when it was last stored and   *)
(* until when it lives (EntryInv); a request once let through is in the    *)
(* set of nonces for as long as the session whose keys it was signed with  *)
(* lives (KeptInv), because the set gets its whole TTL after the session   *)
(* got its own; so a copy is either a replay that hasNonce sees or one     *)
(* signed with keys that are no longer there (CheckInv).                   *)
(***************************************************************************)
EXTENDS Expiry, TLAPS

-----------------------------------------------------------------------------
(***************************************************************************)
(* The inductive invariants.                                               *)
(***************************************************************************)

TimeOK ==
  /\ now \in Nat /\ stored \in Nat /\ stored <= now
  /\ conf \in [backend : {"memory", "redis"}, ttl : Ttls]
  /\ epoch \in Nat
  /\ failures \in Nat

ShapeOK ==
  /\ nonces = [seen |-> nonces.seen, life |-> nonces.life]
  /\ nonces.life \in Lives
  /\ accepted = [r \in Requests |-> accepted[r]]
  /\ req = [r \in Requests |-> req[r]]
  /\ \A r \in Requests : accepted[r] \in Nat
  /\ \A r \in Requests : req[r] # Unsigned => req[r].epoch \in Nat /\ req[r].epoch <= epoch
  /\ check = Idle \/ /\ check = [step |-> check.step, r |-> check.r]
                     /\ check.step \in {"has", "add", "expire", "store"}
                     /\ check.r \in Requests

\* What the entry of the session says, and why it is missing when it is.
EntryInv ==
  /\ session # None =>
       session = [epoch |-> epoch, createdAt |-> stored,
                  life |-> Until(stored + Seconds(conf.ttl))]
  /\ session = None /\ ~lost =>
       IF Redis THEN now >= stored + Seconds(conf.ttl)
       ELSE now > stored + conf.ttl \/ now > stored + DefaultTtl

\* The last fetch saw the session as it was then.
FoundInv ==
  /\ found.yes => found.age <= conf.ttl
  /\ ~found.yes /\ ~found.lost =>
       IF Redis THEN found.age >= Seconds(conf.ttl)
       ELSE found.age > conf.ttl \/ found.age > DefaultTtl

\* In memory nothing happens during a verification, and nonces have no TTL.
MemoryInv ==
  ~Redis =>
    /\ ~nonces.life.ends
    /\ check # Idle => Live

\* The nonce of a request that was let through is kept as long as its session.
Kept(r) ==
  /\ r \in nonces.seen
  /\ nonces.life.ends => nonces.life.at >= session.life.at

KeptInv ==
  Live => \A r \in Requests \ overran :
            accepted[r] > 0 /\ req[r].epoch = session.epoch => Kept(r)

\* The verification under way: its request is signed, with the keys of the session
\* until that is stored again; it gets past hasNonce only for the first time.
CheckInv ==
  check # Idle =>
    /\ req[check.r] # Unsigned
    /\ session # None /\ req[check.r].epoch = session.epoch
    /\ check.step \in {"add", "expire"} /\ check.r \notin overran => accepted[check.r] = 0
    /\ check.step = "expire" /\ ~Over(nonces.life) => check.r \in nonces.seen

\* A request is let through once, and none that was not signed.
CountInv ==
  \A r \in Requests :
    /\ r \notin overran => accepted[r] <= 1
    /\ accepted[r] > 0 => req[r] # Unsigned

\* Only between SADD and EXPIRE does a set of nonces in Redis lack a TTL.
EndsInv ==
  Redis /\ failures = 0 /\ check.step # "expire" /\ Seen # {} => nonces.life.ends

ExpiryInv ==
  /\ TimeOK /\ ShapeOK /\ EntryInv /\ FoundInv /\ MemoryInv
  /\ KeptInv /\ CheckInv /\ CountInv /\ EndsInv

-----------------------------------------------------------------------------
(***************************************************************************)
(* Lemmas about time.                                                      *)
(***************************************************************************)

\* Rounding down to seconds takes nothing below zero and nothing up.
LEMMA SecondsRoundDown == \A t \in Nat : Seconds(t) \in Nat /\ Seconds(t) <= t
<1> SUFFICES ASSUME NEW t \in Nat PROVE Seconds(t) \in Nat /\ Seconds(t) <= t
  OBVIOUS
<1> DEFINE q == t \div Second
<1>1. Second \in Nat /\ Second > 0
  BY ExpiryAssumption
<1>2. q \in Nat /\ t % Second \in Nat /\ t = q * Second + (t % Second)
  BY <1>1
<1>3. q * Second \in Nat
  BY <1>1, <1>2
<1> HIDE DEF q
<1>4. q * Second <= t
  BY <1>2, <1>3
<1>5. QED BY <1>3, <1>4 DEF Seconds, q

\* The TTL in force, exact and rounded.
LEMMA TtlOK == TimeOK => /\ conf.ttl \in Nat /\ Seconds(conf.ttl) \in Nat
                         /\ Seconds(conf.ttl) <= conf.ttl
  BY SecondsRoundDown, ExpiryAssumption DEF TimeOK

\* An entry that is stored is there.
LEMMA EntryIsReal ==
  ASSUME NEW e \in Nat, NEW t \in Nat, NEW u \in Nat
  PROVE  [epoch |-> e, createdAt |-> t, life |-> Until(u)] # None
<1>1. Until(u) \in Lives
  BY DEF Until, Lives
<1>2. [epoch |-> e, createdAt |-> t, life |-> Until(u)] \in Entries
  BY <1>1 DEF Entries
<1>3. QED BY <1>2, ExpiryAssumption

\* What it takes for a session to be live.
LEMMA LiveMeans ==
  ASSUME TimeOK, EntryInv, session # None
  PROVE  /\ session.epoch = epoch /\ session.createdAt = stored
         /\ session.life.at = stored + Seconds(conf.ttl)
         /\ Live <=> IF Redis THEN now < stored + Seconds(conf.ttl) ELSE now <= stored + conf.ttl
<1>1. session = [epoch |-> epoch, createdAt |-> stored,
                 life |-> [ends |-> TRUE, at |-> stored + Seconds(conf.ttl)]]
  BY DEF EntryInv, Until
<1>2. /\ session.epoch = epoch /\ session.createdAt = stored
      /\ session.life.ends /\ session.life.at = stored + Seconds(conf.ttl)
  BY <1>1
<1>3. CASE Redis
  BY <1>2, <1>3, TtlOK DEF Live, Expired, Dropped, Over, TimeOK
<1>4. CASE ~Redis
  BY <1>2, <1>4, TtlOK DEF Live, Expired, TimeOK
<1>5. QED BY <1>2, <1>3, <1>4

\* As long as its session lives, a nonce that is kept is one the store still has.
LEMMA KeptIsSeen ==
  ASSUME TimeOK, ShapeOK, EntryInv, MemoryInv, Live, NEW r, Kept(r)
  PROVE  r \in Seen /\ ~Over(nonces.life)
<1>1. session # None
  BY DEF Live
<1>2. CASE Redis
  BY <1>1, <1>2, LiveMeans, TtlOK DEF Kept, Seen, Over, TimeOK, ShapeOK, Lives
<1>3. CASE ~Redis
  BY <1>3 DEF MemoryInv, Kept, Seen, Over
<1>4. QED BY <1>2, <1>3

-----------------------------------------------------------------------------
(***************************************************************************)
(* The inductive invariants hold initially and are preserved.              *)
(***************************************************************************)

LEMMA InitInv == Init => ExpiryInv
<1> SUFFICES ASSUME Init PROVE ExpiryInv
  OBVIOUS
<1>1. TimeOK
  BY DEF Init, TimeOK
<1>2. ShapeOK
  BY DEF Init, ShapeOK, Forever, Lives
<1>3. EntryInv
  <2>1. conf.ttl \in Nat /\ Seconds(conf.ttl) \in Nat /\ now = 0 /\ stored = 0 /\ epoch = 0
    BY <1>1, TtlOK DEF Init
  <2>2. CASE SetRefused
    BY <2>1, <2>2 DEF Init, EntryInv, SetRefused
  <2>3. CASE ~SetRefused
    <3>1. session = [epoch |-> 0, createdAt |-> 0, life |-> Until(Seconds(conf.ttl))]
      BY <2>3 DEF Init
    <3>2. session # None
      BY <2>1, <3>1, EntryIsReal
    <3>3. stored + Seconds(conf.ttl) = Seconds(conf.ttl)
      BY <2>1
    <3>4. QED BY <2>1, <3>1, <3>2, <3>3 DEF EntryInv
  <2>4. QED BY <2>2, <2>3
<1>4. FoundInv /\ MemoryInv /\ CheckInv
  BY DEF Init, FoundInv, MemoryInv, CheckInv, Forever
<1>5. KeptInv /\ CountInv
  BY DEF Init, KeptInv, CountInv
<1>6. EndsInv
  BY DEF Init, EndsInv, Seen
<1>7. QED BY <1>1, <1>2, <1>3, <1>4, <1>5, <1>6 DEF ExpiryInv

LEMMA ConfConstant == [Next]_vars => conf' = conf
  BY DEF Next, Sign, Fetch, HasNonce, Step, AddNonce, ExpireNonces, StoreRekey, Tick, Sweep,
         StoreFails, Restart, vars

LEMMA TimeStep == TimeOK /\ [Next]_vars => TimeOK'
<1> SUFFICES ASSUME TimeOK, [Next]_vars PROVE TimeOK'
  OBVIOUS
<1> USE DEF TimeOK
<1>1. CASE Tick
  BY <1>1 DEF Tick
<1>2. CASE StoreRekey
  BY <1>2 DEF StoreRekey
<1>3. CASE StoreFails \/ Restart
  BY <1>3 DEF StoreFails, Restart
<1>4. CASE UNCHANGED <<now, conf, stored, epoch, failures>>
  BY <1>4
<1>5. QED
  BY <1>1, <1>2, <1>3, <1>4 DEF Next, Sign, Fetch, HasNonce, Step, AddNonce, ExpireNonces, Sweep, vars

\* What the store calls make of the nonces.
LEMMA NoncesShape ==
  ASSUME TimeOK, nonces = [seen |-> nonces.seen, life |-> nonces.life], nonces.life \in Lives,
         NEW r
  PROVE  /\ Add(r) = [seen |-> Seen \cup {r}, life |-> Add(r).life] /\ Add(r).life \in Lives
         /\ ExpireSet = [seen |-> nonces.seen, life |-> ExpireSet.life] /\ ExpireSet.life \in Lives
<1>1. Forever \in Lives
  BY DEF Forever, Lives
<1>2. now + Seconds(conf.ttl) \in Nat
  BY TtlOK DEF TimeOK
<1>3. Until(now + Seconds(conf.ttl)) \in Lives
  BY <1>2 DEF Until, Lives
<1>4. Add(r) = [seen |-> Seen \cup {r}, life |-> Add(r).life] /\ Add(r).life \in Lives
  BY <1>1 DEF Add
<1>5. CASE Over(nonces.life)
  BY <1>4, <1>5 DEF ExpireSet
<1>6. CASE ~Over(nonces.life)
  <2>1. ExpireSet = [seen |-> nonces.seen, life |-> Until(now + Seconds(conf.ttl))]
    BY <1>6 DEF ExpireSet
  <2>2. QED BY <1>3, <1>4, <2>1
<1>7. QED BY <1>5, <1>6

\* A verification goes on to its next step with the same request.
LEMMA CheckMoves ==
  ASSUME NEW to, check = [step |-> check.step, r |-> check.r]
  PROVE  [check EXCEPT !.step = to] = [step |-> to, r |-> check.r]
  OBVIOUS

LEMMA ShapeStep == TimeOK /\ ShapeOK /\ [Next]_vars => ShapeOK'
<1> SUFFICES ASSUME TimeOK, ShapeOK, [Next]_vars PROVE ShapeOK'
  OBVIOUS
<1> USE DEF ShapeOK
<1>0. /\ [seen |-> {}, life |-> Forever].life \in Lives
      /\ \A r : Idle # [step |-> "has", r |-> r] /\ Idle # [step |-> "add", r |-> r]
      /\ Idle.step = "idle"
  BY DEF Forever, Lives, Idle
<1>1. ASSUME NEW r \in Requests, Sign(r)
      PROVE  ShapeOK'
  <2>1. PICK rekey \in BOOLEAN, ts \in Times :
          /\ req' = [req EXCEPT ![r] = [signed |-> TRUE, ts |-> ts, epoch |-> epoch, rekey |-> rekey]]
          /\ UNCHANGED <<nonces, accepted, check, epoch>>
    BY <1>1 DEF Sign
  <2> DEFINE made == [signed |-> TRUE, ts |-> ts, epoch |-> epoch, rekey |-> rekey]
  <2>2. made.epoch = epoch
    OBVIOUS
  <2>3. req' = [req EXCEPT ![r] = made]
    BY <2>1
  <2> HIDE DEF made
  <2>4. req'[r] = made /\ (\A q \in Requests : q # r => req'[q] = req[q])
        /\ req' = [q \in Requests |-> req'[q]]
    BY <2>3
  <2>5. \A q \in Requests : req'[q] # Unsigned => req'[q].epoch \in Nat /\ req'[q].epoch <= epoch
    BY <2>2, <2>4 DEF TimeOK
  <2>6. QED BY <2>1, <2>4, <2>5
<1>2. ASSUME NEW r \in Requests, Fetch(r)
      PROVE  ShapeOK'
  BY <1>0, <1>2 DEF Fetch, Forget
<1>3. CASE HasNonce
  <2>1. check = [step |-> "has", r |-> check.r] /\ check.r \in Requests
    BY <1>0, <1>3 DEF HasNonce
  <2>2. check' = Idle \/ check' = [step |-> "add", r |-> check.r]
    BY <1>3, <2>1, CheckMoves DEF HasNonce
  <2>3. UNCHANGED <<nonces, accepted, req, epoch>>
    BY <1>3 DEF HasNonce
  <2>4. QED BY <2>1, <2>2, <2>3
<1>4. CASE AddNonce
  <2>1. check = [step |-> "add", r |-> check.r] /\ check.r \in Requests
    BY <1>0, <1>4 DEF AddNonce, Step
  <2>2. check' = [step |-> "expire", r |-> check.r]
    BY <1>4, <2>1, CheckMoves DEF AddNonce, Step
  <2>3. nonces' \in {nonces, Add(check.r)} /\ UNCHANGED <<accepted, req, epoch>>
    BY <1>4 DEF AddNonce
  <2>4. QED BY <2>1, <2>2, <2>3, NoncesShape
<1>5. CASE ExpireNonces
  <2>1. check = [step |-> "expire", r |-> check.r] /\ check.r \in Requests
    BY <1>0, <1>5 DEF ExpireNonces
  <2>2. check' = Idle \/ check' = [step |-> "store", r |-> check.r]
    BY <1>5, <2>1, CheckMoves DEF ExpireNonces
  <2>3. /\ nonces' \in {nonces, ExpireSet} /\ UNCHANGED <<req, epoch>>
        /\ accepted' = [accepted EXCEPT ![check.r] = @ + 1]
    BY <1>5 DEF ExpireNonces
  <2>4. QED BY <2>1, <2>2, <2>3, NoncesShape
<1>6. CASE StoreRekey
  <2>1. /\ check' = Idle /\ UNCHANGED <<accepted, req>> /\ epoch' = epoch + 1
        /\ nonces' \in {nonces, [seen |-> {}, life |-> Forever]}
    BY <1>6 DEF StoreRekey, Set
  <2>2. QED BY <1>0, <2>1 DEF TimeOK
<1>7. CASE Tick \/ StoreFails
  BY <1>7 DEF Tick, StoreFails
<1>8. CASE Sweep \/ Restart
  BY <1>0, <1>8 DEF Sweep, Restart, Forget
<1>9. CASE UNCHANGED vars
  BY <1>9 DEF vars
<1>10. QED BY <1>1, <1>2, <1>3, <1>4, <1>5, <1>6, <1>7, <1>8, <1>9 DEF Next

\* The steps that leave the session and what is known of it alone.
LEMMA SessionSame ==
  ASSUME [Next]_vars,
         \A r \in Requests : ~Fetch(r), ~StoreRekey, ~Sweep, ~Restart, ~Tick
  PROVE  UNCHANGED <<now, session, stored, lost, epoch, found>>
  BY DEF Next, Sign, HasNonce, Step, AddNonce, ExpireNonces, StoreFails, vars

LEMMA EntryStep == TimeOK /\ EntryInv /\ [Next]_vars => EntryInv'
<1> SUFFICES ASSUME TimeOK, EntryInv, [Next]_vars PROVE EntryInv'
  OBVIOUS
<1>0. conf' = conf
  BY ConfConstant
<1>1. ASSUME NEW r \in Requests, Fetch(r)
      PROVE  EntryInv'
  <2>1. UNCHANGED <<now, stored, lost, epoch>>
    BY <1>1 DEF Fetch
  <2>2. CASE session # None /\ Expired
    <3>1. session' = None
      BY <1>1, <2>2 DEF Fetch, Forget
    <3>2. IF Redis THEN now >= stored + Seconds(conf.ttl) ELSE now > stored + conf.ttl
      BY <2>2, LiveMeans, TtlOK DEF Live, TimeOK
    <3>3. QED BY <1>0, <2>1, <3>1, <3>2 DEF EntryInv, Redis, Seconds
  <2>3. CASE ~(session # None /\ Expired)
    BY <1>0, <1>1, <2>1, <2>3 DEF Fetch, EntryInv, Redis, Seconds, Until
  <2>4. QED BY <2>2, <2>3
<1>2. CASE StoreRekey
  <2>1. /\ session' = [epoch |-> epoch + 1, createdAt |-> now,
                       life |-> Until(now + Seconds(conf.ttl))]
        /\ epoch' = epoch + 1 /\ stored' = now /\ UNCHANGED now
    BY <1>2 DEF StoreRekey, Set
  <2>2. epoch + 1 \in Nat /\ now \in Nat /\ now + Seconds(conf.ttl) \in Nat
    BY TtlOK DEF TimeOK
  <2>3. session' # None
    BY <2>1, <2>2, EntryIsReal
  <2>4. QED BY <1>0, <2>1, <2>3 DEF EntryInv, Until, Seconds
<1>3. CASE Sweep
  <2>1. /\ session # None /\ ~Redis /\ now - session.createdAt > DefaultTtl
        /\ session' = None /\ UNCHANGED <<now, stored, lost, epoch>>
    BY <1>3 DEF Sweep, Forget
  <2>2. now > stored + DefaultTtl
    BY <2>1, LiveMeans, ExpiryAssumption DEF TimeOK
  <2>3. QED BY <1>0, <2>1, <2>2 DEF EntryInv, Redis
<1>4. CASE Restart
  BY <1>4 DEF Restart, Forget, EntryInv
<1>5. CASE Tick
  <2>1. now' = now + 1 /\ UNCHANGED <<session, stored, lost, epoch>>
    BY <1>5 DEF Tick
  <2>2. conf.ttl \in Nat /\ Seconds(conf.ttl) \in Nat /\ DefaultTtl \in Nat
        /\ now \in Nat /\ stored \in Nat
    BY TtlOK, ExpiryAssumption DEF TimeOK
  <2>3. session' # None =>
          session' = [epoch |-> epoch', createdAt |-> stored',
                      life |-> Until(stored' + Seconds(conf'.ttl))]
    BY <1>0, <2>1 DEF EntryInv
  <2>4. session' = None /\ ~lost' =>
          IF Redis THEN now' >= stored' + Seconds(conf'.ttl)
          ELSE now' > stored' + conf'.ttl \/ now' > stored' + DefaultTtl
    BY <1>0, <2>1, <2>2 DEF EntryInv
  <2>5. Redis' = Redis /\ Seconds(conf.ttl)' = Seconds(conf.ttl)
    BY <1>0 DEF Redis, Seconds
  <2>6. QED BY <1>0, <2>3, <2>4, <2>5 DEF EntryInv, Until
<1>6. CASE UNCHANGED <<now, session, stored, lost, epoch>>
  BY <1>0, <1>6 DEF EntryInv, Redis, Seconds, Until
<1>7. QED BY <1>1, <1>2, <1>3, <1>4, <1>5, <1>6, SessionSame

LEMMA FoundStep == TimeOK /\ EntryInv /\ FoundInv /\ [Next]_vars => FoundInv'
<1> SUFFICES ASSUME TimeOK, EntryInv, FoundInv, [Next]_vars PROVE FoundInv'
  OBVIOUS
<1>0. conf' = conf /\ Redis' = Redis /\ Seconds(conf.ttl)' = Seconds(conf.ttl)
  BY ConfConstant DEF Redis, Seconds
<1>1. ASSUME NEW r \in Requests, Fetch(r)
      PROVE  FoundInv'
  <2>1. /\ found'.yes = Live /\ found'.age = now - stored /\ found'.lost = lost
    BY <1>1 DEF Fetch
  <2>2. /\ conf.ttl \in Nat /\ Seconds(conf.ttl) \in Nat /\ Seconds(conf.ttl) <= conf.ttl
        /\ now \in Nat /\ stored \in Nat /\ stored <= now /\ DefaultTtl \in Nat
    BY TtlOK, ExpiryAssumption DEF TimeOK
  <2>3. Live => now - stored <= conf.ttl
    <3>1. CASE Redis
      BY <2>2, <3>1, LiveMeans DEF Live
    <3>2. CASE ~Redis
      BY <2>2, <3>2, LiveMeans DEF Live
    <3>3. QED BY <3>1, <3>2
  <2>4. ~Live /\ ~lost =>
          IF Redis THEN now - stored >= Seconds(conf.ttl)
          ELSE now - stored > conf.ttl \/ now - stored > DefaultTtl
    <3>1. CASE session = None
      BY <2>2, <3>1 DEF EntryInv
    <3>2. CASE session # None
      BY <2>2, <3>2, LiveMeans
    <3>3. QED BY <3>1, <3>2
  <2>5. QED BY <1>0, <2>1, <2>3, <2>4 DEF FoundInv
<1>2. CASE UNCHANGED found
  BY <1>0, <1>2 DEF FoundInv
<1>3. QED
  BY <1>1, <1>2 DEF Next, Sign, HasNonce, Step, AddNonce, ExpireNonces, StoreRekey, Tick, Sweep,
     StoreFails, Restart, vars

\* A session lives on only if it is the same one and was alive.
LEMMA LiveOn ==
  ASSUME TimeOK, EntryInv, [Next]_vars, Live', ~StoreRekey
  PROVE  Live /\ session' = session
<1>0. conf' = conf /\ Redis' = Redis
  BY ConfConstant DEF Redis
<1>1. ASSUME NEW r \in Requests, Fetch(r)
      PROVE  session' = session /\ now' = now
  BY <1>1 DEF Fetch, Forget, Live
<1>2. ASSUME Sweep \/ Restart
      PROVE  FALSE
  BY <1>2 DEF Sweep, Restart, Forget, Live
<1>3. CASE UNCHANGED <<session, now>>
  BY <1>0, <1>3 DEF Live, Expired, Dropped, Over
<1>4. CASE Tick
  <2>1. session' = session /\ now' = now + 1 /\ session # None
    BY <1>4 DEF Tick, Live
  <2>2. CASE Redis
    BY <1>0, <2>1, <2>2, LiveMeans, TtlOK DEF Live, Expired, Dropped, Over, TimeOK
  <2>3. CASE ~Redis
    BY <1>0, <2>1, <2>3, LiveMeans, TtlOK DEF Live, Expired, TimeOK
  <2>4. QED BY <2>1, <2>2, <2>3
<1>5. QED
  BY <1>1, <1>2, <1>3, <1>4 DEF Next, Sign, HasNonce, Step, AddNonce, ExpireNonces, StoreFails, vars

\* While neither the session nor the clock changes, it lives as it did.
LEMMA LiveSame ==
  ASSUME UNCHANGED <<session, now, conf>>
  PROVE  (Live' <=> Live) /\ (Redis' <=> Redis)
  BY DEF Live, Expired, Dropped, Over, Redis

LEMMA MemoryStep ==
  TimeOK /\ ShapeOK /\ EntryInv /\ MemoryInv /\ [Next]_vars => MemoryInv'
<1> SUFFICES ASSUME TimeOK, ShapeOK, EntryInv, MemoryInv, [Next]_vars, ~Redis
             PROVE  ~nonces'.life.ends /\ (check' # Idle => Live')
  BY ConfConstant DEF MemoryInv, Redis
<1>0. ~Forever.ends /\ [seen |-> {}, life |-> Forever].life = Forever
  BY DEF Forever
<1>1. ASSUME NEW r \in Requests, Fetch(r)
      PROVE  ~nonces'.life.ends /\ (check' # Idle => Live')
  <2>1. UNCHANGED <<now, conf>> /\ check = Idle
    BY <1>1 DEF Fetch
  <2>2. CASE Live
    <3>1. UNCHANGED <<session, nonces>>
      BY <1>1, <2>2 DEF Fetch, Live
    <3>2. QED BY <2>1, <2>2, <3>1, LiveSame DEF MemoryInv
  <2>3. CASE ~Live
    <3>1. check' = Idle
      BY <1>1, <2>1, <2>3 DEF Fetch
    <3>2. nonces' \in {nonces, [seen |-> {}, life |-> Forever]}
      BY <1>1 DEF Fetch, Forget
    <3>3. QED BY <1>0, <3>1, <3>2 DEF MemoryInv
  <2>4. QED BY <2>2, <2>3
<1>2. CASE HasNonce
  BY <1>2, LiveSame DEF HasNonce, MemoryInv, Idle
<1>3. CASE AddNonce
  <2>1. check # Idle /\ UNCHANGED <<session, now, conf>>
    BY <1>3 DEF AddNonce, Step, Idle
  <2>2. nonces' \in {nonces, Add(check.r)}
    BY <1>3 DEF AddNonce
  <2>3. Add(check.r).life \in {nonces.life, Forever}
    BY DEF Add
  <2>4. QED BY <1>0, <2>1, <2>2, <2>3, LiveSame DEF MemoryInv
<1>4. CASE ExpireNonces
  BY <1>4, LiveSame DEF ExpireNonces, MemoryInv, Idle
<1>5. CASE StoreRekey
  BY <1>0, <1>5 DEF StoreRekey, Set
<1>6. CASE Tick
  BY <1>6 DEF Tick, MemoryInv
<1>7. CASE Sweep \/ Restart
  BY <1>0, <1>7 DEF Sweep, Restart, Forget
<1>8. CASE StoreFails
  BY <1>8 DEF StoreFails
<1>9. CASE UNCHANGED vars \/ \E r \in Requests : Sign(r)
  <2>1. UNCHANGED <<session, now, conf, nonces, check>>
    BY <1>9 DEF Sign, vars
  <2>2. QED BY <2>1, LiveSame DEF MemoryInv
<1>10. QED BY <1>1, <1>2, <1>3, <1>4, <1>5, <1>6, <1>7, <1>8, <1>9 DEF Next

\* Requests that were let through were signed before.
LEMMA CountStep ==
  ShapeOK /\ CheckInv /\ CountInv /\ [Next]_vars => CountInv'
<1> SUFFICES ASSUME ShapeOK, CheckInv, CountInv, [Next]_vars PROVE CountInv'
  OBVIOUS
<1>1. ASSUME NEW q \in Requests, Sign(q)
      PROVE  CountInv'
  <2>1. PICK rekey \in BOOLEAN, ts \in Times :
          /\ req[q] = Unsigned /\ UNCHANGED <<accepted, overran>>
          /\ req' = [req EXCEPT ![q] = [signed |-> TRUE, ts |-> ts, epoch |-> epoch, rekey |-> rekey]]
    BY <1>1 DEF Sign
  <2>2. \A r \in Requests : r # q => req'[r] = req[r]
    BY <2>1 DEF ShapeOK
  <2>3. ~(accepted[q] > 0)
    BY <2>1 DEF CountInv
  <2>4. QED BY <2>1, <2>2, <2>3 DEF CountInv
<1>2. CASE ExpireNonces
  <2>1. /\ check.step = "expire" /\ check # Idle /\ overran \subseteq overran'
        /\ accepted' = [accepted EXCEPT ![check.r] = @ + 1] /\ UNCHANGED req
    BY <1>2 DEF ExpireNonces, Idle
  <2>2. /\ req[check.r] # Unsigned /\ check.r \in Requests
        /\ check.r \notin overran => accepted[check.r] = 0
    BY <2>1 DEF CheckInv, ShapeOK
  <2>3. /\ accepted'[check.r] = accepted[check.r] + 1
        /\ \A r \in Requests : r # check.r => accepted'[r] = accepted[r]
    BY <2>1, <2>2 DEF ShapeOK
  <2>4. QED BY <2>1, <2>2, <2>3 DEF CountInv
<1>3. CASE HasNonce
  <2>1. overran \subseteq overran' /\ UNCHANGED <<accepted, req>>
    BY <1>3 DEF HasNonce
  <2>2. QED BY <2>1 DEF CountInv
<1>4. CASE UNCHANGED <<accepted, req, overran>>
  BY <1>4 DEF CountInv
<1>5. QED
  BY <1>1, <1>2, <1>3, <1>4 DEF Next, Fetch, AddNonce, StoreRekey, Tick, Sweep, StoreFails,
     Restart, vars

\* A nonce is kept by every store call that is made while its session lives.
LEMMA KeptStep ==
  /\ TimeOK /\ ShapeOK /\ EntryInv /\ MemoryInv /\ KeptInv /\ CheckInv /\ CountInv
  /\ [Next]_vars
  => KeptInv'
<1> SUFFICES ASSUME TimeOK, ShapeOK, EntryInv, MemoryInv, KeptInv, CheckInv, CountInv,
                    [Next]_vars, Live', NEW r \in Requests, r \notin overran',
                    accepted'[r] > 0, req'[r].epoch = session'.epoch
             PROVE  Kept(r)'
  BY DEF KeptInv
<1>0. conf' = conf /\ Seconds(conf.ttl)' = Seconds(conf.ttl)
  BY ConfConstant DEF Seconds
<1>1. ASSUME UNCHANGED <<nonces, accepted>>, req'[r] = req[r], overran \subseteq overran',
             ~StoreRekey
      PROVE  Kept(r)'
  <2>1. Live /\ session' = session
    BY <1>1, LiveOn
  <2>2. Kept(r)
    BY <1>1, <2>1 DEF KeptInv
  <2>3. QED BY <1>1, <2>1, <2>2 DEF Kept
<1>2. ASSUME NEW q \in Requests, Sign(q)
      PROVE  Kept(r)'
  <2>1. PICK rekey \in BOOLEAN, ts \in Times :
          /\ req[q] = Unsigned /\ UNCHANGED <<accepted, overran, nonces, session, epoch>>
          /\ req' = [req EXCEPT ![q] = [signed |-> TRUE, ts |-> ts, epoch |-> epoch, rekey |-> rekey]]
    BY <1>2 DEF Sign
  <2>2. q # r
    BY <2>1 DEF CountInv
  <2>3. req'[r] = req[r]
    BY <2>1, <2>2 DEF ShapeOK
  <2>4. CASE StoreRekey
    <3>1. epoch' = epoch + 1
      BY <2>4 DEF StoreRekey
    <3>2. QED BY <2>1, <3>1 DEF TimeOK
  <2>5. QED BY <1>1, <2>1, <2>3, <2>4
<1>3. ASSUME NEW q \in Requests, Fetch(q)
      PROVE  Kept(r)'
  <2>1. UNCHANGED <<accepted, overran, req, epoch>>
    BY <1>3 DEF Fetch
  <2>2. ~StoreRekey
    BY <2>1 DEF StoreRekey, TimeOK
  <2>3. Live
    BY <2>2, LiveOn
  <2>4. UNCHANGED nonces
    BY <1>3, <2>3 DEF Fetch, Live
  <2>5. QED BY <1>1, <2>1, <2>2, <2>4
<1>4. CASE HasNonce
  <2>1. UNCHANGED <<accepted, req, epoch, nonces>> /\ overran \subseteq overran'
    BY <1>4 DEF HasNonce
  <2>2. ~StoreRekey
    BY <2>1 DEF StoreRekey, TimeOK
  <2>3. QED BY <1>1, <2>1, <2>2
<1>5. CASE AddNonce
  <2>1. /\ UNCHANGED <<now, session, accepted, req, epoch, overran>>
        /\ nonces' \in {nonces, Add(check.r)}
    BY <1>5 DEF AddNonce
  <2>2. Live /\ Kept(r)
    BY <1>0, <2>1, LiveSame DEF KeptInv
  <2>3. r \in Seen /\ ~Over(nonces.life)
    BY <2>2, KeptIsSeen
  <2>4. CASE nonces' = nonces
    BY <2>1, <2>2, <2>4 DEF Kept
  <2>5. CASE nonces' = Add(check.r)
    <3>1. nonces.seen # {}
      BY <2>2 DEF Kept
    <3>2. Add(check.r) = [seen |-> Seen \cup {check.r}, life |-> nonces.life]
      BY <2>3, <3>1 DEF Add
    <3>3. QED BY <2>1, <2>2, <2>3, <2>5, <3>2 DEF Kept
  <2>6. QED BY <2>1, <2>4, <2>5
<1>6. CASE ExpireNonces
  <2>1. /\ UNCHANGED <<now, session, req, epoch>> /\ check.step = "expire" /\ check # Idle
        /\ accepted' = [accepted EXCEPT ![check.r] = @ + 1]
        /\ nonces' = IF Redis THEN ExpireSet ELSE nonces
        /\ overran' = IF Redis /\ Over(nonces.life) THEN overran \cup {check.r} ELSE overran
    BY <1>6 DEF ExpireNonces, Idle
  <2>2. check.r \in Requests
    BY <2>1 DEF ShapeOK
  <2>3. Live /\ session # None
    BY <1>0, <2>1, LiveSame DEF Live
  <2>4. r \in nonces.seen
    <3>1. CASE r = check.r
      <4>1. ~Over(nonces.life)
        BY <2>1, <3>1 DEF MemoryInv, Over
      <4>2. QED BY <2>1, <3>1, <4>1 DEF CheckInv
    <3>2. CASE r # check.r
      <4>1. accepted'[r] = accepted[r]
        BY <2>1, <3>2 DEF ShapeOK
      <4>2. QED BY <2>1, <2>3, <4>1 DEF KeptInv, Kept
    <3>3. QED BY <3>1, <3>2
  <2>5. nonces'.seen = nonces.seen
    BY <2>1, NoncesShape DEF ShapeOK
  <2>6. nonces'.life.ends => nonces'.life.at >= session.life.at
    <3>1. CASE ~Redis
      BY <2>1, <3>1 DEF MemoryInv
    <3>2. CASE Redis /\ ~Over(nonces.life)
      <4>1. nonces' = [nonces EXCEPT !.life = Until(now + Seconds(conf.ttl))]
        BY <2>1, <3>2 DEF ExpireSet
      <4>2. nonces'.life = Until(now + Seconds(conf.ttl))
        BY <4>1 DEF ShapeOK
      <4>3. nonces'.life.at = now + Seconds(conf.ttl)
        BY <4>2 DEF Until
      <4>4. session.life.at = stored + Seconds(conf.ttl)
        BY <2>3, LiveMeans
      <4>5. QED BY <4>3, <4>4, TtlOK DEF TimeOK
    <3>3. CASE Redis /\ Over(nonces.life)
      <4>1. r # check.r
        BY <2>1, <3>3
      <4>2. accepted'[r] = accepted[r]
        BY <2>1, <4>1 DEF ShapeOK
      <4>3. Kept(r)
        BY <2>1, <2>3, <4>2 DEF KeptInv
      <4>4. QED BY <2>3, <3>3, <4>3, KeptIsSeen
    <3>4. QED BY <3>1, <3>2, <3>3
  <2>7. QED BY <2>1, <2>4, <2>5, <2>6 DEF Kept
<1>7. CASE StoreRekey
  <2>1. session'.epoch = epoch + 1 /\ UNCHANGED <<req, accepted>>
    BY <1>7 DEF StoreRekey, Set
  <2>2. req[r].epoch \in Nat /\ req[r].epoch <= epoch
    BY <2>1 DEF CountInv, ShapeOK
  <2>3. QED BY <2>1, <2>2 DEF TimeOK
<1>8. CASE Tick \/ StoreFails
  <2>1. UNCHANGED <<accepted, req, epoch, nonces, overran>>
    BY <1>8 DEF Tick, StoreFails
  <2>2. ~StoreRekey
    BY <2>1 DEF StoreRekey, TimeOK
  <2>3. QED BY <1>1, <2>1, <2>2
<1>9. CASE Sweep \/ Restart
  BY <1>9 DEF Sweep, Restart, Forget, Live
<1>10. CASE UNCHANGED vars
  <2>1. UNCHANGED <<accepted, req, epoch, nonces, overran>>
    BY <1>10 DEF vars
  <2>2. ~StoreRekey
    BY <2>1 DEF StoreRekey, TimeOK
  <2>3. QED BY <1>1, <2>1, <2>2
<1>11. QED
  BY <1>2, <1>3, <1>4, <1>5, <1>6, <1>7, <1>8, <1>9, <1>10 DEF Next

\* A verification under way keeps to the session it fetched.
LEMMA CheckStep ==
  /\ TimeOK /\ ShapeOK /\ EntryInv /\ MemoryInv /\ KeptInv /\ CheckInv /\ [Next]_vars
  => CheckInv'
<1> SUFFICES ASSUME TimeOK, ShapeOK, EntryInv, MemoryInv, KeptInv, CheckInv, [Next]_vars
             PROVE  CheckInv'
  OBVIOUS
<1>0. Idle.step = "idle"
  BY DEF Idle
<1>1. ASSUME NEW q \in Requests, Sign(q)
      PROVE  CheckInv'
  <2>1. PICK rekey \in BOOLEAN, ts \in Times :
          /\ req[q] = Unsigned
          /\ req' = [req EXCEPT ![q] = [signed |-> TRUE, ts |-> ts, epoch |-> epoch, rekey |-> rekey]]
          /\ UNCHANGED <<now, check, session, accepted, overran, nonces>>
    BY <1>1 DEF Sign
  <2>2. check # Idle => req'[check.r] = req[check.r]
    BY <2>1 DEF CheckInv, ShapeOK
  <2>3. QED BY <2>1, <2>2 DEF CheckInv, Over
<1>2. ASSUME NEW q \in Requests, Fetch(q)
      PROVE  CheckInv'
  <2>1. check = Idle /\ req[q] # Unsigned /\ UNCHANGED req
    BY <1>2 DEF Fetch
  <2>2. CASE check' = Idle
    BY <2>2 DEF CheckInv
  <2>3. CASE check' # Idle
    <3>1. Live /\ Authentic(q) /\ check' = [step |-> "has", r |-> q]
      BY <1>2, <2>1, <2>3 DEF Fetch
    <3>2. session # None /\ session' = session
      BY <1>2, <3>1 DEF Fetch, Live
    <3>3. check'.step = "has" /\ check'.r = q
      BY <3>1
    <3>4. QED BY <2>1, <3>1, <3>2, <3>3 DEF CheckInv, Authentic
  <2>4. QED BY <2>2, <2>3
<1>3. CASE HasNonce
  <2>1. /\ check.step = "has" /\ check # Idle
        /\ check' = IF check.r \in Seen THEN Idle ELSE [check EXCEPT !.step = "add"]
        /\ overran' = IF Live THEN overran ELSE overran \cup {check.r}
        /\ UNCHANGED <<req, session, accepted>>
    BY <1>0, <1>3 DEF HasNonce
  <2>2. CASE check.r \in Seen
    BY <2>1, <2>2 DEF CheckInv
  <2>3. CASE check.r \notin Seen
    <3>1. check'.step = "add" /\ check'.r = check.r
      BY <2>1, <2>3, CheckMoves DEF ShapeOK
    <3>2. check.r \notin overran' => accepted[check.r] = 0
      <4> SUFFICES ASSUME check.r \notin overran', accepted[check.r] # 0 PROVE FALSE
        OBVIOUS
      <4>1. Live /\ check.r \in Requests \ overran /\ accepted[check.r] > 0
        BY <2>1 DEF ShapeOK
      <4>2. Kept(check.r)
        BY <2>1, <4>1 DEF KeptInv, CheckInv
      <4>3. QED BY <2>3, <4>1, <4>2, KeptIsSeen
    <3>3. QED BY <2>1, <3>1, <3>2 DEF CheckInv
  <2>4. QED BY <2>2, <2>3
<1>4. CASE AddNonce
  <2>1. /\ check.step = "add" /\ check # Idle /\ check' = [check EXCEPT !.step = "expire"]
        /\ nonces' = IF Redis \/ session # None THEN Add(check.r) ELSE nonces
        /\ UNCHANGED <<now, req, session, accepted, overran>>
    BY <1>0, <1>4 DEF AddNonce, Step
  <2>2. check'.step = "expire" /\ check'.r = check.r
    BY <2>1, CheckMoves DEF ShapeOK
  <2>3. check.r \in nonces'.seen
    BY <2>1, NoncesShape DEF ShapeOK, CheckInv
  <2>4. QED BY <2>1, <2>2, <2>3 DEF CheckInv
<1>5. CASE ExpireNonces
  <2>1. /\ check.step = "expire" /\ check # Idle
        /\ check' = IF req[check.r].rekey THEN [check EXCEPT !.step = "store"] ELSE Idle
        /\ UNCHANGED <<req, session>>
    BY <1>0, <1>5 DEF ExpireNonces
  <2>2. check' = Idle \/ (check'.step = "store" /\ check'.r = check.r)
    BY <2>1, CheckMoves DEF ShapeOK
  <2>3. QED BY <2>1, <2>2 DEF CheckInv
<1>6. CASE StoreRekey \/ StoreFails
  BY <1>6 DEF StoreRekey, StoreFails, CheckInv
<1>7. CASE Tick
  <2>1. now' = now + 1 /\ UNCHANGED <<check, req, session, accepted, overran, nonces>>
    BY <1>7 DEF Tick
  <2>2. Over(nonces.life) => Over(nonces.life)'
    BY <2>1 DEF Over, TimeOK, ShapeOK, Lives
  <2>3. QED BY <2>1, <2>2 DEF CheckInv
<1>8. CASE Sweep \/ Restart
  BY <1>8 DEF Sweep, Restart, CheckInv
<1>9. CASE UNCHANGED vars
  BY <1>9 DEF vars, CheckInv, Over
<1>10. QED
  BY <1>1, <1>2, <1>3, <1>4, <1>5, <1>6, <1>7, <1>8, <1>9 DEF Next

\* EXPIRE gives a set its TTL before the verification ends.
LEMMA EndsStep == TimeOK /\ ShapeOK /\ EndsInv /\ [Next]_vars => EndsInv'
<1> SUFFICES ASSUME TimeOK, ShapeOK, EndsInv, [Next]_vars,
                    Redis, failures' = 0, check'.step # "expire", Seen' # {}
             PROVE  nonces'.life.ends
  BY ConfConstant DEF EndsInv, Redis
<1>0. Idle.step = "idle"
  BY DEF Idle
<1>1. ASSUME UNCHANGED nonces, failures = 0, check.step # "expire", now' \in {now, now + 1}
      PROVE  nonces'.life.ends
  <2>1. Over(nonces.life) => Over(nonces.life)'
    BY <1>1 DEF Over, TimeOK, ShapeOK, Lives
  <2>2. Seen # {}
    BY <1>1, <2>1 DEF Seen
  <2>3. QED BY <1>1, <2>2 DEF EndsInv
<1>2. CASE (\E r \in Requests : Sign(r)) \/ UNCHANGED vars
  BY <1>1, <1>2 DEF Sign, vars
<1>3. ASSUME NEW r \in Requests, Fetch(r)
      PROVE  nonces'.life.ends
  BY <1>0, <1>1, <1>3 DEF Fetch, Forget
<1>4. CASE HasNonce
  BY <1>1, <1>4 DEF HasNonce
<1>5. CASE AddNonce
  <2>1. check.step = "add" /\ check' = [check EXCEPT !.step = "expire"]
    BY <1>5 DEF AddNonce, Step
  <2>2. check'.step = "expire"
    BY <1>0, <2>1, CheckMoves DEF ShapeOK
  <2>3. QED BY <2>2
<1>6. CASE ExpireNonces
  <2>1. nonces' = ExpireSet /\ now' = now
    BY <1>6 DEF ExpireNonces
  <2>2. CASE Over(nonces.life)
    BY <2>1, <2>2 DEF ExpireSet, Over
  <2>3. CASE ~Over(nonces.life)
    <3>1. nonces' = [nonces EXCEPT !.life = Until(now + Seconds(conf.ttl))]
      BY <2>1, <2>3 DEF ExpireSet
    <3>2. nonces'.life = Until(now + Seconds(conf.ttl))
      BY <3>1 DEF ShapeOK
    <3>3. QED BY <3>2 DEF Until
  <2>4. QED BY <2>2, <2>3
<1>7. CASE StoreRekey
  BY <1>1, <1>7 DEF StoreRekey, Set
<1>8. CASE Tick
  BY <1>1, <1>8 DEF Tick
<1>9. CASE StoreFails
  BY <1>9 DEF StoreFails, TimeOK
<1>10. CASE Sweep \/ Restart
  BY <1>10 DEF Sweep, Restart
<1>11. QED
  BY <1>2, <1>3, <1>4, <1>5, <1>6, <1>7, <1>8, <1>9, <1>10 DEF Next

LEMMA Inductive == Spec => []ExpiryInv
<1>1. ExpiryInv /\ [Next]_vars => ExpiryInv'
  BY TimeStep, ShapeStep, EntryStep, FoundStep, MemoryStep, KeptStep, CheckStep, CountStep,
     EndsStep DEF ExpiryInv
<1>2. QED BY <1>1, InitInv, PTL DEF Spec

-----------------------------------------------------------------------------
(***************************************************************************)
(* The theorems.                                                           *)
(***************************************************************************)

\* A fetch finds the session exactly while its TTL lasts (TtlHonoured).
THEOREM SessionsHonourTtl == Spec => []TtlHonoured
<1>1. ExpiryInv => TtlHonoured
  BY DEF ExpiryInv, FoundInv, TtlHonoured
<1>2. QED BY <1>1, Inductive, PTL

\* A request is let through once, however late its copies arrive, unless its
\* verification outlasted the session or the set of nonces (AcceptedOnce).
THEOREM RequestsAcceptedOnce == Spec => []AcceptedOnce
<1>1. ExpiryInv => AcceptedOnce
  BY DEF ExpiryInv, CountInv, AcceptedOnce
<1>2. QED BY <1>1, Inductive, PTL

\* A set of nonces in Redis ends, and not before the session it is for (NonceSetsEnd).
THEOREM NoncesOutliveSession == Spec => []NonceSetsEnd
<1>1. ExpiryInv => NonceSetsEnd
  <2> SUFFICES ASSUME ExpiryInv, Redis, check = Idle PROVE NonceSetsEnd
    BY DEF NonceSetsEnd
  <2>1. Seen # {} /\ failures = 0 => nonces.life.ends
    BY DEF ExpiryInv, EndsInv, Idle
  <2>2. ASSUME Live, NEW r \in Requests \ overran, accepted[r] > 0,
               req[r].epoch = session.epoch, nonces.life.ends
        PROVE  nonces.life.at >= session.life.at
    BY <2>2 DEF ExpiryInv, KeptInv, Kept
  <2>3. QED BY <2>1, <2>2 DEF NonceSetsEnd
<1>2. QED BY <1>1, Inductive, PTL
=============================================================================
