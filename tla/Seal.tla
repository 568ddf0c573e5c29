-------------------------------- MODULE Seal --------------------------------
(***************************************************************************)
(* packages/nen-seal: envelopes sealed to a recipient's public key with no *)
(* session, and the three layers above them: media sealed as frames,       *)
(* signed webhooks and sealed fields of a document; and the attestations   *)
(* of packages/nen-server, which are signed and not sealed.  A sender      *)
(* makes items, they lie in a queue, a database or a log, which may lose,  *)
(* repeat and misplace parts of them, and a reader opens or verifies them. *)
(*                                                                         *)
(* Encapsulations are numbered: item i of a behaviour uses number i.  A    *)
(* context is a tuple, <<>> for none: the code treats a missing and an     *)
(* empty context alike, in the key, in the envelope and under the          *)
(* signature.  Base64 and the texts of errors are left out.                *)
(***************************************************************************)
EXTENDS Integers, Sequences, FiniteSets, SequencesExt

CONSTANTS
    Recipients,   \* ML-KEM key pairs
    Signers,      \* ML-DSA key pairs
    Events,       \* webhook event types
    Kinds,        \* what is sealed: "media", "signed", "document", "attestation"
    Document,     \* the object whose fields are sealed
    Paths,        \* paths into it, existing or not
    FrameSizes,   \* values of opts.frameSize
    Sizes,        \* lengths of payloads in bytes
    MaxFrames,    \* bound on the frames of an envelope
    MaxPaths,     \* bound on the paths given to sealFields
    MaxItems,     \* MaxItems[kind]: bound on the items sealed
    MaxFaults,    \* MaxFaults[kind]: bound on the alterations in storage
    None

ASSUME SealAssumption == Sizes \subseteq Nat /\ FrameSizes \subseteq Nat /\ MaxPaths \in Nat
ASSUME KindAssumption == Kinds \subseteq {"media", "signed", "document", "attestation"}

VARIABLES
    kind,     \* the layer in use
    sealed,   \* what the sender put into each item
    store,    \* the items as they lie in storage
    call,     \* the library call under way
    result,   \* what the last opening returned
    faults

vars == <<kind, sealed, store, call, result, faults>>

Idle == [op |-> "idle"]
Nothing == [of |-> 0]

-----------------------------------------------------------------------------
\* Values: what a field of a document holds.

Leaf(x)   == [t |-> "leaf", x |-> x]      \* a string or number
Date(x)   == [t |-> "date", x |-> x]      \* an object JSON turns into a string
Obj(f)    == [t |-> "obj", f |-> f]
Undefined == [t |-> "undefined"]
Emptied   == Obj(<<>>)                    \* {}

\* JSON.parse(JSON.stringify(v)) of a value whose fields hold no objects.
JsonLeaf(v) == IF v.t = "date" THEN Leaf(v.x) ELSE v
Json(v) ==
    IF v.t = "obj"
    THEN Obj([k \in {k \in DOMAIN v.f : v.f[k] # Undefined} |-> JsonLeaf(v.f[k])])
    ELSE JsonLeaf(v)

\* An object, whatever its fields are.
IsObj(v) == v = Obj([k \in DOMAIN v.f |-> v.f[k]])

\* The document has two levels, and paths lead no deeper; field names are strings.
ASSUME DocumentAssumption ==
    /\ IsObj(Document)
    /\ \A k \in DOMAIN Document.f :
          LET v == Document.f[k] IN
          IF v.t = "obj"
          THEN IsObj(v) /\ \A l \in DOMAIN v.f : v.f[l].t \in {"leaf", "date", "undefined"}
          ELSE v.t \in {"leaf", "date", "undefined"}
    /\ \A path \in Paths : path \in Seq(STRING) /\ Len(path) \in {1, 2}

-----------------------------------------------------------------------------
\* The envelope.

\* cekFor: a wrong secret key decapsulates to a secret of its own.
Cek(kem, sk, ctx) == [kem |-> kem, by |-> sk, info |-> ctx]

Kem(to, id) == [to |-> to, id |-> id]

\* seal: the nonce is as fresh as the encapsulation.
Envelope(to, id, plain, ctx) ==
    [v |-> 1, kem |-> Kem(to, id), n |-> id, ctx |-> ctx,
     ct |-> [key |-> Cek(Kem(to, id), to, ctx), n |-> id, plain |-> plain]]

\* open returns env.ct.plain, or throws.
Opens(sk, env) ==
    /\ env.v = 1
    /\ env.ct.key = Cek(env.kem, sk, env.ctx)
    /\ env.ct.n = env.n

-----------------------------------------------------------------------------
\* Signed envelopes and webhooks.

CanonicalBytes(env) == <<env.v, env.kem, env.n, env.ct, env.ctx>>

Webhook(event) == <<"webhook", event>>
BoundEvent(env) == IF env.ctx # <<>> /\ Head(env.ctx) = "webhook" THEN env.ctx[2] ELSE None

SignedEnvelope(to, id, plain, ctx, signer) ==
    LET env == Envelope(to, id, plain, ctx) IN
    [v |-> env.v, kem |-> env.kem, n |-> env.n, ctx |-> ctx, ct |-> env.ct,
     sig |-> [by |-> signer, over |-> CanonicalBytes(env)], spk |-> signer]

\* Mutated form of VerifiesSigner: the key in the envelope is taken as it is.
VerifiesSignerUnpinned(env, pin) ==
    env.sig = [by |-> env.spk, over |-> CanonicalBytes(env)]

\* openSigned up to its call of open.
VerifiesSigner(env, pin) ==
    /\ pin # None => env.spk = pin
    /\ env.sig = [by |-> env.spk, over |-> CanonicalBytes(env)]

SealSigned == \E to \in Recipients, signer \in Signers,
                 ctx \in {Webhook(e) : e \in Events} \cup {<<>>} :
    LET id == Len(store) + 1
        env == SignedEnvelope(to, id, Leaf(id), ctx, signer)
    IN /\ kind = "signed" /\ call = Idle /\ id <= MaxItems[kind]
       /\ store' = Append(store, env)
       /\ sealed' = Append(sealed, [to |-> to, ctx |-> ctx, data |-> Leaf(id),
                                    signer |-> signer, env |-> env])
       /\ UNCHANGED <<kind, call, result, faults>>

\* openWebhook: the event is compared first, then the signer, then opened.
OpenWebhook(i) == \E sk \in Recipients, pin \in Signers \cup {None},
                     expected \in Events \cup {None} :
    LET env == store[i]
        opens == /\ expected # None => BoundEvent(env) = expected
                 /\ VerifiesSigner(env, pin)
                 /\ Opens(sk, env)
    IN /\ kind = "signed" /\ call = Idle
       /\ result' = [of |-> i, sk |-> sk, pin |-> pin, expected |-> expected,
                     threw |-> ~opens, event |-> BoundEvent(env),
                     data |-> IF opens THEN env.ct.plain ELSE Undefined]
       /\ UNCHANGED <<kind, sealed, store, call, faults>>

-----------------------------------------------------------------------------
\* Attestations.  JSON.stringify writes fields in their order, so an attestation
\* is the sequence of its fields; v, protocol and suite are always the same.

Field(name, value) == <<<<name, value>>>>
Attestation(id, mode, asserted) ==
    Field("endpoint", id) \o Field("securityMode", mode)
    \o (IF "from" \in asserted THEN Field("from", id) ELSE <<>>)
    \o (IF "to" \in asserted THEN Field("to", id) ELSE <<>>)
    \o Field("issuedAt", id)

\* issueAttestation; it throws on a server without an identity.
IssueAttestation == \E signer \in Signers, mode \in {"hybrid", "pqc-only"},
                       asserted \in SUBSET {"from", "to"} :
    LET id  == Len(store) + 1
        att == Attestation(id, mode, asserted)
        env == [att |-> att, sig |-> [by |-> signer, over |-> att], key |-> signer]
    IN /\ kind = "attestation" /\ call = Idle /\ id <= MaxItems[kind]
       /\ store' = Append(store, env)
       /\ sealed' = Append(sealed, [signer |-> signer, data |-> att, env |-> env])
       /\ UNCHANGED <<kind, call, result, faults>>

\* verifyAttestation, with the key that came with it or one the reader knows;
\* what cannot be decoded is false like what does not verify.
VerifyAttestation(i) == \E key \in Signers :
    /\ kind = "attestation" /\ call = Idle
    /\ result' = [of |-> i, key |-> key, data |-> store[i].att,
                  threw |-> store[i].sig # [by |-> key, over |-> store[i].att]]
    /\ UNCHANGED <<kind, sealed, store, call, faults>>

-----------------------------------------------------------------------------
\* Framed envelopes and media.

\* Mutated form of FrameKey: all frames of an envelope share one key.
FrameKeyShared(cek, i) == [cek |-> cek, frame |-> 0]

FrameKey(cek, i) == [cek |-> cek, frame |-> i]

Bytes(id, n) == [k \in 1..n |-> <<id, k>>]

Smaller(a, b) == IF a < b THEN a ELSE b
Chunk(data, off, size) == SubSeq(data, off + 1, Smaller(off + size, Len(data)))

\* sealMediaBytes and sealFramed up to the loop; no context becomes 'media'.
SealMedia == \E to \in Recipients, n \in Sizes, size \in FrameSizes,
                ctx \in {<<>>, <<"media">>} :
    LET id == Len(store) + 1 IN
    /\ kind = "media" /\ call = Idle /\ id <= MaxItems[kind]
    /\ call' = [op |-> "sealing", to |-> to, ctx |-> ctx, data |-> Bytes(id, n),
                size |-> size, off |-> 0, frames |-> <<>>]
    /\ UNCHANGED <<kind, sealed, store, result, faults>>

\* One turn of the loop of sealFramed, and the envelope after the last one.  A
\* frame size of 0 leaves off where it is, for ever.
SealFrame ==
    LET id     == Len(store) + 1
        size   == Len(call.data)
        key    == FrameKey(Cek(Kem(call.to, id), call.to, call.ctx), Len(call.frames))
        frames == Append(call.frames, [key |-> key, plain |-> Chunk(call.data, call.off, call.size)])
        env    == [v |-> 1, kem |-> Kem(call.to, id), ctx |-> call.ctx,
                   size |-> size, frames |-> frames]
    IN /\ kind = "media" /\ call.op = "sealing" /\ Len(call.frames) < MaxFrames
       /\ IF size = 0 \/ call.off + call.size >= size
          THEN /\ store' = Append(store, env)
               /\ sealed' = Append(sealed, [to |-> call.to, ctx |-> call.ctx,
                                            data |-> call.data, env |-> env])
               /\ call' = Idle
          ELSE /\ call' = [call EXCEPT !.off = @ + call.size, !.frames = frames]
               /\ UNCHANGED <<store, sealed>>
       /\ UNCHANGED <<kind, result, faults>>

\* openFramed: the call, one turn of its loop, its end.
OpenMedia(i) == \E sk \in Recipients :
    /\ kind = "media" /\ call = Idle
    /\ IF store[i].v = 1
       THEN /\ call' = [op |-> "opening", of |-> i, sk |-> sk, next |-> 0, out |-> <<>>]
            /\ UNCHANGED result
       ELSE /\ result' = [of |-> i, sk |-> sk, threw |-> TRUE, data |-> <<>>]
            /\ UNCHANGED call
    /\ UNCHANGED <<kind, sealed, store, faults>>

Finish(threw) ==
    /\ result' = [of |-> call.of, sk |-> call.sk, threw |-> threw,
                  data |-> IF threw THEN <<>> ELSE call.out]
    /\ call' = Idle

\* Mutated form of Fits: the last byte of the buffer is not used.
FitsBelow(env, cek, frame) ==
    /\ frame.key = FrameKey(cek, call.next)
    /\ Len(call.out) + Len(frame.plain) < env.size

\* A frame is opened under the key of its position and must fit the buffer.
Fits(env, cek, frame) ==
    /\ frame.key = FrameKey(cek, call.next)
    /\ Len(call.out) + Len(frame.plain) <= env.size

OpenFrame ==
    /\ call.op = "opening" /\ call.next < Len(store[call.of].frames)
    /\ LET env   == store[call.of]
           frame == env.frames[call.next + 1]
       IN IF Fits(env, Cek(env.kem, call.sk, env.ctx), frame)
          THEN /\ call' = [call EXCEPT !.next = @ + 1, !.out = @ \o frame.plain]
               /\ UNCHANGED result
          ELSE Finish(TRUE)
    /\ UNCHANGED <<kind, sealed, store, faults>>

WholeSize(env) == Len(call.out) = env.size

OpenEnds ==
    /\ call.op = "opening" /\ call.next = Len(store[call.of].frames)
    /\ Finish(~WholeSize(store[call.of]))
    /\ UNCHANGED <<kind, sealed, store, faults>>

-----------------------------------------------------------------------------
\* Sealed fields.

IsSealed(v) == v.t = "sealed"
SealedField(env) == [t |-> "sealed", env |-> env]

\* The object a path's last step is taken in: getPath.  A sealed field is an
\* object too, with none of the fields of the value it replaced.
Fields(v) == IF v.t = "obj" THEN v.f ELSE <<>>
Parent(doc, path) ==
    IF Len(path) = 1 THEN doc
    ELSE IF path[1] \in DOMAIN Fields(doc) THEN Fields(doc)[path[1]] ELSE Undefined
Exists(doc, path) == Last(path) \in DOMAIN Fields(Parent(doc, path))
At(doc, path) == Fields(Parent(doc, path))[Last(path)]
Put(doc, path, v) ==
    IF Len(path) = 1 THEN [doc EXCEPT !.f[path[1]] = v]
    ELSE [doc EXCEPT !.f[path[1]].f[path[2]] = v]

\* The context of a field: ctxFor.
FieldContext(path) == <<"field", path>>

\* sealFields up to its loop: structuredClone copies the object.
SealFields == \E to \in Recipients, paths \in SeqOf(Paths, MaxPaths) :
    /\ kind = "document" /\ call = Idle /\ Len(store) < MaxItems[kind]
    /\ call' = [op |-> "sealing", to |-> to, doc |-> Document, paths |-> paths, left |-> paths]
    /\ UNCHANGED <<kind, sealed, store, result, faults>>

\* Mutated form of FieldSealed: objects, sealed fields among them, are passed
\* over.
FieldSealedLeaves(doc, path, to, id) ==
    IF At(doc, path).t \in {"sealed", "obj"} THEN doc
    ELSE Put(doc, path, SealedField(Envelope(to, id, Json(At(doc, path)), FieldContext(path))))

\* The value is replaced by the envelope of its JSON.
FieldSealed(doc, path, to, id) ==
    Put(doc, path, SealedField(Envelope(to, id, Json(At(doc, path)), FieldContext(path))))

\* One turn of the loop: a path that is not there is skipped.
SealField ==
    /\ kind = "document" /\ call.op = "sealing" /\ call.left # <<>>
    /\ LET path == Head(call.left)
           id   == <<Len(store) + 1, Len(call.left)>>
       IN call' = [call EXCEPT !.left = Tail(@),
                     !.doc = IF Exists(@, path) THEN FieldSealed(@, path, call.to, id) ELSE @]
    /\ UNCHANGED <<kind, sealed, store, result, faults>>

FieldsSealed ==
    /\ kind = "document" /\ call.op = "sealing" /\ call.left = <<>>
    /\ store' = Append(store, call.doc)
    /\ sealed' = Append(sealed, [to |-> call.to, paths |-> call.paths, data |-> Document,
                                 env |-> call.doc])
    /\ call' = Idle
    /\ UNCHANGED <<kind, result, faults>>

\* The fields the walk of openFields and hasSealedFields meets.
Nodes(doc) ==
    LET top == {doc.f[k] : k \in DOMAIN doc.f}
    IN top \cup UNION {{v.f[k] : k \in DOMAIN v.f} : v \in {v \in top : v.t = "obj"}}
HasSealedFields(doc) == \E v \in Nodes(doc) : IsSealed(v)

\* Opening parses the plain text as JSON: the value undefined was sealed as no
\* text at all, and JSON.parse throws.
FieldOpens(sk, v) == Opens(sk, v.env) /\ v.env.ct.plain # Undefined

\* walk: what is opened is not walked again, an object is rebuilt from its own
\* enumerable properties, of which a Date has none.
Walk(v, fields) ==
    CASE IsSealed(v) -> v.env.ct.plain
      [] v.t = "date" -> Emptied
      [] v.t = "obj" -> Obj(fields)
      [] OTHER -> v

WalkLeaf(v)  == Walk(v, Fields(v))
WalkField(v) == Walk(v, [k \in DOMAIN Fields(v) |-> WalkLeaf(Fields(v)[k])])
Opened(doc)  == Walk(doc, [k \in DOMAIN Fields(doc) |-> WalkField(Fields(doc)[k])])

\* openFields of the stored document, or of what an earlier call returned.
OpenDocument(i, doc, sk) ==
    LET opens == \A v \in Nodes(doc) : IsSealed(v) => FieldOpens(sk, v) IN
    /\ kind = "document" /\ call = Idle
    /\ result' = [of |-> i, sk |-> sk, threw |-> ~opens,
                  data |-> IF opens THEN Opened(doc) ELSE doc]
    /\ UNCHANGED <<kind, sealed, store, call, faults>>

OpenFields(i) == \E sk \in Recipients : OpenDocument(i, store[i], sk)

OpenFieldsAgain ==
    /\ result # Nothing /\ kind = "document" /\ call = Idle
    /\ ~result.threw /\ HasSealedFields(result.data)
    /\ OpenDocument(result.of, result.data, result.sk)

-----------------------------------------------------------------------------
\* Storage: what a queue, a database or a proxy may do to an item.

Items == 1..Len(store)

\* Frames lost, repeated, exchanged, or filed under another item.
AlteredFrames(env, other) ==
    LET f == env.frames IN
       {RemoveAt(f, k) : k \in 1..Len(f)}
    \cup {InsertAt(f, k, f[k]) : k \in 1..Len(f)}
    \cup {[f EXCEPT ![k] = f[l], ![l] = f[k]] : k, l \in 1..Len(f)}
    \cup {[f EXCEPT ![k] = other.frames[l]] : k \in 1..Len(f), l \in 1..Len(other.frames)}

AlteredMedia(env, other) ==
       {[env EXCEPT !.frames = f] : f \in AlteredFrames(env, other)}
    \cup {[env EXCEPT !.size = n] : n \in 0..(env.size + 1)}
    \cup {[env EXCEPT !.kem = other.kem], [env EXCEPT !.ctx = other.ctx], [env EXCEPT !.v = 2]}

\* One part of an envelope is taken from another delivery.
AlteredSigned(env, other) ==
    {[env EXCEPT ![part] = other[part]] : part \in {"kem", "n", "ct", "ctx", "sig", "spk"}}
    \cup {[env EXCEPT !.v = 2]}

\* A field is lost, moved (a store that sorts them) or taken from another, as may
\* be the whole of a part.
AlteredAttestation(env, other) ==
    LET f == env.att IN
       {[env EXCEPT !.att = RemoveAt(f, k)] : k \in 1..Len(f)}
    \cup {[env EXCEPT !.att = [f EXCEPT ![k] = f[l], ![l] = f[k]]] : k, l \in 1..Len(f)}
    \cup {[env EXCEPT !.att[k] = other.att[l]] : k \in 1..Len(f), l \in 1..Len(other.att)}
    \cup {[env EXCEPT ![part] = other[part]] : part \in {"att", "sig", "key"}}

\* The path a sealed field was sealed at: what its envelope's context names.
SealedAt(v) == v.env.ctx[2]

\* The values of two sealed fields are exchanged, by a migration or a copy.  A
\* document keeps its two levels: none of the fields of an object is exchanged
\* with an object.
AlteredDocument(doc) ==
    LET sealedAt == {p \in Paths : Exists(doc, p) /\ IsSealed(At(doc, p))}
        Fit(p, v) == Len(p) = 2 => At(Document, SealedAt(v)).t # "obj"
        pairs == {e \in sealedAt \X sealedAt :
                     Fit(e[1], At(doc, e[2])) /\ Fit(e[2], At(doc, e[1]))}
    IN {Put(Put(doc, e[1], At(doc, e[2])), e[2], At(doc, e[1])) : e \in pairs}

Alter(i, j) ==
    /\ call = Idle /\ faults < MaxFaults[kind]
    /\ \E env \in CASE kind = "media" -> AlteredMedia(store[i], store[j])
                    [] kind = "signed" -> AlteredSigned(store[i], store[j])
                    [] kind = "document" -> AlteredDocument(store[i])
                    [] kind = "attestation" -> AlteredAttestation(store[i], store[j]) :
          /\ env # store[i]
          /\ store' = [store EXCEPT ![i] = env]
    /\ faults' = faults + 1
    /\ result' = Nothing
    /\ UNCHANGED <<kind, sealed, call>>

-----------------------------------------------------------------------------
Init ==
    /\ kind \in Kinds
    /\ sealed = <<>> /\ store = <<>>
    /\ call = Idle /\ result = Nothing /\ faults = 0

Seals  == \/ SealSigned \/ SealMedia \/ SealFrame \/ SealFields \/ SealField \/ FieldsSealed
          \/ IssueAttestation
Openings == \/ \E i \in Items : \/ OpenWebhook(i) \/ OpenMedia(i) \/ OpenFields(i)
                               \/ VerifyAttestation(i)
          \/ OpenFrame \/ OpenEnds \/ OpenFieldsAgain
Next == Seals \/ Openings \/ \E i, j \in Items : Alter(i, j)

Spec == Init /\ [][Next]_vars

-----------------------------------------------------------------------------
\* Properties.

ByKem(env) == sealed[env.kem.id]

\* An opening of media that returns gives the bytes sealed under that
\* encapsulation to that reader, from the first on and, if the size recorded in
\* the envelope is the one it was sealed with, all of them: frames that were
\* lost, repeated, exchanged or taken from another item do not open (the frame
\* loop and the size check of openFramed).  The size is under no key: the last
\* frames can be cut off if it is lowered to match, and an envelope that lost its
\* only frame has nothing left that a key is checked against.
MediaAsSealed ==
    result # Nothing /\ kind = "media" /\ ~result.threw =>
        LET env == store[result.of]
            was == ByKem(env)
        IN /\ env.frames # <<>> => was.to = result.sk /\ was.ctx = env.ctx
           /\ IsPrefix(result.data, was.data)
           /\ env.size = Len(was.data) => result.data = was.data

\* A webhook that opens is one that was sealed: the event reported is the one
\* it was sealed with, whatever parts of other deliveries were mixed in, the
\* signer is the pinned one, and the expected event is the reported one
\* (openWebhook, openSigned).
WebhookAsSealed ==
    result # Nothing /\ kind = "signed" /\ ~result.threw =>
        /\ \E i \in DOMAIN sealed :
              /\ sealed[i].to = result.sk /\ sealed[i].data = result.data
              /\ BoundEvent(sealed[i].env) = result.event
              /\ result.pin # None => sealed[i].signer = result.pin
        /\ result.expected # None => result.event = result.expected

\* An attestation that verifies under a key was issued by that key's holder, with
\* these fields in this order (verifyAttestation).
AttestedAsIssued ==
    result # Nothing /\ kind = "attestation" /\ ~result.threw =>
        \E i \in DOMAIN sealed : sealed[i].signer = result.key /\ sealed[i].data = result.data

\* What lies where a stored document had a sealed field is, once every layer is
\* opened, the value sealed at the path that field's envelope names, for this
\* reader and under one of the paths given to sealFields.  That path need not be
\* where the field lies: the context is taken from the envelope (openFields), so
\* a field moved to another place opens there.
DocumentAsSealed ==
    result # Nothing /\ kind = "document" /\ ~result.threw =>
        LET doc == store[result.of]
            was == sealed[result.of]
        IN \A p \in Paths : Exists(doc, p) /\ IsSealed(At(doc, p)) =>
              LET q == SealedAt(At(doc, p)) IN
              /\ was.to = result.sk /\ q \in ToSet(was.paths)
              /\ ~HasSealedFields(result.data) => At(result.data, p) = Json(At(Document, q))

\* What opens or verifies is what was sealed, signed or issued, by whom it says
\* and for whom it was, although storage mixed parts of items: the four above.
OpensAsSealed == MediaAsSealed /\ WebhookAsSealed /\ AttestedAsIssued /\ DocumentAsSealed

\* No two frames, of one item or of two, are encrypted under one key: all of
\* them use the nonce zero, so the key alone must differ (frameKey, ZERO_NONCE).
FrameKeysUsedOnce ==
    kind = "media" =>
        \A i, j \in DOMAIN sealed :
            \A k \in 1..Len(sealed[i].env.frames), l \in 1..Len(sealed[j].env.frames) :
                sealed[i].env.frames[k].key = sealed[j].env.frames[l].key => <<i, k>> = <<j, l>>

Contents(v) == {v} \cup {Fields(v)[k] : k \in DOMAIN Fields(v)}
Readable(values) == {v.x : v \in {v \in values : v.t \in {"leaf", "date"}}}

\* Nothing under a path given to sealFields can be read in the document it
\* returns, in whatever order the paths were given, nested or repeated.
FieldsHidden ==
    kind = "document" =>
        \A i \in DOMAIN sealed : \A p \in ToSet(sealed[i].paths) :
            Exists(Document, p) =>
                Readable(Contents(At(Document, p))) \cap Readable(Nodes(sealed[i].env)) = {}

\* What the first n paths seal: a path into an object is not there any more once
\* the object is sealed.
ReachedBy(paths, n) ==
    {paths[i] : i \in {i \in 1..n : \A j \in 1..(i - 1) : ~IsStrictPrefix(paths[j], paths[i])}}
Reached(paths) == ReachedBy(paths, Len(paths))

\* The value undefined was sealed.
Lost(reached) == \E p \in reached : Exists(Document, p) /\ At(Document, p) = Undefined

\* A document once every layer is opened: sealed values as JSON carries them,
\* the others as the walk leaves them.
Restored(reached) ==
    Obj([k \in DOMAIN Document.f |->
        LET v == Document.f[k] IN
        IF <<k>> \in reached THEN Json(v)
        ELSE IF v.t = "obj"
             THEN Obj([l \in DOMAIN v.f |->
                     IF <<k, l>> \in reached THEN Json(v.f[l]) ELSE WalkLeaf(v.f[l])])
             ELSE WalkLeaf(v)])

\* Opening a document opens every envelope its walk meets, those inside them
\* need another call, and in the end every sealed value is back.  It throws
\* when the value undefined was sealed; in an object that is sealed it is dropped.
DocumentRestored(was) ==
    LET reached == Reached(was.paths)
    IN IF result.threw THEN Lost(reached)
       ELSE /\ {v \in Nodes(result.data) : IsSealed(v)} \cap Nodes(was.env) = {}
            /\ ~HasSealedFields(result.data) => ~Lost(reached) /\ result.data = Restored(reached)

\* What was not altered opens for its reader and gives back what was sealed:
\* media of any size in frames of any size, a webhook for its signer and event,
\* a document whatever paths were sealed in it, an attestation with any of its
\* optional fields (seal, open, sealFramed, openFramed, openWebhook, sealFields,
\* openFields, verifyAttestation).
RoundTrip ==
    result # Nothing =>
        LET was == sealed[result.of] IN
        store[result.of] = was.env =>
            CASE kind = "attestation" -> result.threw = (result.key # was.signer)
              [] kind = "media" ->
                    result.sk = was.to => ~result.threw /\ result.data = was.data
              [] kind = "signed" ->
                    /\ result.sk = was.to
                    /\ result.pin \in {None, was.signer}
                    /\ result.expected \in {None, BoundEvent(was.env)}
                    => ~result.threw /\ result.data = was.data
              [] kind = "document" -> result.sk = was.to => DocumentRestored(was)

=============================================================================
