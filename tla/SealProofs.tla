----------------------------- MODULE SealProofs -----------------------------
(***************************************************************************)
(* Proofs about Seal, for any number of items, payloads and frames of any  *)
(* size, any document of two levels and any number of alterations.         *)
(*                                                                         *)
(* The argument: storage can lose, repeat and mix parts, but every part it *)
(* holds was made by a sender.  A signature then says which item the rest  *)
(* of an envelope is (SignedInv, AttestedInv), and a frame's key says which*)
(* envelope it was cut from and where (MediaInv), so that a reader who has *)
(* opened n frames holds what the first n frames were cut from.  A field   *)
(* of a document, once sealed, is replaced only by another seal or covered *)
(* by that of its object (DocumentInv), what lies in its envelopes is the  *)
(* field as it was (LayerInv), and so it is wherever the field is moved    *)
(* (MovedInv).                                                             *)
(***************************************************************************)
EXTENDS Seal, SequenceTheorems, TLAPS

-----------------------------------------------------------------------------
(***************************************************************************)
(* Sequences of anything.                                                  *)
(***************************************************************************)

IsSeq(s) == s \in Seq(Range(s))

LEMMA SeqIsSeq ==
  ASSUME NEW S, NEW s \in Seq(S)
  PROVE  /\ IsSeq(s) /\ Len(s) \in Nat /\ DOMAIN s = 1..Len(s)
         /\ \A i \in 1..Len(s) : s[i] \in S
BY SeqOfRange, LenProperties, ElementOfSeq DEF IsSeq

LEMMA IsSeqLen ==
  ASSUME NEW s, IsSeq(s)
  PROVE  Len(s) \in Nat /\ DOMAIN s = 1..Len(s)
BY LenProperties DEF IsSeq

\* An appended element leaves the others where they are.
LEMMA AppendIsSeq ==
  ASSUME NEW s, IsSeq(s), NEW e
  PROVE  /\ IsSeq(Append(s, e))
         /\ Len(Append(s, e)) = Len(s) + 1
         /\ \A i \in 1..Len(s) : Append(s, e)[i] = s[i]
         /\ Append(s, e)[Len(s) + 1] = e
<1> DEFINE S == Range(s) \cup {e}
<1>1. s \in Seq(S) /\ e \in S
  BY SeqMonotonic DEF IsSeq
<1> HIDE DEF S
<1>2. /\ Append(s, e) \in Seq(S)
      /\ Len(Append(s, e)) = Len(s) + 1
      /\ \A i \in 1..Len(s) : Append(s, e)[i] = s[i]
      /\ Append(s, e)[Len(s) + 1] = e
  BY <1>1, AppendProperties
<1> QED BY <1>2, SeqOfRange DEF IsSeq

\* A replaced element leaves the others as they are.
LEMMA ReplaceIsSeq ==
  ASSUME NEW s, IsSeq(s), NEW k \in 1..Len(s), NEW e
  PROVE  /\ IsSeq(ReplaceAt(s, k, e))
         /\ Len(ReplaceAt(s, k, e)) = Len(s)
         /\ \A i \in 1..Len(s) : ReplaceAt(s, k, e)[i] = IF i = k THEN e ELSE s[i]
<1> DEFINE S == Range(s) \cup {e}
<1>1. s \in Seq(S) /\ e \in S
  BY SeqMonotonic DEF IsSeq
<1> HIDE DEF S
<1>2. /\ ReplaceAt(s, k, e) \in Seq(S)
      /\ Len(ReplaceAt(s, k, e)) = Len(s)
      /\ \A i \in 1..Len(s) : ReplaceAt(s, k, e)[i] = IF i = k THEN e ELSE s[i]
  BY <1>1, ExceptSeq DEF ReplaceAt
<1> QED BY <1>2, SeqOfRange DEF IsSeq

-----------------------------------------------------------------------------
(***************************************************************************)
(* Webhooks.                                                               *)
(***************************************************************************)

Contexts == {Webhook(e) : e \in Events} \cup {<<>>}

\* Item i as the sender recorded it.
SignedItem(i, item) ==
  \E to \in Recipients, signer \in Signers, ctx \in Contexts :
    item = [to |-> to, ctx |-> ctx, data |-> Leaf(i), signer |-> signer,
            env |-> SignedEnvelope(to, i, Leaf(i), ctx, signer)]

EnvelopeFields == {"v", "kem", "n", "ctx", "ct", "sig", "spk"}

\* What openWebhook of env returns.
WebhookResult(i, env, sk, pin, expected) ==
  LET opens == /\ expected # None => BoundEvent(env) = expected
               /\ VerifiesSigner(env, pin)
               /\ Opens(sk, env)
  IN [of |-> i, sk |-> sk, pin |-> pin, expected |-> expected,
      threw |-> ~opens, event |-> BoundEvent(env),
      data |-> IF opens THEN env.ct.plain ELSE Undefined]

\* Whatever else storage did to an envelope, its signature was made by a sender.
SignedInv ==
  kind = "signed" =>
    /\ IsSeq(sealed) /\ IsSeq(store) /\ Len(store) = Len(sealed)
    /\ call = Idle
    /\ \A i \in 1..Len(sealed) : SignedItem(i, sealed[i])
    /\ \A i \in 1..Len(store) :
          /\ DOMAIN store[i] = EnvelopeFields
          /\ \E j \in 1..Len(sealed) : store[i].sig = sealed[j].env.sig
    /\ result # Nothing =>
          \E i \in 1..Len(store), sk \in Recipients, pin \in Signers \cup {None},
             expected \in Events \cup {None} :
               result = WebhookResult(i, store[i], sk, pin, expected)

\* What a sealed item is made of.
LEMMA SignedItemFields ==
  ASSUME NEW i, NEW item, SignedItem(i, item)
  PROVE  /\ item.data = Leaf(i) /\ item.env.ctx = item.ctx
         /\ DOMAIN item.env = EnvelopeFields
         /\ item.env.v = 1 /\ item.env.n = i /\ item.env.kem = Kem(item.to, i)
         /\ item.env.ct = [key |-> Cek(Kem(item.to, i), item.to, item.ctx), n |-> i,
                           plain |-> Leaf(i)]
         /\ item.env.spk = item.signer
         /\ item.env.sig = [by |-> item.signer, over |-> CanonicalBytes(item.env)]
<1>1. PICK to \in Recipients, signer \in Signers, ctx \in Contexts :
           item = [to |-> to, ctx |-> ctx, data |-> Leaf(i), signer |-> signer,
                   env |-> SignedEnvelope(to, i, Leaf(i), ctx, signer)]
  BY DEF SignedItem
<1> QED BY <1>1 DEF SignedEnvelope, Envelope, CanonicalBytes, EnvelopeFields

\* Storage takes parts from other envelopes, and the signature whole.
LEMMA SignedAltered ==
  ASSUME NEW env, NEW other, NEW new \in AlteredSigned(env, other),
         DOMAIN env = EnvelopeFields
  PROVE  /\ DOMAIN new = EnvelopeFields
         /\ new.sig \in {env.sig, other.sig}
<1>1. CASE new = [env EXCEPT !.v = 2]
  BY <1>1 DEF EnvelopeFields
<1>2. ASSUME NEW part \in {"kem", "n", "ct", "ctx", "sig", "spk"},
             new = [env EXCEPT ![part] = other[part]]
      PROVE  /\ DOMAIN new = EnvelopeFields
             /\ new.sig \in {env.sig, other.sig}
  BY <1>2 DEF EnvelopeFields
<1> QED BY <1>1, <1>2 DEF AlteredSigned

\* A behaviour has items of one kind.
LEMMA KindKept ==
  ASSUME [Next]_vars
  PROVE  kind' = kind
BY DEF Next, vars, Seals, Openings, SealSigned, SealMedia, SealFrame, SealFields, SealField,
   FieldsSealed, IssueAttestation, OpenWebhook, OpenMedia, OpenFields, VerifyAttestation,
   OpenFrame, OpenEnds, OpenFieldsAgain, OpenDocument, Alter

LEMMA SignedStep ==
  ASSUME SignedInv, [Next]_vars
  PROVE  SignedInv'
<1> SUFFICES ASSUME kind' = "signed"
             PROVE  SignedInv'
  BY DEF SignedInv
<1>k. kind = "signed" /\ kind' = kind
  BY KindKept
<1>i. /\ IsSeq(sealed) /\ IsSeq(store) /\ Len(store) = Len(sealed)
      /\ call = Idle
      /\ \A i \in 1..Len(sealed) : SignedItem(i, sealed[i])
      /\ \A i \in 1..Len(store) :
            /\ DOMAIN store[i] = EnvelopeFields
            /\ \E j \in 1..Len(sealed) : store[i].sig = sealed[j].env.sig
      /\ result # Nothing =>
            \E i \in 1..Len(store), sk \in Recipients, pin \in Signers \cup {None},
               expected \in Events \cup {None} :
                 result = WebhookResult(i, store[i], sk, pin, expected)
  BY <1>k DEF SignedInv
<1>l. Len(store) \in Nat
  BY <1>i, IsSeqLen
<1>1. CASE SealSigned
  <2>1. PICK to \in Recipients, signer \in Signers, ctx \in Contexts :
          LET id == Len(store) + 1
              env == SignedEnvelope(to, id, Leaf(id), ctx, signer)
          IN /\ store' = Append(store, env)
             /\ sealed' = Append(sealed, [to |-> to, ctx |-> ctx, data |-> Leaf(id),
                                          signer |-> signer, env |-> env])
             /\ UNCHANGED <<kind, call, result, faults>>
    BY <1>1 DEF SealSigned, Contexts
  <2> DEFINE id == Len(store) + 1
             env == SignedEnvelope(to, id, Leaf(id), ctx, signer)
             item == [to |-> to, ctx |-> ctx, data |-> Leaf(id), signer |-> signer, env |-> env]
  <2>2. SignedItem(id, item) /\ item.env = env
    BY DEF SignedItem
  <2>3. store' = Append(store, env) /\ sealed' = Append(sealed, item)
    BY <2>1
  <2> HIDE DEF env, item
  <2>4. DOMAIN env = EnvelopeFields
    BY <2>2, SignedItemFields
  <2>5. /\ IsSeq(store') /\ Len(store') = id
        /\ \A i \in 1..Len(store) : store'[i] = store[i]
        /\ store'[id] = env
    BY <2>3, <1>i, AppendIsSeq
  <2>6. /\ IsSeq(sealed') /\ Len(sealed') = id
        /\ \A i \in 1..Len(sealed) : sealed'[i] = sealed[i]
        /\ sealed'[id] = item
    BY <2>3, <1>i, AppendIsSeq
  <2>7. \A i \in 1..Len(sealed') : SignedItem(i, sealed'[i])
    BY <2>2, <2>6, <1>i, <1>l
  <2>8. \A i \in 1..Len(store') :
            /\ DOMAIN store'[i] = EnvelopeFields
            /\ \E j \in 1..Len(sealed') : store'[i].sig = sealed'[j].env.sig
    <3> TAKE i \in 1..Len(store')
    <3>1. CASE i = id
      BY <3>1, <2>2, <2>4, <2>5, <2>6, <1>l
    <3>2. CASE i # id
      <4>1. i \in 1..Len(store) /\ store'[i] = store[i]
        BY <3>2, <2>5, <1>l
      <4>2. PICK j \in 1..Len(sealed) : store[i].sig = sealed[j].env.sig
        BY <4>1, <1>i
      <4>3. j \in 1..Len(sealed') /\ sealed'[j] = sealed[j]
        BY <2>6, <1>i, <1>l
      <4> QED BY <4>1, <4>2, <4>3, <1>i
    <3> QED BY <3>1, <3>2
  <2>9. result' # Nothing =>
            \E i \in 1..Len(store'), sk \in Recipients, pin \in Signers \cup {None},
               expected \in Events \cup {None} :
                 result' = WebhookResult(i, store'[i], sk, pin, expected)
    <3>1. \A i \in 1..Len(store) : i \in 1..Len(store') /\ store'[i] = store[i]
      BY <2>5, <1>l
    <3>2. result' = result
      BY <2>1
    <3> QED BY <3>1, <3>2, <1>i
  <2> QED BY <2>1, <2>5, <2>6, <2>7, <2>8, <2>9, <1>i DEF SignedInv
<1>2. ASSUME NEW i \in Items, OpenWebhook(i)
      PROVE  SignedInv'
  <2>1. /\ UNCHANGED <<kind, sealed, store, call, faults>>
        /\ \E sk \in Recipients, pin \in Signers \cup {None}, expected \in Events \cup {None} :
              result' = WebhookResult(i, store[i], sk, pin, expected)
    BY <1>2 DEF OpenWebhook, WebhookResult
  <2> QED BY <2>1, <1>i DEF SignedInv, Items
<1>3. ASSUME NEW i \in Items, NEW j \in Items, Alter(i, j)
      PROVE  SignedInv'
  <2>1. PICK new \in AlteredSigned(store[i], store[j]) :
          /\ store' = [store EXCEPT ![i] = new]
          /\ result' = Nothing
          /\ UNCHANGED <<kind, sealed, call>>
    BY <1>3, <1>k DEF Alter
  <2>2. /\ IsSeq(store') /\ Len(store') = Len(store)
        /\ \A l \in 1..Len(store) : store'[l] = IF l = i THEN new ELSE store[l]
    <3>1. i \in 1..Len(store)
      BY DEF Items
    <3>2. IsSeq(store) /\ store' = ReplaceAt(store, i, new)
      BY <2>1, <1>i DEF ReplaceAt
    <3> QED BY <3>1, <3>2, ReplaceIsSeq
  <2>3. /\ DOMAIN new = EnvelopeFields
        /\ new.sig \in {store[i].sig, store[j].sig}
    BY <1>i, SignedAltered DEF Items
  <2>4. \A l \in 1..Len(store') :
            /\ DOMAIN store'[l] = EnvelopeFields
            /\ \E m \in 1..Len(sealed) : store'[l].sig = sealed[m].env.sig
    BY <2>2, <2>3, <1>i DEF Items
  <2> QED BY <2>1, <2>2, <2>4, <1>i DEF SignedInv
<1>4. CASE UNCHANGED vars
  BY <1>4, <1>i DEF SignedInv, vars
<1>5. ~OpenFrame /\ ~OpenEnds /\ ~SealFrame /\ ~SealField /\ ~FieldsSealed
  BY <1>i, <1>k DEF OpenFrame, OpenEnds, SealFrame, SealField, FieldsSealed, Idle
<1>6. /\ ~SealMedia /\ ~SealFields /\ ~IssueAttestation /\ ~OpenFieldsAgain
      /\ \A i \in Items : ~OpenMedia(i) /\ ~OpenFields(i) /\ ~VerifyAttestation(i)
  BY <1>k DEF SealMedia, SealFields, IssueAttestation, OpenFieldsAgain, OpenMedia, OpenFields,
     OpenDocument, VerifyAttestation
<1> QED BY <1>1, <1>2, <1>3, <1>4, <1>5, <1>6 DEF Next, Seals, Openings

\* What a webhook that opens must have been: the item its signature was made for.
LEMMA WebhooksOpenAsSealed ==
  ASSUME SignedInv
  PROVE  WebhookAsSealed
<1> SUFFICES ASSUME result # Nothing, kind = "signed", ~result.threw
             PROVE  /\ \E i \in DOMAIN sealed :
                          /\ sealed[i].to = result.sk /\ sealed[i].data = result.data
                          /\ BoundEvent(sealed[i].env) = result.event
                          /\ result.pin # None => sealed[i].signer = result.pin
                    /\ result.expected # None => result.event = result.expected
  BY DEF WebhookAsSealed
<1>1. PICK of \in 1..Len(store), sk \in Recipients, pin \in Signers \cup {None},
           expected \in Events \cup {None} :
             result = WebhookResult(of, store[of], sk, pin, expected)
  BY DEF SignedInv
<1> DEFINE env == store[of]
<1>2. PICK i \in 1..Len(sealed) : env.sig = sealed[i].env.sig
  BY DEF SignedInv
<1>3. SignedItem(i, sealed[i]) /\ IsSeq(sealed)
  BY DEF SignedInv
<1> HIDE DEF env
<1>4. /\ expected # None => BoundEvent(env) = expected
      /\ VerifiesSigner(env, pin) /\ Opens(sk, env)
      /\ result.sk = sk /\ result.pin = pin /\ result.expected = expected
      /\ result.event = BoundEvent(env) /\ result.data = env.ct.plain
  BY <1>1 DEF WebhookResult, env
<1> DEFINE was == sealed[i]
<1>a. /\ was.data = Leaf(i) /\ was.env.kem = Kem(was.to, i)
      /\ was.env.ct = [key |-> Cek(Kem(was.to, i), was.to, was.ctx), n |-> i, plain |-> Leaf(i)]
      /\ was.env.sig = [by |-> was.signer, over |-> CanonicalBytes(was.env)]
  BY <1>3, SignedItemFields
<1>b. env.sig = was.env.sig
  BY <1>2
<1> HIDE DEF was
<1>c. [by |-> env.spk, over |-> CanonicalBytes(env)]
        = [by |-> was.signer, over |-> CanonicalBytes(was.env)]
  BY <1>a, <1>b, <1>4 DEF VerifiesSigner
<1>5. /\ env.spk = was.signer
      /\ CanonicalBytes(env) = CanonicalBytes(was.env)
      /\ pin # None => pin = env.spk
  BY <1>c, <1>4 DEF VerifiesSigner
<1>6. env.kem = was.env.kem /\ env.ct = was.env.ct /\ env.ctx = was.env.ctx
  BY <1>5 DEF CanonicalBytes
<1>7. env.ct.plain = was.data /\ was.to = sk
  <2>1. Cek(Kem(was.to, i), was.to, was.ctx) = Cek(env.kem, sk, env.ctx)
    BY <1>a, <1>4, <1>6 DEF Opens
  <2> QED BY <1>a, <1>6, <2>1 DEF Cek
<1>8. BoundEvent(env) = BoundEvent(was.env)
  BY <1>6 DEF BoundEvent
<1>9. i \in DOMAIN sealed
  BY <1>3, IsSeqLen
<1> QED BY <1>4, <1>5, <1>7, <1>8, <1>9 DEF was

\* An unaltered webhook opens for its reader, signer and event.
LEMMA WebhooksRoundTrip ==
  ASSUME SignedInv, kind = "signed"
  PROVE  RoundTrip
<1> SUFFICES ASSUME result # Nothing, store[result.of] = sealed[result.of].env,
                    result.sk = sealed[result.of].to,
                    result.pin \in {None, sealed[result.of].signer},
                    result.expected \in {None, BoundEvent(sealed[result.of].env)}
             PROVE  ~result.threw /\ result.data = sealed[result.of].data
  BY DEF RoundTrip
<1>1. PICK of \in 1..Len(store), sk \in Recipients, pin \in Signers \cup {None},
           expected \in Events \cup {None} :
             result = WebhookResult(of, store[of], sk, pin, expected)
  BY DEF SignedInv
<1> DEFINE env == store[of]
           was == sealed[of]
<1>2. /\ env = was.env /\ sk = was.to
      /\ pin \in {None, was.signer} /\ expected \in {None, BoundEvent(env)}
      /\ result.of = of
  BY <1>1 DEF WebhookResult
<1>3. SignedItem(of, was)
  BY DEF SignedInv
<1> HIDE DEF env, was
<1>a. /\ was.data = Leaf(of) /\ was.env.v = 1 /\ was.env.n = of
      /\ was.env.kem = Kem(was.to, of) /\ was.env.ctx = was.ctx
      /\ was.env.ct = [key |-> Cek(Kem(was.to, of), was.to, was.ctx), n |-> of,
                        plain |-> Leaf(of)]
      /\ was.env.spk = was.signer
      /\ was.env.sig = [by |-> was.signer, over |-> CanonicalBytes(was.env)]
  BY <1>3, SignedItemFields
<1>4. /\ Opens(sk, env) /\ VerifiesSigner(env, pin) /\ env.ct.plain = was.data
  BY <1>2, <1>a DEF Opens, VerifiesSigner
<1>5. ~result.threw /\ result.data = env.ct.plain
  BY <1>1, <1>2, <1>4 DEF WebhookResult, env
<1> QED BY <1>2, <1>4, <1>5 DEF was

-----------------------------------------------------------------------------
(***************************************************************************)
(* Attestations.                                                           *)
(***************************************************************************)

\* Attestation i as its issuer recorded it.
IssuedItem(item) ==
  /\ DOMAIN item.env = {"att", "sig", "key"}
  /\ item.env.att = item.data /\ item.env.sig = [by |-> item.signer, over |-> item.data]

\* Whatever storage did to the fields, the signature was made by an issuer.
AttestedInv ==
  kind = "attestation" =>
    /\ IsSeq(sealed) /\ IsSeq(store) /\ Len(store) = Len(sealed)
    /\ call = Idle
    /\ \A i \in 1..Len(sealed) : IssuedItem(sealed[i])
    /\ \A i \in 1..Len(store) :
          /\ DOMAIN store[i] = {"att", "sig", "key"}
          /\ \E j \in 1..Len(sealed) : store[i].sig = sealed[j].env.sig
    /\ result # Nothing =>
          \E i \in 1..Len(store), key \in Signers :
             result = [of |-> i, key |-> key, data |-> store[i].att,
                       threw |-> store[i].sig # [by |-> key, over |-> store[i].att]]

\* Storage moves fields about, and takes the signature whole.
LEMMA AttestationAltered ==
  ASSUME NEW env, NEW other, NEW new \in AlteredAttestation(env, other),
         DOMAIN env = {"att", "sig", "key"}
  PROVE  /\ DOMAIN new = {"att", "sig", "key"}
         /\ new.sig \in {env.sig, other.sig}
<1>1. ASSUME NEW att, new = [env EXCEPT !.att = att]
      PROVE  /\ DOMAIN new = {"att", "sig", "key"}
             /\ new.sig \in {env.sig, other.sig}
  BY <1>1
<1>2. ASSUME NEW part \in {"att", "sig", "key"}, new = [env EXCEPT ![part] = other[part]]
      PROVE  /\ DOMAIN new = {"att", "sig", "key"}
             /\ new.sig \in {env.sig, other.sig}
  BY <1>2
<1>3. ASSUME NEW k, NEW value, new = [env EXCEPT !.att[k] = value]
      PROVE  \E att : new = [env EXCEPT !.att = att]
  BY <1>3
<1> QED BY <1>1, <1>2, <1>3 DEF AlteredAttestation

LEMMA AttestedStep ==
  ASSUME AttestedInv, [Next]_vars
  PROVE  AttestedInv'
<1> SUFFICES ASSUME kind' = "attestation"
             PROVE  AttestedInv'
  BY DEF AttestedInv
<1>k. kind = "attestation" /\ kind' = kind
  BY KindKept
<1>i. /\ IsSeq(sealed) /\ IsSeq(store) /\ Len(store) = Len(sealed)
      /\ call = Idle
      /\ \A i \in 1..Len(sealed) : IssuedItem(sealed[i])
      /\ \A i \in 1..Len(store) :
            /\ DOMAIN store[i] = {"att", "sig", "key"}
            /\ \E j \in 1..Len(sealed) : store[i].sig = sealed[j].env.sig
      /\ result # Nothing =>
            \E i \in 1..Len(store), key \in Signers :
               result = [of |-> i, key |-> key, data |-> store[i].att,
                         threw |-> store[i].sig # [by |-> key, over |-> store[i].att]]
  BY <1>k DEF AttestedInv
<1>l. Len(store) \in Nat
  BY <1>i, IsSeqLen
<1>1. CASE IssueAttestation
  <2>1. PICK signer \in Signers, mode \in {"hybrid", "pqc-only"},
             asserted \in SUBSET {"from", "to"} :
          LET att == Attestation(Len(store) + 1, mode, asserted)
              env == [att |-> att, sig |-> [by |-> signer, over |-> att], key |-> signer]
          IN /\ store' = Append(store, env)
             /\ sealed' = Append(sealed, [signer |-> signer, data |-> att, env |-> env])
             /\ UNCHANGED <<kind, call, result, faults>>
    BY <1>1 DEF IssueAttestation
  <2> DEFINE id == Len(store) + 1
             att == Attestation(id, mode, asserted)
             env == [att |-> att, sig |-> [by |-> signer, over |-> att], key |-> signer]
             item == [signer |-> signer, data |-> att, env |-> env]
  <2>2. IssuedItem(item) /\ item.env = env /\ DOMAIN env = {"att", "sig", "key"}
    BY DEF IssuedItem
  <2>3. store' = Append(store, env) /\ sealed' = Append(sealed, item)
    BY <2>1
  <2> HIDE DEF env, item
  <2>5. /\ IsSeq(store') /\ Len(store') = id
        /\ \A i \in 1..Len(store) : store'[i] = store[i]
        /\ store'[id] = env
    BY <2>3, <1>i, AppendIsSeq
  <2>6. /\ IsSeq(sealed') /\ Len(sealed') = id
        /\ \A i \in 1..Len(sealed) : sealed'[i] = sealed[i]
        /\ sealed'[id] = item
    BY <2>3, <1>i, AppendIsSeq
  <2>7. \A i \in 1..Len(sealed') : IssuedItem(sealed'[i])
    BY <2>2, <2>6, <1>i, <1>l
  <2>8. \A i \in 1..Len(store') :
            /\ DOMAIN store'[i] = {"att", "sig", "key"}
            /\ \E j \in 1..Len(sealed') : store'[i].sig = sealed'[j].env.sig
    <3> TAKE i \in 1..Len(store')
    <3>1. CASE i = id
      BY <3>1, <2>2, <2>5, <2>6, <1>l
    <3>2. CASE i # id
      <4>1. i \in 1..Len(store) /\ store'[i] = store[i]
        BY <3>2, <2>5, <1>l
      <4>2. PICK j \in 1..Len(sealed) : store[i].sig = sealed[j].env.sig
        BY <4>1, <1>i
      <4>3. j \in 1..Len(sealed') /\ sealed'[j] = sealed[j]
        BY <2>6, <1>i, <1>l
      <4> QED BY <4>1, <4>2, <4>3, <1>i
    <3> QED BY <3>1, <3>2
  <2>9. result' # Nothing =>
            \E i \in 1..Len(store'), key \in Signers :
               result' = [of |-> i, key |-> key, data |-> store'[i].att,
                          threw |-> store'[i].sig # [by |-> key, over |-> store'[i].att]]
    <3>1. \A i \in 1..Len(store) : i \in 1..Len(store') /\ store'[i] = store[i]
      BY <2>5, <1>l
    <3>2. result' = result
      BY <2>1
    <3> QED BY <3>1, <3>2, <1>i
  <2> QED BY <2>1, <2>5, <2>6, <2>7, <2>8, <2>9, <1>i DEF AttestedInv
<1>2. ASSUME NEW i \in Items, VerifyAttestation(i)
      PROVE  AttestedInv'
  <2>1. /\ UNCHANGED <<kind, sealed, store, call, faults>>
        /\ \E key \in Signers :
              result' = [of |-> i, key |-> key, data |-> store[i].att,
                         threw |-> store[i].sig # [by |-> key, over |-> store[i].att]]
    BY <1>2 DEF VerifyAttestation
  <2> QED BY <2>1, <1>i DEF AttestedInv, Items
<1>3. ASSUME NEW i \in Items, NEW j \in Items, Alter(i, j)
      PROVE  AttestedInv'
  <2>1. PICK new \in AlteredAttestation(store[i], store[j]) :
          /\ store' = [store EXCEPT ![i] = new]
          /\ result' = Nothing
          /\ UNCHANGED <<kind, sealed, call>>
    BY <1>3, <1>k DEF Alter
  <2>2. /\ IsSeq(store') /\ Len(store') = Len(store)
        /\ \A l \in 1..Len(store) : store'[l] = IF l = i THEN new ELSE store[l]
    <3>1. i \in 1..Len(store)
      BY DEF Items
    <3>2. IsSeq(store) /\ store' = ReplaceAt(store, i, new)
      BY <2>1, <1>i DEF ReplaceAt
    <3> QED BY <3>1, <3>2, ReplaceIsSeq
  <2>3. /\ DOMAIN new = {"att", "sig", "key"}
        /\ new.sig \in {store[i].sig, store[j].sig}
    BY <1>i, AttestationAltered DEF Items
  <2>4. \A l \in 1..Len(store') :
            /\ DOMAIN store'[l] = {"att", "sig", "key"}
            /\ \E m \in 1..Len(sealed) : store'[l].sig = sealed[m].env.sig
    BY <2>2, <2>3, <1>i DEF Items
  <2> QED BY <2>1, <2>2, <2>4, <1>i, ZenonT(40) DEF AttestedInv
<1>4. CASE UNCHANGED vars
  BY <1>4, <1>i DEF AttestedInv, vars
<1>5. ~OpenFrame /\ ~OpenEnds /\ ~SealFrame /\ ~SealField /\ ~FieldsSealed
  BY <1>i, <1>k DEF OpenFrame, OpenEnds, SealFrame, SealField, FieldsSealed, Idle
<1>6. /\ ~SealMedia /\ ~SealFields /\ ~SealSigned /\ ~OpenFieldsAgain
      /\ \A i \in Items : ~OpenMedia(i) /\ ~OpenFields(i) /\ ~OpenWebhook(i)
  BY <1>k DEF SealMedia, SealFields, SealSigned, OpenFieldsAgain, OpenMedia, OpenFields,
     OpenDocument, OpenWebhook
<1> QED BY <1>1, <1>2, <1>3, <1>4, <1>5, <1>6 DEF Next, Seals, Openings

\* What an attestation that verifies must have been: the one signed.
LEMMA AttestationsVerifyAsIssued ==
  ASSUME AttestedInv
  PROVE  AttestedAsIssued
<1> SUFFICES ASSUME result # Nothing, kind = "attestation", ~result.threw
             PROVE  \E i \in DOMAIN sealed :
                       sealed[i].signer = result.key /\ sealed[i].data = result.data
  BY DEF AttestedAsIssued
<1>1. PICK of \in 1..Len(store), key \in Signers :
         result = [of |-> of, key |-> key, data |-> store[of].att,
                   threw |-> store[of].sig # [by |-> key, over |-> store[of].att]]
  BY DEF AttestedInv
<1>2. PICK i \in 1..Len(sealed) : store[of].sig = sealed[i].env.sig
  BY DEF AttestedInv
<1>3. IssuedItem(sealed[i]) /\ IsSeq(sealed)
  BY DEF AttestedInv
<1>4. [by |-> sealed[i].signer, over |-> sealed[i].data]
        = [by |-> result.key, over |-> result.data]
  BY <1>1, <1>2, <1>3 DEF IssuedItem
<1>5. sealed[i].signer = result.key /\ sealed[i].data = result.data
  BY <1>4
<1> QED BY <1>3, <1>5, IsSeqLen

\* An unaltered attestation verifies under its issuer's key and no other.
LEMMA AttestationsRoundTrip ==
  ASSUME AttestedInv, kind = "attestation"
  PROVE  RoundTrip
<1> SUFFICES ASSUME result # Nothing, store[result.of] = sealed[result.of].env
             PROVE  result.threw = (result.key # sealed[result.of].signer)
  BY DEF RoundTrip
<1>1. PICK of \in 1..Len(store), key \in Signers :
         result = [of |-> of, key |-> key, data |-> store[of].att,
                   threw |-> store[of].sig # [by |-> key, over |-> store[of].att]]
  BY DEF AttestedInv
<1> DEFINE was == sealed[of]
<1>2. IssuedItem(was) /\ store[of] = was.env
  BY <1>1 DEF AttestedInv
<1> HIDE DEF was
<1>3. store[of].sig = [by |-> was.signer, over |-> store[of].att]
  BY <1>2 DEF IssuedItem
<1>4. result.threw = (store[of].sig # [by |-> key, over |-> store[of].att])
  BY <1>1
<1>5. result.threw = (key # was.signer)
  BY <1>3, <1>4
<1> QED BY <1>1, <1>5 DEF was


-----------------------------------------------------------------------------
(***************************************************************************)
(* Framed envelopes.                                                       *)
(***************************************************************************)

Byte == Nat \X Nat

\* The frames hold data cut at the offsets o.
Cut(frames, data, o) ==
  /\ o \in Seq(Nat) /\ Len(o) = Len(frames) + 1 /\ o[1] = 0
  /\ \A k \in 1..Len(frames) : o[k] <= o[k + 1] /\ o[k + 1] <= Len(data)
  /\ \A k \in 1..Len(frames) : frames[k].plain = SubSeq(data, o[k] + 1, o[k + 1])

\* Every frame is encrypted under the key of its position.
Keyed(frames, to, id, ctx) ==
  /\ IsSeq(frames)
  /\ \A k \in 1..Len(frames) :
        frames[k].key = FrameKey(Cek(Kem(to, id), to, ctx), k - 1)

\* Item i as the sender recorded it.
FramedItem(i, item) ==
  /\ item.data \in Seq(Byte)
  /\ item.env.v = 1 /\ item.env.kem = Kem(item.to, i)
  /\ item.env.ctx = item.ctx /\ item.env.size = Len(item.data)
  /\ DOMAIN item.env = {"v", "kem", "ctx", "size", "frames"}
  /\ Keyed(item.env.frames, item.to, i, item.ctx)
  /\ \E o \in Seq(Nat) : Cut(item.env.frames, item.data, o) /\ o[Len(o)] = Len(item.data)

AllFramed(items) == \A i \in 1..Len(items) : FramedItem(i, items[i])

\* The frames senders made.
Frames(items) ==
  UNION {Range(items[i].env.frames) : i \in 1..Len(items)}

\* An envelope in storage has the encapsulation and the frames of sealed items.
FramedEnvelope(env, items) ==
  /\ DOMAIN env = {"v", "kem", "ctx", "size", "frames"}
  /\ env.kem.id \in 1..Len(items) /\ env.kem = items[env.kem.id].env.kem
  /\ env.frames \in Seq(Frames(items))

\* sealFramed in its loop: the frames so far are the data up to call.off.
SealingInv ==
  call.op = "sealing" =>
    /\ DOMAIN call = {"op", "to", "ctx", "data", "size", "off", "frames"}
    /\ call.data \in Seq(Byte) /\ call.size \in Nat
    /\ call.off \in 0..Len(call.data)
    /\ Keyed(call.frames, call.to, Len(store) + 1, call.ctx)
    /\ \E o \in Seq(Nat) : Cut(call.frames, call.data, o) /\ o[Len(o)] = call.off

\* openFramed in its loop: what is out are the first frames of the item whose
\* encapsulation it is.
OpeningInv ==
  call.op = "opening" =>
    /\ DOMAIN call = {"op", "of", "sk", "next", "out"}
    /\ call.of \in 1..Len(store) /\ store[call.of].v = 1
    /\ call.next \in 0..Len(store[call.of].frames)
    /\ LET env == store[call.of]
           was == sealed[env.kem.id]
       IN /\ call.next <= Len(was.env.frames)
          /\ call.next > 0 => was.to = call.sk /\ was.ctx = env.ctx
          /\ \A o \in Seq(Nat) :
                Cut(was.env.frames, was.data, o) =>
                  call.out = SubSeq(was.data, 1, o[call.next + 1])

\* What the properties say of a result r for the envelope env that was made as
\* item own, with the encapsulation of item was.
MediaResult(r, env, was, own) ==
  /\ ~r.threw => /\ env.frames # <<>> => was.to = r.sk /\ was.ctx = env.ctx
                 /\ IsPrefix(r.data, was.data)
                 /\ env.size = Len(was.data) => r.data = was.data
  /\ env = own.env /\ r.sk = own.to => ~r.threw /\ r.data = own.data

MediaInv ==
  kind = "media" =>
    /\ IsSeq(sealed) /\ IsSeq(store) /\ Len(store) = Len(sealed)
    /\ \A i \in 1..Len(sealed) : FramedItem(i, sealed[i])
    /\ \A i \in 1..Len(store) : FramedEnvelope(store[i], sealed)
    /\ call.op \in {"idle", "sealing", "opening"}
    /\ SealingInv
    /\ OpeningInv
    /\ result # Nothing =>
          /\ result.of \in 1..Len(store)
          /\ MediaResult(result, store[result.of], ByKem(store[result.of]), sealed[result.of])

\* One more frame, cut from where the last one ended.
LEMMA CutExtended ==
  ASSUME NEW frames, IsSeq(frames), NEW data \in Seq(Byte), NEW o \in Seq(Nat),
         Cut(frames, data, o),
         NEW end \in o[Len(o)]..Len(data), NEW frame,
         frame.plain = SubSeq(data, o[Len(o)] + 1, end)
  PROVE  Cut(Append(frames, frame), data, Append(o, end))
<1> DEFINE n == Len(frames)
           f  == Append(frames, frame)
           p  == Append(o, end)
<1>1. n \in Nat /\ Len(o) = n + 1 /\ o[1] = 0
  BY IsSeqLen DEF Cut
<1>2. o[n + 1] \in Nat /\ end \in Nat /\ Len(data) \in Nat
  BY <1>1, ElementOfSeq
<1>3. /\ Len(f) = n + 1 /\ f[n + 1] = frame
      /\ \A k \in 1..n : f[k] = frames[k]
  BY AppendIsSeq
<1>4. /\ p \in Seq(Nat) /\ Len(p) = n + 2 /\ p[n + 2] = end
      /\ \A k \in 1..(n + 1) : p[k] = o[k]
  BY <1>1, <1>2, AppendProperties
<1> HIDE DEF n, f, p
<1>5. \A k \in 1..n : /\ o[k] <= o[k + 1] /\ o[k + 1] <= Len(data)
                      /\ frames[k].plain = SubSeq(data, o[k] + 1, o[k + 1])
  BY DEF Cut, n
<1>6. frame.plain = SubSeq(data, o[n + 1] + 1, end) /\ o[n + 1] <= end /\ end <= Len(data)
  BY <1>1, <1>2
<1>7. ASSUME NEW k \in 1..(n + 1)
      PROVE  /\ p[k] <= p[k + 1] /\ p[k + 1] <= Len(data)
             /\ f[k].plain = SubSeq(data, p[k] + 1, p[k + 1])
  <2>1. CASE k = n + 1
    <3>1. p[k] = o[n + 1] /\ p[k + 1] = end /\ f[k] = frame
      BY <2>1, <1>1, <1>3, <1>4
    <3> QED BY <3>1, <1>6
  <2>2. CASE k # n + 1
    <3>1. k \in 1..n /\ k \in 1..(n + 1) /\ k + 1 \in 1..(n + 1)
      BY <2>2, <1>1
    <3>2. p[k] = o[k] /\ p[k + 1] = o[k + 1] /\ f[k] = frames[k]
      BY <3>1, <1>3, <1>4
    <3> QED BY <3>1, <3>2, <1>5
  <2> QED BY <2>1, <2>2
<1>8. p[1] = 0
  BY <1>1, <1>4
<1>9. /\ \A k \in 1..Len(f) : p[k] <= p[k + 1] /\ p[k + 1] <= Len(data)
      /\ \A k \in 1..Len(f) : f[k].plain = SubSeq(data, p[k] + 1, p[k + 1])
  BY <1>3, <1>7
<1>10. p \in Seq(Nat) /\ Len(p) = Len(f) + 1
  BY <1>1, <1>3, <1>4
<1>11. Cut(f, data, p)
  BY <1>8, <1>9, <1>10 DEF Cut
<1> QED BY <1>11 DEF f, p

LEMMA KeyedExtended ==
  ASSUME NEW frames, NEW to, NEW id, NEW ctx, Keyed(frames, to, id, ctx),
         NEW frame, frame.key = FrameKey(Cek(Kem(to, id), to, ctx), Len(frames))
  PROVE  Keyed(Append(frames, frame), to, id, ctx)
<1> DEFINE n == Len(frames)
           f  == Append(frames, frame)
<1>1. n \in Nat
  BY IsSeqLen DEF Keyed
<1>2. /\ IsSeq(f) /\ Len(f) = n + 1 /\ f[n + 1] = frame
      /\ \A k \in 1..n : f[k] = frames[k]
  BY AppendIsSeq DEF Keyed
<1> HIDE DEF f
<1>3. \A k \in 1..n : frames[k].key = FrameKey(Cek(Kem(to, id), to, ctx), k - 1)
  BY DEF Keyed
<1>4. ASSUME NEW k \in 1..(n + 1)
      PROVE  f[k].key = FrameKey(Cek(Kem(to, id), to, ctx), k - 1)
  <2>1. CASE k = n + 1
    BY <2>1, <1>1, <1>2
  <2>2. CASE k # n + 1
    BY <2>2, <1>1, <1>2, <1>3
  <2> QED BY <2>1, <2>2
<1> QED BY <1>2, <1>4 DEF Keyed, f

\* What was in storage before an item was sealed is still made of sealed parts.
LEMMA ItemAdded ==
  ASSUME NEW items, IsSeq(items), NEW item, NEW env, FramedEnvelope(env, items)
  PROVE  FramedEnvelope(env, Append(items, item))
<1> DEFINE more == Append(items, item)
<1>1. /\ Len(items) \in Nat /\ Len(more) = Len(items) + 1
      /\ \A i \in 1..Len(items) : more[i] = items[i]
  BY AppendIsSeq, IsSeqLen
<1> HIDE DEF more
<1>2. Frames(items) \subseteq Frames(more)
  <2>1. \A i \in 1..Len(items) : i \in 1..Len(more) /\ more[i] = items[i]
    BY <1>1
  <2> QED BY <2>1 DEF Frames
<1>3. env.frames \in Seq(Frames(more))
  BY <1>2, SeqMonotonic DEF FramedEnvelope
<1>4. env.kem.id \in 1..Len(more) /\ more[env.kem.id] = items[env.kem.id]
  BY <1>1 DEF FramedEnvelope
<1> QED BY <1>3, <1>4 DEF FramedEnvelope, more

\* What was sealed lies in storage made of its own parts.
LEMMA ItemStored ==
  ASSUME NEW items, NEW i \in 1..Len(items), FramedItem(i, items[i])
  PROVE  FramedEnvelope(items[i].env, items)
<1> DEFINE frames == items[i].env.frames
<1>1. frames \in Seq(Range(frames)) /\ DOMAIN frames = 1..Len(frames)
  BY IsSeqLen DEF FramedItem, Keyed, IsSeq
<1>2. Range(frames) \subseteq Frames(items)
  BY <1>1 DEF Range, Frames
<1>3. frames \in Seq(Frames(items))
  BY <1>1, <1>2, SeqMonotonic
<1>4. items[i].env.kem.id = i
  BY DEF FramedItem, Kem
<1> QED BY <1>3, <1>4 DEF FramedItem, FramedEnvelope

LEMMA SlicesStay ==
  ASSUME NEW S, NEW f \in Seq(S), NEW a \in Int, NEW b \in Int, a >= 1, b <= Len(f)
  PROVE  SubSeq(f, a, b) \in Seq(S)
<1>1. \A k \in a..b : f[k] \in S
  BY ElementOfSeq, LenProperties
<1> QED BY <1>1, SubSeqProperties

\* Frames that are lost, repeated, exchanged or put elsewhere stay frames.
LEMMA FramesAltered ==
  ASSUME NEW S, NEW env, NEW other, env.frames \in Seq(S), other.frames \in Seq(S),
         NEW new \in AlteredFrames(env, other)
  PROVE  new \in Seq(S)
<1> DEFINE f == env.frames
<1>0. f \in Seq(S) /\ Len(f) \in Nat /\ DOMAIN f = 1..Len(f)
  BY LenProperties
<1>1. ASSUME NEW k \in 1..Len(f), new = RemoveAt(f, k)
      PROVE  new \in Seq(S)
  <2>1. SubSeq(f, 1, k - 1) \in Seq(S) /\ SubSeq(f, k + 1, Len(f)) \in Seq(S)
    BY <1>0, SlicesStay
  <2> QED BY <1>1, <2>1, ConcatProperties DEF RemoveAt
<1>2. ASSUME NEW k \in 1..Len(f), new = InsertAt(f, k, f[k])
      PROVE  new \in Seq(S)
  <2>1. SubSeq(f, 1, k - 1) \in Seq(S) /\ SubSeq(f, k, Len(f)) \in Seq(S)
    BY <1>0, SlicesStay
  <2>2. <<f[k]>> \in Seq(S)
    BY <1>0, ElementOfSeq
  <2>3. SubSeq(f, 1, k - 1) \o <<f[k]>> \in Seq(S)
    BY <2>1, <2>2, ConcatProperties
  <2> QED BY <1>2, <2>1, <2>3, ConcatProperties DEF InsertAt
<1>3. ASSUME NEW k \in 1..Len(f), NEW l \in 1..Len(f),
             new = [f EXCEPT ![k] = f[l], ![l] = f[k]]
      PROVE  new \in Seq(S)
  <2> DEFINE g == [f EXCEPT ![k] = f[l]]
  <2>1. f[k] \in S /\ f[l] \in S
    BY <1>0, ElementOfSeq
  <2>2. g \in Seq(S) /\ Len(g) = Len(f)
    BY <1>0, <2>1, ExceptSeq
  <2>3. new = [g EXCEPT ![l] = f[k]]
    BY <1>3
  <2> HIDE DEF g
  <2> QED BY <2>1, <2>2, <2>3, ExceptSeq
<1>4. ASSUME NEW k \in 1..Len(f), NEW l \in 1..Len(other.frames),
             new = [f EXCEPT ![k] = other.frames[l]]
      PROVE  new \in Seq(S)
  BY <1>4, <1>0, ElementOfSeq, ExceptSeq
<1> QED BY <1>1, <1>2, <1>3, <1>4 DEF AlteredFrames

LEMMA MediaAltered ==
  ASSUME NEW items, NEW env, NEW other,
         FramedEnvelope(env, items), FramedEnvelope(other, items),
         NEW new \in AlteredMedia(env, other)
  PROVE  FramedEnvelope(new, items)
<1> DEFINE parts == {"v", "kem", "ctx", "size", "frames"}
<1>1. ASSUME NEW f \in AlteredFrames(env, other), new = [env EXCEPT !.frames = f]
      PROVE  FramedEnvelope(new, items)
  <2>1. f \in Seq(Frames(items))
    BY FramesAltered DEF FramedEnvelope
  <2> QED BY <1>1, <2>1 DEF FramedEnvelope
<1>2. ASSUME NEW n, new = [env EXCEPT !.size = n]
      PROVE  FramedEnvelope(new, items)
  BY <1>2 DEF FramedEnvelope
<1>3. CASE new = [env EXCEPT !.kem = other.kem]
  BY <1>3 DEF FramedEnvelope
<1>4. CASE new = [env EXCEPT !.ctx = other.ctx]
  BY <1>4 DEF FramedEnvelope
<1>5. CASE new = [env EXCEPT !.v = 2]
  BY <1>5 DEF FramedEnvelope
<1> QED BY <1>1, <1>2, <1>3, <1>4, <1>5 DEF AlteredMedia

\* Frame k of an envelope opens for sk, and was sealed there: as frame k of the
\* item whose encapsulation the envelope has, for sk and the envelope's context.
SealedThere(items, env, k, sk) ==
  LET was == items[env.kem.id] IN
  /\ k \in 1..Len(was.env.frames) /\ env.frames[k] = was.env.frames[k]
  /\ was.to = sk /\ was.ctx = env.ctx

OpensThere(env, k, sk) ==
  k \in 1..Len(env.frames) /\ env.frames[k].key = FrameKey(Cek(env.kem, sk, env.ctx), k - 1)

\* A frame that opens under the key of its position was sealed at that position.
LEMMA FrameFound ==
  ASSUME NEW items, AllFramed(items), NEW env, FramedEnvelope(env, items),
         NEW k, NEW sk, OpensThere(env, k, sk)
  PROVE  SealedThere(items, env, k, sk)
<1> USE DEF OpensThere
<1> DEFINE j == env.kem.id
           was == items[j]
<1>1. j \in 1..Len(items) /\ env.kem = Kem(was.to, j)
  BY DEF FramedEnvelope, AllFramed, FramedItem
<1>2. env.frames[k] \in Frames(items)
  BY ElementOfSeq DEF FramedEnvelope
<1>3. PICK i \in 1..Len(items) : env.frames[k] \in Range(items[i].env.frames)
  BY <1>2 DEF Frames
<1>4. PICK l \in 1..Len(items[i].env.frames) : env.frames[k] = items[i].env.frames[l]
  BY <1>3, IsSeqLen DEF Range, AllFramed, FramedItem, Keyed
<1>5. env.frames[k].key
        = FrameKey(Cek(Kem(items[i].to, i), items[i].to, items[i].ctx), l - 1)
  BY <1>4 DEF AllFramed, FramedItem, Keyed
<1>6. FrameKey(Cek(Kem(items[i].to, i), items[i].to, items[i].ctx), l - 1)
        = FrameKey(Cek(Kem(was.to, j), sk, env.ctx), k - 1)
  BY <1>1, <1>5
<1> HIDE DEF j, was
<1>7. /\ Cek(Kem(items[i].to, i), items[i].to, items[i].ctx) = Cek(Kem(was.to, j), sk, env.ctx)
      /\ l - 1 = k - 1
  BY <1>6 DEF FrameKey
<1>8. Kem(items[i].to, i) = Kem(was.to, j) /\ items[i].to = sk /\ items[i].ctx = env.ctx
  BY <1>7 DEF Cek
<1>9. i = j /\ l = k
  BY <1>7, <1>8 DEF Kem
<1> QED BY <1>4, <1>8, <1>9 DEF j, was, SealedThere

\* The offsets of a cut are positions of the data.
LEMMA CutOffsets ==
  ASSUME NEW frames, IsSeq(frames), NEW data \in Seq(Byte), NEW o \in Seq(Nat),
         Cut(frames, data, o)
  PROVE  \A k \in 1..(Len(frames) + 1) : o[k] \in 0..Len(data)
<1>1. Len(frames) \in Nat /\ Len(data) \in Nat /\ Len(o) = Len(frames) + 1 /\ o[1] = 0
  BY IsSeqLen DEF Cut
<1>2. ASSUME NEW k \in 1..(Len(frames) + 1)
      PROVE  o[k] \in 0..Len(data)
  <2>1. o[k] \in Nat
    BY <1>1, ElementOfSeq
  <2>2. CASE k = 1
    BY <2>2, <1>1
  <2>3. CASE k # 1
    <3>1. k - 1 \in 1..Len(frames) /\ (k - 1) + 1 = k
      BY <2>3, <1>1
    <3>2. o[(k - 1) + 1] <= Len(data)
      BY <3>1 DEF Cut
    <3> QED BY <2>1, <3>1, <3>2, <1>1
  <2> QED BY <2>2, <2>3
<1> QED BY <1>2

\* sealMediaBytes: nothing is cut yet.
LEMMA SealMediaStep ==
  ASSUME MediaInv, kind = "media", SealMedia
  PROVE  MediaInv'
<1>1. PICK to \in Recipients, n \in Sizes, size \in FrameSizes, ctx \in {<<>>, <<"media">>} :
        /\ call' = [op |-> "sealing", to |-> to, ctx |-> ctx, data |-> Bytes(Len(store) + 1, n),
                    size |-> size, off |-> 0, frames |-> <<>>]
        /\ UNCHANGED <<kind, sealed, store, result, faults>>
  BY DEF SealMedia
<1>2. Len(store) \in Nat
  BY IsSeqLen DEF MediaInv
<1> DEFINE data == Bytes(Len(store) + 1, n)
<1>3. data \in Seq(Byte)
  <2>1. n \in Nat /\ \A k \in 1..n : <<Len(store) + 1, k>> \in Byte
    BY <1>2, SealAssumption DEF Byte
  <2>2. data \in [1..n -> Byte]
    BY <2>1 DEF Bytes
  <2> QED BY <2>1, <2>2, SeqDef
<1> HIDE DEF data
<1>4. Len(data) \in Nat
  BY <1>3, LenProperties
<1>5. IsSeq(<<>>) /\ Len(<<>>) = 0
  BY EmptySeq DEF IsSeq
<1>6. Keyed(<<>>, to, Len(store) + 1, ctx)
  BY <1>5 DEF Keyed
<1>7. <<0>> \in Seq(Nat) /\ Len(<<0>>) = 1 /\ <<0>>[1] = 0
  OBVIOUS
<1>8. Cut(<<>>, data, <<0>>)
  BY <1>5, <1>7 DEF Cut
<1>9. /\ DOMAIN call' = {"op", "to", "ctx", "data", "size", "off", "frames"}
      /\ call'.op = "sealing" /\ call'.data = data /\ call'.size \in Nat /\ call'.off = 0
      /\ call'.frames = <<>> /\ call'.to = to /\ call'.ctx = ctx
  BY <1>1, SealAssumption DEF data
<1>10. SealingInv'
  <2>1. \E o \in Seq(Nat) : Cut(<<>>, data, o) /\ o[Len(o)] = 0
    BY <1>7, <1>8
  <2>2. store' = store
    BY <1>1
  <2> QED BY <2>1, <2>2, <1>3, <1>4, <1>6, <1>9 DEF SealingInv
<1>11. OpeningInv'
  BY <1>9 DEF OpeningInv
<1> QED BY <1>1, <1>9, <1>10, <1>11 DEF MediaInv, ByKem

\* A turn of the loop of sealFramed that is not the last.
LEMMA FrameSealed ==
  ASSUME MediaInv, kind = "media", SealFrame,
         ~(Len(call.data) = 0 \/ call.off + call.size >= Len(call.data))
  PROVE  MediaInv'
<1> DEFINE id    == Len(store) + 1
           end   == call.off + call.size
           frame == [key |-> FrameKey(Cek(Kem(call.to, id), call.to, call.ctx), Len(call.frames)),
                     plain |-> Chunk(call.data, call.off, call.size)]
           more  == Append(call.frames, frame)
<1>1. /\ call.op = "sealing"
      /\ call' = [call EXCEPT !.off = end, !.frames = more]
      /\ UNCHANGED <<kind, sealed, store, result, faults>>
  BY DEF SealFrame
<1>2. /\ call.data \in Seq(Byte) /\ call.size \in Nat /\ call.off \in 0..Len(call.data)
      /\ Keyed(call.frames, call.to, id, call.ctx)
      /\ \E o \in Seq(Nat) : Cut(call.frames, call.data, o) /\ o[Len(o)] = call.off
  BY <1>1 DEF MediaInv, SealingInv
<1>3. DOMAIN call = {"op", "to", "ctx", "data", "size", "off", "frames"}
  BY <1>1 DEF MediaInv, SealingInv
<1>4. Len(call.data) \in Nat /\ end \in call.off..Len(call.data) /\ IsSeq(call.frames)
  <2>1. Len(call.data) \in Nat
    BY <1>2, LenProperties
  <2>2. IsSeq(call.frames)
    BY <1>2 DEF Keyed
  <2> QED BY <2>1, <2>2, <1>2
<1>5. frame.plain = SubSeq(call.data, call.off + 1, end)
  <2>1. Smaller(call.off + call.size, Len(call.data)) = end
    BY <1>2, <1>4 DEF Smaller
  <2> QED BY <2>1 DEF Chunk
<1>6. frame.key = FrameKey(Cek(Kem(call.to, id), call.to, call.ctx), Len(call.frames))
  OBVIOUS
<1> HIDE DEF end, frame
<1>7. Keyed(more, call.to, id, call.ctx)
  BY <1>2, <1>6, KeyedExtended
<1>8. \E o \in Seq(Nat) : Cut(more, call.data, o) /\ o[Len(o)] = end
  <2>1. PICK o \in Seq(Nat) : Cut(call.frames, call.data, o) /\ o[Len(o)] = call.off
    BY <1>2
  <2>2. Cut(more, call.data, Append(o, end))
    BY <2>1, <1>2, <1>4, <1>5, CutExtended
  <2>3. /\ Append(o, end) \in Seq(Nat) /\ Len(Append(o, end)) = Len(o) + 1
        /\ Append(o, end)[Len(o) + 1] = end
    BY <1>2, <1>4, AppendProperties
  <2> QED BY <2>2, <2>3
<1> HIDE DEF more, id
<1>9. /\ DOMAIN call' = DOMAIN call
      /\ call'.op = "sealing" /\ call'.data = call.data /\ call'.size = call.size
      /\ call'.to = call.to /\ call'.ctx = call.ctx /\ call'.off = end /\ call'.frames = more
  BY <1>1, <1>3
<1>10. SealingInv'
  <2>1. end \in 0..Len(call.data)
    BY <1>2, <1>4
  <2> QED BY <2>1, <1>1, <1>2, <1>3, <1>7, <1>8, <1>9 DEF SealingInv, id
<1>11. OpeningInv'
  BY <1>9 DEF OpeningInv
<1> QED BY <1>1, <1>9, <1>10, <1>11 DEF MediaInv, ByKem

\* The last turn: the envelope goes into storage.
LEMMA LastFrameSealed ==
  ASSUME MediaInv, kind = "media", SealFrame,
         Len(call.data) = 0 \/ call.off + call.size >= Len(call.data)
  PROVE  MediaInv'
<1> DEFINE id    == Len(store) + 1
           end   == Len(call.data)
           frame == [key |-> FrameKey(Cek(Kem(call.to, id), call.to, call.ctx), Len(call.frames)),
                     plain |-> Chunk(call.data, call.off, call.size)]
           more  == Append(call.frames, frame)
           env   == [v |-> 1, kem |-> Kem(call.to, id), ctx |-> call.ctx, size |-> end,
                     frames |-> more]
           item  == [to |-> call.to, ctx |-> call.ctx, data |-> call.data, env |-> env]
<1>1. /\ call.op = "sealing"
      /\ store' = Append(store, env) /\ sealed' = Append(sealed, item) /\ call' = Idle
      /\ UNCHANGED <<kind, result, faults>>
  BY DEF SealFrame
<1>2. /\ call.data \in Seq(Byte) /\ call.size \in Nat /\ call.off \in 0..Len(call.data)
      /\ Keyed(call.frames, call.to, id, call.ctx)
      /\ \E o \in Seq(Nat) : Cut(call.frames, call.data, o) /\ o[Len(o)] = call.off
  BY <1>1 DEF MediaInv, SealingInv
<1>3. /\ IsSeq(sealed) /\ IsSeq(store) /\ Len(store) = Len(sealed)
      /\ \A i \in 1..Len(sealed) : FramedItem(i, sealed[i])
      /\ \A i \in 1..Len(store) : FramedEnvelope(store[i], sealed)
      /\ result # Nothing =>
          /\ result.of \in 1..Len(store)
          /\ MediaResult(result, store[result.of], ByKem(store[result.of]), sealed[result.of])
  BY DEF MediaInv
<1>4. end \in Nat /\ end \in call.off..Len(call.data) /\ IsSeq(call.frames)
  <2>1. end \in Nat
    BY <1>2, LenProperties
  <2>2. IsSeq(call.frames)
    BY <1>2 DEF Keyed
  <2> QED BY <2>1, <2>2, <1>2
<1>5. frame.plain = SubSeq(call.data, call.off + 1, end)
  <2>1. Smaller(call.off + call.size, Len(call.data)) = end
    BY <1>2, <1>4 DEF Smaller
  <2> QED BY <2>1 DEF Chunk
<1>6. frame.key = FrameKey(Cek(Kem(call.to, id), call.to, call.ctx), Len(call.frames))
  OBVIOUS
<1> HIDE DEF frame
<1>7. Keyed(more, call.to, id, call.ctx)
  BY <1>2, <1>6, KeyedExtended
<1>8. \E o \in Seq(Nat) : Cut(more, call.data, o) /\ o[Len(o)] = end
  <2> HIDE DEF end
  <2>1. PICK o \in Seq(Nat) : Cut(call.frames, call.data, o) /\ o[Len(o)] = call.off
    BY <1>2
  <2>2. Cut(more, call.data, Append(o, end))
    BY <2>1, <1>2, <1>4, <1>5, CutExtended
  <2>3. /\ Append(o, end) \in Seq(Nat) /\ Len(Append(o, end)) = Len(o) + 1
        /\ Append(o, end)[Len(o) + 1] = end
    BY <1>2, <1>4, AppendProperties
  <2> QED BY <2>2, <2>3
<1> HIDE DEF more
<1>9. FramedItem(id, item) /\ item.env = env
  BY <1>2, <1>7, <1>8 DEF FramedItem
<1> HIDE DEF env, item
<1>10. Len(store) \in Nat /\ id \in 1..id /\ 1..Len(store) \subseteq 1..id
  BY <1>3, IsSeqLen
<1>11. /\ IsSeq(store') /\ Len(store') = id
       /\ \A i \in 1..Len(store) : store'[i] = store[i]
       /\ store'[id] = env
  BY <1>1, <1>3, AppendIsSeq
<1>12. /\ IsSeq(sealed') /\ Len(sealed') = id
       /\ \A i \in 1..Len(sealed) : sealed'[i] = sealed[i]
       /\ sealed'[id] = item
  BY <1>1, <1>3, AppendIsSeq
<1>13. \A i \in 1..id : i = id \/ i \in 1..Len(store)
  BY <1>10
<1> HIDE DEF id
<1>14. \A i \in 1..Len(sealed') : FramedItem(i, sealed'[i])
  BY <1>3, <1>9, <1>12, <1>13
<1>15. \A i \in 1..Len(store') : FramedEnvelope(store'[i], sealed')
  <2>1. FramedEnvelope(env, sealed')
    <3>1. id \in 1..Len(sealed') /\ FramedItem(id, sealed'[id]) /\ sealed'[id].env = env
      BY <1>9, <1>10, <1>12
    <3> QED BY <3>1, ItemStored
  <2>2. \A i \in 1..Len(store) : FramedEnvelope(store[i], sealed')
    BY <1>1, <1>3, ItemAdded
  <2> QED BY <2>1, <2>2, <1>11, <1>13
<1>16. (result # Nothing =>
          /\ result.of \in 1..Len(store)
          /\ MediaResult(result, store[result.of], ByKem(store[result.of]), sealed[result.of]))'
  <2> SUFFICES ASSUME result # Nothing
               PROVE  /\ result.of \in 1..Len(store')
                      /\ MediaResult(result, store'[result.of], sealed'[store'[result.of].kem.id],
                                     sealed'[result.of])
    BY <1>1 DEF ByKem
  <2> DEFINE of == result.of
             j  == store[of].kem.id
  <2>1. of \in 1..Len(store) /\ MediaResult(result, store[of], sealed[j], sealed[of])
    BY <1>3 DEF ByKem
  <2>2. j \in 1..Len(sealed)
    BY <2>1, <1>3 DEF FramedEnvelope
  <2> HIDE DEF of, j
  <2>3. of \in 1..Len(store') /\ store'[of] = store[of] /\ sealed'[of] = sealed[of]
        /\ sealed'[j] = sealed[j]
    BY <2>1, <2>2, <1>3, <1>10, <1>11, <1>12
  <2> QED BY <2>1, <2>3 DEF of, j
<1>17. SealingInv' /\ OpeningInv' /\ call'.op = "idle"
  BY <1>1 DEF SealingInv, OpeningInv, Idle
<1> QED BY <1>1, <1>3, <1>11, <1>12, <1>14, <1>15, <1>16, <1>17 DEF MediaInv

\* openFramed up to its loop; an envelope of another version was altered.
LEMMA OpenMediaStep ==
  ASSUME MediaInv, kind = "media", NEW i \in Items, OpenMedia(i)
  PROVE  MediaInv'
<1>1. PICK sk \in Recipients :
        /\ IF store[i].v = 1
           THEN /\ call' = [op |-> "opening", of |-> i, sk |-> sk, next |-> 0, out |-> <<>>]
                /\ UNCHANGED result
           ELSE /\ result' = [of |-> i, sk |-> sk, threw |-> TRUE, data |-> <<>>]
                /\ UNCHANGED call
        /\ UNCHANGED <<kind, sealed, store, faults>>
  BY DEF OpenMedia
<1>2. i \in 1..Len(store) /\ call.op = "idle"
  BY DEF Items, OpenMedia, Idle
<1>3. /\ Len(store) = Len(sealed) /\ FramedItem(i, sealed[i]) /\ FramedEnvelope(store[i], sealed)
      /\ \A j \in 1..Len(sealed) : FramedItem(j, sealed[j])
  BY <1>2 DEF MediaInv
<1>4. CASE store[i].v = 1
  <2>1. /\ call' = [op |-> "opening", of |-> i, sk |-> sk, next |-> 0, out |-> <<>>]
        /\ UNCHANGED <<kind, sealed, store, faults, result>>
    BY <1>1, <1>4
  <2> DEFINE env == store[i]
             was == sealed[env.kem.id]
  <2>2. FramedItem(env.kem.id, was)
    BY <1>3 DEF FramedEnvelope
  <2>3. Len(env.frames) \in Nat /\ Len(was.env.frames) \in Nat
    BY <1>3, <2>2, IsSeqLen, LenProperties DEF FramedEnvelope, FramedItem, Keyed
  <2>4. ASSUME NEW o \in Seq(Nat), Cut(was.env.frames, was.data, o)
        PROVE  <<>> = SubSeq(was.data, 1, o[0 + 1])
    <3>1. o[0 + 1] = 0
      BY <2>4 DEF Cut
    <3> QED BY <3>1, SubSeqEmpty
  <2>5. OpeningInv'
    BY <1>2, <1>4, <2>1, <2>3, <2>4 DEF OpeningInv
  <2>6. SealingInv'
    BY <2>1 DEF SealingInv
  <2> QED BY <2>1, <2>5, <2>6 DEF MediaInv, ByKem
<1>5. CASE store[i].v # 1
  <2>1. /\ result' = [of |-> i, sk |-> sk, threw |-> TRUE, data |-> <<>>]
        /\ UNCHANGED <<kind, sealed, store, faults, call>>
    BY <1>1, <1>5
  <2>2. store[i] # sealed[i].env
    BY <1>3, <1>5 DEF FramedItem
  <2>3. MediaResult(result', store[i], ByKem(store[i]), sealed[i]) /\ result'.of = i
    BY <2>1, <2>2 DEF MediaResult
  <2>4. SealingInv' /\ OpeningInv'
    BY <2>1, <1>2 DEF SealingInv, OpeningInv
  <2> QED BY <2>1, <2>3, <2>4, <1>2 DEF MediaInv, ByKem
<1> QED BY <1>4, <1>5


\* What openFramed's loop knows of the envelope it opens.
LEMMA Opening ==
  ASSUME MediaInv, kind = "media", call.op = "opening"
  PROVE  LET env == store[call.of]
             was == sealed[env.kem.id]
             own == sealed[call.of]
         IN /\ call.of \in 1..Len(store)
            /\ FramedItem(env.kem.id, was) /\ FramedItem(call.of, own)
            /\ FramedEnvelope(env, sealed)
            /\ Len(env.frames) \in Nat /\ Len(was.env.frames) \in Nat /\ Len(was.data) \in Nat
            /\ call.next \in 0..Len(env.frames) /\ call.next <= Len(was.env.frames)
            /\ call.next > 0 => was.to = call.sk /\ was.ctx = env.ctx
            /\ \E o \in Seq(Nat) :
                 /\ Cut(was.env.frames, was.data, o)
                 /\ o[Len(was.env.frames) + 1] = Len(was.data)
                 /\ call.out = SubSeq(was.data, 1, o[call.next + 1])
                 /\ Len(call.out) = o[call.next + 1]
                 /\ \A k \in 1..(Len(was.env.frames) + 1) : o[k] \in 0..Len(was.data)
            /\ env = own.env => own = was
<1> DEFINE env == store[call.of]
           was == sealed[env.kem.id]
           own == sealed[call.of]
<1>1. /\ call.of \in 1..Len(store) /\ call.next \in 0..Len(env.frames)
      /\ call.next <= Len(was.env.frames)
      /\ call.next > 0 => was.to = call.sk /\ was.ctx = env.ctx
      /\ \A o \in Seq(Nat) :
            Cut(was.env.frames, was.data, o) => call.out = SubSeq(was.data, 1, o[call.next + 1])
  BY DEF MediaInv, OpeningInv
<1>2. /\ Len(store) = Len(sealed) /\ FramedEnvelope(env, sealed)
      /\ \A i \in 1..Len(sealed) : FramedItem(i, sealed[i])
  BY <1>1 DEF MediaInv
<1>3. FramedItem(env.kem.id, was) /\ FramedItem(call.of, own)
  BY <1>1, <1>2 DEF FramedEnvelope
<1>4. env = own.env => own = was
  <2> HIDE DEF own
  <2>1. own.env.kem = Kem(own.to, call.of)
    BY <1>3 DEF FramedItem
  <2>2. own.env.kem.id = call.of
    BY <2>1 DEF Kem
  <2> QED BY <2>2 DEF own
<1> HIDE DEF env, was, own
<1>5. IsSeq(was.env.frames) /\ was.data \in Seq(Byte)
  BY <1>3 DEF FramedItem, Keyed
<1>6. Len(env.frames) \in Nat /\ Len(was.env.frames) \in Nat /\ Len(was.data) \in Nat
  BY <1>2, <1>5, IsSeqLen, LenProperties DEF FramedEnvelope
<1>7. PICK o \in Seq(Nat) : Cut(was.env.frames, was.data, o) /\ o[Len(o)] = Len(was.data)
  BY <1>3 DEF FramedItem
<1>8. \A k \in 1..(Len(was.env.frames) + 1) : o[k] \in 0..Len(was.data)
  BY <1>5, <1>7, CutOffsets
<1>9. o[Len(was.env.frames) + 1] = Len(was.data)
  BY <1>7 DEF Cut
<1>10. call.out = SubSeq(was.data, 1, o[call.next + 1])
  BY <1>1, <1>7
<1>11. o[call.next + 1] \in 0..Len(was.data)
  BY <1>1, <1>6, <1>8
<1>12. Len(SubSeq(was.data, 1, o[call.next + 1])) = o[call.next + 1]
  <2>1. \A i \in 1..o[call.next + 1] : was.data[i] \in Byte
    BY <1>5, <1>6, <1>11, ElementOfSeq
  <2> QED BY <2>1, <1>6, <1>11, SubSeqProperties
<1> QED BY <1>1, <1>2, <1>3, <1>4, <1>6, <1>7, <1>8, <1>9, <1>10, <1>12 DEF env, was, own

\* The frame that opens is the next one of the item that was sealed.
LEMMA OpenFrameFits ==
  ASSUME MediaInv, kind = "media", OpenFrame,
         LET env == store[call.of] IN
         Fits(env, Cek(env.kem, call.sk, env.ctx), env.frames[call.next + 1])
  PROVE  MediaInv'
<1> DEFINE env   == store[call.of]
           was   == sealed[env.kem.id]
           k     == call.next + 1
           frame == env.frames[k]
           out   == call.out \o frame.plain
<1>1. /\ call.op = "opening" /\ call.next < Len(env.frames)
      /\ call' = [call EXCEPT !.next = k, !.out = out]
      /\ UNCHANGED <<kind, sealed, store, result, faults>>
  BY DEF OpenFrame
<1>2. /\ call.of \in 1..Len(store) /\ call.next \in 0..Len(env.frames)
      /\ Len(env.frames) \in Nat /\ Len(was.data) \in Nat /\ Len(was.env.frames) \in Nat
      /\ FramedEnvelope(env, sealed) /\ FramedItem(env.kem.id, was)
  BY <1>1, Opening
<1>3. /\ \A i \in 1..Len(sealed) : FramedItem(i, sealed[i])
      /\ DOMAIN call = {"op", "of", "sk", "next", "out"} /\ env.v = 1
      /\ \A o \in Seq(Nat) :
            Cut(was.env.frames, was.data, o) => call.out = SubSeq(was.data, 1, o[k])
  BY <1>1 DEF MediaInv, OpeningInv
<1>4. k \in 1..Len(env.frames) /\ k > 0 /\ k - 1 = call.next
  BY <1>1, <1>2
<1>5. frame.key = FrameKey(Cek(env.kem, call.sk, env.ctx), k - 1)
  BY <1>4 DEF Fits
<1> HIDE DEF env, k
<1>6. /\ k \in 1..Len(was.env.frames) /\ frame = was.env.frames[k]
      /\ was.to = call.sk /\ was.ctx = env.ctx
  <2>1. FramedEnvelope(env, sealed) /\ k \in 1..Len(env.frames)
    BY <1>2, <1>4
  <2>2. OpensThere(env, k, call.sk)
    BY <1>4, <1>5 DEF OpensThere
  <2>3. AllFramed(sealed)
    BY <1>3 DEF AllFramed
  <2>4. SealedThere(sealed, env, k, call.sk)
    BY <2>1, <2>2, <2>3, FrameFound
  <2> QED BY ONLY <2>4 DEF SealedThere, was, frame
<1> HIDE DEF was, frame
<1>7. ASSUME NEW o \in Seq(Nat), Cut(was.env.frames, was.data, o)
      PROVE  out = SubSeq(was.data, 1, o[k + 1])
  <2>1. call.out = SubSeq(was.data, 1, o[k])
    BY <1>3, <1>7
  <2>2. /\ frame.plain = SubSeq(was.data, o[k] + 1, o[k + 1])
        /\ o[k] <= o[k + 1] /\ o[k + 1] <= Len(was.data)
    BY <1>6, <1>7 DEF Cut
  <2>3. was.data \in Seq(Byte) /\ IsSeq(was.env.frames)
    BY <1>2 DEF FramedItem, Keyed
  <2>4. o[k] \in 0..Len(was.data) /\ o[k + 1] \in 0..Len(was.data)
    <3>1. k \in 1..(Len(was.env.frames) + 1) /\ k + 1 \in 1..(Len(was.env.frames) + 1)
      BY <1>2, <1>6
    <3> QED BY <3>1, <2>3, <1>7, CutOffsets
  <2>5. /\ 1 \in 1..(Len(was.data) + 1) /\ o[k] \in (1 - 1)..Len(was.data)
        /\ o[k + 1] \in o[k]..Len(was.data)
    BY <2>2, <2>4, <1>2
  <2>6. SubSeq(was.data, 1, o[k]) \o SubSeq(was.data, o[k] + 1, o[k + 1])
          = SubSeq(was.data, 1, o[k + 1])
    BY <2>3, <2>5, ConcatAdjacentSubSeq
  <2> QED BY <2>1, <2>2, <2>6
<1> HIDE DEF out
<1>8. /\ DOMAIN call' = DOMAIN call /\ call'.op = "opening" /\ call'.of = call.of
      /\ call'.sk = call.sk /\ call'.next = k /\ call'.out = out
  BY <1>1, <1>3
<1>9. /\ store'[call'.of] = env /\ sealed'[store'[call'.of].kem.id] = was
      /\ call'.of \in 1..Len(store') /\ DOMAIN call' = {"op", "of", "sk", "next", "out"}
  BY <1>1, <1>2, <1>3, <1>8 DEF env, was
<1>10. /\ k \in 0..Len(env.frames) /\ k <= Len(was.env.frames)
  BY <1>2, <1>4, <1>6
<1>11. OpeningInv'
  BY <1>3, <1>6, <1>7, <1>8, <1>9, <1>10 DEF OpeningInv
<1>12. SealingInv'
  BY <1>8 DEF SealingInv
<1> QED BY <1>1, <1>8, <1>11, <1>12 DEF MediaInv, ByKem

\* What a call of openFramed leaves when it is over.
LEMMA FinishStep ==
  ASSUME MediaInv, kind = "media", call.op = "opening", NEW threw \in BOOLEAN, Finish(threw),
         UNCHANGED <<kind, sealed, store, faults>>,
         LET env == store[call.of] IN
         MediaResult([of |-> call.of, sk |-> call.sk, threw |-> threw,
                      data |-> IF threw THEN <<>> ELSE call.out],
                     env, sealed[env.kem.id], sealed[call.of])
  PROVE  MediaInv'
<1>1. /\ result' = [of |-> call.of, sk |-> call.sk, threw |-> threw,
                    data |-> IF threw THEN <<>> ELSE call.out]
      /\ call' = Idle /\ call'.op = "idle" /\ result'.of = call.of
  BY DEF Finish, Idle
<1>2. call.of \in 1..Len(store)
  BY DEF MediaInv, OpeningInv
<1>3. SealingInv' /\ OpeningInv'
  BY <1>1 DEF SealingInv, OpeningInv
<1>4. MediaResult(result', store'[result'.of], sealed'[store'[result'.of].kem.id],
                  sealed'[result'.of])
  BY <1>1
<1> QED BY <1>1, <1>2, <1>3, <1>4 DEF MediaInv, ByKem

\* A frame that does not open belongs to an envelope that was altered, or is not
\* opened by its reader.
LEMMA OpenFrameThrows ==
  ASSUME MediaInv, kind = "media", OpenFrame,
         LET env == store[call.of] IN
         ~Fits(env, Cek(env.kem, call.sk, env.ctx), env.frames[call.next + 1])
  PROVE  MediaInv'
<1> DEFINE env   == store[call.of]
           was   == sealed[env.kem.id]
           own   == sealed[call.of]
           k     == call.next + 1
           frame == env.frames[k]
<1>1. /\ call.op = "opening" /\ call.next < Len(env.frames) /\ Finish(TRUE)
      /\ UNCHANGED <<kind, sealed, store, faults>>
  BY DEF OpenFrame
<1>2. /\ Len(env.frames) \in Nat /\ Len(was.data) \in Nat /\ call.next \in 0..Len(env.frames)
      /\ FramedItem(call.of, own)
      /\ env = own.env => own = was
  BY <1>1, Opening
<1>3. PICK o \in Seq(Nat) :
        /\ Cut(was.env.frames, was.data, o)
        /\ Len(call.out) = o[k]
        /\ \A i \in 1..(Len(was.env.frames) + 1) : o[i] \in 0..Len(was.data)
  BY <1>1, Opening
<1>4. was.data \in Seq(Byte)
  BY <1>1, Opening DEF FramedItem
<1>5. ~Fits(env, Cek(env.kem, call.sk, env.ctx), frame)
  OBVIOUS
<1>6. k \in 1..Len(env.frames) /\ k - 1 = call.next
  BY <1>1, <1>2
<1> HIDE DEF env, was, own, frame, k
<1>7. ASSUME env = own.env, call.sk = own.to
      PROVE  FALSE
  <2>1. /\ own = was /\ k \in 1..Len(was.env.frames) /\ frame = was.env.frames[k]
        /\ env.kem = Kem(was.to, call.of) /\ env.ctx = was.ctx /\ env.size = Len(was.data)
        /\ Keyed(was.env.frames, was.to, call.of, was.ctx)
    BY <1>2, <1>6, <1>7 DEF FramedItem, frame
  <2>2. frame.key = FrameKey(Cek(env.kem, call.sk, env.ctx), call.next)
    BY <2>1, <1>6, <1>7 DEF Keyed
  <2>3. /\ frame.plain = SubSeq(was.data, o[k] + 1, o[k + 1])
        /\ o[k] <= o[k + 1] /\ o[k + 1] <= Len(was.data)
    BY <2>1, <1>3 DEF Cut
  <2>4. o[k] \in 0..Len(was.data) /\ o[k + 1] \in 0..Len(was.data)
    <3>1. Len(was.env.frames) \in Nat
      BY <2>1, IsSeqLen DEF Keyed
    <3>2. k \in 1..(Len(was.env.frames) + 1) /\ k + 1 \in 1..(Len(was.env.frames) + 1)
      BY <3>1, <2>1
    <3> QED BY <3>2, <1>3
  <2>5. Len(frame.plain) = o[k + 1] - o[k]
    <3>1. \A i \in (o[k] + 1)..o[k + 1] : was.data[i] \in Byte
      BY <1>2, <1>4, <2>4, ElementOfSeq
    <3>2. Len(SubSeq(was.data, o[k] + 1, o[k + 1]))
            = IF o[k] + 1 <= o[k + 1] THEN o[k + 1] - (o[k] + 1) + 1 ELSE 0
      BY <3>1, <2>4, SubSeqProperties
    <3> QED BY <3>2, <2>3, <2>4
  <2>6. Len(call.out) + Len(frame.plain) <= env.size
    BY <1>2, <1>3, <2>1, <2>3, <2>4, <2>5
  <2> QED BY <1>5, <2>2, <2>6 DEF Fits
<1>8. MediaResult([of |-> call.of, sk |-> call.sk, threw |-> TRUE,
                   data |-> IF TRUE THEN <<>> ELSE call.out], env, was, own)
  BY <1>7 DEF MediaResult
<1> QED BY <1>1, <1>8, FinishStep DEF env, was, own

\* The end of openFramed's loop, where the size is compared.
LEMMA OpenEndsStep ==
  ASSUME MediaInv, kind = "media", OpenEnds
  PROVE  MediaInv'
<1> DEFINE env == store[call.of]
           was == sealed[env.kem.id]
           own == sealed[call.of]
           n   == call.next
           threw == ~WholeSize(env)
<1>1. /\ call.op = "opening" /\ n = Len(env.frames) /\ Finish(threw)
      /\ UNCHANGED <<kind, sealed, store, faults>>
  BY DEF OpenEnds
<1>2. /\ Len(env.frames) \in Nat /\ Len(was.data) \in Nat /\ Len(was.env.frames) \in Nat
      /\ n <= Len(was.env.frames)
      /\ n > 0 => was.to = call.sk /\ was.ctx = env.ctx
      /\ FramedItem(call.of, own) /\ FramedItem(env.kem.id, was)
      /\ FramedEnvelope(env, sealed)
      /\ env = own.env => own = was
  BY <1>1, Opening
<1>3. PICK o \in Seq(Nat) :
        /\ o[Len(was.env.frames) + 1] = Len(was.data)
        /\ call.out = SubSeq(was.data, 1, o[n + 1])
        /\ Len(call.out) = o[n + 1]
        /\ \A i \in 1..(Len(was.env.frames) + 1) : o[i] \in 0..Len(was.data)
  BY <1>1, Opening
<1>4. was.data \in Seq(Byte)
  BY <1>2 DEF FramedItem
<1>5. threw \in BOOLEAN /\ (threw <=> Len(call.out) # env.size)
  BY DEF WholeSize
<1>6. env.frames # <<>> => n > 0
  BY <1>1, <1>2, EmptySeq DEF FramedEnvelope
<1> HIDE DEF env, was, own, threw
<1>7. o[n + 1] \in 0..Len(was.data)
  BY <1>1, <1>2, <1>3, SMTT(30)
<1>8. IsPrefix(call.out, was.data)
  BY <1>3, <1>7, <1>2, SubSeqFull, SlicesStay, <1>4 DEF IsPrefix
<1>9. Len(call.out) = Len(was.data) => call.out = was.data
  BY <1>3, <1>4, SubSeqFull
<1>10. ~threw /\ env.size = Len(was.data) => call.out = was.data
  BY <1>5, <1>9
<1>11. ASSUME env = own.env, call.sk = own.to
       PROVE  ~threw /\ call.out = own.data
  <2>1. own = was /\ n = Len(was.env.frames) /\ env.size = Len(was.data)
    BY <1>1, <1>2, <1>11 DEF FramedItem
  <2> QED BY <2>1, <1>3, <1>5, <1>9
<1>12. MediaResult([of |-> call.of, sk |-> call.sk, threw |-> threw,
                    data |-> IF threw THEN <<>> ELSE call.out], env, was, own)
  BY <1>2, <1>5, <1>6, <1>8, <1>10, <1>11 DEF MediaResult
<1> QED BY <1>1, <1>5, <1>12, FinishStep DEF env, was, own


LEMMA MediaAlterStep ==
  ASSUME MediaInv, kind = "media", NEW i \in Items, NEW j \in Items, Alter(i, j)
  PROVE  MediaInv'
<1>1. PICK new \in AlteredMedia(store[i], store[j]) :
        /\ store' = [store EXCEPT ![i] = new]
        /\ result' = Nothing /\ call = Idle
        /\ UNCHANGED <<kind, sealed, call>>
  BY DEF Alter
<1>2. /\ IsSeq(store) /\ FramedEnvelope(store[i], sealed) /\ FramedEnvelope(store[j], sealed)
      /\ i \in 1..Len(store)
  BY DEF MediaInv, Items
<1>3. FramedEnvelope(new, sealed)
  BY <1>2, MediaAltered
<1>4. /\ IsSeq(store') /\ Len(store') = Len(store)
      /\ \A k \in 1..Len(store) : store'[k] = IF k = i THEN new ELSE store[k]
  <2>1. store' = ReplaceAt(store, i, new)
    BY <1>1 DEF ReplaceAt
  <2> QED BY <2>1, <1>2, ReplaceIsSeq
<1>5. \A k \in 1..Len(store') : FramedEnvelope(store'[k], sealed')
  BY <1>1, <1>3, <1>4 DEF MediaInv
<1>6. SealingInv' /\ OpeningInv' /\ call'.op = "idle"
  BY <1>1 DEF SealingInv, OpeningInv, Idle
<1> QED BY <1>1, <1>4, <1>5, <1>6 DEF MediaInv

LEMMA MediaStep ==
  ASSUME MediaInv, [Next]_vars
  PROVE  MediaInv'
<1> SUFFICES ASSUME kind' = "media"
             PROVE  MediaInv'
  BY DEF MediaInv
<1>k. kind = "media" /\ kind' = kind
  BY KindKept
<1>1. CASE SealMedia
  BY <1>1, <1>k, SealMediaStep
<1>2. CASE SealFrame
  BY <1>2, <1>k, FrameSealed, LastFrameSealed
<1>3. ASSUME NEW i \in Items, OpenMedia(i)
      PROVE  MediaInv'
  BY <1>3, <1>k, OpenMediaStep
<1>4. CASE OpenFrame
  BY <1>4, <1>k, OpenFrameFits, OpenFrameThrows
<1>5. CASE OpenEnds
  BY <1>5, <1>k, OpenEndsStep
<1>6. ASSUME NEW i \in Items, NEW j \in Items, Alter(i, j)
      PROVE  MediaInv'
  BY <1>6, <1>k, MediaAlterStep
<1>7. CASE UNCHANGED vars
  BY <1>7, <1>k DEF MediaInv, SealingInv, OpeningInv, ByKem, vars
<1>8. /\ ~SealSigned /\ ~SealFields /\ ~SealField /\ ~FieldsSealed /\ ~IssueAttestation
      /\ ~OpenFieldsAgain
      /\ \A i \in Items : ~OpenWebhook(i) /\ ~OpenFields(i) /\ ~VerifyAttestation(i)
  BY <1>k DEF SealSigned, SealFields, SealField, FieldsSealed, IssueAttestation, OpenFieldsAgain,
     OpenWebhook, OpenFields, OpenDocument, VerifyAttestation
<1> QED BY <1>1, <1>2, <1>3, <1>4, <1>5, <1>6, <1>7, <1>8 DEF Next, Seals, Openings

\* Media that opens gives bytes of the item it was sealed as, and all of them when
\* nothing was altered.
LEMMA MediaOpensAsSealed ==
  ASSUME MediaInv
  PROVE  MediaAsSealed
BY DEF MediaInv, MediaResult, MediaAsSealed

LEMMA MediaRoundTrips ==
  ASSUME MediaInv, kind = "media"
  PROVE  RoundTrip
<1>1. result # Nothing /\ store[result.of] = sealed[result.of].env
        /\ result.sk = sealed[result.of].to
      => ~result.threw /\ result.data = sealed[result.of].data
  BY DEF MediaInv, MediaResult
<1> QED BY <1>1 DEF RoundTrip

\* A frame's key names the encapsulation and the position it was made for.
LEMMA FrameKeysDiffer ==
  ASSUME MediaInv
  PROVE  FrameKeysUsedOnce
<1> SUFFICES ASSUME kind = "media", NEW i \in DOMAIN sealed, NEW j \in DOMAIN sealed,
                    NEW k \in 1..Len(sealed[i].env.frames),
                    NEW l \in 1..Len(sealed[j].env.frames),
                    sealed[i].env.frames[k].key = sealed[j].env.frames[l].key
             PROVE  i = j /\ k = l
  BY DEF FrameKeysUsedOnce
<1>1. IsSeq(sealed)
  BY DEF MediaInv
<1>2. FramedItem(i, sealed[i]) /\ FramedItem(j, sealed[j])
  BY <1>1, IsSeqLen DEF MediaInv
<1> DEFINE a == sealed[i]
           b == sealed[j]
<1>3. /\ a.env.frames[k].key = FrameKey(Cek(Kem(a.to, i), a.to, a.ctx), k - 1)
      /\ b.env.frames[l].key = FrameKey(Cek(Kem(b.to, j), b.to, b.ctx), l - 1)
  BY <1>2 DEF FramedItem, Keyed
<1>4. FrameKey(Cek(Kem(a.to, i), a.to, a.ctx), k - 1)
        = FrameKey(Cek(Kem(b.to, j), b.to, b.ctx), l - 1)
  BY <1>3
<1> HIDE DEF a, b
<1>5. Cek(Kem(a.to, i), a.to, a.ctx) = Cek(Kem(b.to, j), b.to, b.ctx) /\ k - 1 = l - 1
  BY <1>4 DEF FrameKey
<1>6. Kem(a.to, i) = Kem(b.to, j)
  BY <1>5 DEF Cek
<1> QED BY <1>5, <1>6 DEF Kem

-----------------------------------------------------------------------------
(***************************************************************************)
(* Documents.                                                              *)
(***************************************************************************)

\* Field v of a document some of whose fields are sealed, w in the original.
FieldShape(v, w) ==
  \/ IsSealed(v)
  \/ w.t # "obj" /\ v = w
  \/ /\ w.t = "obj" /\ v.t = "obj" /\ DOMAIN v = {"t", "f"} /\ DOMAIN v.f = DOMAIN w.f
     /\ \A l \in DOMAIN w.f : IsSealed(v.f[l]) \/ v.f[l] = w.f[l]

DocumentShape(doc) ==
  /\ DOMAIN doc = {"t", "f"} /\ doc.t = "obj" /\ DOMAIN doc.f = DOMAIN Document.f
  /\ \A k \in DOMAIN Document.f : FieldShape(doc.f[k], Document.f[k])

\* The value at a path is under a seal, its own or that of the object it is in.
Covered(doc, path) ==
  Exists(Document, path) =>
    \/ IsSealed(doc.f[path[1]])
    \/ Len(path) = 2 /\ doc.f[path[1]].t = "obj" /\ IsSealed(doc.f[path[1]].f[path[2]])

\* sealFields: the paths are covered except those that are left.
DocumentInv ==
  kind = "document" =>
    /\ IsSeq(sealed)
    /\ \A i \in 1..Len(sealed) :
          /\ sealed[i].paths \in Seq(Paths)
          /\ DocumentShape(sealed[i].env)
          /\ \A path \in ToSet(sealed[i].paths) : Covered(sealed[i].env, path)
    /\ call.op \in {"idle", "sealing"}
    /\ call.op = "sealing" =>
          /\ DOMAIN call = {"op", "to", "doc", "paths", "left"}
          /\ call.paths \in Seq(Paths) /\ call.left \in Seq(Paths)
          /\ DocumentShape(call.doc)
          /\ \A path \in ToSet(call.paths) : path \in ToSet(call.left) \/ Covered(call.doc, path)

LEMMA PathSteps ==
  ASSUME NEW path \in Paths, NEW doc
  PROVE  \/ Len(path) = 1 /\ (Exists(doc, path) <=> path[1] \in DOMAIN Fields(doc))
         \/ /\ Len(path) = 2
            /\ Exists(doc, path) <=>
                 /\ path[1] \in DOMAIN Fields(doc)
                 /\ path[2] \in DOMAIN Fields(Fields(doc)[path[1]])
<1>1. CASE Len(path) = 1
  BY <1>1 DEF Exists, Parent, Last
<1>2. CASE Len(path) = 2
  <2>1. Fields(Undefined) = <<>> /\ DOMAIN <<>> = {}
    BY DEF Fields, Undefined
  <2>2. Exists(doc, path) <=> path[2] \in DOMAIN Fields(Parent(doc, path))
    BY <1>2 DEF Exists, Last
  <2>3. CASE path[1] \in DOMAIN Fields(doc)
    BY <2>2, <2>3, <1>2 DEF Parent
  <2>4. CASE path[1] \notin DOMAIN Fields(doc)
    BY <2>1, <2>2, <2>4, <1>2 DEF Parent
  <2> QED BY <2>3, <2>4, <1>2
<1> QED BY <1>1, <1>2, DocumentAssumption

\* Sealing the field at a path covers it and uncovers nothing.
LEMMA PutCovers ==
  ASSUME NEW doc, DocumentShape(doc), NEW path \in Paths, Exists(doc, path),
         NEW s, IsSealed(s)
  PROVE  /\ DocumentShape(Put(doc, path, s))
         /\ Covered(Put(doc, path, s), path)
         /\ \A p \in Paths : Covered(doc, p) => Covered(Put(doc, path, s), p)
<1> DEFINE new == Put(doc, path, s)
           a   == path[1]
<1>1. Fields(doc) = doc.f /\ DOMAIN doc.f = DOMAIN Document.f
  BY DEF DocumentShape, Fields
<1>2. ASSUME a \in DOMAIN doc.f, DOMAIN new = {"t", "f"}, new.t = "obj",
             NEW v, new.f = [doc.f EXCEPT ![a] = v],
             FieldShape(v, Document.f[a]),
             IsSealed(v) \/ (Len(path) = 2 /\ v.t = "obj" /\ IsSealed(v.f[path[2]])),
             \A p \in Paths : Covered(doc, p) /\ Exists(Document, p) /\ p[1] = a =>
                IsSealed(v) \/ (Len(p) = 2 /\ v.t = "obj" /\ IsSealed(v.f[p[2]]))
      PROVE  /\ DocumentShape(new) /\ Covered(new, path)
             /\ \A p \in Paths : Covered(doc, p) => Covered(new, p)
  <2> HIDE DEF new, a
  <2>1. /\ DOMAIN new.f = DOMAIN doc.f
        /\ \A k \in DOMAIN doc.f : new.f[k] = IF k = a THEN v ELSE doc.f[k]
    BY <1>2
  <2>2. DocumentShape(new)
    BY <1>1, <1>2, <2>1 DEF DocumentShape
  <2>3. Covered(new, path)
    BY <1>2, <2>1 DEF Covered, a
  <2>4. ASSUME NEW p \in Paths, Covered(doc, p), Exists(Document, p)
        PROVE  Covered(new, p)
    <3>1. p[1] \in DOMAIN doc.f
      BY <2>4, <1>1, PathSteps, DocumentAssumption DEF Fields, Obj
    <3>2. CASE p[1] = a
      BY <3>1, <3>2, <2>1, <2>4, <1>2 DEF Covered
    <3>3. CASE p[1] # a
      BY <3>1, <3>3, <2>1, <2>4 DEF Covered
    <3> QED BY <3>2, <3>3
  <2>5. ASSUME NEW p \in Paths, Covered(doc, p)
        PROVE  Covered(new, p)
    <3>1. CASE Exists(Document, p)
      BY <3>1, <2>4, <2>5
    <3>2. CASE ~Exists(Document, p)
      BY <3>2 DEF Covered
    <3> QED BY <3>1, <3>2
  <2> QED BY <2>2, <2>3, <2>5
<1>3. CASE Len(path) = 1
  <2>1. a \in DOMAIN doc.f
    BY <1>1, <1>3, PathSteps
  <2>2. DOMAIN new = {"t", "f"} /\ new.t = "obj" /\ new.f = [doc.f EXCEPT ![a] = s]
    BY <1>3 DEF Put, DocumentShape
  <2>3. FieldShape(s, Document.f[a])
    BY DEF FieldShape
  <2> QED BY <2>1, <2>2, <2>3, <1>2
<1>4. CASE Len(path) = 2
  <2> DEFINE b == path[2]
             v == [doc.f[a] EXCEPT !.f[b] = s]
             w == Document.f[a]
  <2>1. a \in DOMAIN doc.f /\ b \in DOMAIN Fields(doc.f[a])
    BY <1>1, <1>4, PathSteps
  <2>2. doc.f[a].t = "obj" /\ b \in DOMAIN doc.f[a].f
    <3>1. DOMAIN <<>> = {}
      OBVIOUS
    <3> QED BY <3>1, <2>1 DEF Fields
  <2>3. /\ w.t = "obj" /\ DOMAIN doc.f[a] = {"t", "f"} /\ DOMAIN doc.f[a].f = DOMAIN w.f
        /\ \A l \in DOMAIN w.f : IsSealed(doc.f[a].f[l]) \/ doc.f[a].f[l] = w.f[l]
    BY <2>1, <2>2, <1>1 DEF DocumentShape, FieldShape, IsSealed
  <2>4. /\ DOMAIN v = {"t", "f"} /\ v.t = "obj" /\ DOMAIN v.f = DOMAIN w.f
        /\ \A l \in DOMAIN w.f : v.f[l] = IF l = b THEN s ELSE doc.f[a].f[l]
    BY <2>2, <2>3
  <2>5. DOMAIN new = {"t", "f"} /\ new.t = "obj" /\ new.f = [doc.f EXCEPT ![a] = v]
    BY <1>4, <2>1, <2>2, <2>3 DEF Put, DocumentShape
  <2> HIDE DEF v, w
  <2>6. FieldShape(v, w)
    BY <2>3, <2>4 DEF FieldShape
  <2>7. IsSealed(v.f[b])
    BY <2>2, <2>3, <2>4
  <2>8. ASSUME NEW p \in Paths, Covered(doc, p), Exists(Document, p), p[1] = a
        PROVE  Len(p) = 2 /\ IsSealed(v.f[p[2]])
    <3>1. Len(p) = 2 /\ IsSealed(doc.f[a].f[p[2]])
      BY <2>2, <2>8 DEF Covered, IsSealed
    <3>2. p[2] \in DOMAIN w.f
      BY <3>1, <2>3, <2>8, PathSteps, DocumentAssumption DEF Fields, Obj, w
    <3> QED BY <3>1, <3>2, <2>4
  <2> QED BY <1>2, <1>4, <2>1, <2>4, <2>5, <2>6, <2>7, <2>8 DEF w
<1> QED BY <1>3, <1>4, DocumentAssumption

\* One path of sealFields' loop.
LEMMA FieldStep ==
  ASSUME NEW doc, DocumentShape(doc), NEW path \in Paths, NEW to, NEW id, NEW new,
         new = IF Exists(doc, path) THEN FieldSealed(doc, path, to, id) ELSE doc
  PROVE  /\ DocumentShape(new)
         /\ Covered(new, path)
         /\ \A p \in Paths : Covered(doc, p) => Covered(new, p)
<1>1. CASE Exists(doc, path)
  <2> DEFINE s == SealedField(Envelope(to, id, Json(At(doc, path)), FieldContext(path)))
  <2>1. IsSealed(s)
    BY DEF IsSealed, SealedField
  <2>2. new = Put(doc, path, s)
    BY <1>1 DEF FieldSealed
  <2> HIDE DEF s
  <2> QED BY <1>1, <2>1, <2>2, PutCovers
<1>2. CASE ~Exists(doc, path)
  <2>1. ASSUME Exists(Document, path)
        PROVE  IsSealed(doc.f[path[1]])
    <3>1. Fields(doc) = doc.f /\ Fields(Document) = Document.f
      BY DocumentAssumption DEF DocumentShape, Fields, IsObj, Obj
    <3>2. path[1] \in DOMAIN Document.f /\ path[1] \in DOMAIN doc.f
      BY <2>1, <3>1, PathSteps DEF DocumentShape
    <3>3. Len(path) = 2 /\ path[2] \in DOMAIN Fields(Document.f[path[1]])
              /\ path[2] \notin DOMAIN Fields(doc.f[path[1]])
      BY <1>2, <2>1, <3>1, <3>2, PathSteps
    <3> QED BY <3>2, <3>3 DEF DocumentShape, FieldShape, Fields
  <2> QED BY <1>2, <2>1 DEF Covered
<1> QED BY <1>1, <1>2

LEMMA DocumentStep ==
  ASSUME DocumentInv, [Next]_vars
  PROVE  DocumentInv'
<1> SUFFICES ASSUME kind' = "document"
             PROVE  DocumentInv'
  BY DEF DocumentInv
<1>k. kind = "document" /\ kind' = kind
  BY KindKept
<1>1. CASE SealFields
  <2>1. PICK to \in Recipients, paths \in SeqOf(Paths, MaxPaths) :
          /\ call' = [op |-> "sealing", to |-> to, doc |-> Document, paths |-> paths,
                      left |-> paths]
          /\ UNCHANGED <<kind, sealed, store, result, faults>>
    BY <1>1 DEF SealFields
  <2>2. paths \in Seq(Paths)
    <3>1. PICK m \in 0..MaxPaths : paths \in [1..m -> Paths]
      BY DEF SeqOf
    <3>2. m \in Nat
      BY SealAssumption
    <3> QED BY <3>1, <3>2, SeqDef
  <2>3. DocumentShape(Document)
    BY DocumentAssumption DEF DocumentShape, FieldShape, IsObj, Obj
  <2> QED BY <1>k, <2>1, <2>2, <2>3 DEF DocumentInv
<1>2. CASE SealField
  <2> DEFINE path == Head(call.left)
             id   == <<Len(store) + 1, Len(call.left)>>
             new  == IF Exists(call.doc, path)
                     THEN FieldSealed(call.doc, path, call.to, id) ELSE call.doc
  <2>1. /\ call.op = "sealing" /\ call.left # <<>>
        /\ call' = [call EXCEPT !.left = Tail(call.left), !.doc = new]
        /\ UNCHANGED <<kind, sealed, store, result, faults>>
    BY <1>2 DEF SealField
  <2>2. /\ DOMAIN call = {"op", "to", "doc", "paths", "left"}
        /\ call.paths \in Seq(Paths) /\ call.left \in Seq(Paths)
        /\ DocumentShape(call.doc)
        /\ \A p \in ToSet(call.paths) : p \in ToSet(call.left) \/ Covered(call.doc, p)
    BY <1>k, <2>1 DEF DocumentInv
  <2>3. path \in Paths /\ Tail(call.left) \in Seq(Paths)
    BY <2>1, <2>2, HeadTailProperties
  <2>4. \A p \in ToSet(call.left) : p = path \/ p \in ToSet(Tail(call.left))
    <3> SUFFICES ASSUME NEW i \in 1..Len(call.left), i # 1
                 PROVE  \E l \in DOMAIN Tail(call.left) : Tail(call.left)[l] = call.left[i]
      BY <2>1, <2>2, LenProperties DEF ToSet
    <3>1. /\ Len(call.left) \in Nat /\ Len(Tail(call.left)) = Len(call.left) - 1
          /\ DOMAIN Tail(call.left) = 1..Len(Tail(call.left))
          /\ \A l \in 1..Len(Tail(call.left)) : Tail(call.left)[l] = call.left[l + 1]
      BY <2>1, <2>2, <2>3, LenProperties, HeadTailProperties
    <3>2. i - 1 \in 1..Len(Tail(call.left)) /\ (i - 1) + 1 = i
      BY <3>1
    <3> QED BY <3>1, <3>2
  <2> HIDE DEF path, id
  <2>5. /\ DocumentShape(new) /\ Covered(new, path)
        /\ \A p \in Paths : Covered(call.doc, p) => Covered(new, p)
    <3>1. new = IF Exists(call.doc, path) THEN FieldSealed(call.doc, path, call.to, id)
                ELSE call.doc
      OBVIOUS
    <3> HIDE DEF new
    <3> QED BY <3>1, <2>2, <2>3, FieldStep
  <2> HIDE DEF new
  <2>6. ToSet(call.paths) \subseteq Paths
    BY <2>2, LenProperties, ElementOfSeq DEF ToSet
  <2>7. \A p \in ToSet(call.paths) : p \in ToSet(Tail(call.left)) \/ Covered(new, p)
    BY <2>2, <2>4, <2>5, <2>6
  <2>8. /\ call'.op = "sealing" /\ DOMAIN call' = DOMAIN call /\ call'.paths = call.paths
        /\ call'.left = Tail(call.left) /\ call'.doc = new
    BY <2>1, <2>2
  <2> QED BY <1>k, <2>1, <2>2, <2>3, <2>5, <2>7, <2>8 DEF DocumentInv
<1>3. CASE FieldsSealed
  <2> DEFINE item == [to |-> call.to, paths |-> call.paths, data |-> Document, env |-> call.doc]
  <2>1. /\ call.op = "sealing" /\ call.left = <<>>
        /\ sealed' = Append(sealed, item) /\ call' = Idle /\ call'.op = "idle"
    BY <1>3 DEF FieldsSealed, Idle
  <2>2. /\ item.paths \in Seq(Paths) /\ DocumentShape(item.env)
        /\ \A p \in ToSet(item.paths) : p \in ToSet(call.left) \/ Covered(item.env, p)
    BY <1>k, <2>1 DEF DocumentInv
  <2>3. ToSet(<<>>) = {}
    BY DEF ToSet
  <2> HIDE DEF item
  <2>4. IsSeq(sealed) /\ Len(sealed) \in Nat
    BY <1>k, IsSeqLen DEF DocumentInv
  <2>5. /\ IsSeq(sealed') /\ Len(sealed') = Len(sealed) + 1
        /\ \A i \in 1..Len(sealed) : sealed'[i] = sealed[i]
        /\ sealed'[Len(sealed) + 1] = item
    BY <2>1, <2>4, AppendIsSeq
  <2>6. \A i \in 1..Len(sealed') :
          /\ sealed'[i].paths \in Seq(Paths)
          /\ DocumentShape(sealed'[i].env)
          /\ \A p \in ToSet(sealed'[i].paths) : Covered(sealed'[i].env, p)
    <3> TAKE i \in 1..Len(sealed')
    <3>1. CASE i = Len(sealed) + 1
      BY <3>1, <2>1, <2>2, <2>3, <2>5
    <3>2. CASE i # Len(sealed) + 1
      <4>1. i \in 1..Len(sealed) /\ sealed'[i] = sealed[i]
        BY <3>2, <2>4, <2>5
      <4> QED BY <4>1, <1>k DEF DocumentInv
    <3> QED BY <3>1, <3>2
  <2> QED BY <1>k, <2>1, <2>5, <2>6 DEF DocumentInv
<1>4. ASSUME UNCHANGED <<sealed, call>>
      PROVE  DocumentInv'
  BY <1>4, <1>k DEF DocumentInv
<1>5. ASSUME NEW i \in Items, OpenFields(i) \/ \E j \in Items : Alter(i, j)
      PROVE  UNCHANGED <<sealed, call>>
  BY <1>5 DEF OpenFields, OpenDocument, Alter
<1>6. CASE OpenFieldsAgain \/ UNCHANGED vars
  BY <1>4, <1>6 DEF OpenFieldsAgain, OpenDocument, vars
<1>7. ~SealSigned /\ ~SealMedia /\ ~SealFrame /\ ~IssueAttestation
      /\ \A i \in Items : ~OpenWebhook(i) /\ ~OpenMedia(i) /\ ~VerifyAttestation(i)
  BY <1>k DEF SealSigned, SealMedia, SealFrame, IssueAttestation, OpenWebhook, OpenMedia,
     VerifyAttestation
<1>8. ~OpenFrame /\ ~OpenEnds
  BY <1>k DEF OpenFrame, OpenEnds, DocumentInv
<1> QED BY <1>1, <1>2, <1>3, <1>4, <1>5, <1>6, <1>7, <1>8 DEF Next, Seals, Openings

\* A text of the document occurs in it once: a text that is also in a field that is
\* not sealed can be read there.
TextsDiffer ==
  \A k, m \in DOMAIN Document.f :
    /\ k # m => Readable(Contents(Document.f[k])) \cap Readable(Contents(Document.f[m])) = {}
    /\ Document.f[k].t = "obj" =>
         \A l, n \in DOMAIN Document.f[k].f :
            l # n => Readable({Document.f[k].f[l]}) \cap Readable({Document.f[k].f[n]}) = {}

\* The readable nodes of a document some of whose fields are sealed are those of
\* the original, where they were.
LEMMA NodesInPlace ==
  ASSUME NEW doc, DocumentShape(doc), NEW v \in Nodes(doc), ~IsSealed(v)
  PROVE  \E k \in DOMAIN Document.f :
           \/ v = doc.f[k] /\ v = Document.f[k]
           \/ doc.f[k].t = "obj" /\ v = doc.f[k]
           \/ /\ doc.f[k].t = "obj" /\ Document.f[k].t = "obj"
              /\ \E l \in DOMAIN Document.f[k].f :
                    l \in DOMAIN doc.f[k].f /\ v = doc.f[k].f[l] /\ v = Document.f[k].f[l]
<1>1. CASE v \in {doc.f[k] : k \in DOMAIN doc.f}
  BY <1>1 DEF DocumentShape, FieldShape
<1>2. CASE v \notin {doc.f[k] : k \in DOMAIN doc.f}
  <2>1. PICK k \in DOMAIN doc.f :
          doc.f[k].t = "obj" /\ \E l \in DOMAIN doc.f[k].f : v = doc.f[k].f[l]
    BY <1>2 DEF Nodes
  <2>2. PICK l \in DOMAIN doc.f[k].f : v = doc.f[k].f[l]
    BY <2>1
  <2>3. k \in DOMAIN Document.f /\ Document.f[k].t = "obj" /\ l \in DOMAIN Document.f[k].f
          /\ v = Document.f[k].f[l]
    BY <2>1, <2>2 DEF DocumentShape, FieldShape, IsSealed
  <2> QED BY <2>1, <2>2, <2>3
<1> QED BY <1>1, <1>2

\* There is nothing below the second level.
LEMMA TwoLevels ==
  ASSUME NEW k \in DOMAIN Document.f, Document.f[k].t = "obj", NEW l \in DOMAIN Document.f[k].f
  PROVE  Contents(Document.f[k].f[l]) = {Document.f[k].f[l]}
<1> DEFINE v == Document.f[k].f[l]
<1>1. v.t \in {"leaf", "date", "undefined"}
  BY DocumentAssumption
<1> HIDE DEF v
<1>2. Fields(v) = <<>>
  BY <1>1 DEF Fields
<1>3. DOMAIN <<>> = {}
  OBVIOUS
<1>4. Contents(v) = {v}
  BY <1>2, <1>3 DEF Contents
<1> QED BY <1>4 DEF v

\* What a covered path leads to cannot be read.
LEMMA CoveredIsHidden ==
  ASSUME TextsDiffer, NEW doc, DocumentShape(doc), NEW p \in Paths, Exists(Document, p),
         Covered(doc, p)
  PROVE  Readable(Contents(At(Document, p))) \cap Readable(Nodes(doc)) = {}
<1> SUFFICES ASSUME NEW x \in Readable(Contents(At(Document, p))), x \in Readable(Nodes(doc))
             PROVE  FALSE
  OBVIOUS
<1>1. PICK v \in Nodes(doc) : v.t \in {"leaf", "date"} /\ x = v.x
  BY DEF Readable
<1>2. PICK k \in DOMAIN Document.f :
           \/ v = doc.f[k] /\ v = Document.f[k]
           \/ doc.f[k].t = "obj" /\ v = doc.f[k]
           \/ /\ doc.f[k].t = "obj" /\ Document.f[k].t = "obj"
              /\ \E l \in DOMAIN Document.f[k].f :
                    l \in DOMAIN doc.f[k].f /\ v = doc.f[k].f[l] /\ v = Document.f[k].f[l]
  BY <1>1, NodesInPlace DEF IsSealed
<1> DEFINE a == p[1]
           w == Document.f[a]
<1>3. Fields(Document) = Document.f
  BY DocumentAssumption DEF Fields, IsObj, Obj
<1>4. a \in DOMAIN Document.f
  BY <1>3, PathSteps
<1>5. \/ Len(p) = 1 /\ At(Document, p) = w
      \/ /\ Len(p) = 2 /\ w.t = "obj" /\ p[2] \in DOMAIN w.f /\ At(Document, p) = w.f[p[2]]
  <2>1. CASE Len(p) = 1
    BY <2>1, <1>3 DEF At, Parent, Last
  <2>2. CASE Len(p) = 2
    <3>1. p[2] \in DOMAIN Fields(w)
      BY <2>2, <1>3, PathSteps
    <3>2. w.t = "obj" /\ Fields(w) = w.f
      <4>1. DOMAIN <<>> = {}
        OBVIOUS
      <4> QED BY <3>1, <4>1 DEF Fields
    <3> QED BY <2>2, <1>3, <1>4, <3>1, <3>2 DEF At, Parent, Last
  <2> QED BY <2>1, <2>2, DocumentAssumption
<1>6. x \in Readable(Contents(w))
  <2>1. CASE At(Document, p) = w
    BY <2>1
  <2>2. CASE Len(p) = 2 /\ w.t = "obj" /\ p[2] \in DOMAIN w.f /\ At(Document, p) = w.f[p[2]]
    <3>1. Contents(w.f[p[2]]) = {w.f[p[2]]}
      BY <2>2, <1>4, TwoLevels
    <3>2. w.f[p[2]] \in Contents(w)
      BY <2>2 DEF Contents, Fields
    <3> QED BY <2>2, <3>1, <3>2 DEF Readable
  <2> QED BY <1>5, <2>1, <2>2
<1>7. x \in Readable(Contents(Document.f[k]))
  <2>1. CASE v = Document.f[k]
    BY <2>1, <1>1 DEF Readable, Contents
  <2>2. ASSUME NEW l \in DOMAIN Document.f[k].f, Document.f[k].t = "obj", v = Document.f[k].f[l]
        PROVE  x \in Readable(Contents(Document.f[k]))
    BY <2>2, <1>1 DEF Readable, Contents, Fields
  <2> QED BY <1>1, <1>2, <2>1, <2>2
<1>8. k = a
  BY <1>4, <1>6, <1>7 DEF TextsDiffer
<1>9. PICK l \in DOMAIN w.f :
        /\ doc.f[a].t = "obj" /\ w.t = "obj"
        /\ l \in DOMAIN doc.f[a].f /\ v = doc.f[a].f[l] /\ v = w.f[l]
  BY <1>1, <1>2, <1>8 DEF Covered, IsSealed
<1>10. Len(p) = 2 /\ IsSealed(doc.f[a].f[p[2]]) /\ l # p[2]
  BY <1>1, <1>9 DEF Covered, IsSealed
<1>11. x \in Readable({w.f[p[2]]}) /\ x \in Readable({w.f[l]}) /\ p[2] \in DOMAIN w.f
  <2>1. At(Document, p) = w.f[p[2]] /\ p[2] \in DOMAIN w.f
    BY <1>5, <1>10
  <2>2. Contents(w.f[p[2]]) = {w.f[p[2]]}
    BY <2>1, <1>4, <1>9, TwoLevels
  <2> QED BY <1>1, <1>9, <2>1, <2>2 DEF Readable
<1> QED BY <1>4, <1>9, <1>10, <1>11 DEF TextsDiffer

LEMMA SealedFieldsHidden ==
  ASSUME TextsDiffer, DocumentInv
  PROVE  FieldsHidden
<1> SUFFICES ASSUME kind = "document", NEW i \in DOMAIN sealed,
                    NEW p \in ToSet(sealed[i].paths), Exists(Document, p)
             PROVE  Readable(Contents(At(Document, p))) \cap Readable(Nodes(sealed[i].env)) = {}
  BY DEF FieldsHidden
<1>1. i \in 1..Len(sealed)
  BY IsSeqLen DEF DocumentInv
<1>2. /\ sealed[i].paths \in Seq(Paths) /\ DocumentShape(sealed[i].env)
      /\ Covered(sealed[i].env, p)
  BY <1>1 DEF DocumentInv
<1>3. p \in Paths
  BY <1>2, LenProperties, ElementOfSeq DEF ToSet
<1> QED BY <1>2, <1>3, CoveredIsHidden

-----------------------------------------------------------------------------
(***************************************************************************)
(* Documents: opening what was sealed.                                     *)
(*                                                                         *)
(* A path given twice, or the path of an object after that of a field in   *)
(* it, seals what is sealed already, so a value lies in any number of      *)
(* envelopes, and openFields takes one of them off at a time.  Layers says *)
(* so with a set: base and every value around it that is still in an       *)
(* envelope.  Wrapping a value adds it to the set and unwrapping takes its *)
(* plaintext from it, so no induction over the layers is needed; and since *)
(* the numbers of the envelopes fall from the inside out, no value is its  *)
(* own plaintext.  LayerInv keeps this for the document being sealed, for  *)
(* the documents in storage and for the one being opened.                  *)
(***************************************************************************)

Mark(v) == v.env.n[2]

\* v is an envelope for the field at path, around another value of S; the numbers
\* of the envelopes fall from the inside out.
Layer(v, S, path, how) ==
  LET plain == v.env.ct.plain IN
  /\ v = SealedField(Envelope(how.to, v.env.n, plain, FieldContext(path)))
  /\ plain \in S
  /\ Mark(v) \in Nat /\ Mark(v) > how.low
  /\ IsSealed(plain) => Mark(plain) > Mark(v)
  /\ v \notin how.out

\* v is base in any number of envelopes for the field at path, in none of them
\* only if it was opened.
Layers(v, base, path, how) ==
  /\ \E S : v \in S /\ \A u \in S : u = base \/ Layer(u, S, path, how)
  /\ v = base => how.opened /\ base # Undefined

\* What is left of a value w that is not sealed.
Kept(w, how) == IF how.opened THEN WalkLeaf(w) ELSE w

\* A value without fields, w in the original, at path; kept if it is not sealed.
LeafForm(v, w, path, kept, how) ==
  IF path \in how.reached THEN Layers(v, Json(w), path, how) ELSE v = kept

\* The JSON of the object w at k, some fields of which are sealed.
JsonForm(v, w, k, how) ==
  /\ IsObj(v)
  /\ DOMAIN v.f = {l \in DOMAIN w.f : w.f[l] # Undefined \/ <<k, l>> \in how.reached}
  /\ \A l \in DOMAIN v.f : LeafForm(v.f[l], w.f[l], <<k, l>>, Json(w.f[l]), how)

\* The object w at k, some fields of which are sealed.
ObjectForm(v, w, k, how) ==
  /\ IsObj(v) /\ DOMAIN v.f = DOMAIN w.f
  /\ \A l \in DOMAIN v.f : LeafForm(v.f[l], w.f[l], <<k, l>>, Kept(w.f[l], how), how)

FieldForm(v, w, k, how) ==
  IF w.t # "obj" THEN LeafForm(v, w, <<k>>, Kept(w, how), how)
  ELSE IF <<k>> \in how.reached
       THEN \E base : JsonForm(base, w, k, how) /\ Layers(v, base, <<k>>, how)
       ELSE ObjectForm(v, w, k, how)

\* A document in which the paths how.reached were sealed for how.to, and opened
\* any number of times if how.opened; how.low bounds the numbers of the envelopes
\* from below, and none of them is in how.out.
DocumentForm(doc, how) ==
  /\ IsObj(doc) /\ DOMAIN doc.f = DOMAIN Document.f
  /\ \A k \in DOMAIN Document.f : FieldForm(doc.f[k], Document.f[k], k, how)

\* Values without fields.
Small(w) == w.t \in {"leaf", "date", "undefined"}

\* openFields rebuilds an empty object as it is.
LEMMA EmptyObject ==
  /\ Emptied.t = "obj" /\ Emptied.f = <<>> /\ DOMAIN Emptied.f = {}
  /\ WalkLeaf(Emptied) = Emptied /\ WalkField(Emptied) = Emptied
<1>1. Emptied.t = "obj" /\ Emptied.f = <<>> /\ DOMAIN <<>> = {}
  BY DEF Emptied, Obj
<1>2. ~IsSealed(Emptied) /\ Emptied.t # "date"
  BY <1>1 DEF IsSealed
<1>3. \A g : Walk(Emptied, g) = Obj(g)
  BY <1>1, <1>2 DEF Walk
<1>4. Fields(Emptied) = <<>>
  BY <1>1 DEF Fields
<1>5. WalkLeaf(Emptied) = Emptied
  BY <1>3, <1>4 DEF WalkLeaf, Emptied
<1>6. [k \in DOMAIN Fields(Emptied) |-> WalkLeaf(Fields(Emptied)[k])] = <<>>
  BY <1>1, <1>4
<1>7. WalkField(Emptied) = Emptied
  BY <1>3, <1>6 DEF WalkField, Emptied
<1> QED BY <1>1, <1>5, <1>7

\* JSON is idempotent on a value without fields, loses only undefined and leaves the
\* walk of openFields nothing to change.
LEMMA SmallValues ==
  ASSUME NEW w, Small(w)
  PROVE  /\ ~IsSealed(w) /\ w.t # "obj"
         /\ Small(Json(w)) /\ Json(w).t # "date" /\ ~IsSealed(Json(w)) /\ Json(w).t # "obj"
         /\ Json(w) = JsonLeaf(w) /\ JsonLeaf(Json(w)) = Json(w) /\ Json(Json(w)) = Json(w)
         /\ Json(w) = Undefined <=> w = Undefined
         /\ WalkLeaf(Json(w)) = Json(w) /\ WalkField(Json(w)) = Json(w)
         /\ ~IsSealed(WalkLeaf(w)) /\ WalkField(w) = WalkLeaf(w)
         /\ WalkLeaf(WalkLeaf(w)) = WalkLeaf(w) /\ WalkField(WalkLeaf(w)) = WalkLeaf(w)
<1>1. ~IsSealed(w) /\ w.t # "obj" /\ w.t \in {"leaf", "date", "undefined"}
  BY DEF Small, IsSealed
<1>2. Json(w) = JsonLeaf(w)
  BY <1>1 DEF Json
<1>3. /\ Json(w).t \in {"leaf", "undefined"}
      /\ w.t # "date" => Json(w) = w
      /\ w.t = "date" => Json(w) = Leaf(w.x)
  BY <1>1, <1>2 DEF JsonLeaf, Leaf
<1>4. Json(w) = Undefined <=> w = Undefined
  BY <1>3 DEF Undefined, Leaf
<1>5. Small(Json(w)) /\ Json(w).t # "date" /\ ~IsSealed(Json(w)) /\ Json(w).t # "obj"
  BY <1>3 DEF Small, IsSealed
<1>6. JsonLeaf(Json(w)) = Json(w) /\ Json(Json(w)) = Json(w)
  BY <1>5 DEF JsonLeaf, Json
<1>7. ASSUME NEW u, u.t \in {"leaf", "undefined"}
      PROVE  WalkLeaf(u) = u /\ WalkField(u) = u
  <2>1. \A g : Walk(u, g) = u
    BY <1>7 DEF Walk, IsSealed
  <2> QED BY <2>1 DEF WalkLeaf, WalkField
<1>8. CASE w.t = "date"
  <2>1. \A g : Walk(w, g) = Emptied
    BY <1>8 DEF Walk, IsSealed
  <2>2. WalkLeaf(w) = Emptied /\ WalkField(w) = Emptied
    BY <2>1 DEF WalkLeaf, WalkField
  <2> QED BY <1>1, <1>2, <1>3, <1>4, <1>5, <1>6, <1>7, <2>2, EmptyObject DEF IsSealed
<1>9. CASE w.t # "date"
  <2>1. WalkLeaf(w) = w /\ WalkField(w) = w
    BY <1>1, <1>7, <1>9
  <2> QED BY <1>1, <1>2, <1>3, <1>4, <1>5, <1>6, <2>1, <1>7
<1> QED BY <1>8, <1>9

\* The walk turns a Date into an empty object and keeps other values.
LEMMA SmallWalked ==
  ASSUME NEW w, Small(w)
  PROVE  WalkLeaf(w) \in {w, Emptied} /\ DOMAIN Emptied.f = {}
<1>1. CASE w.t = "date"
  <2>1. \A g : Walk(w, g) = Emptied
    BY <1>1 DEF Walk, IsSealed
  <2> QED BY <2>1, EmptyObject DEF WalkLeaf
<1>2. CASE w.t \in {"leaf", "undefined"}
  <2>1. \A g : Walk(w, g) = w
    BY <1>2 DEF Walk, IsSealed
  <2> QED BY <2>1, EmptyObject DEF WalkLeaf
<1> QED BY <1>1, <1>2 DEF Small

\* JSON keeps a sealed field.
LEMMA SealedJson ==
  ASSUME NEW v, IsSealed(v)
  PROVE  Json(v) = v /\ JsonLeaf(v) = v /\ v # Undefined /\ v.t # "obj"
BY DEF IsSealed, Json, JsonLeaf, Undefined

\* What sealField puts into an envelope is found in it.
LEMMA SealedParts ==
  ASSUME NEW to, NEW id, NEW plain, NEW ctx, NEW v, v = SealedField(Envelope(to, id, plain, ctx))
  PROVE  /\ IsSealed(v) /\ v.env.n = id /\ v.env.ct.plain = plain /\ v.env.ctx = ctx
         /\ Opens(to, v.env)
BY DEF SealedField, Envelope, IsSealed, Opens, Kem

\* The walk puts the plaintext in the place of a sealed field.
LEMMA SealedWalk ==
  ASSUME NEW v, IsSealed(v)
  PROVE  WalkLeaf(v) = v.env.ct.plain /\ WalkField(v) = v.env.ct.plain
<1>1. v.t # "date" /\ v.t # "obj"
  BY DEF IsSealed
<1>2. \A g : Walk(v, g) = v.env.ct.plain
  BY <1>1 DEF Walk
<1> QED BY <1>2 DEF WalkLeaf, WalkField

\* A sealed value among layers is an envelope its reader opens, around base or another.
LEMMA LayersSealed ==
  ASSUME NEW v, NEW base, NEW path, NEW how, Layers(v, base, path, how),
         IsSealed(v), ~IsSealed(base)
  PROVE  /\ v.env.ctx = FieldContext(path) /\ Opens(how.to, v.env)
         /\ v \notin how.out /\ Mark(v) \in Nat /\ Mark(v) > how.low
         /\ IsSealed(v.env.ct.plain) \/ v.env.ct.plain = base
<1>1. PICK S : v \in S /\ \A u \in S : u = base \/ Layer(u, S, path, how)
  BY DEF Layers
<1>2. Layer(v, S, path, how)
  BY <1>1
<1>3. v = SealedField(Envelope(how.to, v.env.n, v.env.ct.plain, FieldContext(path)))
  BY <1>2 DEF Layer
<1>4. v.env.ctx = FieldContext(path) /\ Opens(how.to, v.env)
  BY <1>3, SealedParts
<1>5. v.env.ct.plain \in S
  BY <1>2 DEF Layer
<1>6. \A u \in S : u = base \/ IsSealed(u)
  <2> TAKE u \in S
  <2>1. Layer(u, S, path, how) => IsSealed(u)
    BY SealedParts DEF Layer
  <2> QED BY <2>1, <1>1
<1> QED BY <1>2, <1>4, <1>5, <1>6 DEF Layer

\* A value among layers that is not sealed is the one they are around.
LEMMA LayersBase ==
  ASSUME NEW v, NEW base, NEW path, NEW how, Layers(v, base, path, how), ~IsSealed(v)
  PROVE  v = base /\ how.opened /\ base # Undefined
<1>1. PICK S : v \in S /\ \A u \in S : u = base \/ Layer(u, S, path, how)
  BY DEF Layers
<1>2. Layer(v, S, path, how) => IsSealed(v)
  BY SealedParts DEF Layer
<1> QED BY <1>1, <1>2 DEF Layers

\* A first envelope.
LEMMA FirstLayer ==
  ASSUME NEW base, ~IsSealed(base), NEW path, NEW how, how.out = {},
         NEW i, NEW m \in Nat, m > how.low, NEW v,
         v = SealedField(Envelope(how.to, <<i, m>>, base, FieldContext(path)))
  PROVE  Layers(v, base, path, how)
<1> DEFINE S == {base, v}
<1>1. IsSealed(v) /\ v.env.n = <<i, m>> /\ v.env.ct.plain = base
  BY SealedParts
<1>2. Layer(v, S, path, how)
  BY <1>1 DEF Layer, Mark
<1>3. v # base
  BY <1>1
<1> QED BY <1>2, <1>3 DEF Layers

\* One more envelope.
LEMMA OneMoreLayer ==
  ASSUME NEW v, NEW base, ~IsSealed(base), NEW path, NEW was, Layers(v, base, path, was),
         IsSealed(v), NEW how, how.to = was.to, how.out = {},
         NEW i, NEW m \in Nat, m > how.low, was.low = m, how.low \in Nat, NEW s,
         s = SealedField(Envelope(how.to, <<i, m>>, v, FieldContext(path)))
  PROVE  Layers(s, base, path, how)
<1>1. PICK S : v \in S /\ \A u \in S : u = base \/ Layer(u, S, path, was)
  BY DEF Layers
<1> DEFINE T == S \cup {s}
<1>2. IsSealed(s) /\ s.env.n = <<i, m>> /\ s.env.ct.plain = v
  BY SealedParts
<1>3. Mark(v) > m
  BY LayersSealed
<1>4. Layer(s, T, path, how)
  BY <1>1, <1>2, <1>3 DEF Layer, Mark
<1>5. ASSUME NEW u \in S, u # base
      PROVE  Layer(u, T, path, how)
  <2>1. Layer(u, S, path, was)
    BY <1>1, <1>5
  <2> HIDE DEF T
  <2>2. S \subseteq T
    BY DEF T
  <2> QED BY <2>1, <2>2 DEF Layer
<1>6. s # base
  BY <1>2
<1> HIDE DEF T
<1>7. s \in T /\ \A u \in T : u = base \/ Layer(u, T, path, how)
  BY <1>4, <1>5 DEF T
<1> QED BY <1>6, <1>7 DEF Layers

\* The envelopes under a bound are above every smaller one.
LEMMA LayersLower ==
  ASSUME NEW v, NEW base, NEW path, NEW was, Layers(v, base, path, was), NEW how,
         how.to = was.to, how.out = was.out, how.opened = was.opened,
         how.low \in Nat, was.low \in Nat, how.low <= was.low
  PROVE  Layers(v, base, path, how)
<1>1. PICK S : v \in S /\ \A u \in S : u = base \/ Layer(u, S, path, was)
  BY DEF Layers
<1>2. ASSUME NEW u \in S, Layer(u, S, path, was)
      PROVE  Layer(u, S, path, how)
  BY <1>2 DEF Layer
<1> QED BY <1>1, <1>2 DEF Layers

\* An envelope opened: what was in it is in one less, and is not among the nodes
\* of the document it was in.
LEMMA LayersOpened ==
  ASSUME NEW v, NEW base, ~IsSealed(base), NEW path, NEW was, Layers(v, base, path, was),
         IsSealed(v), v.env.ct.plain # Undefined,
         NEW X, \A u \in X : IsSealed(u) /\ u.env.ctx = FieldContext(path) => u = v,
         NEW how, how.to = was.to, how.low = was.low, how.out = was.out \cup X, how.opened
  PROVE  Layers(v.env.ct.plain, base, path, how)
<1>1. PICK S : v \in S /\ \A u \in S : u = base \/ Layer(u, S, path, was)
  BY DEF Layers
<1> DEFINE T == {u \in S : IsSealed(u) => Mark(u) > Mark(v)}
           plain == v.env.ct.plain
<1>2. Layer(v, S, path, was) /\ Mark(v) \in Nat
  BY <1>1, LayersSealed
<1>3. plain \in T
  BY <1>2 DEF Layer
<1>4. ASSUME NEW u \in T, u # base
      PROVE  Layer(u, T, path, how)
  <2>1. Layer(u, S, path, was) /\ (IsSealed(u) => Mark(u) > Mark(v))
    BY <1>1, <1>4
  <2>2. u = SealedField(Envelope(was.to, u.env.n, u.env.ct.plain, FieldContext(path)))
    BY <2>1 DEF Layer
  <2>3. IsSealed(u) /\ u.env.ctx = FieldContext(path)
    BY <2>2, SealedParts
  <2>4. u # v
    BY <2>1, <2>3, <1>2
  <2>5. u.env.ct.plain \in S /\ (IsSealed(u.env.ct.plain) => Mark(u.env.ct.plain) > Mark(u))
        /\ Mark(u) \in Nat
    BY <2>1 DEF Layer
  <2>6. u.env.ct.plain \in T
    <3>1. ASSUME IsSealed(u.env.ct.plain)
          PROVE  Mark(u.env.ct.plain) > Mark(v)
      <4>1. u.env.ct.plain # base
        BY <3>1
      <4>2. Mark(u.env.ct.plain) \in Nat
        BY <1>1, <2>5, <4>1 DEF Layer
      <4> QED BY <2>1, <2>3, <2>5, <3>1, <4>2, <1>2
    <3> QED BY <2>5, <3>1
  <2> HIDE DEF T
  <2> QED BY <2>1, <2>3, <2>4, <2>6 DEF Layer
<1> HIDE DEF T
<1>5. plain = base => base # Undefined
  OBVIOUS
<1> QED BY <1>3, <1>4, <1>5 DEF Layers

\* What was within an envelope, and not met by the walk.
LEMMA LayersMet ==
  ASSUME NEW v, NEW base, NEW path, NEW was, Layers(v, base, path, was),
         NEW X, \A u \in X : IsSealed(u) => u.env.ctx # FieldContext(path),
         NEW how, how.to = was.to, how.low = was.low, how.out = was.out \cup X, how.opened
  PROVE  Layers(v, base, path, how)
<1>1. PICK S : v \in S /\ \A u \in S : u = base \/ Layer(u, S, path, was)
  BY DEF Layers
<1>2. ASSUME NEW u \in S, Layer(u, S, path, was)
      PROVE  Layer(u, S, path, how)
  <2>1. u = SealedField(Envelope(was.to, u.env.n, u.env.ct.plain, FieldContext(path)))
    BY <1>2 DEF Layer
  <2>2. IsSealed(u) /\ u.env.ctx = FieldContext(path)
    BY <2>1, SealedParts
  <2> QED BY <1>2, <2>2 DEF Layer
<1>3. v = base => base # Undefined
  BY DEF Layers
<1> QED BY <1>1, <1>2, <1>3 DEF Layers

\* A value in no envelope.
LEMMA NoLayers ==
  ASSUME NEW v, v # Undefined, NEW path, NEW how, how.opened
  PROVE  Layers(v, v, path, how)
<1>1. PICK S : S = {v}
  OBVIOUS
<1>2. v \in S /\ \A u \in S : u = v \/ Layer(u, S, path, how)
  BY <1>1
<1> QED BY <1>2 DEF Layers

\* What is kept of an unsealed value is not sealed, and walking it again changes nothing.
LEMMA KeptValues ==
  ASSUME NEW w, Small(w), NEW how
  PROVE  /\ ~IsSealed(Kept(w, how)) /\ WalkLeaf(Kept(w, how)) = WalkLeaf(w)
         /\ WalkField(Kept(w, how)) = WalkLeaf(w)
BY SmallValues DEF Kept

\* A sealed value without fields in the original.
LEMMA LeafSealed ==
  ASSUME NEW v, NEW w, Small(w), NEW path, NEW kept, ~IsSealed(kept), NEW how,
         LeafForm(v, w, path, kept, how), IsSealed(v)
  PROVE  /\ path \in how.reached
         /\ v.env.ctx = FieldContext(path) /\ Opens(how.to, v.env) /\ v \notin how.out
         /\ v.env.ct.plain = Undefined => w = Undefined
<1>1. path \in how.reached /\ Layers(v, Json(w), path, how)
  BY DEF LeafForm
<1>2. ~IsSealed(Json(w)) /\ (Json(w) = Undefined <=> w = Undefined)
  BY SmallValues
<1>3. ~IsSealed(Undefined)
  BY DEF IsSealed, Undefined
<1>4. IsSealed(v.env.ct.plain) \/ v.env.ct.plain = Json(w)
  BY <1>1, <1>2, LayersSealed
<1>5. v.env.ctx = FieldContext(path) /\ Opens(how.to, v.env) /\ v \notin how.out
  BY <1>1, <1>2, LayersSealed
<1> QED BY <1>1, <1>2, <1>3, <1>4, <1>5

\* One that the walk of openFields meets.
LEMMA LeafOpened ==
  ASSUME NEW v, NEW w, Small(w), NEW path, NEW kept, ~IsSealed(kept),
         WalkField(kept) = WalkLeaf(kept), NEW was, LeafForm(v, w, path, kept, was),
         IsSealed(v) => v.env.ct.plain # Undefined,
         NEW X, \A u \in X : IsSealed(u) /\ u.env.ctx = FieldContext(path) => u = v,
         NEW how, how.to = was.to, how.low = was.low, how.reached = was.reached,
         how.out = was.out \cup X, how.opened
  PROVE  \A x \in {WalkLeaf(v), WalkField(v)} : LeafForm(x, w, path, WalkLeaf(kept), how)
<1>1. CASE path \notin was.reached
  BY <1>1 DEF LeafForm
<1>2. CASE path \in was.reached /\ IsSealed(v)
  <2>1. Layers(v, Json(w), path, was) /\ ~IsSealed(Json(w))
    BY <1>2, SmallValues DEF LeafForm
  <2>2. Layers(v.env.ct.plain, Json(w), path, how)
    BY <1>2, <2>1, LayersOpened
  <2>3. WalkLeaf(v) = v.env.ct.plain /\ WalkField(v) = v.env.ct.plain
    BY <1>2, SealedWalk
  <2> QED BY <1>2, <2>2, <2>3 DEF LeafForm
<1>3. CASE path \in was.reached /\ ~IsSealed(v)
  <2>1. Layers(v, Json(w), path, was)
    BY <1>3 DEF LeafForm
  <2>2. v = Json(w) /\ v # Undefined
    BY <1>3, <2>1, LayersBase
  <2>3. WalkLeaf(v) = Json(w) /\ WalkField(v) = Json(w)
    BY <2>2, SmallValues
  <2>4. Layers(Json(w), Json(w), path, how)
    BY <2>2, NoLayers
  <2> QED BY <1>3, <2>3, <2>4 DEF LeafForm
<1> QED BY <1>1, <1>2, <1>3

\* A value in an envelope that the walk opens.
LEMMA LeafMet ==
  ASSUME NEW v, NEW w, NEW path, NEW kept, NEW was, LeafForm(v, w, path, kept, was),
         NEW X, \A u \in X : IsSealed(u) => u.env.ctx # FieldContext(path),
         NEW how, how.to = was.to, how.low = was.low, how.reached = was.reached,
         how.out = was.out \cup X, how.opened
  PROVE  LeafForm(v, w, path, kept, how)
BY LayersMet DEF LeafForm

\* Fields of the document: values without fields, and objects of them.
FieldOf(w) == Small(w) \/ (w.t = "obj" /\ \A l \in DOMAIN w.f : Small(w.f[l]))

\* The document's fields hold values without fields or objects of those.
LEMMA DocumentFields == \A k \in DOMAIN Document.f : FieldOf(Document.f[k])
BY DocumentAssumption DEF FieldOf, Small

\* The walk rebuilds an object from its walked fields.
LEMMA ObjectWalked ==
  ASSUME NEW v, IsObj(v)
  PROVE  /\ WalkField(v) = Obj([l \in DOMAIN v.f |-> WalkLeaf(v.f[l])])
         /\ ~IsSealed(v) /\ v # Undefined /\ v.t = "obj"
<1>1. v.t = "obj"
  BY DEF IsObj, Obj
<1>2. ~IsSealed(v) /\ v.t # "date" /\ v # Undefined
  BY <1>1 DEF IsSealed, Undefined
<1>3. \A g : Walk(v, g) = Obj(g)
  BY <1>1, <1>2 DEF Walk
<1>4. Fields(v) = v.f
  BY <1>1 DEF Fields
<1> QED BY <1>1, <1>2, <1>3, <1>4 DEF WalkField

\* The sealed values of a field, where they are, and what opening them gives.
LEMMA FieldSeals ==
  ASSUME NEW v, NEW w, FieldOf(w), NEW k, NEW how, FieldForm(v, w, k, how)
  PROVE  /\ IsSealed(v) =>
               /\ <<k>> \in how.reached /\ v.env.ctx = FieldContext(<<k>>)
               /\ Opens(how.to, v.env) /\ v \notin how.out
               /\ v.env.ct.plain = Undefined => w = Undefined
         /\ v.t = "obj" => \A l \in DOMAIN v.f :
               IsSealed(v.f[l]) =>
                  /\ <<k, l>> \in how.reached /\ v.f[l].env.ctx = FieldContext(<<k, l>>)
                  /\ Opens(how.to, v.f[l].env) /\ v.f[l] \notin how.out
                  /\ w.t = "obj" /\ l \in DOMAIN w.f
                  /\ v.f[l].env.ct.plain = Undefined => w.f[l] = Undefined
<1>1. CASE Small(w)
  <2>1. LeafForm(v, w, <<k>>, Kept(w, how), how) /\ ~IsSealed(Kept(w, how))
    BY <1>1, SmallValues, KeptValues DEF FieldForm
  <2>2. v.t = "obj" => DOMAIN v.f = {}
    <3>1. CASE <<k>> \in how.reached /\ ~IsSealed(v)
      BY <1>1, <2>1, <3>1, LayersBase, SmallValues DEF LeafForm
    <3>2. CASE IsSealed(v)
      BY <3>2 DEF IsSealed
    <3>3. CASE <<k>> \notin how.reached
      <4>1. v \in {w, WalkLeaf(w)}
        BY <2>1, <3>3 DEF LeafForm, Kept
      <4> QED BY <1>1, <4>1, SmallValues, SmallWalked
    <3> QED BY <3>1, <3>2, <3>3
  <2> QED BY <1>1, <2>1, <2>2, LeafSealed
<1>2. CASE ~Small(w) /\ <<k>> \in how.reached
  <2>1. w.t = "obj" /\ \A l \in DOMAIN w.f : Small(w.f[l])
    BY <1>2 DEF FieldOf
  <2>2. PICK base : JsonForm(base, w, k, how) /\ Layers(v, base, <<k>>, how)
    BY <1>2, <2>1 DEF FieldForm
  <2>3. ~IsSealed(base) /\ base # Undefined
    BY <2>2, ObjectWalked DEF JsonForm
  <2>4. CASE IsSealed(v)
    <3>1. v.t # "obj" /\ ~IsSealed(Undefined)
      BY <2>4 DEF IsSealed, Undefined
    <3> QED BY <1>2, <2>2, <2>3, <2>4, <3>1, LayersSealed
  <2>5. CASE ~IsSealed(v)
    <3>1. v = base
      BY <2>2, <2>5, LayersBase
    <3>2. ASSUME NEW l \in DOMAIN v.f, IsSealed(v.f[l])
          PROVE  /\ <<k, l>> \in how.reached /\ v.f[l].env.ctx = FieldContext(<<k, l>>)
                 /\ Opens(how.to, v.f[l].env) /\ v.f[l] \notin how.out
                 /\ l \in DOMAIN w.f
                 /\ v.f[l].env.ct.plain = Undefined => w.f[l] = Undefined
      <4>1. l \in DOMAIN w.f /\ LeafForm(v.f[l], w.f[l], <<k, l>>, Json(w.f[l]), how)
        BY <2>2, <3>1 DEF JsonForm
      <4>2. Small(w.f[l]) /\ ~IsSealed(Json(w.f[l]))
        BY <2>1, <4>1, SmallValues
      <4> QED BY <3>2, <4>1, <4>2, LeafSealed
    <3> QED BY <2>1, <2>5, <3>2
  <2> QED BY <2>4, <2>5
<1>3. CASE ~Small(w) /\ <<k>> \notin how.reached
  <2>1. w.t = "obj" /\ \A l \in DOMAIN w.f : Small(w.f[l])
    BY <1>3 DEF FieldOf
  <2>2. ObjectForm(v, w, k, how)
    BY <1>3, <2>1 DEF FieldForm
  <2>3. ~IsSealed(v)
    BY <2>2, ObjectWalked DEF ObjectForm
  <2>4. ASSUME NEW l \in DOMAIN v.f, IsSealed(v.f[l])
        PROVE  /\ <<k, l>> \in how.reached /\ v.f[l].env.ctx = FieldContext(<<k, l>>)
               /\ Opens(how.to, v.f[l].env) /\ v.f[l] \notin how.out
               /\ l \in DOMAIN w.f
               /\ v.f[l].env.ct.plain = Undefined => w.f[l] = Undefined
    <3>1. l \in DOMAIN w.f /\ LeafForm(v.f[l], w.f[l], <<k, l>>, Kept(w.f[l], how), how)
      BY <2>2 DEF ObjectForm
    <3>2. Small(w.f[l]) /\ ~IsSealed(Kept(w.f[l], how))
      BY <2>1, <3>1, KeptValues
    <3> QED BY <2>4, <3>1, <3>2, LeafSealed
  <2> QED BY <2>1, <2>3, <2>4
<1> QED BY <1>1, <1>2, <1>3

\* A field that the walk has passed.
LEMMA FieldOpened ==
  ASSUME NEW v, NEW w, FieldOf(w), NEW k, NEW was, FieldForm(v, w, k, was),
         IsSealed(v) => v.env.ct.plain # Undefined,
         v.t = "obj" => \A l \in DOMAIN v.f : IsSealed(v.f[l]) => v.f[l].env.ct.plain # Undefined,
         NEW X, \A u \in X : IsSealed(u) /\ u.env.ctx = FieldContext(<<k>>) => u = v,
         \A u \in X : \A l : IsSealed(u) /\ u.env.ctx = FieldContext(<<k, l>>) =>
                               v.t = "obj" /\ u = v.f[l],
         NEW how, how.to = was.to, how.low = was.low, how.reached = was.reached,
         how.out = was.out \cup X, how.opened
  PROVE  FieldForm(WalkField(v), w, k, how)
<1>1. CASE Small(w)
  <2>1. LeafForm(v, w, <<k>>, Kept(w, was), was)
    BY <1>1, SmallValues DEF FieldForm
  <2>2. /\ ~IsSealed(Kept(w, was)) /\ WalkField(Kept(w, was)) = WalkLeaf(Kept(w, was))
        /\ WalkLeaf(Kept(w, was)) = Kept(w, how)
    BY <1>1, KeptValues DEF Kept
  <2>3. LeafForm(WalkField(v), w, <<k>>, WalkLeaf(Kept(w, was)), how)
    BY <1>1, <2>1, <2>2, LeafOpened
  <2> QED BY <1>1, <2>2, <2>3, SmallValues DEF FieldForm
<1>2. CASE ~Small(w) /\ <<k>> \in was.reached
  <2>1. w.t = "obj" /\ \A l \in DOMAIN w.f : Small(w.f[l])
    BY <1>2 DEF FieldOf
  <2>2. PICK base : JsonForm(base, w, k, was) /\ Layers(v, base, <<k>>, was)
    BY <1>2, <2>1 DEF FieldForm
  <2>3. /\ IsObj(base) /\ ~IsSealed(base) /\ base # Undefined
        /\ DOMAIN base.f = {l \in DOMAIN w.f : w.f[l] # Undefined \/ <<k, l>> \in was.reached}
        /\ \A l \in DOMAIN base.f :
              LeafForm(base.f[l], w.f[l], <<k, l>>, Json(w.f[l]), was)
    BY <2>2, ObjectWalked DEF JsonForm
  <2>4. CASE IsSealed(v)
    <3>1. v.t # "obj"
      BY <2>4 DEF IsSealed
    <3>2. \A l \in DOMAIN base.f : LeafForm(base.f[l], w.f[l], <<k, l>>, Json(w.f[l]), how)
      <4> TAKE l \in DOMAIN base.f
      <4>1. \A u \in X : IsSealed(u) => u.env.ctx # FieldContext(<<k, l>>)
        BY <3>1
      <4> QED BY <2>3, <4>1, LeafMet
    <3>3. JsonForm(base, w, k, how)
      BY <2>3, <3>2 DEF JsonForm
    <3>4. Layers(v.env.ct.plain, base, <<k>>, how)
      BY <2>2, <2>3, <2>4, LayersOpened
    <3>5. WalkField(v) = v.env.ct.plain
      BY <2>4, SealedWalk
    <3> QED BY <1>2, <2>1, <3>3, <3>4, <3>5 DEF FieldForm
  <2>5. CASE ~IsSealed(v)
    <3> DEFINE g == [l \in DOMAIN v.f |-> WalkLeaf(v.f[l])]
               x == Obj(g)
    <3>1. v = base
      BY <2>2, <2>5, LayersBase
    <3>2. WalkField(v) = x /\ v.t = "obj"
      BY <2>3, <3>1, ObjectWalked
    <3>3. \A l \in DOMAIN v.f : LeafForm(WalkLeaf(v.f[l]), w.f[l], <<k, l>>, Json(w.f[l]), how)
      <4> TAKE l \in DOMAIN v.f
      <4>1. Small(w.f[l]) /\ LeafForm(v.f[l], w.f[l], <<k, l>>, Json(w.f[l]), was)
        BY <2>1, <2>3, <3>1
      <4>2. /\ ~IsSealed(Json(w.f[l])) /\ WalkLeaf(Json(w.f[l])) = Json(w.f[l])
            /\ WalkField(Json(w.f[l])) = Json(w.f[l])
        BY <4>1, SmallValues
      <4>3. /\ IsSealed(v.f[l]) => v.f[l].env.ct.plain # Undefined
            /\ \A u \in X : IsSealed(u) /\ u.env.ctx = FieldContext(<<k, l>>) => u = v.f[l]
        BY <3>2
      <4>4. LeafForm(WalkLeaf(v.f[l]), w.f[l], <<k, l>>, WalkLeaf(Json(w.f[l])), how)
        BY <4>1, <4>2, <4>3, LeafOpened
      <4> QED BY <4>2, <4>4
    <3>4. x.f = g /\ IsObj(x)
      BY DEF Obj, IsObj
    <3>5. DOMAIN g = DOMAIN v.f /\ \A l \in DOMAIN v.f : g[l] = WalkLeaf(v.f[l])
      OBVIOUS
    <3> HIDE DEF g, x
    <3>6. JsonForm(x, w, k, how)
      BY <2>3, <3>1, <3>3, <3>4, <3>5 DEF JsonForm
    <3>7. Layers(x, x, <<k>>, how)
      BY <3>4, NoLayers, ObjectWalked
    <3> QED BY <1>2, <2>1, <3>2, <3>6, <3>7 DEF FieldForm
  <2> QED BY <2>4, <2>5
<1>3. CASE ~Small(w) /\ <<k>> \notin was.reached
  <2> DEFINE g == [l \in DOMAIN v.f |-> WalkLeaf(v.f[l])]
             x == Obj(g)
  <2>1. w.t = "obj" /\ \A l \in DOMAIN w.f : Small(w.f[l])
    BY <1>3 DEF FieldOf
  <2>2. /\ IsObj(v) /\ DOMAIN v.f = DOMAIN w.f
        /\ \A l \in DOMAIN v.f : LeafForm(v.f[l], w.f[l], <<k, l>>, Kept(w.f[l], was), was)
    BY <1>3, <2>1 DEF FieldForm, ObjectForm
  <2>3. WalkField(v) = x /\ v.t = "obj"
    BY <2>2, ObjectWalked
  <2>4. \A l \in DOMAIN v.f : LeafForm(WalkLeaf(v.f[l]), w.f[l], <<k, l>>, Kept(w.f[l], how), how)
    <3> TAKE l \in DOMAIN v.f
    <3>1. Small(w.f[l]) /\ LeafForm(v.f[l], w.f[l], <<k, l>>, Kept(w.f[l], was), was)
      BY <2>1, <2>2
    <3>2. /\ ~IsSealed(Kept(w.f[l], was)) /\ WalkLeaf(Kept(w.f[l], was)) = Kept(w.f[l], how)
          /\ WalkField(Kept(w.f[l], was)) = WalkLeaf(Kept(w.f[l], was))
      BY <3>1, KeptValues DEF Kept
    <3>3. /\ IsSealed(v.f[l]) => v.f[l].env.ct.plain # Undefined
          /\ \A u \in X : IsSealed(u) /\ u.env.ctx = FieldContext(<<k, l>>) => u = v.f[l]
      BY <2>3
    <3>4. LeafForm(WalkLeaf(v.f[l]), w.f[l], <<k, l>>, WalkLeaf(Kept(w.f[l], was)), how)
      BY <3>1, <3>2, <3>3, LeafOpened
    <3> QED BY <3>2, <3>4
  <2>5. x.f = g /\ IsObj(x)
    BY DEF Obj, IsObj
  <2>6. DOMAIN g = DOMAIN v.f /\ \A l \in DOMAIN v.f : g[l] = WalkLeaf(v.f[l])
    OBVIOUS
  <2> HIDE DEF g, x
  <2>7. ObjectForm(x, w, k, how)
    BY <2>2, <2>4, <2>5, <2>6 DEF ObjectForm
  <2> QED BY <1>3, <2>1, <2>3, <2>7 DEF FieldForm
<1> QED BY <1>1, <1>2, <1>3

\* The nodes of a document are its fields and the fields of those.
LEMMA NodesOf ==
  ASSUME NEW doc
  PROVE  /\ \A u \in Nodes(doc) : \E k \in DOMAIN doc.f :
               \/ u = doc.f[k]
               \/ doc.f[k].t = "obj" /\ \E l \in DOMAIN doc.f[k].f : u = doc.f[k].f[l]
         /\ \A k \in DOMAIN doc.f :
               /\ doc.f[k] \in Nodes(doc)
               /\ doc.f[k].t = "obj" => \A l \in DOMAIN doc.f[k].f : doc.f[k].f[l] \in Nodes(doc)
<1> DEFINE top == {doc.f[k] : k \in DOMAIN doc.f}
           objects == {v \in top : v.t = "obj"}
<1>1. \A u : u \in Nodes(doc) <=>
         u \in top \/ \E v \in objects : u \in {v.f[k] : k \in DOMAIN v.f}
  BY DEF Nodes
<1>2. \A k \in DOMAIN doc.f : doc.f[k] \in top
  OBVIOUS
<1> QED BY <1>1, <1>2

\* A sealed node at the first level, and one at the second.
OuterSeal(u, doc, k, how) ==
  /\ u = doc.f[k] /\ u.env.ctx = FieldContext(<<k>>) /\ <<k>> \in how.reached
  /\ u.env.ct.plain = Undefined => Document.f[k] = Undefined

InnerSeal(u, doc, k, l, how) ==
  /\ doc.f[k].t = "obj" /\ Document.f[k].t = "obj" /\ l \in DOMAIN Document.f[k].f
  /\ u = doc.f[k].f[l] /\ u.env.ctx = FieldContext(<<k, l>>) /\ <<k, l>> \in how.reached
  /\ u.env.ct.plain = Undefined => Document.f[k].f[l] = Undefined

\* Where the sealed nodes of a document are.
LEMMA SealedNodes ==
  ASSUME NEW doc, NEW how, DocumentForm(doc, how), NEW u \in Nodes(doc), IsSealed(u)
  PROVE  /\ Opens(how.to, u.env) /\ u \notin how.out
         /\ \E k \in DOMAIN Document.f :
              OuterSeal(u, doc, k, how) \/ \E l : InnerSeal(u, doc, k, l, how)
<1>1. PICK k \in DOMAIN doc.f :
         \/ u = doc.f[k]
         \/ doc.f[k].t = "obj" /\ \E l \in DOMAIN doc.f[k].f : u = doc.f[k].f[l]
  BY NodesOf
<1> DEFINE v == doc.f[k]
           w == Document.f[k]
<1>2. k \in DOMAIN Document.f /\ FieldOf(w) /\ FieldForm(v, w, k, how)
  BY DocumentFields DEF DocumentForm
<1> HIDE DEF v, w
<1>3. /\ IsSealed(v) =>
               /\ <<k>> \in how.reached /\ v.env.ctx = FieldContext(<<k>>)
               /\ Opens(how.to, v.env) /\ v \notin how.out
               /\ v.env.ct.plain = Undefined => w = Undefined
      /\ v.t = "obj" => \A l \in DOMAIN v.f :
               IsSealed(v.f[l]) =>
                  /\ <<k, l>> \in how.reached /\ v.f[l].env.ctx = FieldContext(<<k, l>>)
                  /\ Opens(how.to, v.f[l].env) /\ v.f[l] \notin how.out
                  /\ w.t = "obj" /\ l \in DOMAIN w.f
                  /\ v.f[l].env.ct.plain = Undefined => w.f[l] = Undefined
  BY <1>2, FieldSeals
<1>4. CASE u = v
  <2>1. Opens(how.to, u.env) /\ u \notin how.out /\ OuterSeal(u, doc, k, how)
    BY <1>3, <1>4 DEF v, w, OuterSeal
  <2> QED BY <1>2, <2>1
<1>5. ASSUME v.t = "obj", NEW l \in DOMAIN v.f, u = v.f[l]
      PROVE  /\ Opens(how.to, u.env) /\ u \notin how.out
             /\ w.t = "obj" /\ l \in DOMAIN w.f /\ u.env.ctx = FieldContext(<<k, l>>)
             /\ <<k, l>> \in how.reached /\ (u.env.ct.plain = Undefined => w.f[l] = Undefined)
  BY <1>3, <1>5
<1>6. u = v \/ (v.t = "obj" /\ \E l \in DOMAIN v.f : u = v.f[l])
  BY <1>1 DEF v
<1>7. CASE v.t = "obj" /\ \E l \in DOMAIN v.f : u = v.f[l]
  <2>1. PICK l \in DOMAIN v.f : u = v.f[l]
    BY <1>7
  <2>2. /\ Opens(how.to, u.env) /\ u \notin how.out
        /\ w.t = "obj" /\ l \in DOMAIN w.f /\ u.env.ctx = FieldContext(<<k, l>>)
        /\ <<k, l>> \in how.reached /\ (u.env.ct.plain = Undefined => w.f[l] = Undefined)
    BY <1>5, <1>7, <2>1
  <2>3. InnerSeal(u, doc, k, l, how)
    BY <1>7, <2>1, <2>2 DEF v, w, InnerSeal
  <2> QED BY <1>2, <2>2, <2>3
<1> QED BY <1>4, <1>6, <1>7

\* Different fields are sealed under different contexts.
LEMMA ContextsDiffer ==
  /\ \A k, m : FieldContext(<<k>>) = FieldContext(<<m>>) => k = m
  /\ \A k, l, m, n : FieldContext(<<k, l>>) = FieldContext(<<m, n>>) => k = m /\ l = n
  /\ \A k, m, n : FieldContext(<<k>>) # FieldContext(<<m, n>>)
BY DEF FieldContext

\* openFields: nothing the walk met is left.
LEMMA DocumentOpened ==
  ASSUME NEW doc, NEW was, DocumentForm(doc, was),
         \A u \in Nodes(doc) : IsSealed(u) => u.env.ct.plain # Undefined,
         NEW how, how.to = was.to, how.low = was.low, how.reached = was.reached,
         how.out = was.out \cup Nodes(doc), how.opened
  PROVE  DocumentForm(Opened(doc), how)
<1> DEFINE g == [k \in DOMAIN doc.f |-> WalkField(doc.f[k])]
           new == Obj(g)
<1>1. IsObj(doc) /\ DOMAIN doc.f = DOMAIN Document.f
  BY DEF DocumentForm
<1>2. Opened(doc) = new
  <2>1. doc.t = "obj" /\ Fields(doc) = doc.f
    BY <1>1 DEF IsObj, Obj, Fields
  <2>2. \A h : Walk(doc, h) = Obj(h)
    BY <2>1 DEF Walk, IsSealed
  <2> QED BY <2>1, <2>2 DEF Opened
<1>3. ASSUME NEW k \in DOMAIN Document.f
      PROVE  FieldForm(WalkField(doc.f[k]), Document.f[k], k, how)
  <2> DEFINE v == doc.f[k]
             w == Document.f[k]
             X == Nodes(doc)
  <2>1. FieldForm(v, w, k, was) /\ FieldOf(w)
    BY DocumentFields DEF DocumentForm
  <2>2. /\ IsSealed(v) => v.env.ct.plain # Undefined
        /\ v.t = "obj" => \A l \in DOMAIN v.f : IsSealed(v.f[l]) => v.f[l].env.ct.plain # Undefined
    BY <1>1, NodesOf
  <2>3. \A u \in X : IsSealed(u) /\ u.env.ctx = FieldContext(<<k>>) => u = v
    <3> SUFFICES ASSUME NEW u \in X, IsSealed(u), u.env.ctx = FieldContext(<<k>>)
                 PROVE  u = v
      OBVIOUS
    <3>1. PICK m \in DOMAIN Document.f :
              OuterSeal(u, doc, m, was) \/ \E n : InnerSeal(u, doc, m, n, was)
      BY SealedNodes
    <3>2. ASSUME NEW n, InnerSeal(u, doc, m, n, was)
          PROVE  FALSE
      BY <3>2, ContextsDiffer DEF InnerSeal
    <3> QED BY <3>1, <3>2, ContextsDiffer DEF OuterSeal
  <2>4. \A u \in X : \A l : IsSealed(u) /\ u.env.ctx = FieldContext(<<k, l>>) =>
                               v.t = "obj" /\ u = v.f[l]
    <3> SUFFICES ASSUME NEW u \in X, NEW l, IsSealed(u), u.env.ctx = FieldContext(<<k, l>>)
                 PROVE  v.t = "obj" /\ u = v.f[l]
      OBVIOUS
    <3>1. PICK m \in DOMAIN Document.f :
              OuterSeal(u, doc, m, was) \/ \E n : InnerSeal(u, doc, m, n, was)
      BY SealedNodes
    <3>2. PICK n : InnerSeal(u, doc, m, n, was)
      BY <3>1, ContextsDiffer DEF OuterSeal
    <3> QED BY <3>2, ContextsDiffer DEF InnerSeal
  <2>5. how.out = was.out \cup X
    OBVIOUS
  <2> HIDE DEF v, w, X
  <2>6. FieldForm(WalkField(v), w, k, how)
    BY <2>1, <2>2, <2>3, <2>4, <2>5, FieldOpened
  <2> QED BY <2>6 DEF v, w
<1>4. new.f = g /\ IsObj(new)
  BY DEF Obj, IsObj
<1>5. DOMAIN g = DOMAIN doc.f /\ \A k \in DOMAIN doc.f : g[k] = WalkField(doc.f[k])
  OBVIOUS
<1> HIDE DEF g, new
<1> QED BY <1>1, <1>2, <1>3, <1>4, <1>5 DEF DocumentForm

\* What paths of one and two steps find in the document.
LEMMA OriginalAt ==
  /\ Fields(Document) = Document.f
  /\ \A k \in DOMAIN Document.f :
        Exists(Document, <<k>>) /\ At(Document, <<k>>) = Document.f[k]
  /\ \A k \in DOMAIN Document.f : Document.f[k].t = "obj" => \A l \in DOMAIN Document.f[k].f :
        Exists(Document, <<k, l>>) /\ At(Document, <<k, l>>) = Document.f[k].f[l]
<1>1. Fields(Document) = Document.f
  BY DocumentAssumption DEF Fields, IsObj, Obj
<1>2. ASSUME NEW k \in DOMAIN Document.f
      PROVE  Exists(Document, <<k>>) /\ At(Document, <<k>>) = Document.f[k]
  <2>1. Parent(Document, <<k>>) = Document /\ Last(<<k>>) = k
    BY DEF Parent, Last
  <2> QED BY <1>1, <2>1 DEF Exists, At
<1>3. ASSUME NEW k \in DOMAIN Document.f, Document.f[k].t = "obj", NEW l \in DOMAIN Document.f[k].f
      PROVE  Exists(Document, <<k, l>>) /\ At(Document, <<k, l>>) = Document.f[k].f[l]
  <2>1. Parent(Document, <<k, l>>) = Document.f[k] /\ Last(<<k, l>>) = l
    BY <1>1 DEF Parent, Last
  <2>2. Fields(Document.f[k]) = Document.f[k].f
    BY <1>3 DEF Fields
  <2> QED BY <2>1, <2>2 DEF Exists, At
<1> QED BY <1>1, <1>2, <1>3

\* Opening throws only for a value undefined that was sealed.
LEMMA DocumentThrows ==
  ASSUME NEW doc, NEW how, DocumentForm(doc, how), NEW u \in Nodes(doc), IsSealed(u),
         ~FieldOpens(how.to, u)
  PROVE  Lost(how.reached)
<1>1. u.env.ct.plain = Undefined
  BY SealedNodes DEF FieldOpens
<1>2. PICK k \in DOMAIN Document.f :
         OuterSeal(u, doc, k, how) \/ \E l : InnerSeal(u, doc, k, l, how)
  BY SealedNodes
<1>3. CASE OuterSeal(u, doc, k, how)
  BY <1>1, <1>3, OriginalAt DEF Lost, OuterSeal
<1>4. ASSUME NEW l, InnerSeal(u, doc, k, l, how)
      PROVE  Lost(how.reached)
  BY <1>1, <1>4, OriginalAt DEF Lost, InnerSeal
<1> QED BY <1>2, <1>3, <1>4

\* A field in no envelope.
LEMMA FieldRestored ==
  ASSUME NEW v, NEW w, FieldOf(w), NEW k, NEW how, FieldForm(v, w, k, how), how.opened,
         ~IsSealed(v), v.t = "obj" => \A l \in DOMAIN v.f : ~IsSealed(v.f[l])
  PROVE  /\ v = IF <<k>> \in how.reached THEN Json(w)
                ELSE IF w.t = "obj"
                     THEN Obj([l \in DOMAIN w.f |->
                             IF <<k, l>> \in how.reached THEN Json(w.f[l]) ELSE WalkLeaf(w.f[l])])
                     ELSE WalkLeaf(w)
         /\ <<k>> \in how.reached => w # Undefined
         /\ w.t = "obj" => \A l \in DOMAIN w.f : <<k, l>> \in how.reached => w.f[l] # Undefined
<1>1. CASE Small(w)
  <2>1. LeafForm(v, w, <<k>>, WalkLeaf(w), how) /\ w.t # "obj"
    BY <1>1, SmallValues DEF FieldForm, Kept
  <2>2. CASE <<k>> \in how.reached
    <3>1. v = Json(w) /\ Json(w) # Undefined
      BY <2>1, <2>2, LayersBase DEF LeafForm
    <3> QED BY <1>1, <2>1, <2>2, <3>1, SmallValues
  <2>3. CASE <<k>> \notin how.reached
    BY <2>1, <2>3 DEF LeafForm
  <2> QED BY <2>2, <2>3
<1>2. CASE ~Small(w) /\ <<k>> \in how.reached
  <2>1. w.t = "obj" /\ \A l \in DOMAIN w.f : Small(w.f[l])
    BY <1>2 DEF FieldOf
  <2>2. PICK base : JsonForm(base, w, k, how) /\ Layers(v, base, <<k>>, how)
    BY <1>2, <2>1 DEF FieldForm
  <2>3. v = base /\ v # Undefined
    BY <2>2, LayersBase
  <2>4. /\ IsObj(v) /\ v.t = "obj"
        /\ DOMAIN v.f = {l \in DOMAIN w.f : w.f[l] # Undefined \/ <<k, l>> \in how.reached}
        /\ \A l \in DOMAIN v.f : LeafForm(v.f[l], w.f[l], <<k, l>>, Json(w.f[l]), how)
    BY <2>2, <2>3, ObjectWalked DEF JsonForm
  <2>5. ASSUME NEW l \in DOMAIN v.f
        PROVE  v.f[l] = JsonLeaf(w.f[l]) /\ (<<k, l>> \in how.reached => w.f[l] # Undefined)
    <3>1. Small(w.f[l]) /\ ~IsSealed(v.f[l])
      BY <2>1, <2>4
    <3>2. Json(w.f[l]) = JsonLeaf(w.f[l]) /\ (Json(w.f[l]) = Undefined <=> w.f[l] = Undefined)
      BY <3>1, SmallValues
    <3> QED BY <2>4, <3>1, <3>2, LayersBase DEF LeafForm
  <2>6. DOMAIN v.f = {l \in DOMAIN w.f : w.f[l] # Undefined}
    BY <2>4, <2>5
  <2>7. v.f = [l \in {l \in DOMAIN w.f : w.f[l] # Undefined} |-> JsonLeaf(w.f[l])]
    <3>1. v.f = [l \in DOMAIN v.f |-> v.f[l]]
      BY <2>4 DEF IsObj, Obj
    <3> QED BY <2>5, <2>6, <3>1
  <2>8. v = Json(w)
    <3>1. v = Obj(v.f)
      BY <2>4 DEF IsObj, Obj
    <3> QED BY <2>1, <2>7, <3>1 DEF Json
  <2>9. w # Undefined
    BY <2>1 DEF Undefined
  <2> QED BY <1>2, <2>4, <2>5, <2>8, <2>9
<1>3. CASE ~Small(w) /\ <<k>> \notin how.reached
  <2>1. w.t = "obj" /\ \A l \in DOMAIN w.f : Small(w.f[l])
    BY <1>3 DEF FieldOf
  <2>2. /\ IsObj(v) /\ v.t = "obj" /\ DOMAIN v.f = DOMAIN w.f
        /\ \A l \in DOMAIN v.f : LeafForm(v.f[l], w.f[l], <<k, l>>, WalkLeaf(w.f[l]), how)
    BY <1>3, <2>1, ObjectWalked DEF FieldForm, ObjectForm, Kept
  <2>3. ASSUME NEW l \in DOMAIN w.f
        PROVE  /\ v.f[l] = IF <<k, l>> \in how.reached THEN Json(w.f[l]) ELSE WalkLeaf(w.f[l])
               /\ <<k, l>> \in how.reached => w.f[l] # Undefined
    <3>1. Small(w.f[l]) /\ ~IsSealed(v.f[l])
      BY <2>1, <2>2
    <3>2. Json(w.f[l]) = Undefined <=> w.f[l] = Undefined
      BY <3>1, SmallValues
    <3> QED BY <2>2, <3>1, <3>2, LayersBase DEF LeafForm
  <2>4. v.f = [l \in DOMAIN w.f |->
                 IF <<k, l>> \in how.reached THEN Json(w.f[l]) ELSE WalkLeaf(w.f[l])]
    <3>1. v.f = [l \in DOMAIN v.f |-> v.f[l]]
      BY <2>2 DEF IsObj, Obj
    <3> QED BY <2>2, <2>3, <3>1
  <2>5. v = Obj(v.f)
    BY <2>2 DEF IsObj, Obj
  <2> QED BY <1>3, <2>1, <2>3, <2>4, <2>5
<1> QED BY <1>1, <1>2, <1>3

\* While sealFields runs, a field of how.reached is in an envelope.
LEMMA LeafLower ==
  ASSUME NEW v, NEW w, NEW path, NEW kept, NEW was, LeafForm(v, w, path, kept, was),
         NEW how, how.to = was.to, how.out = was.out, how.opened = was.opened,
         how.low \in Nat, was.low \in Nat, how.low <= was.low,
         path \in how.reached <=> path \in was.reached
  PROVE  LeafForm(v, w, path, kept, how)
BY LayersLower DEF LeafForm

\* A field that no step touches.
LEMMA FieldLower ==
  ASSUME NEW v, NEW w, NEW k, NEW was, FieldForm(v, w, k, was),
         NEW how, how.to = was.to, how.out = was.out, how.opened = was.opened,
         how.low \in Nat, was.low \in Nat, how.low <= was.low,
         <<k>> \in how.reached <=> <<k>> \in was.reached,
         w.t = "obj" /\ <<k>> \notin was.reached =>
            \A l \in DOMAIN v.f : <<k, l>> \in how.reached <=> <<k, l>> \in was.reached,
         w.t = "obj" /\ <<k>> \in was.reached =>
            \A l \in DOMAIN w.f : <<k, l>> \in how.reached <=> <<k, l>> \in was.reached
  PROVE  FieldForm(v, w, k, how)
<1>1. CASE w.t # "obj"
  BY <1>1, LeafLower DEF FieldForm, Kept
<1>2. CASE w.t = "obj" /\ <<k>> \in was.reached
  <2>1. PICK base : JsonForm(base, w, k, was) /\ Layers(v, base, <<k>>, was)
    BY <1>2 DEF FieldForm
  <2>2. Layers(v, base, <<k>>, how)
    BY <2>1, LayersLower
  <2>3. /\ IsObj(base)
        /\ DOMAIN base.f = {l \in DOMAIN w.f : w.f[l] # Undefined \/ <<k, l>> \in was.reached}
        /\ \A l \in DOMAIN base.f : LeafForm(base.f[l], w.f[l], <<k, l>>, Json(w.f[l]), was)
    BY <2>1 DEF JsonForm
  <2>4. \A l \in DOMAIN base.f : LeafForm(base.f[l], w.f[l], <<k, l>>, Json(w.f[l]), how)
    BY <1>2, <2>3, LeafLower
  <2>5. DOMAIN base.f = {l \in DOMAIN w.f : w.f[l] # Undefined \/ <<k, l>> \in how.reached}
    BY <1>2, <2>3
  <2>6. JsonForm(base, w, k, how)
    BY <2>3, <2>4, <2>5 DEF JsonForm
  <2> QED BY <1>2, <2>2, <2>6 DEF FieldForm
<1>3. CASE w.t = "obj" /\ <<k>> \notin was.reached
  <2>1. /\ IsObj(v) /\ DOMAIN v.f = DOMAIN w.f
        /\ \A l \in DOMAIN v.f : LeafForm(v.f[l], w.f[l], <<k, l>>, Kept(w.f[l], was), was)
    BY <1>3 DEF FieldForm, ObjectForm
  <2>2. ASSUME NEW l \in DOMAIN v.f
        PROVE  LeafForm(v.f[l], w.f[l], <<k, l>>, Kept(w.f[l], how), how)
    <3>1. Kept(w.f[l], how) = Kept(w.f[l], was)
      BY DEF Kept
    <3> QED BY <1>3, <2>1, <3>1, LeafLower
  <2>3. ObjectForm(v, w, k, how)
    BY <2>1, <2>2 DEF ObjectForm
  <2> QED BY <1>3, <2>3 DEF FieldForm
<1> QED BY <1>1, <1>2, <1>3

\* How sealFields goes from one path to the next: the next envelope has number
\* was.low, and all later ones a lower one.
Sealing(was, how, m) ==
  /\ how.to = was.to /\ how.out = {} /\ was.out = {} /\ ~how.opened /\ how.opened = was.opened
  /\ m \in Nat /\ was.low = m /\ how.low \in Nat /\ how.low < m

\* Sealing changes neither reader nor what was opened, and lowers the bound on numbers.
LEMMA SealingLowers ==
  ASSUME NEW was, NEW how, NEW m, Sealing(was, how, m)
  PROVE  /\ how.to = was.to /\ how.out = was.out /\ how.opened = was.opened
         /\ how.low \in Nat /\ was.low \in Nat /\ how.low <= was.low
BY DEF Sealing

\* A value without fields is sealed, for the first time or once more.
LEMMA LeafSeal ==
  ASSUME NEW v, NEW w, Small(w), NEW path, NEW was, LeafForm(v, w, path, w, was),
         NEW how, NEW m, Sealing(was, how, m), path \in how.reached, NEW i, NEW s,
         s = SealedField(Envelope(how.to, <<i, m>>, Json(v), FieldContext(path))), NEW kept
  PROVE  LeafForm(s, w, path, kept, how)
<1>1. ~IsSealed(Json(w))
  BY SmallValues
<1>2. CASE path \in was.reached
  <2>1. Layers(v, Json(w), path, was)
    BY <1>2 DEF LeafForm
  <2>2. IsSealed(v)
    BY <2>1, LayersBase DEF Sealing
  <2>3. Json(v) = v
    BY <2>2, SealedJson
  <2>4. Layers(s, Json(w), path, how)
    BY <1>1, <2>1, <2>2, <2>3, OneMoreLayer DEF Sealing
  <2> QED BY <2>4 DEF LeafForm
<1>3. CASE path \notin was.reached
  <2>1. v = w
    BY <1>3 DEF LeafForm
  <2>2. Layers(s, Json(w), path, how)
    BY <1>1, <2>1, FirstLayer DEF Sealing
  <2> QED BY <2>2 DEF LeafForm
<1> QED BY <1>2, <1>3

\* The JSON of an object some fields of which are sealed.
LEMMA ObjectJson ==
  ASSUME NEW v, NEW w, w.t = "obj", \A l \in DOMAIN w.f : Small(w.f[l]), NEW k, NEW was,
         ObjectForm(v, w, k, was), NEW how, NEW m, Sealing(was, how, m),
         \A l \in DOMAIN w.f : <<k, l>> \in how.reached <=> <<k, l>> \in was.reached
  PROVE  JsonForm(Json(v), w, k, how)
<1> DEFINE D == {l \in DOMAIN v.f : v.f[l] # Undefined}
           g == [l \in D |-> JsonLeaf(v.f[l])]
           x == Obj(g)
<1>1. /\ IsObj(v) /\ v.t = "obj" /\ DOMAIN v.f = DOMAIN w.f
      /\ \A l \in DOMAIN v.f : LeafForm(v.f[l], w.f[l], <<k, l>>, w.f[l], was)
  BY ObjectWalked DEF ObjectForm, Kept, Sealing
<1>2. Json(v) = x
  BY <1>1 DEF Json
<1>3. ASSUME NEW l \in DOMAIN v.f, <<k, l>> \in was.reached
      PROVE  IsSealed(v.f[l]) /\ Layers(v.f[l], Json(w.f[l]), <<k, l>>, was)
  BY <1>1, <1>3, LayersBase DEF LeafForm, Sealing
<1>4. ASSUME NEW l \in DOMAIN v.f, <<k, l>> \notin was.reached
      PROVE  v.f[l] = w.f[l]
  BY <1>1, <1>4 DEF LeafForm
<1>5. \A l \in DOMAIN v.f : l \in D <=> w.f[l] # Undefined \/ <<k, l>> \in how.reached
  <2> TAKE l \in DOMAIN v.f
  <2>1. CASE <<k, l>> \in was.reached
    BY <1>1, <1>3, <2>1, SealedJson
  <2>2. CASE <<k, l>> \notin was.reached
    BY <1>1, <1>4, <2>2
  <2> QED BY <2>1, <2>2
<1>6. ASSUME NEW l \in D
      PROVE  LeafForm(JsonLeaf(v.f[l]), w.f[l], <<k, l>>, Json(w.f[l]), how)
  <2>1. CASE <<k, l>> \in was.reached
    <3>1. JsonLeaf(v.f[l]) = v.f[l] /\ Layers(v.f[l], Json(w.f[l]), <<k, l>>, was)
      BY <1>3, <2>1, SealedJson
    <3>2. Layers(v.f[l], Json(w.f[l]), <<k, l>>, how)
      BY <3>1, LayersLower, SealingLowers
    <3> QED BY <1>1, <2>1, <3>1, <3>2 DEF LeafForm
  <2>2. CASE <<k, l>> \notin was.reached
    <3>1. v.f[l] = w.f[l] /\ Json(w.f[l]) = JsonLeaf(w.f[l])
      BY <1>1, <1>4, <2>2, SmallValues
    <3> QED BY <1>1, <2>2, <3>1 DEF LeafForm
  <2> QED BY <2>1, <2>2
<1>7. x.f = g /\ IsObj(x)
  BY DEF Obj, IsObj
<1>8. DOMAIN g = D /\ \A l \in D : g[l] = JsonLeaf(v.f[l])
  OBVIOUS
<1>9. DOMAIN g = {l \in DOMAIN w.f : w.f[l] # Undefined \/ <<k, l>> \in how.reached}
  BY <1>1, <1>5
<1> HIDE DEF g, x, D
<1>10. JsonForm(x, w, k, how)
  BY <1>6, <1>7, <1>8, <1>9 DEF JsonForm
<1> QED BY <1>2, <1>10

\* An object is sealed, for the first time or once more.
LEMMA ObjectSeal ==
  ASSUME NEW v, NEW w, w.t = "obj", \A l \in DOMAIN w.f : Small(w.f[l]), NEW k, NEW was,
         FieldForm(v, w, k, was), NEW how, NEW m, Sealing(was, how, m), <<k>> \in how.reached,
         \A l \in DOMAIN w.f : <<k, l>> \in how.reached <=> <<k, l>> \in was.reached,
         NEW i, NEW s,
         s = SealedField(Envelope(how.to, <<i, m>>, Json(v), FieldContext(<<k>>)))
  PROVE  FieldForm(s, w, k, how)
<1>1. CASE <<k>> \in was.reached
  <2>1. PICK base : JsonForm(base, w, k, was) /\ Layers(v, base, <<k>>, was)
    BY <1>1 DEF FieldForm
  <2>2. /\ IsObj(base) /\ ~IsSealed(base)
        /\ DOMAIN base.f = {l \in DOMAIN w.f : w.f[l] # Undefined \/ <<k, l>> \in was.reached}
        /\ \A l \in DOMAIN base.f : LeafForm(base.f[l], w.f[l], <<k, l>>, Json(w.f[l]), was)
    BY <2>1, ObjectWalked DEF JsonForm
  <2>3. IsSealed(v)
    BY <2>1, LayersBase DEF Sealing
  <2>4. Json(v) = v
    BY <2>3, SealedJson
  <2>5. Layers(s, base, <<k>>, how)
    BY <2>1, <2>2, <2>3, <2>4, OneMoreLayer DEF Sealing
  <2>6. \A l \in DOMAIN base.f : LeafForm(base.f[l], w.f[l], <<k, l>>, Json(w.f[l]), how)
    <3> TAKE l \in DOMAIN base.f
    <3>1. <<k, l>> \in how.reached <=> <<k, l>> \in was.reached
      BY <2>2
    <3> QED BY <2>2, <3>1, LeafLower, SealingLowers
  <2>7. JsonForm(base, w, k, how)
    BY <2>2, <2>6 DEF JsonForm
  <2> QED BY <2>5, <2>7 DEF FieldForm
<1>2. CASE <<k>> \notin was.reached
  <2> DEFINE base == Json(v)
  <2>1. JsonForm(base, w, k, how)
    BY <1>2, ObjectJson DEF FieldForm
  <2>2. ~IsSealed(base)
    BY <2>1, ObjectWalked DEF JsonForm
  <2> HIDE DEF base
  <2>3. s = SealedField(Envelope(how.to, <<i, m>>, base, FieldContext(<<k>>)))
    BY DEF base
  <2>4. Layers(s, base, <<k>>, how)
    BY <2>2, <2>3, FirstLayer DEF Sealing
  <2> QED BY <2>1, <2>4 DEF FieldForm
<1> QED BY <1>1, <1>2

\* A field of an object is sealed, for the first time or once more.
LEMMA ObjectPut ==
  ASSUME NEW v, NEW w, w.t = "obj", \A l \in DOMAIN w.f : Small(w.f[l]), NEW k, NEW was,
         ObjectForm(v, w, k, was), NEW how, NEW m, Sealing(was, how, m),
         NEW b \in DOMAIN w.f, <<k, b>> \in how.reached,
         \A l \in DOMAIN w.f : l # b => (<<k, l>> \in how.reached <=> <<k, l>> \in was.reached),
         NEW i, NEW s,
         s = SealedField(Envelope(how.to, <<i, m>>, Json(v.f[b]), FieldContext(<<k, b>>)))
  PROVE  ObjectForm([v EXCEPT !.f[b] = s], w, k, how)
<1> DEFINE x == [v EXCEPT !.f[b] = s]
<1>1. /\ IsObj(v) /\ DOMAIN v.f = DOMAIN w.f
      /\ \A l \in DOMAIN v.f : LeafForm(v.f[l], w.f[l], <<k, l>>, w.f[l], was)
  BY DEF ObjectForm, Kept, Sealing
<1>2. /\ IsObj(x) /\ DOMAIN x.f = DOMAIN w.f
      /\ \A l \in DOMAIN w.f : x.f[l] = IF l = b THEN s ELSE v.f[l]
  BY <1>1 DEF IsObj, Obj
<1> HIDE DEF x
<1>3. ASSUME NEW l \in DOMAIN w.f
      PROVE  LeafForm(x.f[l], w.f[l], <<k, l>>, Kept(w.f[l], how), how)
  <2>1. Kept(w.f[l], how) = w.f[l]
    BY DEF Kept, Sealing
  <2>2. CASE l = b
    <3>1. Small(w.f[b]) /\ LeafForm(v.f[b], w.f[b], <<k, b>>, w.f[b], was)
      BY <1>1
    <3>2. LeafForm(s, w.f[b], <<k, b>>, w.f[b], how)
      BY <3>1, LeafSeal
    <3> QED BY <1>2, <2>1, <2>2, <3>2
  <2>3. CASE l # b
    <3>1. LeafForm(v.f[l], w.f[l], <<k, l>>, w.f[l], how)
      BY <1>1, <2>3, LeafLower, SealingLowers
    <3> QED BY <1>2, <2>1, <2>3, <3>1
  <2> QED BY <2>2, <2>3
<1>4. ObjectForm(x, w, k, how)
  BY <1>2, <1>3 DEF ObjectForm
<1> QED BY <1>4 DEF x

\* A path is a tuple of one step or two.
LEMMA PathTuples ==
  ASSUME NEW path \in Paths
  PROVE  \/ Len(path) = 1 /\ path = <<path[1]>>
         \/ Len(path) = 2 /\ path = <<path[1], path[2]>>
<1>1. path \in Seq(STRING) /\ Len(path) \in {1, 2}
  BY DocumentAssumption
<1> QED BY <1>1

\* An object of the document being sealed was not sealed itself.
LEMMA UnsealedObject ==
  ASSUME NEW v, NEW w, FieldOf(w), NEW k, NEW how, FieldForm(v, w, k, how), ~how.opened,
         v.t = "obj"
  PROVE  w.t = "obj" /\ <<k>> \notin how.reached /\ ObjectForm(v, w, k, how)
<1>1. ~IsSealed(v)
  BY DEF IsSealed
<1>2. CASE Small(w)
  <2>1. LeafForm(v, w, <<k>>, w, how) /\ w.t # "obj"
    BY <1>2, SmallValues DEF FieldForm, Kept
  <2> QED BY <1>1, <2>1, LayersBase DEF LeafForm
<1>3. CASE ~Small(w)
  BY <1>1, <1>3, LayersBase DEF FieldForm, FieldOf
<1> QED BY <1>2, <1>3

\* One path of sealFields' loop.
LEMMA PathSealed ==
  ASSUME NEW doc, NEW was, DocumentForm(doc, was), NEW path \in Paths,
         NEW how, NEW m, Sealing(was, how, m),
         how.reached = IF Len(path) = 2 /\ <<path[1]>> \in was.reached
                       THEN was.reached ELSE was.reached \cup {path},
         NEW i, NEW new,
         new = IF Exists(doc, path) THEN FieldSealed(doc, path, how.to, <<i, m>>) ELSE doc
  PROVE  DocumentForm(new, how)
<1> DEFINE a == path[1]
           v == doc.f[a]
           w == Document.f[a]
<1>1. /\ IsObj(doc) /\ DOMAIN doc.f = DOMAIN Document.f
      /\ \A k \in DOMAIN Document.f :
            FieldForm(doc.f[k], Document.f[k], k, was) /\ FieldOf(Document.f[k])
  BY DocumentFields DEF DocumentForm
<1>2. Fields(doc) = doc.f /\ doc.t = "obj"
  BY <1>1 DEF Fields, IsObj, Obj
<1>3. ASSUME NEW y, a \in DOMAIN doc.f, FieldForm(y, w, a, how),
             new = [doc EXCEPT !.f[a] = y],
             \A k \in DOMAIN doc.f : k # a => FieldForm(doc.f[k], Document.f[k], k, how)
      PROVE  DocumentForm(new, how)
  <2> HIDE DEF a
  <2>1. /\ IsObj(new) /\ DOMAIN new.f = DOMAIN doc.f
        /\ \A k \in DOMAIN doc.f : new.f[k] = IF k = a THEN y ELSE doc.f[k]
    BY <1>1, <1>3 DEF IsObj, Obj
  <2> QED BY <1>1, <1>3, <2>1 DEF DocumentForm
<1>4. ASSUME NEW k \in DOMAIN doc.f, k # a
      PROVE  FieldForm(doc.f[k], Document.f[k], k, how)
  <2>1. /\ <<k>> \in how.reached <=> <<k>> \in was.reached
        /\ \A l : <<k, l>> \in how.reached <=> <<k, l>> \in was.reached
    <3>1. path # <<k>> /\ \A l : path # <<k, l>>
      BY <1>4
    <3> QED BY <3>1
  <2> QED BY <1>1, <2>1, FieldLower, SealingLowers
<1>5. CASE Len(path) = 1
  <2>1. path = <<a>> /\ (Exists(doc, path) <=> a \in DOMAIN doc.f)
    BY <1>2, <1>5, PathTuples, PathSteps
  <2>2. <<a>> \in how.reached /\ \A l : <<a, l>> \in how.reached <=> <<a, l>> \in was.reached
    BY <1>5, <2>1
  <2>3. CASE a \in DOMAIN doc.f
    <3> DEFINE s == SealedField(Envelope(how.to, <<i, m>>, Json(v), FieldContext(<<a>>)))
    <3>1. At(doc, path) = v
      BY <1>2, <1>5 DEF At, Parent, Last
    <3>2. new = [doc EXCEPT !.f[a] = s]
      BY <1>5, <2>1, <2>3, <3>1 DEF FieldSealed, Put
    <3>3. s = SealedField(Envelope(how.to, <<i, m>>, Json(v), FieldContext(<<a>>)))
      OBVIOUS
    <3>4. FieldForm(v, w, a, was) /\ FieldOf(w)
      BY <1>1, <2>3
    <3> HIDE DEF s, v, w
    <3>5. FieldForm(s, w, a, how)
      <4>1. CASE Small(w)
        <5>1. LeafForm(v, w, <<a>>, w, was) /\ w.t # "obj"
          BY <3>4, <4>1, SmallValues DEF FieldForm, Kept, Sealing
        <5>2. LeafForm(s, w, <<a>>, Kept(w, how), how)
          BY <2>2, <3>3, <4>1, <5>1, LeafSeal
        <5> QED BY <5>1, <5>2 DEF FieldForm
      <4>2. CASE w.t = "obj" /\ \A l \in DOMAIN w.f : Small(w.f[l])
        BY <2>2, <3>3, <3>4, <4>2, ObjectSeal
      <4> QED BY <3>4, <4>1, <4>2 DEF FieldOf
    <3> QED BY <1>3, <1>4, <2>3, <3>2, <3>5 DEF w
  <2>4. CASE a \notin DOMAIN doc.f
    <3>1. new = doc /\ \A k \in DOMAIN doc.f : k # a
      BY <2>1, <2>4
    <3> QED BY <1>1, <1>4, <3>1 DEF DocumentForm
  <2> QED BY <2>3, <2>4
<1>6. CASE Len(path) = 2
  <2> DEFINE b == path[2]
  <2>1. /\ path = <<a, b>>
        /\ Exists(doc, path) <=> a \in DOMAIN doc.f /\ b \in DOMAIN Fields(v)
    BY <1>2, <1>6, PathTuples, PathSteps
  <2>2. CASE Exists(doc, path)
    <3> DEFINE s == SealedField(Envelope(how.to, <<i, m>>, Json(v.f[b]), FieldContext(<<a, b>>)))
               x == [v EXCEPT !.f[b] = s]
    <3>1. a \in DOMAIN doc.f /\ v.t = "obj" /\ b \in DOMAIN v.f /\ Fields(v) = v.f
      <4>1. DOMAIN <<>> = {}
        OBVIOUS
      <4> QED BY <2>1, <2>2, <4>1 DEF Fields
    <3>2. At(doc, path) = v.f[b]
      <4>1. Parent(doc, path) = v /\ Last(path) = b
        BY <1>2, <1>6, <3>1 DEF Parent, Last
      <4> QED BY <3>1, <4>1 DEF At
    <3>3. new = [doc EXCEPT !.f[a].f[b] = s]
      BY <1>6, <2>1, <2>2, <3>2 DEF FieldSealed, Put
    <3>4. FieldForm(v, w, a, was) /\ FieldOf(w) /\ ~was.opened
      BY <1>1, <3>1 DEF Sealing
    <3>5. w.t = "obj" /\ <<a>> \notin was.reached /\ ObjectForm(v, w, a, was)
      BY <3>1, <3>4, UnsealedObject
    <3>6. \A l \in DOMAIN w.f : Small(w.f[l])
      BY <3>4, <3>5, SmallValues DEF FieldOf
    <3>7. how.reached = was.reached \cup {path}
      BY <3>5
    <3>8. /\ <<a>> \notin how.reached /\ <<a, b>> \in how.reached
          /\ \A l : l # b => (<<a, l>> \in how.reached <=> <<a, l>> \in was.reached)
      BY <2>1, <3>5, <3>7
    <3>9. b \in DOMAIN w.f
      BY <3>1, <3>5 DEF ObjectForm
    <3>10. new = [doc EXCEPT !.f[a] = x]
      BY <3>1, <3>3
    <3>11. s = SealedField(Envelope(how.to, <<i, m>>, Json(v.f[b]), FieldContext(<<a, b>>)))
      OBVIOUS
    <3> HIDE DEF s, v, w, a, b
    <3>12. ObjectForm(x, w, a, how)
      BY <3>5, <3>6, <3>8, <3>9, <3>11, ObjectPut
    <3>13. FieldForm(x, w, a, how)
      BY <3>5, <3>8, <3>12 DEF FieldForm
    <3> HIDE DEF x
    <3> QED BY <1>3, <1>4, <3>1, <3>10, <3>13 DEF w, a
  <2>3. CASE ~Exists(doc, path)
    <3>1. new = doc
      BY <2>3
    <3>2. ASSUME a \in DOMAIN doc.f
          PROVE  FieldForm(v, w, a, how)
      <4>1. FieldForm(v, w, a, was) /\ b \notin DOMAIN Fields(v)
        BY <1>1, <2>1, <2>3, <3>2
      <4>2. <<a>> \in how.reached <=> <<a>> \in was.reached
        BY <2>1
      <4>3. CASE <<a>> \in was.reached
        <5>1. how.reached = was.reached
          BY <1>6, <4>3
        <5> HIDE DEF v, w, a
        <5> QED BY <4>1, <5>1, FieldLower, SealingLowers
      <4>4. CASE <<a>> \notin was.reached
        <5>1. ASSUME w.t = "obj", NEW l \in DOMAIN v.f
              PROVE  <<a, l>> \in how.reached <=> <<a, l>> \in was.reached
          <6>1. ObjectForm(v, w, a, was)
            BY <4>1, <4>4, <5>1 DEF FieldForm
          <6>2. Fields(v) = v.f
            BY <6>1, ObjectWalked DEF ObjectForm, Fields
          <6>3. l # b
            BY <4>1, <5>1, <6>2
          <6> QED BY <2>1, <6>3
        <5> HIDE DEF v, w, a
        <5> QED BY <4>1, <4>2, <4>4, <5>1, FieldLower, SealingLowers
      <4> QED BY <4>3, <4>4
    <3> QED BY <1>1, <1>4, <3>1, <3>2 DEF DocumentForm
  <2> QED BY <2>2, <2>3
<1> QED BY <1>5, <1>6, PathTuples

\* The prefix of length 1.
LEMMA FirstAlone ==
  ASSUME NEW S, NEW s \in Seq(S), Len(s) >= 1
  PROVE  SubSeq(s, 1, 1) = <<s[1]>>
<1> DEFINE r == SubSeq(s, 1, 1)
<1>1. \A i \in 1..1 : s[i] \in S
  BY ElementOfSeq
<1>2. r \in Seq(S) /\ Len(r) = 1 /\ r[1] = s[1]
  BY <1>1, SubSeqProperties
<1> HIDE DEF r
<1>3. r = <<r[1]>>
  BY <1>2
<1> QED BY <1>2, <1>3 DEF r

\* Only an object's path is a strict prefix, and only of the paths of its fields.
LEMMA PathPrefixes ==
  ASSUME NEW s \in Paths, NEW t \in Paths
  PROVE  IsStrictPrefix(s, t) <=> Len(t) = 2 /\ s = <<t[1]>>
<1>1. /\ Len(s) = 1 \/ Len(s) = 2
      /\ Len(s) = 1 => s = <<s[1]>>
      /\ Len(t) = 1 \/ Len(t) = 2
      /\ Len(t) = 1 => t = <<t[1]>>
  BY PathTuples
<1>2. s \in Seq(STRING) /\ t \in Seq(STRING)
  BY DocumentAssumption
<1>3. IsStrictPrefix(s, t) <=>
         Len(s) <= Len(t) /\ SubSeq(s, 1, Len(s)) = SubSeq(t, 1, Len(s)) /\ s # t
  BY DEF IsStrictPrefix, IsPrefix
<1>4. CASE Len(s) = 1
  <2>1. SubSeq(s, 1, 1) = <<s[1]>> /\ SubSeq(t, 1, 1) = <<t[1]>>
    BY <1>1, <1>2, FirstAlone
  <2>2. <<s[1]>> = <<t[1]>> <=> s[1] = t[1]
    OBVIOUS
  <2>3. CASE Len(t) = 1
    BY <1>1, <1>3, <1>4, <2>1, <2>2, <2>3
  <2>4. CASE Len(t) = 2
    <3>1. s # t
      BY <1>4, <2>4
    <3> QED BY <1>1, <1>3, <1>4, <2>1, <2>2, <2>4, <3>1
  <2> QED BY <1>1, <2>3, <2>4
<1>5. CASE Len(s) = 2
  <2>1. s # <<t[1]>>
    <3>1. Len(<<t[1]>>) = 1
      OBVIOUS
    <3> QED BY <1>5, <3>1
  <2>2. ASSUME Len(t) = 2, SubSeq(s, 1, 2) = SubSeq(t, 1, 2)
        PROVE  s = t
    <3>1. SubSeq(s, 1, 2) = s /\ SubSeq(t, 1, 2) = t
      BY <1>2, <1>5, <2>2, SubSeqFull
    <3> QED BY <2>2, <3>1
  <2> QED BY <1>1, <1>3, <1>5, <2>1, <2>2
<1> QED BY <1>1, <1>4, <1>5

\* Before the first path nothing is sealed.
LEMMA NothingReached ==
  ASSUME NEW paths
  PROVE  ReachedBy(paths, 0) = {}
BY DEF ReachedBy

\* Only what was asked for is sealed.
LEMMA ReachedArePaths ==
  ASSUME NEW paths \in Seq(Paths), NEW n \in 0..Len(paths)
  PROVE  ReachedBy(paths, n) \subseteq Paths
<1>1. \A i \in 1..n : paths[i] \in Paths
  BY ElementOfSeq, LenProperties
<1> QED BY <1>1 DEF ReachedBy

\* What the next path seals.
LEMMA ReachedNext ==
  ASSUME NEW paths \in Seq(Paths), NEW n \in Nat, n + 1 <= Len(paths)
  PROVE  ReachedBy(paths, n + 1) =
            IF Len(paths[n + 1]) = 2 /\ <<paths[n + 1][1]>> \in ReachedBy(paths, n)
            THEN ReachedBy(paths, n) ELSE ReachedBy(paths, n) \cup {paths[n + 1]}
<1> DEFINE path == paths[n + 1]
           First(i) == \A j \in 1..(i - 1) : ~IsStrictPrefix(paths[j], paths[i])
<1>1. \A i \in 1..(n + 1) : paths[i] \in Paths
  BY ElementOfSeq, LenProperties
<1>2. \A q : \A k \in 0..(n + 1) :
        q \in ReachedBy(paths, k) <=> \E i \in 1..k : q = paths[i] /\ First(i)
  BY DEF ReachedBy
<1>3. \A q : q \in ReachedBy(paths, n + 1) <=>
            q \in ReachedBy(paths, n) \/ (q = path /\ First(n + 1))
  <2> HIDE DEF First
  <2>1. 1..(n + 1) = 1..n \cup {n + 1}
    OBVIOUS
  <2>2. n \in 0..(n + 1) /\ n + 1 \in 0..(n + 1)
    OBVIOUS
  <2> QED BY <1>2, <2>1, <2>2
<1>4. First(n + 1) <=> ~(Len(path) = 2 /\ \E j \in 1..n : paths[j] = <<path[1]>>)
  <2>1. (n + 1) - 1 = n
    OBVIOUS
  <2>2. path \in Paths /\ \A j \in 1..n : paths[j] \in Paths
    BY <1>1
  <2>3. First(n + 1) <=> \A j \in 1..n : ~IsStrictPrefix(paths[j], path)
    BY <2>1
  <2> HIDE DEF First, path
  <2> QED BY <2>2, <2>3, PathPrefixes
<1>5. (\E j \in 1..n : paths[j] = <<path[1]>>) <=> <<path[1]>> \in ReachedBy(paths, n)
  <2>1. ASSUME NEW j \in 1..n, paths[j] = <<path[1]>>
        PROVE  First(j)
    <3>1. paths[j] \in Paths /\ Len(paths[j]) = 1 /\ \A i \in 1..(j - 1) : paths[i] \in Paths
      <4>1. j \in 1..(n + 1) /\ \A i \in 1..(j - 1) : i \in 1..(n + 1)
        OBVIOUS
      <4> QED BY <1>1, <2>1, <4>1
    <3>2. \A i \in 1..(j - 1) : ~IsStrictPrefix(paths[i], paths[j])
      <4> TAKE i \in 1..(j - 1)
      <4>1. paths[i] \in Paths
        BY <3>1
      <4>2. IsStrictPrefix(paths[i], paths[j]) => Len(paths[j]) = 2
        BY <3>1, <4>1, PathPrefixes
      <4> QED BY <3>1, <4>2
    <3> QED BY <3>2
  <2> HIDE DEF First, path
  <2>2. n \in 0..(n + 1)
    OBVIOUS
  <2> QED BY <1>2, <2>1, <2>2
<1> HIDE DEF First, path
<1>6. ReachedBy(paths, n + 1) =
            IF Len(path) = 2 /\ <<path[1]>> \in ReachedBy(paths, n)
            THEN ReachedBy(paths, n) ELSE ReachedBy(paths, n) \cup {path}
  <2>1. CASE First(n + 1)
    <3>1. ReachedBy(paths, n + 1) = ReachedBy(paths, n) \cup {path}
      BY <1>3, <2>1
    <3> QED BY <1>4, <1>5, <2>1, <3>1
  <2>2. CASE ~First(n + 1)
    <3>1. ReachedBy(paths, n + 1) = ReachedBy(paths, n)
      BY <1>3, <2>2
    <3> QED BY <1>4, <1>5, <2>2, <3>1
  <2> QED BY <2>1, <2>2
<1> QED BY <1>6 DEF path

How(to, reached, opened, low, out) ==
  [to |-> to, reached |-> reached, opened |-> opened, low |-> low, out |-> out]

\* What openFields returns for a document that was not altered.
Reads(was, env) ==
  env = was.env /\ result.sk = was.to =>
    LET reached == Reached(was.paths) IN
    IF result.threw THEN Lost(reached)
    ELSE \E out : /\ Nodes(was.env) \subseteq out
                  /\ DocumentForm(result.data, How(was.to, reached, TRUE, 0, out))

\* Every document was sealed as its paths say, and so is the one being sealed as
\* those passed so far say; what was opened is what is left of the envelopes.
LayerInv ==
  kind = "document" =>
    /\ IsSeq(store) /\ Len(store) = Len(sealed)
    /\ \A i \in 1..Len(sealed) :
         DocumentForm(sealed[i].env,
                      How(sealed[i].to, Reached(sealed[i].paths), FALSE, 0, {}))
    /\ call.op = "sealing" =>
         LET done == Len(call.paths) - Len(call.left) IN
         /\ done \in Nat /\ \A i \in 1..Len(call.left) : call.left[i] = call.paths[done + i]
         /\ DocumentForm(call.doc, How(call.to, ReachedBy(call.paths, done), FALSE,
                                       Len(call.left), {}))
    /\ result # Nothing =>
         result.of \in 1..Len(store) /\ Reads(sealed[result.of], store[result.of])

\* A document as it is given to sealFields.
LEMMA NothingSealed ==
  ASSUME NEW how, how.reached = {}, ~how.opened
  PROVE  DocumentForm(Document, how)
<1>1. IsObj(Document)
  BY DocumentAssumption
<1>2. ASSUME NEW k \in DOMAIN Document.f
      PROVE  FieldForm(Document.f[k], Document.f[k], k, how)
  <2> DEFINE w == Document.f[k]
  <2>1. w.t = "obj" => IsObj(w)
    BY DocumentAssumption
  <2> HIDE DEF w
  <2>2. CASE w.t # "obj"
    BY <1>2, <2>2 DEF FieldForm, LeafForm, Kept, w
  <2>3. CASE w.t = "obj"
    <3>1. ObjectForm(w, w, k, how)
      BY <2>1, <2>3 DEF ObjectForm, LeafForm, Kept
    <3> QED BY <2>3, <3>1 DEF FieldForm, w
  <2> QED BY <2>2, <2>3
<1> QED BY <1>1, <1>2 DEF DocumentForm

\* openFields of a document, or of what an earlier call returned.
LEMMA DocumentRead ==
  ASSUME NEW doc, NEW to, NEW reached, NEW opened, NEW low, NEW out,
         DocumentForm(doc, How(to, reached, opened, low, out)),
         NEW i, OpenDocument(i, doc, to)
  PROVE  IF result'.threw THEN Lost(reached)
         ELSE DocumentForm(result'.data, How(to, reached, TRUE, low, out \cup Nodes(doc)))
<1> DEFINE was   == How(to, reached, opened, low, out)
           how   == How(to, reached, TRUE, low, out \cup Nodes(doc))
           opens == \A v \in Nodes(doc) : IsSealed(v) => FieldOpens(to, v)
<1>1. /\ was.to = to /\ was.reached = reached /\ was.low = low /\ was.out = out
      /\ how.to = to /\ how.reached = reached /\ how.low = low /\ how.opened
      /\ how.out = out \cup Nodes(doc)
  BY DEF How
<1>2. result'.threw = ~opens /\ result'.data = IF opens THEN Opened(doc) ELSE doc
  BY DEF OpenDocument
<1>3. DocumentForm(doc, was)
  OBVIOUS
<1> HIDE DEF was, how
<1>4. CASE opens
  <2>1. \A u \in Nodes(doc) : IsSealed(u) => u.env.ct.plain # Undefined
    BY <1>4 DEF FieldOpens
  <2>2. DocumentForm(Opened(doc), how)
    BY <1>1, <1>3, <2>1, DocumentOpened
  <2> QED BY <1>2, <1>4, <2>2 DEF how
<1>5. CASE ~opens
  <2>1. PICK u \in Nodes(doc) : IsSealed(u) /\ ~FieldOpens(to, u)
    BY <1>5
  <2>2. Lost(reached)
    BY <1>1, <1>3, <2>1, DocumentThrows
  <2> QED BY <1>2, <1>5, <2>2
<1> QED BY <1>4, <1>5

\* Every step keeps LayerInv: sealing a path adds one envelope (PathSealed), opening
\* takes the outermost off each value (DocumentRead), and of a document altered in
\* storage nothing is said.
LEMMA LayerStep ==
  ASSUME DocumentInv, LayerInv, [Next]_vars
  PROVE  LayerInv'
<1> SUFFICES ASSUME kind' = "document"
             PROVE  LayerInv'
  BY DEF LayerInv
<1>k. kind = "document" /\ kind' = kind
  BY KindKept
<1>i. /\ IsSeq(store) /\ IsSeq(sealed) /\ Len(store) = Len(sealed) /\ Len(store) \in Nat
      /\ \A i \in 1..Len(sealed) :
           DocumentForm(sealed[i].env,
                        How(sealed[i].to, Reached(sealed[i].paths), FALSE, 0, {}))
      /\ call.op \in {"idle", "sealing"}
      /\ result # Nothing =>
           result.of \in 1..Len(store) /\ Reads(sealed[result.of], store[result.of])
  BY <1>k, IsSeqLen DEF DocumentInv, LayerInv
<1>s. ASSUME call.op = "sealing"
      PROVE  LET done == Len(call.paths) - Len(call.left) IN
             /\ DOMAIN call = {"op", "to", "doc", "paths", "left"}
             /\ call.paths \in Seq(Paths) /\ call.left \in Seq(Paths)
             /\ done \in Nat /\ \A i \in 1..Len(call.left) : call.left[i] = call.paths[done + i]
             /\ DocumentForm(call.doc, How(call.to, ReachedBy(call.paths, done), FALSE,
                                           Len(call.left), {}))
  BY <1>k, <1>s DEF DocumentInv, LayerInv
<1>1. CASE SealFields
  <2>1. PICK to \in Recipients, paths \in SeqOf(Paths, MaxPaths) :
          /\ call' = [op |-> "sealing", to |-> to, doc |-> Document, paths |-> paths,
                      left |-> paths]
          /\ UNCHANGED <<kind, sealed, store, result, faults>>
    BY <1>1 DEF SealFields
  <2>2. paths \in Seq(Paths)
    <3>1. PICK m \in 0..MaxPaths : paths \in [1..m -> Paths]
      BY DEF SeqOf
    <3>2. m \in Nat
      BY SealAssumption
    <3> QED BY <3>1, <3>2, SeqDef
  <2> DEFINE how == How(to, ReachedBy(paths, 0), FALSE, Len(paths), {})
  <2>3. DocumentForm(Document, how)
    <3>1. how.reached = {} /\ ~how.opened
      BY NothingReached DEF How
    <3> HIDE DEF how
    <3> QED BY <3>1, NothingSealed
  <2>4. Len(paths) \in Nat /\ Len(paths) - Len(paths) = 0
    BY <2>2, LenProperties
  <2>5. LET done == Len(call'.paths) - Len(call'.left) IN
          /\ done \in Nat /\ \A i \in 1..Len(call'.left) : call'.left[i] = call'.paths[done + i]
          /\ DocumentForm(call'.doc, How(call'.to, ReachedBy(call'.paths, done), FALSE,
                                         Len(call'.left), {}))
    <3> DEFINE done == Len(call'.paths) - Len(call'.left)
    <3>1. /\ call'.paths = paths /\ call'.left = paths /\ call'.to = to
          /\ call'.doc = Document
      BY <2>1
    <3>2. done = 0
      BY <2>4, <3>1
    <3>3. \A i \in 1..Len(call'.left) : call'.left[i] = call'.paths[done + i]
      <4> TAKE i \in 1..Len(call'.left)
      <4>1. 0 + i = i
        OBVIOUS
      <4> HIDE DEF done
      <4> QED BY <3>1, <3>2, <4>1
    <3>4. DocumentForm(call'.doc, How(call'.to, ReachedBy(call'.paths, done), FALSE,
                                      Len(call'.left), {}))
      <4> HIDE DEF done
      <4> QED BY <2>3, <3>1, <3>2
    <3>5. done \in Nat
      BY <3>2
    <3> QED BY <3>3, <3>4, <3>5
  <2> QED BY <1>i, <1>k, <2>1, <2>5 DEF LayerInv, Reads
<1>2. CASE SealField
  <2> DEFINE path == Head(call.left)
             m    == Len(call.left)
             done == Len(call.paths) - m
             id   == <<Len(store) + 1, m>>
             new  == IF Exists(call.doc, path)
                     THEN FieldSealed(call.doc, path, call.to, id) ELSE call.doc
             was  == How(call.to, ReachedBy(call.paths, done), FALSE, m, {})
             how  == How(call.to, ReachedBy(call.paths, done + 1), FALSE, m - 1, {})
  <2>1. /\ call.op = "sealing" /\ call.left # <<>>
        /\ call' = [call EXCEPT !.left = Tail(call.left), !.doc = new]
        /\ UNCHANGED <<kind, sealed, store, result, faults>>
    BY <1>2 DEF SealField
  <2>2. /\ DOMAIN call = {"op", "to", "doc", "paths", "left"}
        /\ call.paths \in Seq(Paths) /\ call.left \in Seq(Paths)
        /\ done \in Nat /\ \A i \in 1..m : call.left[i] = call.paths[done + i]
        /\ DocumentForm(call.doc, was)
    BY <1>s, <2>1
  <2>3. /\ m \in Nat /\ m >= 1 /\ Len(call.paths) \in Nat
        /\ path = call.left[1] /\ path \in Paths
        /\ Tail(call.left) \in Seq(Paths) /\ Len(Tail(call.left)) = m - 1
        /\ \A i \in 1..(m - 1) : Tail(call.left)[i] = call.left[i + 1]
    BY <2>1, <2>2, LenProperties, HeadTailProperties, EmptySeq
  <2>4. done + 1 <= Len(call.paths) /\ path = call.paths[done + 1]
    BY <2>2, <2>3
  <2>5. Sealing(was, how, m)
    BY <2>3 DEF Sealing, How
  <2>6. how.reached = IF Len(path) = 2 /\ <<path[1]>> \in was.reached
                      THEN was.reached ELSE was.reached \cup {path}
    BY <2>2, <2>4, ReachedNext, ZenonT(60) DEF How
  <2>7. new = IF Exists(call.doc, path) THEN FieldSealed(call.doc, path, how.to, id) ELSE call.doc
    BY DEF How
  <2>8. DocumentForm(new, how)
    <3> HIDE DEF new, how, was, path, m
    <3> QED BY <2>2, <2>3, <2>5, <2>6, <2>7, PathSealed
  <2>9. /\ call'.op = "sealing" /\ call'.paths = call.paths /\ call'.to = call.to
        /\ call'.left = Tail(call.left) /\ call'.doc = new
    BY <2>1, <2>2
  <2>10. Len(call'.paths) - Len(call'.left) = done + 1
    <3>1. Len(call'.left) = m - 1
      BY <2>3, <2>9
    <3>2. Len(call'.paths) = Len(call.paths)
      BY <2>9
    <3>3. m \in Nat /\ Len(call.paths) \in Nat
      BY <2>3
    <3> HIDE DEF m
    <3> QED BY <3>1, <3>2, <3>3
  <2>11. \A i \in 1..Len(call'.left) : call'.left[i] = call'.paths[(done + 1) + i]
    <3> TAKE i \in 1..Len(call'.left)
    <3>1. i \in 1..(m - 1) /\ i + 1 \in 1..m /\ done + (i + 1) = (done + 1) + i
      BY <2>2, <2>3, <2>9
    <3> QED BY <2>2, <2>3, <2>9, <3>1
  <2>12. DocumentForm(call'.doc, How(call'.to, ReachedBy(call'.paths, done + 1), FALSE,
                                     Len(call'.left), {}))
    BY <2>3, <2>8, <2>9
  <2>13. done + 1 \in Nat
    BY <2>2
  <2> HIDE DEF done, new, m, path, id
  <2> QED BY <1>i, <1>k, <2>1, <2>10, <2>11, <2>12, <2>13 DEF LayerInv, Reads
<1>3. CASE FieldsSealed
  <2> DEFINE item == [to |-> call.to, paths |-> call.paths, data |-> Document, env |-> call.doc]
  <2>1. /\ call.op = "sealing" /\ call.left = <<>>
        /\ store' = Append(store, call.doc)
        /\ sealed' = Append(sealed, item) /\ call' = Idle /\ call'.op = "idle"
        /\ result' = result
    BY <1>3 DEF FieldsSealed, Idle
  <2>2. DocumentForm(item.env, How(item.to, Reached(item.paths), FALSE, 0, {}))
    <3>1. Len(call.left) = 0 /\ Len(call.paths) \in Nat
      BY <1>s, <2>1, LenProperties
    <3>2. Len(call.paths) - Len(call.left) = Len(call.paths)
      BY <3>1
    <3> QED BY <1>s, <2>1, <3>1, <3>2 DEF Reached
  <2> HIDE DEF item
  <2>3. /\ IsSeq(store') /\ Len(store') = Len(store) + 1
        /\ \A i \in 1..Len(store) : store'[i] = store[i]
    BY <1>i, <2>1, AppendIsSeq
  <2>4. /\ IsSeq(sealed') /\ Len(sealed') = Len(sealed) + 1
        /\ \A i \in 1..Len(sealed) : sealed'[i] = sealed[i]
        /\ sealed'[Len(sealed) + 1] = item
    BY <1>i, <2>1, AppendIsSeq
  <2>5. \A i \in 1..Len(sealed') :
           DocumentForm(sealed'[i].env,
                        How(sealed'[i].to, Reached(sealed'[i].paths), FALSE, 0, {}))
    <3> TAKE i \in 1..Len(sealed')
    <3>1. CASE i = Len(sealed) + 1
      BY <2>2, <2>4, <3>1
    <3>2. CASE i # Len(sealed) + 1
      <4>1. i \in 1..Len(sealed) /\ sealed'[i] = sealed[i]
        BY <1>i, <2>4, <3>2
      <4> QED BY <1>i, <4>1
    <3> QED BY <3>1, <3>2
  <2>6. ASSUME result # Nothing
        PROVE  /\ result.of \in 1..Len(store') /\ store'[result.of] = store[result.of]
               /\ sealed'[result.of] = sealed[result.of]
    BY <1>i, <2>3, <2>4, <2>6
  <2>7. result' # Nothing =>
           result'.of \in 1..Len(store') /\ Reads(sealed[result.of], store[result.of])'
    BY <1>i, <2>1, <2>6 DEF Reads
  <2> QED BY <1>i, <1>k, <2>1, <2>3, <2>4, <2>5, <2>7 DEF LayerInv
<1>4. ASSUME NEW i \in Items, OpenFields(i)
      PROVE  LayerInv'
  <2>1. PICK sk \in Recipients : OpenDocument(i, store[i], sk)
    BY <1>4 DEF OpenFields
  <2>2. /\ UNCHANGED <<kind, sealed, store, call>> /\ result'.of = i /\ result'.sk = sk
    BY <2>1 DEF OpenDocument
  <2>3. i \in 1..Len(store) /\ i \in 1..Len(sealed)
    BY <1>i DEF Items
  <2> DEFINE was == sealed[i]
             reached == Reached(was.paths)
  <2>4. ASSUME store[i] = was.env, sk = was.to
        PROVE  IF result'.threw THEN Lost(reached)
               ELSE \E out : /\ Nodes(was.env) \subseteq out
                             /\ DocumentForm(result'.data, How(was.to, reached, TRUE, 0, out))
    <3>1. DocumentForm(was.env, How(was.to, reached, FALSE, 0, {}))
      BY <1>i, <2>3
    <3>2. OpenDocument(i, was.env, was.to)
      BY <2>1, <2>4
    <3> DEFINE out == {} \cup Nodes(was.env)
    <3> HIDE DEF was, reached
    <3>3. IF result'.threw THEN Lost(reached)
          ELSE DocumentForm(result'.data, How(was.to, reached, TRUE, 0, out))
      BY <3>1, <3>2, DocumentRead
    <3>4. Nodes(was.env) \subseteq out
      OBVIOUS
    <3> HIDE DEF out
    <3> QED BY <3>3, <3>4
  <2>5. Reads(sealed[result.of], store[result.of])'
    BY <2>2, <2>4 DEF Reads
  <2> QED BY <1>i, <1>s, <1>k, <2>2, <2>3, <2>5 DEF LayerInv
<1>5. CASE OpenFieldsAgain
  <2> DEFINE i == result.of
             was == sealed[i]
             reached == Reached(was.paths)
  <2>1. /\ result # Nothing /\ ~result.threw /\ OpenDocument(i, result.data, result.sk)
        /\ UNCHANGED <<kind, sealed, store, call>> /\ result'.of = i /\ result'.sk = result.sk
    BY <1>5 DEF OpenFieldsAgain, OpenDocument
  <2>2. i \in 1..Len(store) /\ Reads(was, store[i])
    BY <1>i, <2>1
  <2>3. ASSUME store[i] = was.env, result.sk = was.to
        PROVE  IF result'.threw THEN Lost(reached)
               ELSE \E out : /\ Nodes(was.env) \subseteq out
                             /\ DocumentForm(result'.data, How(was.to, reached, TRUE, 0, out))
    <3>1. PICK out : /\ Nodes(was.env) \subseteq out
                     /\ DocumentForm(result.data, How(was.to, reached, TRUE, 0, out))
      BY <2>1, <2>2, <2>3 DEF Reads
    <3>2. OpenDocument(i, result.data, was.to)
      BY <2>1, <2>3
    <3> DEFINE more == out \cup Nodes(result.data)
    <3> HIDE DEF was, reached, i
    <3>3. IF result'.threw THEN Lost(reached)
          ELSE DocumentForm(result'.data, How(was.to, reached, TRUE, 0, more))
      BY <3>1, <3>2, DocumentRead
    <3>4. Nodes(was.env) \subseteq more
      BY <3>1
    <3> HIDE DEF more
    <3> QED BY <3>3, <3>4
  <2>4. Reads(sealed[result.of], store[result.of])'
    BY <2>1, <2>3 DEF Reads
  <2> QED BY <1>i, <1>s, <1>k, <2>1, <2>2, <2>4 DEF LayerInv
<1>6. ASSUME NEW i \in Items, NEW j \in Items, Alter(i, j)
      PROVE  LayerInv'
  <2>1. PICK new : /\ store' = [store EXCEPT ![i] = new]
                   /\ result' = Nothing
                   /\ UNCHANGED <<kind, sealed, call>>
    BY <1>6 DEF Alter
  <2>2. IsSeq(store') /\ Len(store') = Len(store)
    <3>1. i \in 1..Len(store)
      BY DEF Items
    <3>2. IsSeq(store) /\ store' = ReplaceAt(store, i, new)
      BY <1>i, <2>1 DEF ReplaceAt
    <3> QED BY <3>1, <3>2, ReplaceIsSeq
  <2> QED BY <1>i, <1>s, <1>k, <2>1, <2>2 DEF LayerInv
<1>7. CASE UNCHANGED vars
  BY <1>i, <1>s, <1>k, <1>7 DEF LayerInv, Reads, vars
<1>8. ~SealSigned /\ ~SealMedia /\ ~SealFrame /\ ~IssueAttestation
      /\ \A i \in Items : ~OpenWebhook(i) /\ ~OpenMedia(i) /\ ~VerifyAttestation(i)
  BY <1>k DEF SealSigned, SealMedia, SealFrame, IssueAttestation, OpenWebhook, OpenMedia,
     VerifyAttestation
<1>9. ~OpenFrame /\ ~OpenEnds
  BY <1>i DEF OpenFrame, OpenEnds
<1> QED BY <1>1, <1>2, <1>3, <1>4, <1>5, <1>6, <1>7, <1>8, <1>9 DEF Next, Seals, Openings

\* Every layer opened: all values are back.
LEMMA AllRestored ==
  ASSUME NEW doc, NEW how, DocumentForm(doc, how), how.opened, how.reached \subseteq Paths,
         ~HasSealedFields(doc)
  PROVE  doc = Restored(how.reached) /\ ~Lost(how.reached)
<1> DEFINE R == how.reached
           restored(k) ==
             LET w == Document.f[k] IN
             IF <<k>> \in R THEN Json(w)
             ELSE IF w.t = "obj"
                  THEN Obj([l \in DOMAIN w.f |->
                          IF <<k, l>> \in R THEN Json(w.f[l]) ELSE WalkLeaf(w.f[l])])
                  ELSE WalkLeaf(w)
<1>1. /\ IsObj(doc) /\ DOMAIN doc.f = DOMAIN Document.f
      /\ \A k \in DOMAIN Document.f :
            FieldForm(doc.f[k], Document.f[k], k, how) /\ FieldOf(Document.f[k])
  BY DocumentFields DEF DocumentForm
<1>2. ASSUME NEW k \in DOMAIN Document.f
      PROVE  /\ doc.f[k] = restored(k)
             /\ <<k>> \in R => Document.f[k] # Undefined
             /\ Document.f[k].t = "obj" => \A l \in DOMAIN Document.f[k].f :
                   <<k, l>> \in R => Document.f[k].f[l] # Undefined
  <2> DEFINE v == doc.f[k]
             w == Document.f[k]
  <2>1. ~IsSealed(v) /\ (v.t = "obj" => \A l \in DOMAIN v.f : ~IsSealed(v.f[l]))
    BY <1>1, NodesOf DEF HasSealedFields
  <2>2. FieldForm(v, w, k, how) /\ FieldOf(w)
    BY <1>1
  <2> HIDE DEF v, w
  <2>3. /\ v = IF <<k>> \in how.reached THEN Json(w)
                ELSE IF w.t = "obj"
                     THEN Obj([l \in DOMAIN w.f |->
                             IF <<k, l>> \in how.reached THEN Json(w.f[l]) ELSE WalkLeaf(w.f[l])])
                     ELSE WalkLeaf(w)
        /\ <<k>> \in how.reached => w # Undefined
        /\ w.t = "obj" => \A l \in DOMAIN w.f : <<k, l>> \in how.reached => w.f[l] # Undefined
    BY <2>1, <2>2, FieldRestored
  <2> QED BY <2>3 DEF v, w
<1>3. doc = Obj([k \in DOMAIN Document.f |-> restored(k)])
  <2>1. doc = Obj([k \in DOMAIN doc.f |-> doc.f[k]])
    BY <1>1 DEF IsObj
  <2> HIDE DEF restored
  <2> QED BY <1>1, <1>2, <2>1
<1>4. doc = Restored(R)
  BY <1>3 DEF Restored
<1>5. ASSUME NEW p \in R, Exists(Document, p), At(Document, p) = Undefined
      PROVE  FALSE
  <2>1. p \in Paths
    OBVIOUS
  <2>2. CASE Len(p) = 1
    <3>1. p = <<p[1]>> /\ p[1] \in DOMAIN Document.f
      BY <1>5, <2>1, <2>2, PathTuples, PathSteps, OriginalAt
    <3>2. At(Document, p) = Document.f[p[1]]
      BY <3>1, OriginalAt
    <3> QED BY <1>2, <1>5, <3>1, <3>2
  <2>3. CASE Len(p) = 2
    <3> DEFINE k == p[1]
               l == p[2]
    <3>1. p = <<k, l>> /\ k \in DOMAIN Document.f /\ l \in DOMAIN Fields(Document.f[k])
      BY <1>5, <2>1, <2>3, PathTuples, PathSteps, OriginalAt
    <3>2. Document.f[k].t = "obj" /\ l \in DOMAIN Document.f[k].f
      <4>1. DOMAIN <<>> = {}
        OBVIOUS
      <4> QED BY <3>1, <4>1 DEF Fields
    <3> HIDE DEF k, l
    <3>3. At(Document, p) = Document.f[k].f[l]
      BY <3>1, <3>2, OriginalAt
    <3> QED BY <1>2, <1>5, <3>1, <3>2, <3>3
  <2> QED BY <2>1, <2>2, <2>3, PathTuples
<1> QED BY <1>4, <1>5 DEF Lost

\* A document that was not altered gives back what was sealed.
LEMMA DocumentsRoundTrip ==
  ASSUME DocumentInv, LayerInv, kind = "document"
  PROVE  RoundTrip
<1> SUFFICES ASSUME result # Nothing, store[result.of] = sealed[result.of].env,
                    result.sk = sealed[result.of].to
             PROVE  DocumentRestored(sealed[result.of])
  BY DEF RoundTrip
<1> DEFINE was == sealed[result.of]
           reached == Reached(was.paths)
<1>1. result.of \in 1..Len(sealed) /\ Reads(was, store[result.of])
  BY DEF LayerInv
<1>2. CASE result.threw
  <2>1. Lost(reached)
    BY <1>1, <1>2 DEF Reads
  <2> QED BY <1>2, <2>1 DEF DocumentRestored
<1>3. CASE ~result.threw
  <2>1. PICK out : /\ Nodes(was.env) \subseteq out
                   /\ DocumentForm(result.data, How(was.to, reached, TRUE, 0, out))
    BY <1>1, <1>3 DEF Reads
  <2>2. reached \subseteq Paths
    <3>1. was.paths \in Seq(Paths)
      BY <1>1 DEF DocumentInv
    <3>2. Len(was.paths) \in 0..Len(was.paths)
      BY <3>1, LenProperties
    <3> HIDE DEF was
    <3> QED BY <3>1, <3>2, ReachedArePaths DEF Reached
  <2> DEFINE how == How(was.to, reached, TRUE, 0, out)
  <2>3. how.opened /\ how.reached = reached /\ how.out = out /\ DocumentForm(result.data, how)
    BY <2>1 DEF How
  <2> HIDE DEF how, was, reached
  <2>4. {v \in Nodes(result.data) : IsSealed(v)} \cap Nodes(was.env) = {}
    BY <2>1, <2>3, SealedNodes
  <2>5. ~HasSealedFields(result.data) => ~Lost(reached) /\ result.data = Restored(reached)
    BY <2>2, <2>3, AllRestored
  <2> QED BY <1>3, <2>4, <2>5 DEF DocumentRestored, was, reached
<1> QED BY <1>2, <1>3

-----------------------------------------------------------------------------
(***************************************************************************)
(* Documents: fields that were moved.                                      *)
(*                                                                         *)
(* Of a document that was altered DocumentForm says nothing, but each of   *)
(* its sealed fields was the field of a document when it was sealed and    *)
(* opens as it would have opened there, because the walk of openFields     *)
(* looks at nothing but the field itself.                                  *)
(***************************************************************************)

\* v was sealed at path q; how as for DocumentForm.
MovedForm(v, q, how) ==
  /\ q \in how.reached
  /\ \/ \E k \in DOMAIN Document.f : q = <<k>> /\ FieldForm(v, Document.f[k], k, how)
     \/ \E k \in DOMAIN Document.f : Document.f[k].t = "obj" /\ \E l \in DOMAIN Document.f[k].f :
           q = <<k, l>> /\ Layers(v, Json(Document.f[k].f[l]), q, how)

\* No object lies among the fields of an object.
Suits(p, q) == Len(p) = 2 => Small(At(Document, q))

SealedNow(was)   == How(was.to, Reached(was.paths), FALSE, 0, {})
SealedBefore(was) == How(was.to, Reached(was.paths), TRUE, 0, {})

\* The sealed field of a stored document at p.
MovedAt(doc, p, was) ==
  Exists(doc, p) /\ IsSealed(At(doc, p)) =>
    LET q == SealedAt(At(doc, p)) IN
    MovedForm(At(doc, p), q, SealedNow(was)) /\ Suits(p, q)

\* What an opening left of it.
MovedRead(doc, p, was) ==
  Exists(doc, p) /\ IsSealed(At(doc, p)) =>
    LET q == SealedAt(At(doc, p)) IN
    /\ result.sk = was.to /\ Suits(p, q)
    /\ Exists(result.data, p) /\ MovedForm(At(result.data, p), q, SealedBefore(was))

TwoLevelled(doc) ==
  IsObj(doc) /\ \A k \in DOMAIN doc.f : doc.f[k].t = "obj" => IsObj(doc.f[k])

\* Every sealed field in storage is one that was sealed, wherever it lies.
MovedInv ==
  kind = "document" =>
    /\ \A i \in 1..Len(store) :
          TwoLevelled(store[i]) /\ \A p \in Paths : MovedAt(store[i], p, sealed[i])
    /\ result # Nothing /\ ~result.threw =>
          /\ result.data.t = "obj"
          /\ \A p \in Paths : MovedRead(store[result.of], p, sealed[result.of])

\* Paths of one and two steps in a document.
LEMMA PathsFind ==
  ASSUME NEW doc, doc.t = "obj"
  PROVE  /\ \A k : Exists(doc, <<k>>) <=> k \in DOMAIN doc.f
         /\ \A k : At(doc, <<k>>) = doc.f[k]
         /\ \A k, l : Exists(doc, <<k, l>>) <=>
               k \in DOMAIN doc.f /\ doc.f[k].t = "obj" /\ l \in DOMAIN doc.f[k].f
         /\ \A k, l : Exists(doc, <<k, l>>) => At(doc, <<k, l>>) = doc.f[k].f[l]
<1>1. Fields(doc) = doc.f
  BY DEF Fields
<1>2. \A v : v.t # "obj" => DOMAIN Fields(v) = {}
  <2>1. DOMAIN <<>> = {}
    OBVIOUS
  <2> QED BY <2>1 DEF Fields
<1>3. \A k : Parent(doc, <<k>>) = doc /\ Last(<<k>>) = k
  BY DEF Parent, Last
<1>4. \A k, l : /\ Last(<<k, l>>) = l
                /\ Parent(doc, <<k, l>>) = IF k \in DOMAIN doc.f THEN doc.f[k] ELSE Undefined
  BY <1>1 DEF Parent, Last
<1>5. Undefined.t # "obj"
  BY DEF Undefined
<1>6. \A v : v.t = "obj" => Fields(v) = v.f
  BY DEF Fields
<1>7. ASSUME NEW k, NEW l
      PROVE  /\ Exists(doc, <<k, l>>) <=>
                  k \in DOMAIN doc.f /\ doc.f[k].t = "obj" /\ l \in DOMAIN doc.f[k].f
             /\ Exists(doc, <<k, l>>) => At(doc, <<k, l>>) = doc.f[k].f[l]
  <2>1. Exists(doc, <<k, l>>) <=> l \in DOMAIN Fields(Parent(doc, <<k, l>>))
    BY <1>4 DEF Exists
  <2>2. At(doc, <<k, l>>) = Fields(Parent(doc, <<k, l>>))[l]
    BY <1>4 DEF At
  <2>3. CASE k \in DOMAIN doc.f
    <3>1. Parent(doc, <<k, l>>) = doc.f[k]
      BY <1>4, <2>3
    <3> QED BY <1>2, <1>6, <2>1, <2>2, <2>3, <3>1
  <2>4. CASE k \notin DOMAIN doc.f
    <3>1. Parent(doc, <<k, l>>) = Undefined
      BY <1>4, <2>4
    <3> QED BY <1>2, <1>5, <2>1, <2>4, <3>1
  <2> QED BY <2>3, <2>4
<1> QED BY <1>1, <1>3, <1>7 DEF Exists, At

\* In a document that was not altered every sealed field lies where it was sealed.
LEMMA SealedInPlace ==
  ASSUME NEW doc, NEW was, DocumentForm(doc, SealedNow(was))
  PROVE  TwoLevelled(doc) /\ \A p \in Paths : MovedAt(doc, p, was)
<1> DEFINE how == SealedNow(was)
<1>1. ~how.opened
  BY DEF SealedNow, How
<1>2. /\ IsObj(doc) /\ doc.t = "obj" /\ DOMAIN doc.f = DOMAIN Document.f
      /\ \A k \in DOMAIN Document.f :
            FieldForm(doc.f[k], Document.f[k], k, how) /\ FieldOf(Document.f[k])
  BY DocumentFields DEF DocumentForm, IsObj, Obj
<1>h. how = SealedNow(was)
  OBVIOUS
<1> HIDE DEF how
<1>3. ASSUME NEW k \in DOMAIN doc.f, doc.f[k].t = "obj"
      PROVE  Document.f[k].t = "obj" /\ <<k>> \notin how.reached
             /\ ObjectForm(doc.f[k], Document.f[k], k, how)
  BY <1>1, <1>2, <1>3, UnsealedObject
<1>4. TwoLevelled(doc)
  BY <1>2, <1>3 DEF TwoLevelled, ObjectForm
<1>5. ASSUME NEW k \in DOMAIN doc.f, IsSealed(doc.f[k])
      PROVE  /\ SealedAt(doc.f[k]) = <<k>> /\ MovedForm(doc.f[k], <<k>>, how)
  <2>1. <<k>> \in how.reached /\ doc.f[k].env.ctx = FieldContext(<<k>>)
    BY <1>2, <1>5, FieldSeals
  <2>2. SealedAt(doc.f[k]) = <<k>>
    BY <2>1 DEF SealedAt, FieldContext
  <2>3. \E m \in DOMAIN Document.f : <<k>> = <<m>> /\ FieldForm(doc.f[k], Document.f[m], m, how)
    BY <1>2
  <2> QED BY <2>1, <2>2, <2>3 DEF MovedForm
<1>6. ASSUME NEW k \in DOMAIN doc.f, doc.f[k].t = "obj", NEW l \in DOMAIN doc.f[k].f,
             IsSealed(doc.f[k].f[l])
      PROVE  /\ SealedAt(doc.f[k].f[l]) = <<k, l>> /\ MovedForm(doc.f[k].f[l], <<k, l>>, how)
             /\ Suits(<<k, l>>, <<k, l>>)
  <2>1. /\ <<k, l>> \in how.reached /\ doc.f[k].f[l].env.ctx = FieldContext(<<k, l>>)
        /\ l \in DOMAIN Document.f[k].f
    <3> DEFINE v == doc.f[k]
               w == Document.f[k]
    <3>1. FieldForm(v, w, k, how) /\ FieldOf(w) /\ v.t = "obj" /\ l \in DOMAIN v.f /\ IsSealed(v.f[l])
      BY <1>2, <1>6
    <3> HIDE DEF v, w
    <3>2. /\ IsSealed(v) =>
                 /\ <<k>> \in how.reached /\ v.env.ctx = FieldContext(<<k>>)
                 /\ Opens(how.to, v.env) /\ v \notin how.out
                 /\ v.env.ct.plain = Undefined => w = Undefined
          /\ v.t = "obj" => \A m \in DOMAIN v.f :
                 IsSealed(v.f[m]) =>
                    /\ <<k, m>> \in how.reached /\ v.f[m].env.ctx = FieldContext(<<k, m>>)
                    /\ Opens(how.to, v.f[m].env) /\ v.f[m] \notin how.out
                    /\ w.t = "obj" /\ m \in DOMAIN w.f
                    /\ v.f[m].env.ct.plain = Undefined => w.f[m] = Undefined
      BY <3>1, FieldSeals
    <3>3. <<k, l>> \in how.reached /\ v.f[l].env.ctx = FieldContext(<<k, l>>) /\ l \in DOMAIN w.f
      BY <3>1, <3>2
    <3> QED BY <3>3 DEF v, w
  <2>2. Document.f[k].t = "obj" /\ ObjectForm(doc.f[k], Document.f[k], k, how)
    BY <1>3, <1>6
  <2>3. Layers(doc.f[k].f[l], Json(Document.f[k].f[l]), <<k, l>>, how)
    BY <1>6, <2>1, <2>2 DEF ObjectForm, LeafForm
  <2>4. Small(Document.f[k].f[l])
    BY <1>2, <2>1, <2>2 DEF FieldOf, Small
  <2>5. At(Document, <<k, l>>) = Document.f[k].f[l]
    BY <1>2, <2>1, <2>2, OriginalAt
  <2>6. MovedForm(doc.f[k].f[l], <<k, l>>, how)
    BY <1>2, <2>1, <2>2, <2>3 DEF MovedForm
  <2>7. SealedAt(doc.f[k].f[l]) = <<k, l>>
    BY <2>1 DEF SealedAt, FieldContext
  <2>8. Suits(<<k, l>>, <<k, l>>)
    BY <2>4, <2>5 DEF Suits
  <2> QED BY <2>6, <2>7, <2>8
<1>7. ASSUME NEW p \in Paths, Exists(doc, p), IsSealed(At(doc, p))
      PROVE  MovedForm(At(doc, p), SealedAt(At(doc, p)), how) /\ Suits(p, SealedAt(At(doc, p)))
  <2>1. CASE Len(p) = 1 /\ p = <<p[1]>>
    <3>1. p[1] \in DOMAIN doc.f /\ At(doc, p) = doc.f[p[1]]
      BY <1>2, <1>7, <2>1, PathsFind
    <3>2. Suits(p, SealedAt(At(doc, p)))
      BY <2>1 DEF Suits
    <3> QED BY <1>5, <1>7, <3>1, <3>2
  <2>2. CASE Len(p) = 2 /\ p = <<p[1], p[2]>>
    <3> DEFINE k == p[1]
               l == p[2]
    <3>1. /\ k \in DOMAIN doc.f /\ doc.f[k].t = "obj" /\ l \in DOMAIN doc.f[k].f
          /\ At(doc, p) = doc.f[k].f[l]
      BY <1>2, <1>7, <2>2, PathsFind
    <3>2. p = <<k, l>>
      BY <2>2
    <3> HIDE DEF k, l
    <3> QED BY <1>6, <1>7, <3>1, <3>2
  <2> QED BY <2>1, <2>2, PathTuples
<1> QED BY <1>4, <1>7, <1>h DEF MovedAt

\* A field that is put somewhere is there, and the others are where they were.
LEMMA PutMoves ==
  ASSUME NEW doc, TwoLevelled(doc), NEW p \in Paths, Exists(doc, p), NEW v, IsSealed(v)
  PROVE  /\ TwoLevelled(Put(doc, p, v))
         /\ \A r \in Paths : Exists(Put(doc, p, v), r) /\ IsSealed(At(Put(doc, p, v), r)) =>
               \/ r = p /\ At(Put(doc, p, v), r) = v
               \/ Exists(doc, r) /\ At(Put(doc, p, v), r) = At(doc, r)
         /\ IsSealed(At(doc, p)) => \A r \in Paths : Exists(doc, r) => Exists(Put(doc, p, v), r)
<1> DEFINE new == Put(doc, p, v)
<1>1. doc.t = "obj" /\ doc = [t |-> "obj", f |-> doc.f] /\ doc.f = [k \in DOMAIN doc.f |-> doc.f[k]]
  BY DEF TwoLevelled, IsObj, Obj
<1>2. v.t # "obj"
  BY DEF IsSealed
<1>3. CASE Len(p) = 1 /\ p = <<p[1]>>
  <2> DEFINE a == p[1]
             g == [doc.f EXCEPT ![a] = v]
  <2>1. new = Obj(g)
    BY <1>1, <1>3 DEF Put, Obj
  <2>2. a \in DOMAIN doc.f
    BY <1>1, <1>3, PathsFind
  <2>3. /\ DOMAIN g = DOMAIN doc.f /\ g = [k \in DOMAIN g |-> g[k]]
        /\ \A k \in DOMAIN g : g[k] = IF k = a THEN v ELSE doc.f[k]
    BY <1>1
  <2>4. p = <<a>>
    BY <1>3
  <2> HIDE DEF a, g, new
  <2>5. new.t = "obj" /\ new.f = g /\ IsObj(new)
    BY <2>1, <2>3 DEF Obj, IsObj
  <2>6. TwoLevelled(new)
    BY <1>2, <2>3, <2>5 DEF TwoLevelled
  <2>7. ASSUME NEW r \in Paths, Exists(new, r), IsSealed(At(new, r))
        PROVE  \/ r = p /\ At(new, r) = v
               \/ Exists(doc, r) /\ At(new, r) = At(doc, r)
    <3>1. CASE Len(r) = 1 /\ r = <<r[1]>>
      <4>1. r[1] \in DOMAIN g /\ At(new, r) = g[r[1]]
        BY <2>5, <2>7, <3>1, PathsFind
      <4>2. CASE r[1] = a
        BY <2>3, <2>4, <3>1, <4>1, <4>2
      <4>3. CASE r[1] # a
        BY <1>1, <2>3, <3>1, <4>1, <4>3, PathsFind
      <4> QED BY <4>2, <4>3
    <3>2. CASE Len(r) = 2 /\ r = <<r[1], r[2]>>
      <4> DEFINE k == r[1]
                 l == r[2]
      <4>1. /\ k \in DOMAIN g /\ g[k].t = "obj" /\ l \in DOMAIN g[k].f
            /\ At(new, r) = g[k].f[l]
        BY <2>5, <2>7, <3>2, PathsFind
      <4>2. r = <<k, l>>
        BY <3>2
      <4> HIDE DEF k, l
      <4>3. g[k] = doc.f[k] /\ k \in DOMAIN doc.f
        BY <1>2, <2>3, <4>1
      <4> QED BY <1>1, <4>1, <4>2, <4>3, PathsFind
    <3> QED BY <3>1, <3>2, PathTuples
  <2>8. ASSUME IsSealed(At(doc, p)), NEW r \in Paths, Exists(doc, r)
        PROVE  Exists(new, r)
    <3>1. IsSealed(doc.f[a]) /\ doc.f[a].t # "obj"
      BY <1>1, <2>2, <2>4, <2>8, PathsFind DEF IsSealed
    <3>2. CASE Len(r) = 1 /\ r = <<r[1]>>
      BY <1>1, <2>3, <2>5, <2>8, <3>2, PathsFind
    <3>3. CASE Len(r) = 2 /\ r = <<r[1], r[2]>>
      <4>1. r[1] \in DOMAIN doc.f /\ doc.f[r[1]].t = "obj" /\ r[2] \in DOMAIN doc.f[r[1]].f
        BY <1>1, <2>8, <3>3, PathsFind
      <4>2. r[1] \in DOMAIN g /\ g[r[1]] = doc.f[r[1]]
        BY <2>3, <3>1, <4>1
      <4> QED BY <2>5, <3>3, <4>1, <4>2, PathsFind
    <3> QED BY <3>2, <3>3, PathTuples
  <2> QED BY <2>6, <2>7, <2>8 DEF new
<1>4. CASE Len(p) = 2 /\ p = <<p[1], p[2]>>
  <2> DEFINE a == p[1]
             b == p[2]
             h == [doc.f[a].f EXCEPT ![b] = v]
             g == [doc.f EXCEPT ![a] = Obj(h)]
  <2>1. a \in DOMAIN doc.f /\ doc.f[a].t = "obj" /\ b \in DOMAIN doc.f[a].f
    BY <1>1, <1>4, PathsFind
  <2>2. /\ doc.f[a] = [t |-> "obj", f |-> doc.f[a].f]
        /\ doc.f[a].f = [l \in DOMAIN doc.f[a].f |-> doc.f[a].f[l]]
    BY <2>1 DEF TwoLevelled, IsObj, Obj
  <2>3. /\ DOMAIN h = DOMAIN doc.f[a].f /\ h = [l \in DOMAIN h |-> h[l]]
        /\ \A l \in DOMAIN h : h[l] = IF l = b THEN v ELSE doc.f[a].f[l]
    BY <2>2
  <2>4. new = Obj(g)
    <3>1. [doc.f[a] EXCEPT !.f[b] = v] = Obj(h)
      BY <2>2 DEF Obj
    <3>2. new = [doc EXCEPT !.f = [doc.f EXCEPT ![a] = [doc.f[a] EXCEPT !.f[b] = v]]]
      BY <1>4 DEF Put
    <3>3. new = [doc EXCEPT !.f = g]
      BY <3>1, <3>2
    <3> HIDE DEF g, new
    <3> QED BY <1>1, <3>3 DEF Obj
  <2>5. /\ DOMAIN g = DOMAIN doc.f /\ g = [k \in DOMAIN g |-> g[k]]
        /\ \A k \in DOMAIN g : g[k] = IF k = a THEN Obj(h) ELSE doc.f[k]
    BY <1>1
  <2>6. p = <<a, b>>
    BY <1>4
  <2> HIDE DEF a, b, g, h, new
  <2>7. Obj(h).t = "obj" /\ Obj(h).f = h /\ IsObj(Obj(h)) /\ ~IsSealed(Obj(h))
    BY <2>3 DEF Obj, IsObj, IsSealed
  <2>8. new.t = "obj" /\ new.f = g /\ IsObj(new)
    BY <2>4, <2>5 DEF Obj, IsObj
  <2>9. TwoLevelled(new)
    BY <2>5, <2>7, <2>8 DEF TwoLevelled
  <2>10. ASSUME NEW r \in Paths, Exists(new, r), IsSealed(At(new, r))
         PROVE  \/ r = p /\ At(new, r) = v
                \/ Exists(doc, r) /\ At(new, r) = At(doc, r)
    <3>1. CASE Len(r) = 1 /\ r = <<r[1]>>
      <4>1. r[1] \in DOMAIN g /\ At(new, r) = g[r[1]]
        BY <2>8, <2>10, <3>1, PathsFind
      <4>2. r[1] # a
        BY <2>5, <2>7, <2>10, <4>1
      <4> QED BY <1>1, <2>5, <3>1, <4>1, <4>2, PathsFind
    <3>2. CASE Len(r) = 2 /\ r = <<r[1], r[2]>>
      <4> DEFINE k == r[1]
                 l == r[2]
      <4>1. /\ k \in DOMAIN g /\ g[k].t = "obj" /\ l \in DOMAIN g[k].f
            /\ At(new, r) = g[k].f[l]
        BY <2>8, <2>10, <3>2, PathsFind
      <4>2. r = <<k, l>>
        BY <3>2
      <4> HIDE DEF k, l
      <4>3. CASE k # a
        <5>1. g[k] = doc.f[k] /\ k \in DOMAIN doc.f
          BY <2>5, <4>1, <4>3
        <5> QED BY <1>1, <4>1, <4>2, <5>1, PathsFind
      <4>4. CASE k = a
        <5>1. l \in DOMAIN h /\ At(new, r) = h[l]
          BY <2>5, <2>7, <4>1, <4>4
        <5>2. CASE l = b
          BY <2>3, <2>6, <4>2, <4>4, <5>1, <5>2
        <5>3. CASE l # b
          BY <1>1, <2>1, <2>3, <4>2, <4>4, <5>1, <5>3, PathsFind
        <5> QED BY <5>2, <5>3
      <4> QED BY <4>3, <4>4
    <3> QED BY <3>1, <3>2, PathTuples
  <2>11. ASSUME NEW r \in Paths, Exists(doc, r)
         PROVE  Exists(new, r)
    <3>1. CASE Len(r) = 1 /\ r = <<r[1]>>
      BY <1>1, <2>5, <2>8, <2>11, <3>1, PathsFind
    <3>2. CASE Len(r) = 2 /\ r = <<r[1], r[2]>>
      <4>1. r[1] \in DOMAIN doc.f /\ doc.f[r[1]].t = "obj" /\ r[2] \in DOMAIN doc.f[r[1]].f
        BY <1>1, <2>11, <3>2, PathsFind
      <4>2. r[1] \in DOMAIN g /\ g[r[1]].t = "obj" /\ r[2] \in DOMAIN g[r[1]].f
        BY <2>3, <2>5, <2>7, <4>1
      <4> QED BY <2>8, <3>2, <4>2, PathsFind
    <3> QED BY <3>1, <3>2, PathTuples
  <2> QED BY <2>9, <2>10, <2>11 DEF new
<1> QED BY <1>3, <1>4, PathTuples

\* openFields rebuilds the document as an object.
LEMMA OpenedObject ==
  ASSUME NEW doc, doc.t = "obj"
  PROVE  Opened(doc).t = "obj"
<1>1. \A g : Walk(doc, g) = Obj(g)
  BY DEF Walk, IsSealed
<1> QED BY <1>1 DEF Opened, Obj

\* The walk of openFields at a path.
LEMMA AtOpened ==
  ASSUME NEW doc, doc.t = "obj", NEW p \in Paths, Exists(doc, p)
  PROVE  /\ Opened(doc).t = "obj" /\ Exists(Opened(doc), p)
         /\ At(Opened(doc), p) = IF Len(p) = 1 THEN WalkField(At(doc, p)) ELSE WalkLeaf(At(doc, p))
         /\ At(doc, p) \in Nodes(doc)
         /\ Len(p) = 1 /\ At(doc, p).t = "obj" =>
               \A l \in DOMAIN At(doc, p).f : At(doc, p).f[l] \in Nodes(doc)
<1> DEFINE g == [k \in DOMAIN doc.f |-> WalkField(doc.f[k])]
<1>1. Opened(doc) = Obj(g)
  <2>1. Fields(doc) = doc.f
    BY DEF Fields
  <2>2. \A h : Walk(doc, h) = Obj(h)
    BY DEF Walk, IsSealed
  <2> QED BY <2>1, <2>2 DEF Opened
<1>2. Opened(doc).t = "obj" /\ Opened(doc).f = g
  BY <1>1 DEF Obj
<1>3. DOMAIN g = DOMAIN doc.f /\ \A k \in DOMAIN doc.f : g[k] = WalkField(doc.f[k])
  OBVIOUS
<1> HIDE DEF g
<1>4. CASE Len(p) = 1 /\ p = <<p[1]>>
  <2>1. p[1] \in DOMAIN doc.f /\ At(doc, p) = doc.f[p[1]]
    BY <1>4, PathsFind
  <2>2. Exists(Opened(doc), p) /\ At(Opened(doc), p) = WalkField(doc.f[p[1]])
    BY <1>2, <1>3, <1>4, <2>1, PathsFind
  <2> QED BY <1>2, <1>4, <2>1, <2>2, NodesOf
<1>5. CASE Len(p) = 2 /\ p = <<p[1], p[2]>>
  <2> DEFINE k == p[1]
             l == p[2]
             v == doc.f[k]
             h == [m \in DOMAIN v.f |-> WalkLeaf(v.f[m])]
  <2>1. k \in DOMAIN doc.f /\ v.t = "obj" /\ l \in DOMAIN v.f /\ At(doc, p) = v.f[l]
    BY <1>5, PathsFind
  <2>2. p = <<k, l>>
    BY <1>5
  <2>3. WalkField(v) = Obj(h)
    <3>1. Fields(v) = v.f
      BY <2>1 DEF Fields
    <3>2. \A x : Walk(v, x) = Obj(x)
      BY <2>1 DEF Walk, IsSealed
    <3> QED BY <3>1, <3>2 DEF WalkField
  <2>4. DOMAIN h = DOMAIN v.f /\ \A m \in DOMAIN v.f : h[m] = WalkLeaf(v.f[m])
    OBVIOUS
  <2> HIDE DEF k, l, h
  <2>5. g[k].t = "obj" /\ g[k].f = h
    BY <1>3, <2>1, <2>3 DEF Obj
  <2>6. Exists(Opened(doc), p) /\ At(Opened(doc), p) = WalkLeaf(v.f[l])
    BY <1>2, <1>3, <2>1, <2>2, <2>4, <2>5, PathsFind
  <2> QED BY <1>2, <1>5, <2>1, <2>6, NodesOf
<1> QED BY <1>4, <1>5, PathTuples

\* A sealed field that was moved: what its envelope tells.
LEMMA MovedSeal ==
  ASSUME NEW v, NEW q, NEW how, MovedForm(v, q, how), IsSealed(v)
  PROVE  Opens(how.to, v.env)
<1>1. ASSUME NEW k \in DOMAIN Document.f, FieldForm(v, Document.f[k], k, how)
      PROVE  Opens(how.to, v.env)
  BY <1>1, DocumentFields, FieldSeals
<1>2. ASSUME NEW k \in DOMAIN Document.f, Document.f[k].t = "obj", NEW l \in DOMAIN Document.f[k].f,
             Layers(v, Json(Document.f[k].f[l]), q, how)
      PROVE  Opens(how.to, v.env)
  <2>1. Small(Document.f[k].f[l])
    BY <1>2, DocumentFields DEF FieldOf, Small
  <2>2. ~IsSealed(Json(Document.f[k].f[l]))
    BY <2>1, SmallValues
  <2> QED BY <1>2, <2>2, LayersSealed
<1> QED BY <1>1, <1>2 DEF MovedForm

\* It opens as it would have where it was sealed.
LEMMA MovedOpens ==
  ASSUME NEW v, NEW q, NEW was, MovedForm(v, q, was),
         IsSealed(v) => v.env.ct.plain # Undefined,
         v.t = "obj" => \A l \in DOMAIN v.f : IsSealed(v.f[l]) => v.f[l].env.ct.plain # Undefined,
         NEW how, how.to = was.to, how.low = was.low, how.reached = was.reached,
         how.out = was.out, how.opened
  PROVE  /\ MovedForm(WalkField(v), q, how)
         /\ Small(At(Document, q)) => MovedForm(WalkLeaf(v), q, how)
<1> DEFINE X == {}
<1>1. q \in how.reached
  BY DEF MovedForm
<1>2. how.out = was.out \cup X
  OBVIOUS
<1>3. ASSUME NEW k \in DOMAIN Document.f, q = <<k>>, FieldForm(v, Document.f[k], k, was)
      PROVE  /\ MovedForm(WalkField(v), q, how)
             /\ Small(At(Document, q)) => MovedForm(WalkLeaf(v), q, how)
  <2>1. FieldOf(Document.f[k]) /\ At(Document, q) = Document.f[k]
    BY <1>3, DocumentFields, OriginalAt
  <2>2. FieldForm(WalkField(v), Document.f[k], k, how)
    BY <1>2, <1>3, <2>1, FieldOpened
  <2>3. ASSUME Small(Document.f[k])
        PROVE  FieldForm(WalkLeaf(v), Document.f[k], k, how)
    <3>1. Document.f[k].t # "obj"
      BY <2>3, SmallValues
    <3>2. LeafForm(v, Document.f[k], <<k>>, Kept(Document.f[k], was), was)
      BY <1>3, <3>1 DEF FieldForm
    <3>3. /\ ~IsSealed(Kept(Document.f[k], was))
          /\ WalkField(Kept(Document.f[k], was)) = WalkLeaf(Kept(Document.f[k], was))
          /\ WalkLeaf(Kept(Document.f[k], was)) = Kept(Document.f[k], how)
      BY <2>3, KeptValues DEF Kept
    <3>4. LeafForm(WalkLeaf(v), Document.f[k], <<k>>, WalkLeaf(Kept(Document.f[k], was)), how)
      BY <1>2, <2>3, <3>2, <3>3, LeafOpened
    <3> QED BY <3>1, <3>3, <3>4 DEF FieldForm
  <2> QED BY <1>1, <1>3, <2>1, <2>2, <2>3 DEF MovedForm
<1>4. ASSUME NEW k \in DOMAIN Document.f, Document.f[k].t = "obj", NEW l \in DOMAIN Document.f[k].f,
             q = <<k, l>>, Layers(v, Json(Document.f[k].f[l]), q, was)
      PROVE  MovedForm(WalkField(v), q, how) /\ MovedForm(WalkLeaf(v), q, how)
  <2> DEFINE w == Document.f[k].f[l]
  <2>1. Small(w)
    BY <1>4, DocumentFields DEF FieldOf, Small
  <2>2. ~IsSealed(w) /\ LeafForm(v, w, q, Emptied, was) /\ q \in was.reached
    BY <1>1, <1>4, <2>1, SmallValues DEF LeafForm
  <2>3. ~IsSealed(Emptied) /\ WalkField(Emptied) = WalkLeaf(Emptied)
    BY EmptyObject DEF IsSealed
  <2> HIDE DEF w
  <2>4. \A x \in {WalkLeaf(v), WalkField(v)} : LeafForm(x, w, q, WalkLeaf(Emptied), how)
    BY <1>2, <2>1, <2>2, <2>3, LeafOpened
  <2>5. Layers(WalkLeaf(v), Json(w), q, how) /\ Layers(WalkField(v), Json(w), q, how)
    BY <1>1, <2>4 DEF LeafForm
  <2> QED BY <1>1, <1>4, <2>5 DEF MovedForm, w
<1> QED BY <1>3, <1>4 DEF MovedForm

\* It is restored as it would have been there.
LEMMA MovedRestored ==
  ASSUME NEW v, NEW q, NEW how, MovedForm(v, q, how), how.opened,
         ~IsSealed(v), v.t = "obj" => \A l \in DOMAIN v.f : ~IsSealed(v.f[l])
  PROVE  v = Json(At(Document, q))
<1>1. ASSUME NEW k \in DOMAIN Document.f, q = <<k>>, FieldForm(v, Document.f[k], k, how)
      PROVE  v = Json(At(Document, q))
  <2> DEFINE w == Document.f[k]
  <2>1. FieldOf(w) /\ FieldForm(v, w, k, how) /\ At(Document, q) = w /\ <<k>> \in how.reached
    BY <1>1, DocumentFields, OriginalAt DEF MovedForm
  <2> HIDE DEF w
  <2>2. v = IF <<k>> \in how.reached THEN Json(w)
            ELSE IF w.t = "obj"
                 THEN Obj([l \in DOMAIN w.f |->
                         IF <<k, l>> \in how.reached THEN Json(w.f[l]) ELSE WalkLeaf(w.f[l])])
                 ELSE WalkLeaf(w)
    BY <2>1, FieldRestored
  <2> QED BY <2>1, <2>2
<1>2. ASSUME NEW k \in DOMAIN Document.f, Document.f[k].t = "obj", NEW l \in DOMAIN Document.f[k].f,
             q = <<k, l>>, Layers(v, Json(Document.f[k].f[l]), q, how)
      PROVE  v = Json(At(Document, q))
  BY <1>2, OriginalAt, LayersBase
<1> QED BY <1>1, <1>2 DEF MovedForm

\* A value without fields stays without sealed fields, in whatever envelopes it was.
LEMMA SmallUnsealed ==
  ASSUME NEW v, NEW q, NEW how, MovedForm(v, q, how), Small(At(Document, q)), v.t = "obj"
  PROVE  \A l \in DOMAIN v.f : ~IsSealed(v.f[l])
<1>1. ~IsSealed(v)
  BY DEF IsSealed
<1>2. ASSUME NEW k \in DOMAIN Document.f, q = <<k>>, FieldForm(v, Document.f[k], k, how)
      PROVE  FALSE
  <2>1. At(Document, q) = Document.f[k] /\ Small(Document.f[k]) /\ <<k>> \in how.reached
    BY <1>2, OriginalAt DEF MovedForm
  <2>2. Document.f[k].t # "obj" /\ Json(Document.f[k]).t # "obj"
    BY <2>1, SmallValues
  <2>3. Layers(v, Json(Document.f[k]), <<k>>, how)
    BY <1>2, <2>1, <2>2 DEF FieldForm, LeafForm
  <2> QED BY <1>1, <2>2, <2>3, LayersBase
<1>3. ASSUME NEW k \in DOMAIN Document.f, Document.f[k].t = "obj", NEW l \in DOMAIN Document.f[k].f,
             q = <<k, l>>, Layers(v, Json(Document.f[k].f[l]), q, how)
      PROVE  FALSE
  <2>1. Small(Document.f[k].f[l])
    BY <1>3, OriginalAt
  <2>2. Json(Document.f[k].f[l]).t # "obj"
    BY <2>1, SmallValues
  <2> QED BY <1>1, <1>3, <2>2, LayersBase
<1> QED BY <1>2, <1>3 DEF MovedForm

\* What openFields leaves of a field it met.
LEMMA MovedReading ==
  ASSUME NEW doc, doc.t = "obj", NEW i, NEW sk, OpenDocument(i, doc, sk), ~result'.threw,
         NEW p \in Paths, Exists(doc, p), NEW q, Suits(p, q), NEW was, NEW opened,
         MovedForm(At(doc, p), q, How(was.to, Reached(was.paths), opened, 0, {}))
  PROVE  /\ Exists(result'.data, p) /\ MovedForm(At(result'.data, p), q, SealedBefore(was))
         /\ IsSealed(At(doc, p)) => sk = was.to
<1> DEFINE v   == At(doc, p)
           now == How(was.to, Reached(was.paths), opened, 0, {})
           how == SealedBefore(was)
<1>1. /\ result'.data = Opened(doc)
      /\ \A u \in Nodes(doc) : IsSealed(u) => Opens(sk, u.env) /\ u.env.ct.plain # Undefined
  BY DEF OpenDocument, FieldOpens
<1>2. /\ Exists(Opened(doc), p)
      /\ At(Opened(doc), p) = IF Len(p) = 1 THEN WalkField(v) ELSE WalkLeaf(v)
      /\ v \in Nodes(doc)
      /\ Len(p) = 1 /\ v.t = "obj" => \A l \in DOMAIN v.f : v.f[l] \in Nodes(doc)
  BY AtOpened
<1>3. /\ now.to = was.to /\ how.to = was.to /\ how.low = now.low /\ how.reached = now.reached
      /\ how.out = now.out /\ how.opened
  BY DEF How, SealedBefore
<1>4. MovedForm(v, q, now)
  OBVIOUS
<1> HIDE DEF v, now, how
<1>5. IsSealed(v) => v.env.ct.plain # Undefined
  BY <1>1, <1>2
<1>6. ASSUME Len(p) = 1
      PROVE  MovedForm(At(Opened(doc), p), q, how)
  <2>1. v.t = "obj" => \A l \in DOMAIN v.f : IsSealed(v.f[l]) => v.f[l].env.ct.plain # Undefined
    BY <1>1, <1>2, <1>6
  <2>2. MovedForm(WalkField(v), q, how)
    BY <1>3, <1>4, <1>5, <2>1, MovedOpens
  <2> QED BY <1>2, <1>6, <2>2
<1>7. ASSUME Len(p) # 1
      PROVE  MovedForm(At(Opened(doc), p), q, how)
  <2>1. Small(At(Document, q))
    BY <1>7, DocumentAssumption DEF Suits
  <2>2. v.t = "obj" => \A l \in DOMAIN v.f : ~IsSealed(v.f[l])
    BY <1>4, <2>1, SmallUnsealed
  <2>3. MovedForm(WalkLeaf(v), q, how)
    BY <1>3, <1>4, <1>5, <2>1, <2>2, MovedOpens
  <2> QED BY <1>2, <1>7, <2>3
<1>8. ASSUME IsSealed(v)
      PROVE  sk = was.to
  <2>1. Opens(sk, v.env) /\ Opens(was.to, v.env)
    BY <1>1, <1>2, <1>3, <1>4, <1>8, MovedSeal
  <2>2. Cek(v.env.kem, sk, v.env.ctx) = Cek(v.env.kem, was.to, v.env.ctx)
    BY <2>1 DEF Opens
  <2> QED BY <2>2 DEF Cek
<1>9. Exists(result'.data, p) /\ MovedForm(At(result'.data, p), q, how)
  BY <1>1, <1>2, <1>6, <1>7
<1> QED BY <1>8, <1>9 DEF v, how

\* What is sealed and is no object has no fields.
LEMMA MovedSmall ==
  ASSUME NEW v, NEW q, NEW how, MovedForm(v, q, how), At(Document, q).t # "obj"
  PROVE  Small(At(Document, q))
<1>1. ASSUME NEW k \in DOMAIN Document.f, q = <<k>>
      PROVE  Small(At(Document, q))
  BY <1>1, DocumentFields, OriginalAt DEF FieldOf
<1>2. ASSUME NEW k \in DOMAIN Document.f, Document.f[k].t = "obj", NEW l \in DOMAIN Document.f[k].f,
             q = <<k, l>>
      PROVE  Small(At(Document, q))
  BY <1>2, DocumentFields, OriginalAt DEF FieldOf, Small
<1> QED BY <1>1, <1>2 DEF MovedForm

\* Two sealed fields that changed places.
LEMMA ExchangeMoves ==
  ASSUME NEW doc, NEW was, TwoLevelled(doc), \A p \in Paths : MovedAt(doc, p, was),
         NEW new \in AlteredDocument(doc)
  PROVE  TwoLevelled(new) /\ \A p \in Paths : MovedAt(new, p, was)
<1>1. PICK a \in Paths, b \in Paths :
        /\ Exists(doc, a) /\ IsSealed(At(doc, a)) /\ Exists(doc, b) /\ IsSealed(At(doc, b))
        /\ Len(a) = 2 => At(Document, SealedAt(At(doc, b))).t # "obj"
        /\ Len(b) = 2 => At(Document, SealedAt(At(doc, a))).t # "obj"
        /\ new = Put(Put(doc, a, At(doc, b)), b, At(doc, a))
  BY DEF AlteredDocument
<1> DEFINE x == At(doc, a)
           y == At(doc, b)
           now == SealedNow(was)
           mid == Put(doc, a, y)
<1>2. /\ MovedForm(x, SealedAt(x), now) /\ MovedForm(y, SealedAt(y), now)
  BY <1>1 DEF MovedAt
<1>3. ASSUME NEW v, MovedForm(v, SealedAt(v), now), At(Document, SealedAt(v)).t # "obj"
      PROVE  Small(At(Document, SealedAt(v)))
  BY <1>3, MovedSmall
<1>4. /\ Suits(a, SealedAt(y)) /\ Suits(b, SealedAt(x))
  BY <1>1, <1>2, <1>3 DEF Suits
<1>5. IsSealed(x) /\ IsSealed(y) /\ new = Put(mid, b, x) /\ Exists(doc, a) /\ Exists(doc, b)
  BY <1>1
<1> HIDE DEF x, y, mid, now
<1>6. /\ TwoLevelled(mid)
      /\ \A r \in Paths : Exists(mid, r) /\ IsSealed(At(mid, r)) =>
            (r = a /\ At(mid, r) = y) \/ (Exists(doc, r) /\ At(mid, r) = At(doc, r))
  BY <1>5, PutMoves DEF mid
<1>7. Exists(mid, b)
  BY <1>5, PutMoves DEF mid, x
<1>8. /\ TwoLevelled(new)
      /\ \A r \in Paths : Exists(new, r) /\ IsSealed(At(new, r)) =>
            (r = b /\ At(new, r) = x) \/ (Exists(mid, r) /\ At(new, r) = At(mid, r))
  BY <1>5, <1>6, <1>7, PutMoves
<1>9. ASSUME NEW r \in Paths, Exists(new, r), IsSealed(At(new, r))
      PROVE  MovedForm(At(new, r), SealedAt(At(new, r)), now) /\ Suits(r, SealedAt(At(new, r)))
  <2>1. CASE r = b /\ At(new, r) = x
    BY <1>2, <1>4, <2>1
  <2>2. CASE Exists(mid, r) /\ At(new, r) = At(mid, r)
    <3>1. CASE r = a /\ At(mid, r) = y
      BY <1>2, <1>4, <2>2, <3>1
    <3>2. CASE Exists(doc, r) /\ At(mid, r) = At(doc, r)
      BY <1>9, <2>2, <3>2 DEF MovedAt, now
    <3> QED BY <1>6, <1>9, <2>2, <3>1, <3>2
  <2> QED BY <1>8, <1>9, <2>1, <2>2
<1> QED BY <1>8, <1>9 DEF MovedAt, now

\* Every step keeps MovedInv: what is sealed lies where it was sealed, an exchange
\* puts each field in the place of the other, and opening looks at one at a time.
LEMMA MovedStep ==
  ASSUME DocumentInv, LayerInv, LayerInv', MovedInv, [Next]_vars
  PROVE  MovedInv'
<1> SUFFICES ASSUME kind' = "document"
             PROVE  MovedInv'
  BY DEF MovedInv
<1>k. kind = "document" /\ kind' = kind
  BY KindKept
<1>i. /\ IsSeq(store) /\ IsSeq(sealed) /\ Len(store) = Len(sealed) /\ Len(store) \in Nat
      /\ \A i \in 1..Len(store) :
            TwoLevelled(store[i]) /\ \A p \in Paths : MovedAt(store[i], p, sealed[i])
      /\ call.op \in {"idle", "sealing"}
      /\ result # Nothing => result.of \in 1..Len(store)
      /\ result # Nothing /\ ~result.threw =>
            /\ result.data.t = "obj"
            /\ \A p \in Paths : MovedRead(store[result.of], p, sealed[result.of])
  BY <1>k, IsSeqLen DEF DocumentInv, LayerInv, MovedInv
<1>n. \A i \in 1..Len(store) : store[i].t = "obj"
  BY <1>i, ObjectWalked DEF TwoLevelled
<1>1. CASE UNCHANGED <<store, sealed, result>>
  BY <1>i, <1>k, <1>1 DEF MovedInv, MovedRead
<1>2. CASE FieldsSealed
  <2> DEFINE doc  == call.doc
             item == [to |-> call.to, paths |-> call.paths, data |-> Document, env |-> doc]
             new  == Len(store) + 1
  <2>1. /\ store' = Append(store, doc) /\ sealed' = Append(sealed, item) /\ result' = result
    BY <1>2 DEF FieldsSealed
  <2>2. item.env = doc
    OBVIOUS
  <2> HIDE DEF doc, item
  <2>3. /\ Len(store') = new /\ \A i \in 1..Len(store) : store'[i] = store[i]
        /\ store'[new] = doc
    BY <1>i, <2>1, AppendIsSeq
  <2>4. /\ Len(sealed') = new /\ \A i \in 1..Len(store) : sealed'[i] = sealed[i]
        /\ sealed'[new] = item
    BY <1>i, <2>1, AppendIsSeq
  <2>5. DocumentForm(doc, SealedNow(item))
    <3>1. \A i \in 1..Len(sealed') :
             DocumentForm(sealed'[i].env,
                          How(sealed'[i].to, Reached(sealed'[i].paths), FALSE, 0, {}))
      BY <1>k DEF LayerInv
    <3>2. new \in 1..Len(sealed')
      BY <1>i, <2>4
    <3> QED BY <2>2, <2>4, <3>1, <3>2 DEF SealedNow
  <2>6. TwoLevelled(doc) /\ \A p \in Paths : MovedAt(doc, p, item)
    BY <2>5, SealedInPlace
  <2>7. \A i \in 1..Len(store') :
           TwoLevelled(store'[i]) /\ \A p \in Paths : MovedAt(store'[i], p, sealed'[i])
    <3> TAKE i \in 1..Len(store')
    <3>1. CASE i = new
      BY <2>3, <2>4, <2>6, <3>1
    <3>2. CASE i # new
      <4>1. i \in 1..Len(store)
        BY <1>i, <2>3, <3>2
      <4> QED BY <1>i, <2>3, <2>4, <4>1
    <3> QED BY <3>1, <3>2
  <2>8. result' # Nothing /\ ~result'.threw =>
            /\ result'.data.t = "obj"
            /\ \A p \in Paths : MovedRead(store[result.of], p, sealed[result.of])'
    <3> SUFFICES ASSUME result # Nothing, ~result.threw
                 PROVE  /\ result'.data.t = "obj"
                        /\ \A p \in Paths : MovedRead(store[result.of], p, sealed[result.of])'
      BY <2>1
    <3>1. store'[result.of] = store[result.of] /\ sealed'[result.of] = sealed[result.of]
      BY <1>i, <2>3, <2>4
    <3> QED BY <1>i, <2>1, <3>1 DEF MovedRead
  <2> QED BY <1>k, <2>7, <2>8 DEF MovedInv
<1>3. ASSUME NEW i \in Items, OpenFields(i)
      PROVE  MovedInv'
  <2>1. PICK sk \in Recipients : OpenDocument(i, store[i], sk)
    BY <1>3 DEF OpenFields
  <2>2. /\ UNCHANGED <<kind, sealed, store, call>> /\ result'.of = i /\ result'.sk = sk
        /\ ~result'.threw => result'.data = Opened(store[i])
    BY <2>1 DEF OpenDocument
  <2>3. i \in 1..Len(store)
    BY DEF Items
  <2> DEFINE doc == store[i]
             was == sealed[i]
  <2>4. ASSUME ~result'.threw, NEW p \in Paths, Exists(doc, p), IsSealed(At(doc, p))
        PROVE  LET q == SealedAt(At(doc, p)) IN
               /\ sk = was.to /\ Suits(p, q)
               /\ Exists(result'.data, p) /\ MovedForm(At(result'.data, p), q, SealedBefore(was))
    <3> DEFINE q == SealedAt(At(doc, p))
    <3>1. MovedForm(At(doc, p), q, SealedNow(was)) /\ Suits(p, q) /\ doc.t = "obj"
      BY <1>i, <1>n, <2>3, <2>4 DEF MovedAt
    <3>2. OpenDocument(i, doc, sk)
      BY <2>1
    <3> HIDE DEF doc, was, q
    <3>3. /\ Exists(result'.data, p) /\ MovedForm(At(result'.data, p), q, SealedBefore(was))
          /\ IsSealed(At(doc, p)) => sk = was.to
      BY <2>4, <3>1, <3>2, MovedReading DEF SealedNow
    <3> QED BY <2>4, <3>1, <3>3 DEF q
  <2>5. ASSUME ~result'.threw
        PROVE  result'.data.t = "obj"
    BY <1>n, <2>2, <2>3, <2>5, OpenedObject
  <2>6. ~result'.threw => \A p \in Paths : MovedRead(store[result.of], p, sealed[result.of])'
    BY <2>2, <2>4 DEF MovedRead
  <2> QED BY <1>i, <1>k, <2>2, <2>5, <2>6 DEF MovedInv
<1>4. CASE OpenFieldsAgain
  <2> DEFINE i   == result.of
             old == result.data
             was == sealed[i]
             doc == store[i]
             sk  == result.sk
  <2>1. /\ result # Nothing /\ ~result.threw /\ OpenDocument(i, old, sk)
        /\ UNCHANGED <<kind, sealed, store, call>> /\ result'.of = i /\ result'.sk = sk
        /\ ~result'.threw => result'.data = Opened(old)
    BY <1>4 DEF OpenFieldsAgain, OpenDocument
  <2>2. old.t = "obj" /\ \A p \in Paths : MovedRead(doc, p, was)
    BY <1>i, <2>1
  <2>3. ASSUME ~result'.threw, NEW p \in Paths, Exists(doc, p), IsSealed(At(doc, p))
        PROVE  LET q == SealedAt(At(doc, p)) IN
               /\ sk = was.to /\ Suits(p, q)
               /\ Exists(result'.data, p) /\ MovedForm(At(result'.data, p), q, SealedBefore(was))
    <3> DEFINE q == SealedAt(At(doc, p))
    <3>1. /\ sk = was.to /\ Suits(p, q)
          /\ Exists(old, p) /\ MovedForm(At(old, p), q, SealedBefore(was))
      BY <2>2, <2>3 DEF MovedRead
    <3>2. OpenDocument(i, old, sk) /\ old.t = "obj"
      BY <2>1, <2>2
    <3> HIDE DEF doc, was, q, old, sk, i
    <3>3. Exists(result'.data, p) /\ MovedForm(At(result'.data, p), q, SealedBefore(was))
      BY <2>3, <3>1, <3>2, MovedReading DEF SealedBefore
    <3> QED BY <3>1, <3>3 DEF q
  <2>4. ASSUME ~result'.threw
        PROVE  result'.data.t = "obj"
    BY <2>1, <2>2, <2>4, OpenedObject
  <2>5. ~result'.threw => \A p \in Paths : MovedRead(store[result.of], p, sealed[result.of])'
    BY <2>1, <2>3 DEF MovedRead
  <2> QED BY <1>i, <1>k, <2>1, <2>4, <2>5 DEF MovedInv
<1>5. ASSUME NEW i \in Items, NEW j \in Items, Alter(i, j)
      PROVE  MovedInv'
  <2> DEFINE doc == store[i]
             was == sealed[i]
  <2>1. PICK new \in AlteredDocument(doc) :
          /\ store' = [store EXCEPT ![i] = new] /\ result' = Nothing /\ UNCHANGED <<kind, sealed>>
    BY <1>5, <1>k DEF Alter
  <2>2. i \in 1..Len(store)
    BY DEF Items
  <2>3. /\ Len(store') = Len(store)
        /\ \A m \in 1..Len(store) : store'[m] = IF m = i THEN new ELSE store[m]
    <3>1. store' = ReplaceAt(store, i, new)
      BY <2>1, <1>i DEF ReplaceAt
    <3> QED BY <1>i, <2>2, <3>1, ReplaceIsSeq
  <2>4. TwoLevelled(doc) /\ \A p \in Paths : MovedAt(doc, p, was)
    BY <1>i, <2>2
  <2> HIDE DEF doc, was
  <2>5. TwoLevelled(new) /\ \A p \in Paths : MovedAt(new, p, was)
    BY <2>4, ExchangeMoves
  <2>6. \A m \in 1..Len(store') :
           TwoLevelled(store'[m]) /\ \A p \in Paths : MovedAt(store'[m], p, sealed'[m])
    BY <1>i, <2>1, <2>2, <2>3, <2>5 DEF was
  <2> QED BY <1>k, <2>1, <2>6 DEF MovedInv
<1>6. /\ ~SealSigned /\ ~SealMedia /\ ~SealFrame /\ ~IssueAttestation
      /\ \A i \in Items : ~OpenWebhook(i) /\ ~OpenMedia(i) /\ ~VerifyAttestation(i)
      /\ ~OpenFrame /\ ~OpenEnds
  BY <1>i, <1>k DEF SealSigned, SealMedia, SealFrame, IssueAttestation, OpenWebhook, OpenMedia,
     VerifyAttestation, OpenFrame, OpenEnds
<1>7. SealFields \/ SealField \/ UNCHANGED vars => UNCHANGED <<store, sealed, result>>
  BY DEF SealFields, SealField, vars
<1> QED BY <1>1, <1>2, <1>3, <1>4, <1>5, <1>6, <1>7 DEF Next, Seals, Openings

\* What an opening of a document gives was sealed, for this reader.
LEMMA DocumentsOpenAsSealed ==
  ASSUME DocumentInv, LayerInv, MovedInv
  PROVE  DocumentAsSealed
<1> DEFINE doc == store[result.of]
           was == sealed[result.of]
<1> SUFFICES ASSUME result # Nothing, kind = "document", ~result.threw,
                    NEW p \in Paths, Exists(doc, p), IsSealed(At(doc, p))
             PROVE  LET q == SealedAt(At(doc, p)) IN
                    /\ was.to = result.sk /\ q \in ToSet(was.paths)
                    /\ ~HasSealedFields(result.data) => At(result.data, p) = Json(At(Document, q))
  BY DEF DocumentAsSealed
<1> DEFINE q   == SealedAt(At(doc, p))
           how == SealedBefore(was)
           v   == At(result.data, p)
<1>1. /\ result.data.t = "obj" /\ result.sk = was.to /\ Exists(result.data, p)
      /\ MovedForm(v, q, how) /\ Suits(p, q)
  BY DEF MovedInv, MovedRead
<1>2. was.paths \in Seq(Paths) /\ result.of \in 1..Len(sealed)
  BY DEF DocumentInv, LayerInv
<1>3. how.reached = Reached(was.paths) /\ how.opened
  BY DEF SealedBefore, How
<1> HIDE DEF doc, was, q, how, v
<1>4. q \in ToSet(was.paths)
  <2>1. q \in ReachedBy(was.paths, Len(was.paths))
    BY <1>1, <1>3 DEF MovedForm, Reached
  <2>2. PICK m \in 1..Len(was.paths) : q = was.paths[m]
    BY <2>1 DEF ReachedBy
  <2> QED BY <1>2, <2>2, LenProperties DEF ToSet
<1>5. ASSUME ~HasSealedFields(result.data)
      PROVE  v = Json(At(Document, q))
  <2>1. \A u \in Nodes(result.data) : ~IsSealed(u)
    BY <1>5 DEF HasSealedFields
  <2>2. /\ v \in Nodes(result.data)
        /\ Len(p) = 1 /\ v.t = "obj" => \A l \in DOMAIN v.f : v.f[l] \in Nodes(result.data)
    BY <1>1, AtOpened DEF v
  <2>3. v.t = "obj" => \A l \in DOMAIN v.f : ~IsSealed(v.f[l])
    <3>1. CASE Len(p) = 1
      BY <2>1, <2>2, <3>1
    <3>2. CASE Len(p) = 2
      BY <1>1, <3>2, SmallUnsealed DEF Suits
    <3> QED BY <3>1, <3>2, PathTuples
  <2> QED BY <1>1, <1>3, <2>1, <2>2, <2>3, MovedRestored
<1> QED BY <1>1, <1>4, <1>5 DEF v, q

-----------------------------------------------------------------------------
(***************************************************************************)
(* Theorems.                                                               *)
(***************************************************************************)

SealInv ==
  /\ kind \in Kinds
  /\ SignedInv /\ AttestedInv /\ MediaInv /\ DocumentInv /\ LayerInv /\ MovedInv

LEMMA SealInvariant == Spec => []SealInv
<1>1. Init => SealInv
  <2>1. IsSeq(<<>>) /\ Len(<<>>) = 0
    BY EmptySeq DEF IsSeq
  <2> QED BY <2>1 DEF Init, SealInv, SignedInv, AttestedInv, MediaInv, DocumentInv, SealingInv,
             OpeningInv, LayerInv, MovedInv, Idle
<1>2. SealInv /\ [Next]_vars => SealInv'
  <2> SUFFICES ASSUME SealInv, [Next]_vars
               PROVE  SealInv'
    OBVIOUS
  <2>1. LayerInv'
    BY LayerStep DEF SealInv
  <2> QED BY <2>1, KindKept, SignedStep, AttestedStep, MediaStep, DocumentStep, MovedStep
           DEF SealInv
<1> QED BY <1>1, <1>2, PTL DEF Spec

\* What opens or verifies is what was sealed, signed or issued, by whom it says
\* and for whom it was, for any number of items that lost, repeated and exchanged
\* parts as Alter says and however they were framed: media up to a cut at its end,
\* which a size lowered to match hides, and a field of a document as it was at the
\* path its envelope names, which need not be where it lies (openFramed,
\* openWebhook, openSigned, verifyAttestation, openFields).
THEOREM OpensOnlyAsSealed == Spec => []OpensAsSealed
<1>1. SealInv => OpensAsSealed
  <2> SUFFICES ASSUME SealInv
               PROVE  OpensAsSealed
    OBVIOUS
  <2>1. DocumentAsSealed
    BY DocumentsOpenAsSealed DEF SealInv
  <2> QED BY <2>1, MediaOpensAsSealed, WebhooksOpenAsSealed, AttestationsVerifyAsIssued
     DEF SealInv, OpensAsSealed
<1> QED BY <1>1, SealInvariant, PTL

\* No two frames are encrypted under one key, in one item or in two, for payloads
\* and frames of any size (frameKey, sealFramed).
THEOREM FrameKeysNeverReused == Spec => []FrameKeysUsedOnce
<1>1. SealInv => FrameKeysUsedOnce
  BY FrameKeysDiffer DEF SealInv
<1> QED BY <1>1, SealInvariant, PTL

\* What was not altered opens for its reader and gives back what was sealed: media
\* of any size in frames of any size, a webhook, an attestation, and a document of
\* which any paths were sealed in any order, nested, repeated or missing, once it
\* was opened as often as it takes (seal, open, sealFramed, openFramed, openWebhook,
\* verifyAttestation, sealFields, openFields).
THEOREM OpeningInvertsSealing == Spec => []RoundTrip
<1>1. SealInv => RoundTrip
  <2> SUFFICES ASSUME SealInv
               PROVE  RoundTrip
    OBVIOUS
  <2>1. CASE kind \in {"media", "signed", "attestation"}
    BY <2>1, MediaRoundTrips, WebhooksRoundTrip, AttestationsRoundTrip DEF SealInv
  <2>2. CASE kind = "document"
    BY <2>2, DocumentsRoundTrip DEF SealInv
  <2> QED BY <2>1, <2>2, KindAssumption DEF SealInv
<1> QED BY <1>1, SealInvariant, PTL

\* Nothing under a path given to sealFields can be read in the document it returns,
\* whatever paths there are and in whatever order they come, nested or repeated
\* (sealFields), if its texts differ.
THEOREM FieldsStayHidden ==
  ASSUME TextsDiffer
  PROVE  Spec => []FieldsHidden
<1>1. SealInv => FieldsHidden
  BY SealedFieldsHidden DEF SealInv
<1> QED BY <1>1, SealInvariant, PTL

=============================================================================
