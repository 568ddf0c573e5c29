--------------------------- MODULE NenStreamProofs ---------------------------
(***************************************************************************)
(* Proofs about NenStream, for any chunks, any number of them and any      *)
(* number of key changes.                                                  *)
(***************************************************************************)
EXTENDS NenStream, TLAPS

-----------------------------------------------------------------------------
(***************************************************************************)
(* The inductive invariant.                                                *)
(***************************************************************************)

\* The n-th event of the body, when it is that of a chunk.
ChunkEvent(i) == [key |-> skey, n |-> i - 1, text |-> sent[i]]

\* The body is one event for each chunk, and at most the marker after them.
BodyInv ==
  /\ index = Len(sent)
  /\ source = "none" => sent = <<>> /\ out = <<>>
  /\ Len(out) = Len(sent) \/ Len(out) = Len(sent) + 1
  /\ \A i \in 1 .. Len(sent) : out[i] = ChunkEvent(i)
  /\ Len(out) = Len(sent) + 1 =>
       /\ source = "closed"
       /\ out[Len(sent) + 1] = [key |-> skey, n |-> Len(sent), text |-> Fin]

\* The generator counts what it takes, and has yielded all of it so far.
ReaderInv ==
  /\ gen \in {"idle", "request", "handshake"} => source = "none"
  /\ gen \in {"idle", "request", "handshake", "reading"} =>
       chunkIndex = taken /\ Len(got) = taken
  /\ gen = "yielded" => taken = chunkIndex + 1 /\ Len(got) = taken
  /\ Len(got) <= Len(sent)
  /\ \A i \in 1 .. Len(got) : got[i] = sent[i]

\* Keys only go forward, and a stream has a reason only when it is over.
EndInv ==
  /\ skey <= ckey
  /\ gen # "over" => reason = "none"
  /\ UnreadableOnlyAfterKeyChange
  /\ MarkedEndIsWhole

StreamInv == TypeOK /\ BodyInv /\ ReaderInv /\ EndInv

\* The flag of a stream that rotated is up until the stream is over.
RequestInv ==
  /\ gen = "idle" => requests = 0
  /\ gen = "request" => requests = 1 \/ (requests = 2 /\ holds)
  /\ gen = "handshake" => requests = 1 /\ holds
  /\ requests <= 2
  /\ holds => rotating

-----------------------------------------------------------------------------
(***************************************************************************)
(* The body and the reader.                                                *)
(***************************************************************************)

\* The invariant holds in the initial state.
LEMMA InitStreamInv == Init => StreamInv
<1> SUFFICES ASSUME Init PROVE StreamInv
  OBVIOUS
<1> USE DEF Init
<1>1. TypeOK
  <2>1. received \in 0 .. 2 * Len(out) /\ taken \in 0 .. received \div 2
    OBVIOUS
  <2>2. sent \in Seq(Chunks) /\ out \in Seq(Event) /\ got \in Seq(Chunks)
    OBVIOUS
  <2>3. QED BY <2>1, <2>2 DEF TypeOK
<1>2. BodyInv
  BY DEF BodyInv
<1>3. ReaderInv
  BY DEF ReaderInv
<1>4. EndInv
  BY DEF EndInv, UnreadableOnlyAfterKeyChange, MarkedEndIsWhole
<1>5. QED BY <1>1, <1>2, <1>3, <1>4 DEF StreamInv

\* A step that touches neither the body nor the reader, and takes no key back,
\* keeps the invariant: the steps of other calls.
LEMMA QuietStep ==
  ASSUME StreamInv,
         UNCHANGED <<server, skey, reader, gen, reason, requests>>,
         ckey' \in Nat, ckey <= ckey', rotating' \in BOOLEAN, holds' \in BOOLEAN
  PROVE  StreamInv'
<1> USE DEF StreamInv, server, reader
<1>1. TypeOK'
  BY DEF TypeOK
<1>2. BodyInv'
  BY DEF BodyInv, ChunkEvent
<1>3. ReaderInv'
  BY DEF ReaderInv
<1>4. EndInv'
  <2>1. skey' <= ckey' /\ (gen' # "over" => reason' = "none")
    BY DEF EndInv, TypeOK
  <2>2. UnreadableOnlyAfterKeyChange'
    BY DEF EndInv, TypeOK, UnreadableOnlyAfterKeyChange
  <2>3. MarkedEndIsWhole'
    BY DEF EndInv, MarkedEndIsWhole
  <2>4. QED BY <2>1, <2>2, <2>3 DEF EndInv
<1>5. QED BY <1>1, <1>2, <1>3, <1>4

\* The generator may end at any time, for a reason that promises nothing.
LEMMA EndStep ==
  ASSUME StreamInv, gen # "over",
         NEW r \in {"done", "error", "returned"}, End(r),
         UNCHANGED <<server, skey, reader, ckey, requests>>
  PROVE  StreamInv'
<1> USE DEF StreamInv, server, reader, End
<1>1. TypeOK'
  BY DEF TypeOK
<1>2. BodyInv'
  BY DEF BodyInv, ChunkEvent
<1>3. ReaderInv'
  BY DEF ReaderInv
<1>4. EndInv'
  BY DEF EndInv, UnreadableOnlyAfterKeyChange, MarkedEndIsWhole
<1>5. QED BY <1>1, <1>2, <1>3, <1>4

\* A request is signed before anything is written or read, with keys the
\* client has from then on.
LEMMA SendStep ==
  ASSUME StreamInv, gen \in {"idle", "handshake"}, NEW k \in Nat, k = ckey',
         SendRequest(k),
         UNCHANGED <<server, reader, holds>>, rotating' \in BOOLEAN
  PROVE  StreamInv'
<1> USE DEF StreamInv, server, reader, SendRequest
<1>1. TypeOK'
  BY DEF TypeOK
<1>2. BodyInv'
  BY DEF BodyInv, ChunkEvent, ReaderInv
<1>3. ReaderInv'
  BY DEF ReaderInv
<1>4. EndInv'
  BY DEF EndInv, UnreadableOnlyAfterKeyChange, MarkedEndIsWhole
<1>5. QED BY <1>1, <1>2, <1>3, <1>4

\* The server's steps append at most one event, and none behind the marker.
LEMMA ProduceStep == ASSUME StreamInv, Accepted \/ Produce PROVE StreamInv'
<1> USE DEF StreamInv, reader
<1>1. CASE Accepted
  <2>1. TypeOK'
    BY <1>1 DEF Accepted, TypeOK
  <2>2. BodyInv'
    BY <1>1 DEF Accepted, BodyInv, ReaderInv, ChunkEvent
  <2>3. ReaderInv'
    BY <1>1 DEF Accepted, ReaderInv
  <2>4. EndInv'
    BY <1>1 DEF Accepted, EndInv, UnreadableOnlyAfterKeyChange, MarkedEndIsWhole
  <2>5. QED BY <2>1, <2>2, <2>3, <2>4
<1>2. ASSUME NEW v \in Chunks, Transform(v) PROVE StreamInv'
  <2> USE <1>2 DEF Transform, Encrypted
  <2>1. Len(out) = Len(sent) /\ Len(out') = Len(out) + 1 /\ Len(sent') = Len(sent) + 1
    BY DEF BodyInv, TypeOK
  <2>2. TypeOK'
    <3>1. [key |-> skey, n |-> index, text |-> v] \in Event
      BY DEF TypeOK, Event
    <3>2. sent' \in Seq(Chunks) /\ out' \in Seq(Event)
      BY <3>1 DEF TypeOK
    <3>3. received' \in 0 .. 2 * Len(out')
      BY <2>1 DEF TypeOK
    <3>4. QED BY <3>2, <3>3 DEF TypeOK
  <2>3. \A i \in 1 .. Len(sent) : sent'[i] = sent[i] /\ out'[i] = out[i]
    BY <2>1 DEF TypeOK
  <2>4. sent'[Len(sent) + 1] = v
        /\ out'[Len(sent) + 1] = [key |-> skey, n |-> Len(sent), text |-> v]
    BY <2>1 DEF TypeOK, BodyInv
  <2>5. BodyInv'
    <3>1. \A i \in 1 .. Len(sent') : out'[i] = ChunkEvent(i)'
      BY <2>1, <2>3, <2>4 DEF BodyInv, TypeOK, ChunkEvent
    <3>2. QED BY <2>1, <3>1 DEF BodyInv
  <2>6. ReaderInv'
    BY <2>1, <2>3 DEF ReaderInv, TypeOK
  <2>7. EndInv'
    BY <2>1, <2>3 DEF EndInv, UnreadableOnlyAfterKeyChange, MarkedEndIsWhole, TypeOK
  <2>8. QED BY <2>2, <2>5, <2>6, <2>7
<1>3. CASE Flush
  <2> USE <1>3 DEF Flush, Encrypted
  <2>1. Len(out) = Len(sent) /\ Len(out') = Len(out) + 1
    BY DEF BodyInv, TypeOK
  <2>2. TypeOK'
    <3>1. [key |-> skey, n |-> index, text |-> Fin] \in Event
      BY DEF TypeOK, Event
    <3>2. out' \in Seq(Event)
      BY <3>1 DEF TypeOK
    <3>3. received' \in 0 .. 2 * Len(out')
      BY <2>1 DEF TypeOK
    <3>4. QED BY <3>2, <3>3 DEF TypeOK
  <2>3. \A i \in 1 .. Len(sent) : out'[i] = out[i]
    BY <2>1 DEF TypeOK
  <2>4. out'[Len(sent) + 1] = [key |-> skey, n |-> Len(sent), text |-> Fin]
    BY <2>1 DEF TypeOK, BodyInv
  <2>5. BodyInv'
    BY <2>1, <2>3, <2>4 DEF BodyInv, TypeOK, ChunkEvent
  <2>6. ReaderInv'
    BY DEF ReaderInv
  <2>7. EndInv'
    BY DEF EndInv, UnreadableOnlyAfterKeyChange, MarkedEndIsWhole
  <2>8. QED BY <2>2, <2>5, <2>6, <2>7
<1>4. CASE FlushFails \/ SourceFails
  <2> USE <1>4 DEF FlushFails, SourceFails
  <2>1. TypeOK'
    BY DEF TypeOK
  <2>2. BodyInv'
    BY DEF BodyInv, ChunkEvent
  <2>3. ReaderInv'
    BY DEF ReaderInv
  <2>4. EndInv'
    BY DEF EndInv, UnreadableOnlyAfterKeyChange, MarkedEndIsWhole
  <2>5. QED BY <2>1, <2>2, <2>3, <2>4
<1>5. QED BY <1>1, <1>2, <1>3, <1>4 DEF Produce

-----------------------------------------------------------------------------
(***************************************************************************)
(* Taking the next line.                                                   *)
(***************************************************************************)

\* Advance has four outcomes.  An event that does not open was sealed under
\* older keys, never for want of the right number; the marker is the last
\* event, unless a chunk reads like it; and what is yielded is the next chunk.
LEMMA AdvanceOutcomes ==
  ASSUME StreamInv, NEW r \in 0 .. 2 * Len(out), Advance(r, taken),
         Len(got) = taken
  PROVE  \/ /\ taken < r \div 2 /\ taken' = taken + 1 /\ got' = got
            /\ End("undecryptable") /\ ckey # skey
         \/ /\ taken < r \div 2 /\ taken' = taken + 1 /\ got' = got
            /\ End("fin")
            /\ \/ source = "closed" /\ got = sent
               \/ \E i \in 1 .. Len(sent) : sent[i] = Fin
         \/ /\ taken < r \div 2 /\ taken' = taken + 1
            /\ taken + 1 <= Len(sent) /\ got' = Append(got, sent[taken + 1])
            /\ gen' = "yielded" /\ UNCHANGED <<reason, rotating, holds>>
         \/ gen' = "reading" /\ UNCHANGED <<taken, got, reason, rotating, holds>>
<1> USE DEF StreamInv
<1>1. CASE ~(taken < r \div 2)
  BY <1>1 DEF Advance
<1>2. CASE taken < r \div 2
  <2> DEFINE e == out[taken + 1]
  <2>1. taken \in Nat /\ taken + 1 \in 1 .. Len(out)
    BY <1>2 DEF TypeOK
  <2>2. /\ e.key = skey /\ e.n = taken
        /\ \/ taken + 1 \in 1 .. Len(sent) /\ e.text = sent[taken + 1]
           \/ taken = Len(sent) /\ e.text = Fin /\ source = "closed"
    <3>1. CASE taken + 1 <= Len(sent)
      <4>1. taken + 1 \in 1 .. Len(sent)
        BY <2>1, <3>1 DEF TypeOK
      <4>2. e = ChunkEvent(taken + 1)
        BY <4>1 DEF BodyInv
      <4>3. taken + 1 - 1 = taken
        BY <2>1
      <4>4. QED BY <4>1, <4>2, <4>3 DEF ChunkEvent
    <3>2. CASE ~(taken + 1 <= Len(sent))
      <4>1. taken = Len(sent) /\ Len(out) = Len(sent) + 1
        BY <2>1, <3>2 DEF BodyInv, TypeOK
      <4>2. QED BY <4>1 DEF BodyInv
    <3>3. QED BY <3>1, <3>2
  <2>3. /\ taken' = taken + 1
        /\ \/ e.key # ckey /\ End("undecryptable") /\ UNCHANGED got
           \/ e.text = Fin /\ End("fin") /\ UNCHANGED got
           \/ /\ e.text # Fin /\ gen' = "yielded" /\ got' = Append(got, e.text)
              /\ UNCHANGED <<reason, rotating, holds>>
    BY <1>2, <2>2 DEF Advance
  <2>4. CASE taken + 1 \in 1 .. Len(sent) /\ e.text = sent[taken + 1]
    BY <1>2, <2>2, <2>3, <2>4
  <2>5. CASE taken = Len(sent) /\ e.text = Fin /\ source = "closed"
    <3>1. got = sent
      BY <2>5 DEF ReaderInv, TypeOK
    <3>2. QED BY <1>2, <2>2, <2>3, <2>5, <3>1
  <2>6. QED BY <2>2, <2>4, <2>5
<1>3. QED BY <1>1, <1>2

\* Whatever the outcome, the invariant is kept, if the client counts the chunks
\* it has taken.
LEMMA AdvanceStep ==
  ASSUME StreamInv, gen # "over", NEW r \in 0 .. 2 * Len(out), received <= r,
         Advance(r, taken), Len(got) = taken,
         received' = r, chunkIndex' = taken,
         UNCHANGED <<server, skey, ckey, requests>>
  PROVE  StreamInv'
<1> USE DEF server
<1>1. BodyInv'
  BY DEF StreamInv, BodyInv, ChunkEvent
<1>2. /\ taken \in Nat /\ taken <= r \div 2
      /\ taken < r \div 2 => taken + 1 \in 0 .. r \div 2
      /\ received' \in 0 .. 2 * Len(out') /\ received' \div 2 = r \div 2
      /\ taken \in 0 .. r \div 2
  BY DEF StreamInv, TypeOK
<1>5. CASE /\ taken < r \div 2 /\ taken' = taken + 1 /\ got' = got
           /\ End("undecryptable") /\ ckey # skey
  <2> USE DEF StreamInv, End
  <2>1. TypeOK'
    BY <1>2, <1>5 DEF TypeOK
  <2>2. ReaderInv'
    BY <1>5 DEF ReaderInv
  <2>3. EndInv'
    BY <1>5 DEF EndInv, UnreadableOnlyAfterKeyChange, MarkedEndIsWhole
  <2>4. QED BY <1>1, <2>1, <2>2, <2>3
<1>6. CASE /\ taken < r \div 2 /\ taken' = taken + 1 /\ got' = got
           /\ End("fin")
           /\ \/ source = "closed" /\ got = sent
              \/ \E i \in 1 .. Len(sent) : sent[i] = Fin
  <2> USE DEF StreamInv, End
  <2>1. TypeOK'
    BY <1>2, <1>6 DEF TypeOK
  <2>2. ReaderInv'
    BY <1>6 DEF ReaderInv
  <2>3. EndInv'
    BY <1>6 DEF EndInv, UnreadableOnlyAfterKeyChange, MarkedEndIsWhole
  <2>4. QED BY <1>1, <2>1, <2>2, <2>3
<1>7. CASE /\ taken < r \div 2 /\ taken' = taken + 1
           /\ taken + 1 <= Len(sent) /\ got' = Append(got, sent[taken + 1])
           /\ gen' = "yielded" /\ UNCHANGED <<reason, rotating, holds>>
  <2> USE DEF StreamInv
  <2>1. sent[taken + 1] \in Chunks
    BY <1>2, <1>7 DEF TypeOK
  <2>2. /\ got' \in Seq(Chunks) /\ Len(got') = taken + 1
        /\ \A i \in 1 .. Len(got') : got'[i] = sent[i]
    BY <1>2, <1>7, <2>1 DEF TypeOK, ReaderInv
  <2>3. TypeOK'
    BY <1>2, <1>7, <2>2 DEF TypeOK
  <2>4. ReaderInv'
    BY <1>7, <2>2 DEF ReaderInv
  <2>5. EndInv'
    BY <1>7 DEF EndInv, UnreadableOnlyAfterKeyChange, MarkedEndIsWhole
  <2>6. QED BY <1>1, <2>3, <2>4, <2>5
<1>8. CASE gen' = "reading" /\ UNCHANGED <<taken, got, reason, rotating, holds>>
  <2> USE DEF StreamInv
  <2>1. TypeOK'
    BY <1>2, <1>8 DEF TypeOK
  <2>2. ReaderInv'
    BY <1>8 DEF ReaderInv
  <2>3. EndInv'
    BY <1>8 DEF EndInv, UnreadableOnlyAfterKeyChange, MarkedEndIsWhole
  <2>4. QED BY <1>1, <2>1, <2>2, <2>3
<1>9. QED BY <1>5, <1>6, <1>7, <1>8, AdvanceOutcomes

\* Read and Resume are such steps.
LEMMA TakesNext ==
  ASSUME StreamInv, NEW r \in 1 .. 2 * Len(out), Read(r) \/ (Resume /\ r = received)
  PROVE  /\ gen # "over" /\ Len(got) = taken /\ received <= r
         /\ received' = r /\ chunkIndex' = taken /\ Advance(r, taken)
         /\ UNCHANGED <<server, skey, ckey, requests>>
  BY DEF StreamInv, ReaderInv, TypeOK, Read, Resume

-----------------------------------------------------------------------------
(***************************************************************************)
(* Every step.                                                             *)
(***************************************************************************)

\* The steps that end the generator without a promise.
Ends(r) ==
  /\ gen # "over" /\ End(r)
  /\ UNCHANGED <<server, skey, reader, ckey, requests>>

\* The kinds of steps, by what they do to the body and the reader.
LEMMA StepKinds ==
  ASSUME StreamInv, [Next]_vars
  PROVE  \/ UNCHANGED <<server, skey, reader, gen, reason, requests>>
              /\ ckey' \in Nat /\ ckey <= ckey' /\ rotating' \in BOOLEAN
              /\ holds' \in BOOLEAN
         \/ \E r \in {"done", "error", "returned"} : Ends(r)
         \/ /\ gen \in {"idle", "handshake"} /\ SendRequest(ckey') /\ ckey' \in Nat
            /\ rotating' \in BOOLEAN /\ UNCHANGED <<server, reader, holds>>
         \/ Unauthorized /\ gen' = "handshake"
         \/ Accepted \/ Produce
         \/ Resume \/ \E r \in 1 .. 2 * Len(out) : Read(r)
<1> USE DEF StreamInv
<1>1. CASE Begin
  BY <1>1 DEF Begin, TypeOK, reader
<1>2. CASE Retry
  BY <1>2 DEF Retry, TypeOK, reader
<1>3. CASE Unauthorized
  BY <1>3 DEF Unauthorized, Ends, End
<1>4. CASE RequestFails \/ RotationFails \/ Return \/ ReadDone \/ ReadFails \/ Cut
  BY <1>4 DEF RequestFails, RotationFails, Return, ReadDone, ReadFails, Cut, Ends
<1>5. CASE KeysChange \/ OtherRotates \/ OtherReleases \/ UNCHANGED vars
  <2>1. UNCHANGED <<server, skey, reader, gen, reason, requests>>
    BY <1>5 DEF KeysChange, OtherRotates, OtherReleases, vars
  <2>2. ckey' \in Nat /\ ckey <= ckey'
    BY <1>5 DEF KeysChange, OtherRotates, OtherReleases, vars, TypeOK
  <2>3. rotating' \in BOOLEAN /\ holds' \in BOOLEAN
    BY <1>5 DEF KeysChange, OtherRotates, OtherReleases, vars, TypeOK
  <2>4. QED BY <2>1, <2>2, <2>3
<1>6. QED BY <1>1, <1>2, <1>3, <1>4, <1>5 DEF Next, Progress

\* Every step keeps the invariant.
LEMMA StepStreamInv == StreamInv /\ [Next]_vars => StreamInv'
<1> SUFFICES ASSUME StreamInv, [Next]_vars PROVE StreamInv'
  OBVIOUS
<1>1. CASE \E r \in {"done", "error", "returned"} : Ends(r)
  BY <1>1, EndStep DEF Ends
<1>2. CASE Unauthorized /\ gen' = "handshake"
  <2> USE <1>2 DEF StreamInv, server, reader, Unauthorized, End
  <2>1. TypeOK'
    BY DEF TypeOK
  <2>2. BodyInv' /\ ReaderInv'
    BY DEF BodyInv, ChunkEvent, ReaderInv
  <2>3. EndInv'
    BY DEF EndInv, UnreadableOnlyAfterKeyChange, MarkedEndIsWhole
  <2>4. QED BY <2>1, <2>2, <2>3
<1>3. CASE \E r \in 1 .. 2 * Len(out) : Read(r)
  <2>1. PICK r \in 1 .. 2 * Len(out) : Read(r)
    BY <1>3
  <2>2. r \in 0 .. 2 * Len(out)
    OBVIOUS
  <2>3. QED BY <2>1, <2>2, TakesNext, AdvanceStep
<1>4. CASE Resume
  <2>1. received \in 1 .. 2 * Len(out) /\ received \in 0 .. 2 * Len(out)
    BY <1>4 DEF Resume, StreamInv, ReaderInv, TypeOK
  <2>2. QED BY <1>4, <2>1, TakesNext, AdvanceStep
<1>5. CASE Accepted \/ Produce
  BY <1>5, ProduceStep
<1>6. CASE /\ gen \in {"idle", "handshake"} /\ SendRequest(ckey') /\ ckey' \in Nat
           /\ rotating' \in BOOLEAN /\ UNCHANGED <<server, reader, holds>>
  BY <1>6, SendStep
<1>7. CASE /\ UNCHANGED <<server, skey, reader, gen, reason, requests>>
           /\ ckey' \in Nat /\ ckey <= ckey' /\ rotating' \in BOOLEAN
           /\ holds' \in BOOLEAN
  BY <1>7, QuietStep
<1>8. QED BY <1>1, <1>2, <1>3, <1>4, <1>5, <1>6, <1>7, StepKinds

\* Body and reader agree in every reachable state.
THEOREM StreamInvariant == Spec => []StreamInv
<1>1. QED BY InitStreamInv, StepStreamInv, PTL DEF Spec

\* A stream keeps its types, for any chunks (NenStream as a whole).
THEOREM StreamTypeCorrect == Spec => []TypeOK
<1>1. StreamInv => TypeOK
  BY DEF StreamInv
<1>2. QED BY <1>1, StreamInvariant, PTL

\* However the body is cut into reads, the counters of the two sides never
\* part: a chunk fails to open only after the client's keys have changed.
THEOREM ReadableUnlessKeysChange == Spec => []UnreadableOnlyAfterKeyChange
<1>1. StreamInv => UnreadableOnlyAfterKeyChange
  BY DEF StreamInv, EndInv
<1>2. QED BY <1>1, StreamInvariant, PTL

\* A stream that the marker ends is whole, unless a chunk reads like it.
THEOREM MarkerEndsWholeStream == Spec => []MarkedEndIsWhole
<1>1. StreamInv => MarkedEndIsWhole
  BY DEF StreamInv, EndInv
<1>2. QED BY <1>1, StreamInvariant, PTL

-----------------------------------------------------------------------------
(***************************************************************************)
(* Requests and the flag.                                                  *)
(***************************************************************************)

\* A stream makes at most two requests, whatever the flag is used for by the
\* client's other calls.
THEOREM TwoRequests == Spec => []RequestedAtMostTwice
<1>1. Init => RequestInv
  BY DEF Init, RequestInv
<1>2. RequestInv /\ [Next]_vars => RequestInv'
  <2> SUFFICES ASSUME RequestInv, [Next]_vars PROVE RequestInv'
    OBVIOUS
  <2> USE DEF RequestInv
  <2>1. CASE Begin \/ Retry
    BY <2>1 DEF Begin, Retry, SendRequest
  <2>2. CASE Accepted \/ Produce
    BY <2>2 DEF Accepted, Produce, Transform, Flush, FlushFails, SourceFails
  <2>3. CASE Unauthorized
    BY <2>3 DEF Unauthorized, End
  <2>4. CASE RequestFails \/ RotationFails \/ Return \/ ReadDone \/ ReadFails \/ Cut
    BY <2>4 DEF RequestFails, RotationFails, Return, ReadDone, ReadFails, Cut, End
  <2>5. CASE Resume \/ \E r \in 1 .. 2 * Len(out) : Read(r)
    BY <2>5 DEF Resume, Read, Advance, End
  <2>6. CASE KeysChange \/ OtherRotates \/ OtherReleases \/ UNCHANGED vars
    BY <2>6 DEF KeysChange, OtherRotates, OtherReleases, vars
  <2>7. QED BY <2>1, <2>2, <2>3, <2>4, <2>5, <2>6 DEF Next, Progress
<1>3. RequestInv => RequestedAtMostTwice
  BY DEF RequestInv, RequestedAtMostTwice
<1>4. QED BY <1>1, <1>2, <1>3, PTL DEF Spec

-----------------------------------------------------------------------------
(***************************************************************************)
(* Refinement.                                                             *)
(***************************************************************************)

\* Each step of the stream is a step of the promise, or none.
LEMMA StepPromise ==
  StreamInv /\ [Next]_vars => [Promise!Next]_<<sent, got, gen = "over">>
<1> SUFFICES ASSUME StreamInv, [Next]_vars
             PROVE  [Promise!Next]_<<sent, got, gen = "over">>
  OBVIOUS
<1>1. ASSUME UNCHANGED <<sent, got>>, gen # "over" \/ gen' = "over"
      PROVE  [Promise!Next]_<<sent, got, gen = "over">>
  BY <1>1 DEF Promise!Next, Promise!Stop
<1>2. CASE \E r \in {"done", "error", "returned"} : Ends(r)
  BY <1>1, <1>2 DEF Ends, End, server, reader
<1>3. CASE Unauthorized /\ gen' = "handshake"
  BY <1>1, <1>3 DEF Unauthorized, End, server, reader
<1>4. ASSUME NEW r \in 1 .. 2 * Len(out), Read(r) \/ (Resume /\ r = received)
      PROVE  [Promise!Next]_<<sent, got, gen = "over">>
  <2>1. /\ gen # "over" /\ Len(got) = taken /\ Advance(r, taken)
        /\ UNCHANGED sent /\ r \in 0 .. 2 * Len(out)
    BY <1>4, TakesNext DEF server
  <2>2. CASE got' = got
    BY <1>1, <2>1, <2>2
  <2>3. CASE /\ taken + 1 <= Len(sent) /\ got' = Append(got, sent[taken + 1])
             /\ gen' = "yielded"
    <3>1. Promise!Deliver
      BY <2>1, <2>3 DEF Promise!Deliver, StreamInv, TypeOK
    <3>2. QED BY <3>1 DEF Promise!Next
  <2>4. QED BY <2>1, <2>2, <2>3, AdvanceOutcomes
<1>5. CASE Resume
  <2>1. received \in 1 .. 2 * Len(out)
    BY <1>5 DEF Resume, StreamInv, ReaderInv, TypeOK
  <2>2. QED BY <1>4, <1>5, <2>1
<1>6. CASE Accepted \/ Flush \/ FlushFails \/ SourceFails
  BY <1>1, <1>6 DEF Accepted, Flush, FlushFails, SourceFails, reader
<1>7. ASSUME NEW v \in Chunks, Transform(v)
      PROVE  [Promise!Next]_<<sent, got, gen = "over">>
  <2>1. Promise!Send(v)
    BY <1>7 DEF Transform, Promise!Send, reader
  <2>2. QED BY <2>1 DEF Promise!Next
<1>8. CASE /\ gen \in {"idle", "handshake"} /\ SendRequest(ckey') /\ ckey' \in Nat
           /\ rotating' \in BOOLEAN /\ UNCHANGED <<server, reader, holds>>
  BY <1>1, <1>8 DEF SendRequest, server, reader
<1>9. CASE UNCHANGED <<server, skey, reader, gen, reason, requests>>
  BY <1>1, <1>9 DEF server, reader
<1>10. QED
  BY <1>2, <1>3, <1>4, <1>5, <1>6, <1>7, <1>8, <1>9, StepKinds DEF Produce

\* The encrypted stream implements the promise of PrefixStream: what the
\* consumer has been given is always a prefix of what the handler produced.
THEOREM DeliversPrefix == Spec => PrefixDelivered
<1>1. Init => Promise!Init
  BY DEF Init, Promise!Init
<1>2. QED
  BY <1>1, StreamInvariant, StepPromise, PTL DEF Spec, PrefixDelivered, Promise!Spec
=============================================================================
