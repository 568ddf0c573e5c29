------------------------------ MODULE NenStream ------------------------------
(***************************************************************************)
(* One encrypted stream: withNenStream at the server, the generator        *)
(* nenStream at the client, and the response body between them, which      *)
(* reaches the client in pieces that respect no event's boundaries.        *)
(*                                                                         *)
(* Server and client count chunks on their own; a chunk opens only if they *)
(* agree on its number and on the keys.  Keys are numbered in the order in *)
(* which the client comes to have them.  The nonce of chunk n is the base  *)
(* nonce with n XORed into its last 32 bits: for the numbers below 2^32    *)
(* that a stream reaches, a nonce is the number itself.                    *)
(***************************************************************************)
EXTENDS Integers, Sequences

CONSTANTS
  Chunks,     \* texts that the application's handler may produce
  Fin,        \* the text of the end marker
  MaxChunks,  \* bound on the number of chunks produced
  MaxKey      \* bound on the number of key changes

ASSUME MaxAssumption == MaxChunks \in Nat /\ MaxKey \in Nat

VARIABLES
  source,    \* the handler's stream: "none", "open", "closed" or "failed"
  sent,      \* the chunks it produced
  index,     \* chunkIndex of withNenStream
  skey,      \* keys of the session that the request was verified with
  out,       \* the events written to the response body
  received,  \* halves of events the client has read: 2n+1 is n events and
             \* the beginning of another, left in its buffer
  gen,       \* the generator: what it awaits, or "yielded", or "over"
  reason,    \* why it is over
  taken,     \* events the client has taken from its list of lines
  chunkIndex,\* chunkIndex of nenStream
  got,       \* the chunks yielded
  ckey,      \* the client's keys
  rotating,  \* _rotationInProgress
  holds,     \* TRUE: this stream set it
  requests   \* requests made for this stream

server == <<source, sent, index, out>>
reader == <<received, taken, chunkIndex, got>>
vars == <<server, skey, reader, gen, reason, ckey, rotating, holds, requests>>

Event == [key : Nat, n : Nat, text : Chunks \cup {Fin}]

Init ==
  /\ source = "none" /\ sent = <<>> /\ index = 0 /\ out = <<>> /\ skey = 0
  /\ received = 0 /\ taken = 0 /\ chunkIndex = 0 /\ got = <<>>
  /\ gen = "idle" /\ reason = "none"
  /\ ckey = 0 /\ rotating = FALSE /\ holds = FALSE /\ requests = 0

-----------------------------------------------------------------------------
(***************************************************************************)
(* The request.                                                            *)
(***************************************************************************)

\* Mutated form of End: without the finally block.
EndNoFinally(r) ==
  /\ gen' = "over"
  /\ reason' = r
  /\ UNCHANGED <<rotating, holds>>

\* The generator returns or throws; the finally block of the call that
\* rotated runs, and no other does.
End(r) ==
  /\ gen' = "over"
  /\ reason' = r
  /\ rotating' = (rotating /\ ~holds)
  /\ holds' = FALSE

\* The request is signed with keys k and sent.
SendRequest(k) ==
  /\ gen' = "request"
  /\ skey' = k
  /\ requests' = requests + 1
  /\ UNCHANGED reason

Begin ==
  /\ gen = "idle"
  /\ SendRequest(ckey)
  /\ UNCHANGED <<server, reader, ckey, rotating, holds>>

\* withNenStream has verified the request and the handler has given a stream.
Accepted ==
  /\ gen = "request"
  /\ gen' = "reading"
  /\ source' = "open"
  /\ UNCHANGED <<sent, index, out, skey, reader, reason, ckey, rotating,
                 holds, requests>>

\* Mutated form of Unauthorized: the flag is not looked at.
UnauthorizedAlwaysRotates ==
  /\ gen = "request"
  /\ rotating' = TRUE
  /\ holds' = TRUE
  /\ gen' = "handshake"
  /\ UNCHANGED <<server, skey, reader, reason, ckey, requests>>

\* A 401: rotate, unless a rotation is in progress, by this stream or another
\* call.
Unauthorized ==
  /\ gen = "request"
  /\ IF rotating
       THEN End("error")
       ELSE /\ rotating' = TRUE
            /\ holds' = TRUE
            /\ gen' = "handshake"
            /\ UNCHANGED reason
  /\ UNCHANGED <<server, skey, reader, ckey, requests>>

\* The request is lost, or refused with another status.
RequestFails ==
  /\ gen = "request"
  /\ End("error")
  /\ UNCHANGED <<server, skey, reader, ckey, requests>>

\* The rotation succeeds, and yield* starts the stream again inside the try.
Retry ==
  /\ gen = "handshake"
  /\ ckey < MaxKey
  /\ ckey' = ckey + 1
  /\ SendRequest(ckey + 1)
  /\ UNCHANGED <<server, reader, rotating, holds>>

RotationFails ==
  /\ gen = "handshake"
  /\ End("error")
  /\ UNCHANGED <<server, skey, reader, ckey, requests>>

-----------------------------------------------------------------------------
(***************************************************************************)
(* The server's stream.                                                    *)
(***************************************************************************)

\* A text is sealed under the nonce of the present index and written out.
Encrypted(text) == Append(out, [key |-> skey, n |-> index, text |-> text])

\* transform
Transform(v) ==
  /\ source = "open"
  /\ Len(sent) < MaxChunks
  /\ sent' = Append(sent, v)
  /\ out' = Encrypted(v)
  /\ index' = index + 1
  /\ UNCHANGED <<source, skey, reader, gen, reason, ckey, rotating, holds, requests>>

\* flush: the handler's stream is finished.
Flush ==
  /\ source = "open"
  /\ source' = "closed"
  /\ out' = Encrypted(Fin)
  /\ UNCHANGED <<sent, index, skey, reader, gen, reason, ckey, rotating, holds,
                 requests>>

\* The marker cannot be sealed: the error is caught and only logged.
FlushFails ==
  /\ source = "open"
  /\ source' = "closed"
  /\ UNCHANGED <<sent, index, out, skey, reader, gen, reason, ckey, rotating,
                 holds, requests>>

\* Mutated form of SourceFails: the marker is written also then.
SourceFailsMarked ==
  /\ source = "open"
  /\ source' = "failed"
  /\ out' = Encrypted(Fin)
  /\ UNCHANGED <<sent, index, skey, reader, gen, reason, ckey, rotating,
                 holds, requests>>

\* The handler's stream fails, or a chunk cannot be sealed, and the response
\* fails with it.
SourceFails ==
  /\ source = "open"
  /\ source' = "failed"
  /\ UNCHANGED <<sent, index, out, skey, reader, gen, reason, ckey, rotating,
                 holds, requests>>

-----------------------------------------------------------------------------
(***************************************************************************)
(* The client's reader.                                                    *)
(***************************************************************************)

\* Mutated form of Advance: the text is not compared with the marker.
AdvanceYieldingMarker(r, i) ==
  IF taken < r \div 2
    THEN LET e == out[taken + 1]
         IN  /\ taken' = taken + 1
             /\ \/ /\ e.key # ckey \/ e.n # i
                   /\ End("undecryptable")
                   /\ UNCHANGED got
                \/ /\ e.key = ckey /\ e.n = i
                   /\ gen' = "yielded"
                   /\ got' = Append(got, e.text)
                   /\ UNCHANGED <<reason, rotating, holds>>
    ELSE /\ gen' = "reading"
         /\ UNCHANGED <<taken, got, reason, rotating, holds>>

\* With r halves received and i chunks counted, take the next complete line:
\* open it under the keys the client has now, and yield it or end; without
\* one, await the next read.
Advance(r, i) ==
  IF taken < r \div 2
    THEN LET e == out[taken + 1]
         IN  /\ taken' = taken + 1
             /\ \/ /\ e.key # ckey \/ e.n # i
                   /\ End("undecryptable")
                   /\ UNCHANGED got
                \/ /\ e.key = ckey /\ e.n = i /\ e.text = Fin
                   /\ End("fin")
                   /\ UNCHANGED got
                \/ /\ e.key = ckey /\ e.n = i /\ e.text # Fin
                   /\ gen' = "yielded"
                   /\ got' = Append(got, e.text)
                   /\ UNCHANGED <<reason, rotating, holds>>
    ELSE /\ gen' = "reading"
         /\ UNCHANGED <<taken, got, reason, rotating, holds>>

\* Mutated form of Read: an incomplete last line is not kept in the buffer.
ReadTakingPartial(r) ==
  /\ gen = "reading"
  /\ received < r
  /\ received' = r
  /\ IF taken = r \div 2
       THEN taken' = taken + 1 /\ End("undecryptable") /\ UNCHANGED got
       ELSE Advance(r, chunkIndex)
  /\ UNCHANGED <<server, skey, chunkIndex, ckey, requests>>

\* reader.read() gives the next piece of the body, up to r halves in all.
Read(r) ==
  /\ gen = "reading"
  /\ received < r
  /\ received' = r
  /\ Advance(r, chunkIndex)
  /\ UNCHANGED <<server, skey, chunkIndex, ckey, requests>>

\* Mutated form of Resume: chunks are counted once for each read.
ResumeUncounted ==
  /\ gen = "yielded"
  /\ chunkIndex' = IF taken < received \div 2 THEN chunkIndex ELSE chunkIndex + 1
  /\ Advance(received, chunkIndex')
  /\ UNCHANGED <<server, skey, received, ckey, requests>>

\* The consumer asks for the next chunk.
Resume ==
  /\ gen = "yielded"
  /\ chunkIndex' = chunkIndex + 1
  /\ Advance(received, chunkIndex + 1)
  /\ UNCHANGED <<server, skey, received, ckey, requests>>

\* The consumer leaves its loop.
Return ==
  /\ gen = "yielded"
  /\ End("returned")
  /\ UNCHANGED <<server, skey, reader, ckey, requests>>

\* The body is finished: everything the server wrote before closing is read.
ReadDone ==
  /\ gen = "reading"
  /\ source = "closed" /\ received = 2 * Len(out)
  /\ End("done")
  /\ UNCHANGED <<server, skey, reader, ckey, requests>>

\* The failure of the handler's stream reaches the client.
ReadFails ==
  /\ gen = "reading"
  /\ source = "failed"
  /\ End("error")
  /\ UNCHANGED <<server, skey, reader, ckey, requests>>

\* The connection is lost, or something between the two ends the response.
Cut ==
  /\ gen = "reading"
  /\ End("error") \/ End("done")
  /\ UNCHANGED <<server, skey, reader, ckey, requests>>

-----------------------------------------------------------------------------
(***************************************************************************)
(* Other calls of the same client.                                         *)
(***************************************************************************)

\* rekey, resume or handshake installs new keys; terminate, while the stream
\* runs, leaves none, which open nothing either.
KeysChange ==
  /\ ckey < MaxKey
  /\ ckey' = ckey + 1
  /\ UNCHANGED <<server, skey, reader, gen, reason, rotating, holds, requests>>

\* Another fetch or stream takes the flag to rotate.
OtherRotates ==
  /\ ~rotating
  /\ rotating' = TRUE
  /\ UNCHANGED <<server, skey, reader, gen, reason, ckey, holds, requests>>

\* It releases the flag again.
OtherReleases ==
  /\ rotating /\ ~holds
  /\ rotating' = FALSE
  /\ UNCHANGED <<server, skey, reader, gen, reason, ckey, holds, requests>>

-----------------------------------------------------------------------------
Produce ==
  \/ \E v \in Chunks : Transform(v)
  \/ Flush
  \/ FlushFails
  \/ SourceFails

Progress ==
  \/ Accepted
  \/ Unauthorized
  \/ RequestFails
  \/ Retry
  \/ RotationFails
  \/ \E r \in 1 .. 2 * Len(out) : Read(r)
  \/ ReadDone
  \/ ReadFails
  \/ Resume

Next ==
  \/ Begin
  \/ Produce
  \/ Progress
  \/ Return
  \/ Cut
  \/ KeysChange
  \/ OtherRotates
  \/ OtherReleases

Spec == Init /\ [][Next]_vars

\* The handler's stream is finite, requests and reads are answered or fail,
\* the consumer is a for await loop, and other calls settle.
FairSpec ==
  Spec /\ WF_vars(Produce) /\ WF_vars(Progress) /\ WF_vars(OtherReleases)

-----------------------------------------------------------------------------
(***************************************************************************)
(* Properties.                                                             *)
(***************************************************************************)

TypeOK ==
  /\ source \in {"none", "open", "closed", "failed"}
  /\ sent \in Seq(Chunks) /\ index \in Nat /\ skey \in Nat
  /\ out \in Seq(Event)
  /\ received \in 0 .. 2 * Len(out) /\ taken \in 0 .. received \div 2
  /\ chunkIndex \in Nat
  /\ got \in Seq(Chunks)
  /\ gen \in {"idle", "request", "handshake", "reading", "yielded", "over"}
  /\ reason \in {"none", "fin", "done", "error", "undecryptable", "returned"}
  /\ ckey \in Nat /\ rotating \in BOOLEAN /\ holds \in BOOLEAN
  /\ requests \in Nat

\* What the consumer is given is a growing prefix of what the handler
\* produced, until the generator is over, however the body is cut into reads
\* and whatever happens to the keys (index.ts:361-391, stream-wrapper.ts:110).
Promise == INSTANCE PrefixStream WITH over <- (gen = "over")
PrefixDelivered == Promise!Spec

\* A chunk fails to open only if the client has changed its keys since it sent
\* the request: the two counters never part (index.ts:378, 388).
UnreadableOnlyAfterKeyChange == reason = "undecryptable" => ckey # skey

\* A stream ended by the marker has yielded everything the handler produced,
\* unless the handler itself produced the marker's text (index.ts:383).
MarkedEndIsWhole ==
  reason = "fin" =>
    \/ source = "closed" /\ got = sent
    \/ \E i \in 1 .. Len(sent) : sent[i] = Fin

\* A stream is requested at most twice: its retry cannot rotate again, for the
\* flag stays up while the retried stream lasts (index.ts:334-343).
RequestedAtMostTwice == requests <= 2

\* The flag does not stay up for ever: a stream that rotated releases it when
\* it ends, also when it fails or its consumer leaves (index.ts:341-343).
FlagReleased == rotating ~> ~rotating
=============================================================================
