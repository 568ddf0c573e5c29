---------------------------- MODULE SecureAIDemo ----------------------------
(***************************************************************************)
(* The "Secure AI Demo" card of the site (apps/www, secure-ai-demo.tsx): a *)
(* run is an async callback that plays a handshake, a request and a        *)
(* streamed answer, waiting between the steps.  All runs of the card share *)
(* one abort flag, abortRef.                                               *)
(*                                                                         *)
(* A run is suspended at one of its delays; one action is the code from    *)
(* one delay to the next.  Delays of different runs may end in any order,  *)
(* which includes the order of real timers.  The made-up ciphertext of the *)
(* inspector is left out; an entry of it is its kind and the run it is of. *)
(***************************************************************************)
EXTENDS Naturals, Sequences

CONSTANTS
    Response,  \* for each example, the number of characters of each SSE frame
    MaxRuns    \* bound on the clicks on Send

VARIABLES
    phase, tokens, wire, abort,  \* state and abortRef of the card
    example, prompt,             \* the selected tab and the text field
    runs,                        \* the calls of run, finished ones included
    crossed                      \* a run began while an earlier one was suspended

vars == <<phase, tokens, wire, abort, example, prompt, runs, crossed>>

Examples == DOMAIN Response

\* What the text field may hold: nothing, an example's prompt, the visitor's own.
Blank == 0
Prompts == 0..(Len(Response) + 1)

Init ==
    /\ phase = "idle" /\ tokens = <<>> /\ wire = <<>> /\ abort = FALSE
    /\ example = 1 /\ prompt = 1
    /\ runs = <<>> /\ crossed = FALSE

\* The phases in which isRunning holds.
IsRunning == phase \in {"handshaking", "encrypting", "streaming"}

Live(r) == runs[r].at # "over"

AddWire(r, kinds) == wire' = wire \o [i \in DOMAIN kinds |-> [run |-> r, kind |-> kinds[i]]]

\* Run r waits in its next delay, named by what follows it, or is over.
Waits(r, delay) == runs' = [runs EXCEPT ![r].at = delay]

\* setTokens(t => t + char), then the delay of the character.
ShowsToken(r, k, j) ==
    /\ tokens' = Append(tokens, [run |-> r, at |-> <<k, j>>])
    /\ runs' = [runs EXCEPT ![r] = [@ EXCEPT !.at = "character", !.frame = k, !.char = j]]

-----------------------------------------------------------------------------
\* Send; the same button is "Try again", which resets, once a run is done.
Run ==
    /\ phase = "idle" /\ Len(runs) < MaxRuns
    /\ abort' = FALSE
    /\ tokens' = <<>> /\ wire' = <<>> /\ phase' = "handshaking"
    /\ crossed' = (crossed \/ \E r \in DOMAIN runs : Live(r))
    /\ runs' = Append(runs, [at |-> "handshake-req", example |-> example, frame |-> 0, char |-> 0,
                             prompt |-> IF prompt = Blank THEN example ELSE prompt])
    /\ UNCHANGED <<example, prompt>>

HandshakeRequest(r) ==
    /\ runs[r].at = "handshake-req"
    /\ AddWire(r, <<"handshake-req">>)
    /\ Waits(r, "handshake-res")
    /\ UNCHANGED <<phase, tokens, abort, example, prompt, crossed>>

\* The flag is read after the entry has been added, here and in Request.
HandshakeResponse(r) ==
    /\ runs[r].at = "handshake-res"
    /\ AddWire(r, <<"handshake-res">>)
    /\ Waits(r, IF abort THEN "over" ELSE "request")
    /\ phase' = IF abort THEN phase ELSE "encrypting"
    /\ UNCHANGED <<tokens, abort, example, prompt, crossed>>

Request(r) ==
    /\ runs[r].at = "request"
    /\ AddWire(r, <<"request">>)
    /\ Waits(r, IF abort THEN "over" ELSE "header")
    /\ phase' = IF abort THEN phase ELSE "streaming"
    /\ UNCHANGED <<tokens, abort, example, prompt, crossed>>

\* The header of the stream, and its first frame up to the first character.
StreamHeader(r) ==
    /\ runs[r].at = "header"
    /\ IF abort
       THEN AddWire(r, <<"sse-frame">>) /\ Waits(r, "over") /\ UNCHANGED tokens
       ELSE AddWire(r, <<"sse-frame", "sse-frame">>) /\ ShowsToken(r, 1, 1)
    /\ UNCHANGED <<phase, abort, example, prompt, crossed>>

\* Mutated form of Character: the flag is read once a frame only.
CharacterUnchecked(r) ==
    /\ runs[r].at = "character"
    /\ LET k == runs[r].frame  j == runs[r].char + 1 IN
       IF j > Response[runs[r].example][k] THEN Waits(r, "frame") /\ UNCHANGED tokens
       ELSE ShowsToken(r, k, j)
    /\ UNCHANGED <<phase, wire, abort, example, prompt, crossed>>

\* The next character of the frame, or the delay after its last one.
Character(r) ==
    /\ runs[r].at = "character"
    /\ LET k == runs[r].frame  j == runs[r].char + 1 IN
       IF j > Response[runs[r].example][k] THEN Waits(r, "frame") /\ UNCHANGED tokens
       ELSE IF abort THEN Waits(r, "over") /\ UNCHANGED tokens
       ELSE ShowsToken(r, k, j)
    /\ UNCHANGED <<phase, wire, abort, example, prompt, crossed>>

\* The next frame up to its first character, or the end of the answer.
Frame(r) ==
    /\ runs[r].at = "frame"
    /\ LET k == runs[r].frame + 1 IN
       CASE abort -> Waits(r, "over") /\ UNCHANGED <<phase, tokens, wire>>
         [] ~abort /\ k \in DOMAIN Response[runs[r].example] ->
                AddWire(r, <<"sse-frame">>) /\ ShowsToken(r, k, 1) /\ UNCHANGED phase
         [] OTHER -> AddWire(r, <<"sse-fin">>) /\ Waits(r, "over") /\ phase' = "done" /\ UNCHANGED tokens
    /\ UNCHANGED <<abort, example, prompt, crossed>>

-----------------------------------------------------------------------------
\* The reset icon while a run plays or is done, and "Try again".
Reset ==
    /\ phase = "done" \/ IsRunning
    /\ abort' = TRUE
    /\ phase' = "idle" /\ tokens' = <<>> /\ wire' = <<>>
    /\ UNCHANGED <<example, prompt, runs, crossed>>

\* A tab: it does not touch the flag, which only matters while a run plays.
SelectExample(e) ==
    /\ ~IsRunning
    /\ example' = e /\ prompt' = e
    /\ tokens' = <<>> /\ wire' = <<>> /\ phase' = "idle"
    /\ UNCHANGED <<abort, runs, crossed>>

\* The text field, disabled while a run plays.
EditPrompt(p) ==
    /\ ~IsRunning
    /\ prompt' = p
    /\ UNCHANGED <<phase, tokens, wire, abort, example, runs, crossed>>

Steps(r) ==
    \/ HandshakeRequest(r) \/ HandshakeResponse(r) \/ Request(r)
    \/ StreamHeader(r) \/ Character(r) \/ Frame(r)

Next ==
    \/ Run \/ Reset
    \/ \E e \in Examples : SelectExample(e)
    \/ \E p \in Prompts : EditPrompt(p)
    \/ \E r \in DOMAIN runs : Steps(r)

Spec == Init /\ [][Next]_vars

-----------------------------------------------------------------------------
\* The two panels; an empty one shows a hint instead.
Chat == [hint |-> tokens = <<>>, characters |-> tokens]
Inspector == [hint |-> wire = <<>>, entries |-> wire]

\* An example's answer, character by character: the first and the last one,
\* and the one that comes next.
First == <<1, 1>>
Last(e) == LET k == Len(Response[e]) IN <<k, Response[e][k]>>
After(e, at) == IF at[2] < Response[e][at[1]] THEN <<at[1], at[2] + 1>> ELSE <<at[1] + 1, 1>>

\* The entries of a whole run.
Traffic(e) ==
    LET frames == Len(Response[e]) IN
    [i \in 1..(frames + 5) |->
        CASE i = 1 -> "handshake-req"
          [] i = 2 -> "handshake-res"
          [] i = 3 -> "request"
          [] i \in 4..(frames + 4) -> "sse-frame"
          [] i = frames + 5 -> "sse-fin"]

\* The panels show characters and entries of run r only, in the order of the
\* answer and of a run; all of them once it is done.
ShowsAnswer(r) ==
    LET answer == Chat.characters IN
    \A i \in DOMAIN answer :
        /\ answer[i].run = r
        /\ answer[i].at = IF i = 1 THEN First ELSE After(runs[r].example, answer[i - 1].at)

ShowsTraffic(r) ==
    LET entries == Inspector.entries  traffic == Traffic(runs[r].example) IN
    \A i \in DOMAIN entries :
        i \in DOMAIN traffic /\ entries[i] = [run |-> r, kind |-> traffic[i]]

ShowsAll(r) ==
    LET answer == Chat.characters  e == runs[r].example IN
    /\ ~Chat.hint /\ answer[Len(answer)].at = Last(e)
    /\ Len(Inspector.entries) = Len(Traffic(e))

Shows(r) ==
    /\ runs[r].example = example
    /\ ShowsAnswer(r) /\ ShowsTraffic(r)
    /\ phase = "done" => ShowsAll(r)

\* As long as no run was begun while an earlier one was still suspended, the
\* card shows one run: while it plays and when it is done, the answer and the
\* traffic of the selected example in order, whole at the end; and after a
\* reset nothing of the run that was left, but for entries it adds before it
\* next reads the flag, at most two (secure-ai-demo.tsx:136-229, 231-236).
ShowsOneRun ==
    ~crossed => IF phase = "idle" THEN Chat.hint /\ Len(Inspector.entries) <= 2
                ELSE Shows(Len(runs))

-----------------------------------------------------------------------------

(***************************************************************************)
(* Inductive strengthening of ShowsOneRun.                                 *)
(***************************************************************************)
Delays == {"handshake-req", "handshake-res", "request", "header", "character", "frame", "over"}

Runs == [at : Delays, example : Examples, frame : Nat, char : Nat, prompt : Prompts]
Characters == [run : Nat, at : Nat \X Nat]
Kinds == {"handshake-req", "handshake-res", "request", "sse-frame", "sse-fin"}
Entries == [run : Nat, kind : Kinds]

TypeOK ==
    /\ phase \in {"idle", "handshaking", "encrypting", "streaming", "done"}
    /\ abort \in BOOLEAN /\ crossed \in BOOLEAN
    /\ example \in Examples /\ prompt \in Prompts
    /\ runs \in Seq(Runs) /\ tokens \in Seq(Characters) /\ wire \in Seq(Entries)

\* The card between two runs: a run that was left finds the flag set.
LeftInv ==
    /\ tokens = <<>> /\ Len(wire) <= 2
    /\ runs = <<>> => wire = <<>>
    /\ runs # <<>> =>
           LET r == runs[Len(runs)] IN
           /\ r.at # "over" => abort
           /\ r.at = "handshake-res" => Len(wire) <= 1
           /\ r.at \notin {"handshake-res", "over"} => wire = <<>>

\* The last run has added the traffic and the characters up to where it waits.
AddedEntries(entries) == Len(wire) = entries /\ tokens = <<>>
AddedUpTo(entries, at) == Len(wire) = entries /\ tokens # <<>> /\ tokens[Len(tokens)].at = at

WaitsWith(r) ==
    LET at == runs[r].at  k == runs[r].frame  j == runs[r].char  frames == Response[example] IN
    /\ at = "handshake-req" => phase = "handshaking" /\ AddedEntries(0)
    /\ at = "handshake-res" => phase = "handshaking" /\ AddedEntries(1)
    /\ at = "request" => phase = "encrypting" /\ AddedEntries(2)
    /\ at = "header" => phase = "streaming" /\ AddedEntries(3)
    /\ at \in {"character", "frame"} =>
           /\ phase = "streaming" /\ AddedUpTo(4 + k, <<k, j>>)
           /\ k \in DOMAIN frames /\ j \in 1..frames[k]
           /\ at = "frame" => j = frames[k]
    /\ at = "over" => phase = "done" /\ AddedUpTo(Len(frames) + 5, Last(example))

PlayInv == runs # <<>> /\ ~abort /\ Shows(Len(runs)) /\ WaitsWith(Len(runs))

OneRunInv ==
    ~crossed =>
        /\ \A r \in 1..(Len(runs) - 1) : ~Live(r)
        /\ IF phase = "idle" THEN LeftInv ELSE PlayInv

CardInv == TypeOK /\ OneRunInv

=============================================================================
