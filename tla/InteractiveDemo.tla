--------------------------- MODULE InteractiveDemo ---------------------------
(***************************************************************************)
(* The "Cryptographic Dashboard" of the site (apps/www,                    *)
(* interactive-demo.tsx): a run plays the five steps of a handshake with   *)
(* delays between them and writes a log that keeps its last six lines,     *)
(* while panels show the values of the moment.  A run goes on with the     *)
(* payload and the KEM level of the render it was started from.            *)
(***************************************************************************)
EXTENDS Integers, Sequences

CONSTANTS
    Payloads,  \* what the visitor may type
    Default,   \* the payload the field comes with
    MaxPlays   \* bound on the clicks on Start

VARIABLES
    step, logs, isPlaying, customPayload, kemLevel,  \* state of the component
    plays                                            \* the calls of runHandshake

vars == <<step, logs, isPlaying, customPayload, kemLevel, plays>>

\* The ML-KEM levels to choose from.
Levels == {"512", "768", "1024"}

\* The parts of a run, between its delays: the step it sets or leaves, and the
\* number of lines it adds.
Script == <<<<1, 1>>, <<1, 2>>, <<2, 2>>, <<3, 2>>, <<3, 2>>, <<4, 1>>, <<4, 2>>, <<5, 2>>, <<5, 2>>>>

\* A line by its author, the system or part `part` of a run, and what it tells.
SystemLine(level) == [run |-> 0, part |-> 0, level |-> level, payload |-> "none"]

KeptLines == 6

\* addLog, for each of the lines of a part.
AddLog(n, run, part) ==
    LET line == [run |-> n, part |-> part, level |-> run.level, payload |-> run.payload]
        all  == logs \o [i \in 1..Script[part][2] |-> line]
    IN  logs' = SubSeq(all, IF Len(all) > KeptLines THEN Len(all) - KeptLines + 1 ELSE 1, Len(all))

Init ==
    /\ step = 0 /\ isPlaying = FALSE /\ plays = <<>>
    /\ customPayload = Default /\ kemLevel = "768"
    /\ logs = <<SystemLine(kemLevel)>>

Plays(n, run, part) ==
    /\ step' = Script[part][1]
    /\ AddLog(n, run, part)
    /\ isPlaying' = (part < Len(Script))

RunHandshake ==
    /\ ~isPlaying /\ Len(plays) < MaxPlays
    /\ LET run == [level |-> kemLevel, payload |-> customPayload, part |-> 1] IN
       /\ plays' = Append(plays, run)
       /\ Plays(Len(plays) + 1, run, 1)
    /\ UNCHANGED <<customPayload, kemLevel>>

\* A delay of run n ends.
Continue(n) ==
    /\ plays[n].part < Len(Script)
    /\ plays' = [plays EXCEPT ![n].part = @ + 1]
    /\ Plays(n, plays[n], plays[n].part + 1)
    /\ UNCHANGED <<customPayload, kemLevel>>

ResetDemo ==
    /\ ~isPlaying
    /\ step' = 0 /\ logs' = <<SystemLine(kemLevel)>>
    /\ UNCHANGED <<isPlaying, customPayload, kemLevel, plays>>

EditPayload(p) ==
    /\ ~isPlaying
    /\ customPayload' = p
    /\ UNCHANGED <<step, logs, isPlaying, kemLevel, plays>>

\* Mutated form of SelectLevel: the choice is not disabled while a run plays.
SelectLevelAnytime(level) ==
    /\ level # kemLevel
    /\ kemLevel' = level /\ logs' = <<SystemLine(level)>>
    /\ UNCHANGED <<step, isPlaying, customPayload, plays>>

\* The effect on kemLevel runs with the render of the new level.
SelectLevel(level) ==
    /\ ~isPlaying /\ level # kemLevel
    /\ kemLevel' = level /\ logs' = <<SystemLine(level)>>
    /\ UNCHANGED <<step, isPlaying, customPayload, plays>>

Next ==
    \/ RunHandshake \/ ResetDemo
    \/ \E n \in DOMAIN plays : Continue(n)
    \/ \E p \in Payloads : EditPayload(p)
    \/ \E level \in Levels : SelectLevel(level)

Spec == Init /\ [][Next]_vars

-----------------------------------------------------------------------------
\* The made-up values of the panels, by what they are computed from.
GetMockSharedSecret == {kemLevel}
GetMockCiphertext == {customPayload, kemLevel}
GetEncryptedPayload == {customPayload}

\* What a panel shows from a step on: a label and what the value is made from.
Shown(from, label, made) == IF step >= from THEN {[label |-> label, made |-> made]} ELSE {}

ClientPanel ==
    Shown(1, "public key", {kemLevel}) \cup Shown(4, "session key", GetMockSharedSecret)
        \cup Shown(5, "payload", GetEncryptedPayload)

ServerPanel ==
    Shown(4, "session key", GetMockSharedSecret) \cup Shown(3, "ciphertext", GetMockCiphertext)
        \cup Shown(5, "plaintext", {customPayload})

\* While a run plays, the log ends with lines of this run and of the part the
\* panels are at, and every value they show is made from the level and the
\* payload those lines name; and at any time all lines are of the level shown
\* (interactive-demo.tsx:79-147, 171-220).
PanelsMatchLog ==
    LET last == logs[Len(logs)] IN
    /\ isPlaying =>
           /\ last.run = Len(plays) /\ step = Script[last.part][1]
           /\ \A value \in ClientPanel \cup ServerPanel : value.made \subseteq {last.level, last.payload}
    /\ \A i \in DOMAIN logs : logs[i].level = kemLevel

-----------------------------------------------------------------------------

(***************************************************************************)
(* Inductive strengthening of PanelsMatchLog.                              *)
(***************************************************************************)
Typed == Payloads \cup {Default}
Parts == DOMAIN Script
Runs == [level : Levels, payload : Typed, part : Parts]
Lines == [run : Nat, part : Parts \cup {0}, level : Levels, payload : Typed \cup {"none"}]

TypeOK ==
    /\ step \in 0..5 /\ isPlaying \in BOOLEAN
    /\ customPayload \in Typed /\ kemLevel \in Levels
    /\ plays \in Seq(Runs)
    /\ logs \in Seq(Lines)

LogInv == logs # <<>> /\ \A i \in DOMAIN logs : logs[i].level = kemLevel

\* Runs before the last are over; while that one plays, level and payload are
\* still what it was started with, and its last part is what one sees.
RunInv ==
    /\ \A n \in DOMAIN plays : n < Len(plays) \/ ~isPlaying => plays[n].part = Len(Script)
    /\ isPlaying =>
           LET run == plays[Len(plays)] IN
           /\ plays # <<>> /\ run.part < Len(Script)
           /\ run.level = kemLevel /\ run.payload = customPayload
           /\ step = Script[run.part][1]
           /\ logs[Len(logs)] = [run |-> Len(plays), part |-> run.part,
                                 level |-> run.level, payload |-> run.payload]

DashboardInv == TypeOK /\ LogInv /\ RunInv

=============================================================================
